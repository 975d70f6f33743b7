\* update_config followed by destroy_session, send_auth or update_config.
CONSTANTS
    Callers = {c1}
    NoThread = NoThread
    Calls <- ConfigCalls
    Callbacks <- NoCallbackArg
    NumSlots <- Single_NumSlots
    QueueSize <- Single_QueueSize
    MaxSessionId <- Single_MaxSessionId
    MaxSpawns <- Single_MaxSpawns
SPECIFICATION Spec
INVARIANT NoStrayFree
