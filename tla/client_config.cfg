\* One application thread reconfigures sessions (update_config,
\* send_auth, set_auto_reconnect) and pauses/resumes them while their
\* workers run.
CONSTANTS
    Callers = {c1}
    NoThread = NoThread
    Calls <- ConfigCalls
    Callbacks <- NoCallbackArg
    NumSlots <- Single_NumSlots
    QueueSize <- Single_QueueSize
    MaxSessionId <- Single_MaxSessionId
    MaxSpawns <- Single_MaxSpawns
SPECIFICATION Spec
INVARIANT TypeOK
INVARIANT AtMostOneWorkerPerSession
INVARIANT NoWorkerOnFreedSlot
