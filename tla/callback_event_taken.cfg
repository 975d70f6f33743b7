\* One application thread with a callback registered on its sessions, as
\* example_client_usage.c runs: it polls get_next_event while the worker
\* is inside the callback of an event it posted.
CONSTANTS
    Callers = {c1}
    NoThread = NoThread
    Calls <- LifecycleCalls
    Callbacks <- WithCallback
    NumSlots <- Single_NumSlots
    QueueSize <- Single_QueueSize
    MaxSessionId <- Single_MaxSessionId
    MaxSpawns <- Single_MaxSpawns
SPECIFICATION Spec
INVARIANT CallbackEventQueued
\* ovpn_client_api_cleanup blocks forever on g_sessions_mutex once a session
\* is active; that stop is the code's own.
CHECK_DEADLOCK FALSE
