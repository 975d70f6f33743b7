\* One application thread drives the API, as example_client_usage.c does;
\* workers run concurrently with it.
CONSTANTS
    Callers = {c1}
    NoThread = NoThread
    Calls <- LifecycleCalls
    Callbacks <- WithCallback
    NumSlots <- Single_NumSlots
    QueueSize <- Single_QueueSize
    MaxSessionId <- Single_MaxSessionId
    MaxSpawns <- Single_MaxSpawns
SPECIFICATION Spec
INVARIANT TypeOK
INVARIANT AtMostOneWorkerPerSession
INVARIANT NoWorkerOnFreedSlot
PROPERTY ChannelRefinement
PROPERTY WorkerStopsWhenCancelled
\* ovpn_client_api_cleanup blocks forever on g_sessions_mutex once a session
\* is active (see CleanupTerminates); that stop is the code's own.
CHECK_DEADLOCK FALSE
