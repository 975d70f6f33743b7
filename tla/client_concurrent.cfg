\* Two application threads call the API concurrently on one session slot,
\* alongside the workers they spawn.
CONSTANTS
    Callers = {c1, c2}
    NoThread = NoThread
    Calls <- LifecycleCalls
    Callbacks <- NoCallbackArg
    NumSlots <- Pair_NumSlots
    QueueSize <- Pair_QueueSize
    MaxSessionId <- Pair_MaxSessionId
    MaxSpawns <- Pair_MaxSpawns
SYMMETRY CallerSymmetry
SPECIFICATION Spec
INVARIANT TypeOK
PROPERTY ChannelRefinement
\* ovpn_client_api_cleanup blocks forever on g_sessions_mutex once a session
\* is active, and a disconnect can wait forever on a worker it did not stop.
CHECK_DEADLOCK FALSE
