\* A connect that overlaps a disconnect of the same session.
CONSTANTS
    Callers = {c1, c2}
    NoThread = NoThread
    Calls <- LifecycleCalls
    Callbacks <- NoCallbackArg
    NumSlots <- Pair_NumSlots
    QueueSize <- Pair_QueueSize
    MaxSessionId <- Pair_MaxSessionId
    MaxSpawns <- Pair_MaxSpawns
SYMMETRY CallerSymmetry
SPECIFICATION Spec
INVARIANT AtMostOneWorkerPerSession
\* The code may stop for good (ovpn_client_api_cleanup, a join on a worker
\* nobody stops); the property is the question here.
CHECK_DEADLOCK FALSE
