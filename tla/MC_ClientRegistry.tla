------------------------- MODULE MC_ClientRegistry -------------------------
(* Instantiation of ClientRegistry for TLC.  The cfg files pick one of   *)
(* the bound sets below; README.md says why each suffices.               *)
EXTENDS ClientRegistry, TLC

\* Caller threads are interchangeable.
CallerSymmetry == Permutations(Callers)

\* Every API function that changes state.
AllCalls == {"create_session", "connect", "disconnect", "destroy_session",
             "get_next_event", "test_latency", "send_auth", "update_config",
             "set_auto_reconnect", "pause", "resume", "api_cleanup"}

\* The session lifecycle and the event channel, without the configuration
\* setters.
LifecycleCalls == {"create_session", "connect", "disconnect", "destroy_session",
                   "get_next_event", "test_latency", "set_auto_reconnect",
                   "api_cleanup"}

\* The configuration setters on a session that connects and disconnects.
ConfigCalls == {"create_session", "connect", "disconnect", "destroy_session",
                "send_auth", "update_config", "set_auto_reconnect", "pause",
                "resume"}

\* create_session's callback argument: NULL, or a registered
\* event_callback as example_client_usage.c passes for every session.
NoCallbackArg == {FALSE}
WithCallback  == {TRUE}

\* One application thread (client_single): a full table, slot reuse by a
\* later id and a third worker spawned after two joins all occur.
Single_NumSlots     == 1
Single_QueueSize    == 3
Single_MaxSessionId == 3
Single_MaxSpawns    == 3

\* Two application threads (client_concurrent and the race runs): one slot
\* already lets every race of two calls on one session happen.
Pair_NumSlots     == 1
Pair_QueueSize    == 2
Pair_MaxSessionId == 1
Pair_MaxSpawns    == 2

\* The lookup/dequeue race of get_next_event needs a second session id to
\* be created in the slot a destroy freed.
Reuse_MaxSessionId == 2
=============================================================================
