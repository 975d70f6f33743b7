--------------------------- MODULE ServerRegistry ---------------------------
(***************************************************************************)
(* The server side of the library (src/source-port/apis/                  *)
(* openvpn_server_api.c): one ovpn_server_context_t with its client       *)
(* record table clients[] under clients_mutex, the is_running flag, the   *)
(* tunnel-engine thread server_thread_func and monitoring_thread_func.    *)
(*                                                                         *)
(* Threads.  API callers are the model values in Callers.  Every start    *)
(* that creates threads uses the next index t of Threads for its server   *)
(* thread srv[t] and its monitoring thread mon[t]; ctx->server_thread and *)
(* ctx->monitoring_thread hold the index of the last ones created.         *)
(* create_client and revoke_client run their whole table update under     *)
(* clients_mutex, and the monitoring pass holds stats_mutex and           *)
(* clients_mutex together and nothing else waits on stats_mutex, so each  *)
(* of them is one atomic step.  start, stop and cleanup take no lock; they *)
(* are split where another thread can observe or change is_running in     *)
(* between.                                                                *)
(*                                                                         *)
(* Data.  A record keeps its stored common name, its static address       *)
(* (a host offset, 0 for none) and its revoked flag; is_active is always  *)
(* the negation of is_revoked, and client_id is the record's position     *)
(* (next_client_id and client_count are only ever incremented together).  *)
(* Email, description, timestamps, statistics and events (delivered      *)
(* synchronously by server_event_handler, which keeps no state) are left *)
(* out.  currently_connected is never set by this code, so revoke's      *)
(* disconnect branch and the monitor's count have no effect.              *)
(***************************************************************************)
EXTENDS Naturals, Sequences, FiniteSets, StaticIpAllocation

CONSTANTS
    Callers,       \* API caller threads
    Names,         \* common names the callers pass
    LongNames,     \* those of MAX_CLIENT_NAME_SIZE characters or more
    Subnet,        \* config.server_subnet as parsed: [slash, prefix]
    MaxClients,    \* MAX_SERVER_CLIENTS
    MaxStarts,     \* bound: number of starts that create threads
    Init2Results,  \* what context_init_2 may return
    EngineReturns, \* whether tunnel_server can return at all
    CreateResults, \* what pthread_create may return (TRUE: success)
    Calls          \* the API functions the application calls

ASSUME LongNames \subseteq Names
ASSUME MaxClients \in Nat \ {0} /\ MaxStarts \in Nat \ {0}
ASSUME Init2Results \subseteq BOOLEAN /\ Init2Results # {}
ASSUME EngineReturns \in BOOLEAN
ASSUME CreateResults \subseteq BOOLEAN /\ TRUE \in CreateResults
ASSUME Calls \subseteq {"create_client", "revoke_client", "start", "stop",
                        "cleanup"}

Threads == 1..MaxStarts
Handles == 0..MaxStarts      \* pthread_t values; 0 is a handle never set

VARIABLES
    clients,    \* clients[0..client_count-1], as a sequence
    running,    \* ctx->is_running
    ctxFreed,   \* ovpn_server_cleanup has freed ctx
    srv,        \* srv[t]: server thread t (program counter, times joined)
    mon,        \* mon[t]: monitoring thread t
    srvHandle,  \* ctx->server_thread (0: never set)
    monHandle,  \* ctx->monitoring_thread
    cl          \* cl[c]: program counter of caller c and the call it runs

vars == <<clients, running, ctxFreed, srv, mon, srvHandle, monHandle, cl>>

-----------------------------------------------------------------------------
(* The common_name field: strncpy to MAX_CLIENT_NAME_SIZE - 1 characters, *)
(* so a long name is stored cut short.                                    *)
Stored(n) == [base |-> n, cut |-> n \in LongNames]

(* strcmp of a stored name with the caller's full string. *)
SameText(stored, n) == stored = [base |-> n, cut |-> FALSE]

Record == [name : [base : Names, cut : BOOLEAN], ip : Nat, revoked : BOOLEAN]

(* Fault variant of the in-use loop: j stops one record short. *)
InUseSkipLast == {clients[j].ip : j \in 1..(Len(clients) - 1)} \ {NoAddress}

(* The inner loop of allocate_static_ip: every record with an address,   *)
(* revoked or not, holds it.                                              *)
InUse == {clients[j].ip : j \in DOMAIN clients} \ {NoAddress}

Live(j) == ~clients[j].revoked

IdleCaller == [pc |-> "idle", op |-> "none", t |-> 0]
Unborn == [pc |-> "unborn", joins |-> 0]

(* pthread_join returns once the thread has ended; a handle that never   *)
(* named a thread returns at once with an error.                          *)
Joinable(th) == th.pc \in {"done", "unborn"}

LiveThread(th) == th.pc \notin {"unborn", "done"}

-----------------------------------------------------------------------------
(* Fault variant of the duplicate check: the loop stops one record short. *)
DuplicateSkipLast(n) ==
    \E i \in 1..(Len(clients) - 1) : SameText(clients[i].name, n) /\ Live(i)

(* The duplicate common name loop of ovpn_server_create_client. *)
Duplicate(n) == \E i \in DOMAIN clients : SameText(clients[i].name, n) /\ Live(i)

(* client_count >= MAX_SERVER_CLIENTS, and the variant testing > (which *)
(* writes one record past the end of clients[]).                          *)
FullPastEnd == Len(clients) > MaxClients
Full == Len(clients) >= MaxClients

(* ovpn_server_create_client: under clients_mutex, refuse a full table or *)
(* a name a live record already has; otherwise append a record, with the *)
(* address allocate_static_ip returns (none when it returns 0).  The      *)
(* certificate stub and the CLIENT_CREATED event after the unlock keep no *)
(* state.                                                                  *)
CreateClient(c, n) ==
    /\ cl[c].pc = "idle"
    /\ ~ctxFreed
    /\ IF Full \/ Duplicate(n)
         THEN UNCHANGED vars
         ELSE /\ clients' = Append(clients, [name |-> Stored(n),
                                    ip |-> AllocateStaticIp(Subnet, InUse),
                                    revoked |-> FALSE])
              /\ UNCHANGED <<running, ctxFreed, srv, mon, srvHandle, monHandle, cl>>

(* ovpn_server_revoke_client: under clients_mutex, find the record by id *)
(* and set is_revoked (and clear is_active); an unknown id returns -1.    *)
(* The record is marked, never removed.                                    *)
RevokeClient(c, id) ==
    /\ cl[c].pc = "idle"
    /\ ~ctxFreed
    /\ IF id \notin DOMAIN clients
         THEN UNCHANGED vars
         ELSE /\ clients' = [clients EXCEPT ![id].revoked = TRUE]
              /\ UNCHANGED <<running, ctxFreed, srv, mon, srvHandle, monHandle, cl>>

-----------------------------------------------------------------------------
(* ovpn_server_start, up to the unlocked test of is_running: a server    *)
(* that is running returns 0.                                             *)
Start(c) ==
    /\ cl[c].pc = "idle"
    /\ ~ctxFreed
    /\ \E t \in Threads : srv[t].pc = "unborn"     \* bound MaxStarts
    /\ IF running
         THEN UNCHANGED vars
         ELSE /\ cl' = [cl EXCEPT ![c].pc = "start_server"]
              /\ UNCHANGED <<clients, running, ctxFreed, srv, mon, srvHandle, monHandle>>

(* ... then, after the engine options are set up and context_init_1,    *)
(* is_running := true and the server thread is created; if that fails,  *)
(* is_running := false and -1 is returned.                                *)
StartServer(c) ==
    /\ cl[c].pc = "start_server"
    /\ \E t \in Threads : srv[t].pc = "unborn"
    /\ LET t == CHOOSE u \in Threads : srv[u].pc = "unborn"
                                     /\ \A v \in Threads : srv[v].pc = "unborn" => u <= v
       IN \E ok \in CreateResults :
          IF ok
            THEN /\ running' = TRUE
                 /\ srv' = [srv EXCEPT ![t].pc = "init2"]
                 /\ srvHandle' = t
                 /\ cl' = [cl EXCEPT ![c] = [pc |-> "start_monitor", op |-> "start", t |-> t]]
            ELSE /\ running' = FALSE
                 /\ cl' = [cl EXCEPT ![c] = IdleCaller]
                 /\ UNCHANGED <<srv, srvHandle>>
    /\ UNCHANGED <<clients, ctxFreed, mon, monHandle>>

(* ... then the monitoring thread is created; if that fails,             *)
(* is_running := false and the thread ctx->server_thread names is        *)
(* cancelled (it ends at its next cancellation point, never joined).     *)
(* The STARTED event keeps no state.                                      *)
StartMonitor(c) ==
    /\ cl[c].pc = "start_monitor"
    /\ \E ok \in CreateResults :
       IF ok
         THEN /\ mon' = [mon EXCEPT ![cl[c].t].pc = "check"]
              /\ monHandle' = cl[c].t
              /\ UNCHANGED <<running, srv>>
         ELSE /\ running' = FALSE
              /\ srv' = [srv EXCEPT ![srvHandle].pc =
                            IF LiveThread(srv[srvHandle]) THEN "cancelled" ELSE @]
              /\ UNCHANGED <<mon, monHandle>>
    /\ cl' = [cl EXCEPT ![c] = IdleCaller]
    /\ UNCHANGED <<clients, ctxFreed, srvHandle>>

(* server_thread_func: context_init_2 failing clears is_running and     *)
(* returns; otherwise the thread runs tunnel_server.                     *)
SrvInit2(t) ==
    /\ srv[t].pc = "init2"
    /\ \E ok \in Init2Results :
       IF ok THEN /\ srv' = [srv EXCEPT ![t].pc = "tunnel"]
                  /\ UNCHANGED running
             ELSE /\ srv' = [srv EXCEPT ![t].pc = "done"]
                  /\ running' = FALSE
    /\ UNCHANGED <<clients, ctxFreed, mon, srvHandle, monHandle, cl>>

(* ... tunnel_server returns when the engine decides to (it does not    *)
(* read is_running); the thread then clears is_running and ends.         *)
SrvExit(t) ==
    /\ EngineReturns
    /\ srv[t].pc = "tunnel"
    /\ srv' = [srv EXCEPT ![t].pc = "done"]
    /\ running' = FALSE
    /\ UNCHANGED <<clients, ctxFreed, mon, srvHandle, monHandle, cl>>

(* A cancelled server thread reaches a cancellation point and ends. *)
SrvCancelled(t) ==
    /\ srv[t].pc = "cancelled"
    /\ srv' = [srv EXCEPT ![t].pc = "done"]
    /\ UNCHANGED <<clients, running, ctxFreed, mon, srvHandle, monHandle, cl>>

(* monitoring_thread_func, the loop test: is_running, read without a    *)
(* lock, decides whether the thread runs another pass or returns.        *)
MonCheck(t) ==
    /\ mon[t].pc = "check"
    /\ mon' = [mon EXCEPT ![t].pc = IF running THEN "pass" ELSE "done"]
    /\ UNCHANGED <<clients, running, ctxFreed, srv, srvHandle, monHandle, cl>>

(* ... one pass: uptime and the connected count are recomputed under    *)
(* stats_mutex and clients_mutex (no record is ever connected, so the    *)
(* published values carry no state here), then sleep(10).                *)
MonPass(t) ==
    /\ mon[t].pc = "pass"
    /\ mon' = [mon EXCEPT ![t].pc = "check"]
    /\ UNCHANGED <<clients, running, ctxFreed, srv, srvHandle, monHandle, cl>>

-----------------------------------------------------------------------------
(* Fault variant of ovpn_server_stop without its is_running test. *)
StopNoCheck(c, op) ==
    /\ running' = FALSE
    /\ cl' = [cl EXCEPT ![c] = [pc |-> "join_srv", op |-> op, t |-> 0]]
    /\ UNCHANGED <<clients, ctxFreed, srv, mon, srvHandle, monHandle>>

(* ovpn_server_stop, reached directly (op "stop") or from               *)
(* ovpn_server_cleanup (op "cleanup"): a server not running returns -1;  *)
(* otherwise is_running := false and the two threads are joined.          *)
StopBody(c, op) ==
    IF ~running
      THEN /\ cl' = [cl EXCEPT ![c] = IdleCaller]
           /\ UNCHANGED <<clients, running, ctxFreed, srv, mon, srvHandle, monHandle>>
      ELSE /\ running' = FALSE
           /\ cl' = [cl EXCEPT ![c] = [pc |-> "join_srv", op |-> op, t |-> 0]]
           /\ UNCHANGED <<clients, ctxFreed, srv, mon, srvHandle, monHandle>>

Stop(c) ==
    /\ cl[c].pc = "idle"
    /\ ~ctxFreed
    /\ StopBody(c, "stop")

(* ... pthread_join(ctx->server_thread) waits for the thread to end ... *)
StopJoinSrv(c) ==
    /\ cl[c].pc = "join_srv"
    /\ Joinable(srv[srvHandle])
    /\ srv' = [srv EXCEPT ![srvHandle].joins = @ + 1]
    /\ cl' = [cl EXCEPT ![c].pc = "join_mon"]
    /\ UNCHANGED <<clients, running, ctxFreed, mon, srvHandle, monHandle>>

(* ... then pthread_join(ctx->monitoring_thread); stop returns 0, or     *)
(* cleanup goes on to free the context.                                   *)
StopJoinMon(c) ==
    /\ cl[c].pc = "join_mon"
    /\ Joinable(mon[monHandle])
    /\ mon' = [mon EXCEPT ![monHandle].joins = @ + 1]
    /\ cl' = [cl EXCEPT ![c] = IF cl[c].op = "cleanup"
                                  THEN [@ EXCEPT !.pc = "cleanup_free"]
                                  ELSE IdleCaller]
    /\ UNCHANGED <<clients, running, ctxFreed, srv, srvHandle, monHandle>>

(* ovpn_server_cleanup: stop the server only if is_running is set ...   *)
Cleanup(c) ==
    /\ cl[c].pc = "idle"
    /\ ~ctxFreed
    /\ IF running
         THEN StopBody(c, "cleanup")
         ELSE /\ cl' = [cl EXCEPT ![c] = [pc |-> "cleanup_free", op |-> "cleanup", t |-> 0]]
              /\ UNCHANGED <<clients, running, ctxFreed, srv, mon, srvHandle, monHandle>>

(* ... then free the engine context, destroy both mutexes and free ctx. *)
CleanupFree(c) ==
    /\ cl[c].pc = "cleanup_free"
    /\ ctxFreed' = TRUE
    /\ cl' = [cl EXCEPT ![c] = [IdleCaller EXCEPT !.pc = "gone"]]
    /\ UNCHANGED <<clients, running, srv, mon, srvHandle, monHandle>>

-----------------------------------------------------------------------------
(* ovpn_server_init followed by ovpn_server_load_config_json: a zeroed   *)
(* context, no records, not running, no thread handles set.               *)
Init ==
    /\ clients = <<>>
    /\ running = FALSE
    /\ ctxFreed = FALSE
    /\ srv = [t \in Handles |-> Unborn]
    /\ mon = [t \in Handles |-> Unborn]
    /\ srvHandle = 0
    /\ monHandle = 0
    /\ cl = [c \in Callers |-> IdleCaller]

(* An application thread starts one of the calls in its repertoire. *)
StartCall(c) ==
    \/ "create_client" \in Calls /\ \E n \in Names : CreateClient(c, n)
    \/ "revoke_client" \in Calls /\ \E id \in 1..MaxClients : RevokeClient(c, id)
    \/ "start" \in Calls /\ Start(c)
    \/ "stop" \in Calls /\ Stop(c)
    \/ "cleanup" \in Calls /\ Cleanup(c)

(* A step of a call in progress. *)
CallerStep(c) ==
    StartServer(c) \/ StartMonitor(c) \/ StopJoinSrv(c) \/ StopJoinMon(c)
    \/ CleanupFree(c)

ServerStep(t) == SrvInit2(t) \/ SrvCancelled(t)
MonitorStep(t) == MonCheck(t) \/ MonPass(t)

Next ==
    \/ \E c \in Callers : StartCall(c) \/ CallerStep(c)
    \/ \E t \in Threads : ServerStep(t) \/ SrvExit(t) \/ MonitorStep(t)

(* Threads that exist and are not blocked are scheduled; the engine     *)
(* returning from tunnel_server and the application's next call are not *)
(* promised.                                                               *)
Fairness ==
    /\ \A c \in Callers : WF_vars(CallerStep(c))
    /\ \A t \in Threads : WF_vars(ServerStep(t)) /\ WF_vars(MonitorStep(t))

Spec == Init /\ [][Next]_vars /\ Fairness

-----------------------------------------------------------------------------
(* Properties *)

Addresses == IF Subnet.slash THEN {NoAddress} \cup HostRange(Subnet.prefix)
                             ELSE {NoAddress}
ThreadState == [pc : {"unborn", "init2", "tunnel", "cancelled", "check",
                      "pass", "done"}, joins : Nat]

(* The type invariant; clients[] holds at most MAX_SERVER_CLIENTS        *)
(* records and every address is a host of the subnet or none.             *)
TypeOK ==
    /\ clients \in Seq([name : [base : Names, cut : BOOLEAN],
                         ip : Addresses, revoked : BOOLEAN])
    /\ Len(clients) <= MaxClients
    /\ running \in BOOLEAN /\ ctxFreed \in BOOLEAN
    /\ srv \in [Handles -> ThreadState] /\ mon \in [Handles -> ThreadState]
    /\ srvHandle \in Handles /\ monHandle \in Handles
    /\ cl \in [Callers -> [pc : {"idle", "start_server", "start_monitor",
                                 "join_srv", "join_mon", "cleanup_free", "gone"},
                           op : {"none", "start", "stop", "cleanup"},
                           t : Handles]]

(* Section 3 of the specification: a common name is unique among the     *)
(* records that are not revoked.  create_client's duplicate loop compares *)
(* the stored names with the new one under the same lock as the append.  *)
UniqueLiveNames ==
    \A i, j \in DOMAIN clients :
        i # j /\ Live(i) /\ Live(j) => clients[i].name # clients[j].name

(* The part of section 3 the duplicate loop does keep: no name short     *)
(* enough to be stored whole (fewer than MAX_CLIENT_NAME_SIZE characters) *)
(* is held by two live records, whatever the revocations and the long    *)
(* names stored cut beside it.  The loop must scan every record up to    *)
(* client_count and skip only revoked ones.  A name in LongNames is the  *)
(* exception: its cut copy never equals the caller's string, which      *)
(* UniqueLiveNames reports.                                                *)
UniqueLiveFittingNames ==
    \A i, j \in DOMAIN clients :
        i # j /\ Live(i) /\ Live(j) /\ ~clients[i].name.cut
            => clients[i].name # clients[j].name

(* No two live records hold the same static address: allocate_static_ip *)
(* skips every address a record holds.                                   *)
DistinctLiveAddresses ==
    \A i, j \in DOMAIN clients :
        i # j /\ Live(i) /\ Live(j) /\ clients[i].ip # NoAddress
            => clients[i].ip # clients[j].ip

(* Section 4.4: create_client returns an allocation failure when the     *)
(* subnet is exhausted, so every record it creates has an address.       *)
EveryRecordAddressed == \A j \in DOMAIN clients : clients[j].ip # NoAddress

(* Section 4.4 and the acceptance example of section 8: a new record     *)
(* gets the lowest free host from .10 on, where revoking a record frees  *)
(* its address for reuse.                                                 *)
LiveAddresses == {clients[j].ip : j \in {i \in DOMAIN clients : Live(i)}} \ {NoAddress}
RevokedAddressesReused ==
    [][Len(clients') > Len(clients) =>
         clients'[Len(clients')].ip = FirstFreeHost(Subnet, LiveAddresses)]_clients

(* Every thread handle stop joins names a thread that was created and   *)
(* has not been joined before (joining twice, or a handle never set, is *)
(* undefined).  stop joins only when it saw is_running set.               *)
JoinsAreValid ==
    /\ \A t \in Threads : srv[t].joins <= 1 /\ mon[t].joins <= 1
    /\ srv[0].joins = 0 /\ mon[0].joins = 0

(* A monitoring thread that finds is_running cleared returns, unless a  *)
(* start sets it again first: stop's join of the monitor terminates.     *)
MonitorExitsWhenStopped ==
    \A t \in Threads :
        (LiveThread(mon[t]) /\ ~running) ~> (mon[t].pc = "done" \/ running)

(* Section 5 names one server monitoring thread: no two monitoring      *)
(* threads run at once, whatever sequence of start and stop calls and    *)
(* engine outcomes happened.                                              *)
AtMostOneMonitor == Cardinality({t \in Threads : LiveThread(mon[t])}) <= 1

(* Section 1: no leaked resources or dangling thread references; once    *)
(* cleanup has freed ctx no server or monitoring thread still runs on it.*)
NoThreadOutlivesContext ==
    ctxFreed => \A t \in Threads : ~LiveThread(srv[t]) /\ ~LiveThread(mon[t])

(* ovpn_server_stop returns: the engine is an external collaborator that *)
(* the registry stops, so a stop that has cleared is_running gets past   *)
(* its join of the server thread.                                         *)
StopReturns == \A c \in Callers : cl[c].pc = "join_srv" ~> cl[c].pc # "join_srv"
=============================================================================
