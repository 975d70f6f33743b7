--------------------------- MODULE ClientRegistry ---------------------------
(***************************************************************************)
(* The client side of the library (src/source-port/apis/                  *)
(* openvpn_client_api.c): the global session table g_sessions guarded by  *)
(* g_sessions_mutex, the per-session event ring guarded by event_mutex,   *)
(* and one client_worker_thread per connected session.                    *)
(*                                                                         *)
(* Threads.  Every API caller is a thread in Callers; every worker is a   *)
(* pthread handle in Workers.  An API call is split into one action per   *)
(* section that runs under one lock (or no lock): a section guarded by    *)
(* g_sessions_mutex, state_mutex or event_mutex is one atomic step, and   *)
(* the points where the code drops a lock and goes on using the session   *)
(* pointer are the points where other threads interleave.  Only           *)
(* ovpn_client_api_cleanup holds g_sessions_mutex across several steps,   *)
(* so only that lock is a variable (regLock).                             *)
(*                                                                         *)
(* Data.  Statistics, quality values, strings and timestamps are left     *)
(* out; a configuration is the two facts the code branches on (does      *)
(* ovpn_config contain "client", is auto_reconnect set); an event is its  *)
(* session id and its type (the message text is left out).  Timers (ping,*)
(* stats and reconnect intervals) are nondeterministic choices.           *)
(***************************************************************************)
EXTENDS Naturals, Sequences, FiniteSets, TLC, ConfigParsing

CONSTANTS
    Callers,        \* API caller threads
    NumSlots,       \* MAX_CLIENT_SESSIONS
    QueueSize,      \* MAX_EVENT_QUEUE_SIZE
    MaxSessionId,   \* bound: last value g_next_session_id may hand out
    MaxSpawns,      \* bound: number of worker threads ever created
    NoThread,       \* model value: g_sessions_mutex is unlocked
    Calls,          \* the API functions the application calls
    Callbacks       \* whether create_session is passed an event_callback

ASSUME NumSlots \in Nat \ {0}
ASSUME QueueSize \in Nat /\ QueueSize >= 2
ASSUME MaxSessionId \in Nat \ {0}
ASSUME MaxSpawns \in Nat \ {0}
ASSUME NoThread \notin Callers
ASSUME Calls \subseteq {"create_session", "connect", "disconnect",
                        "destroy_session", "get_next_event", "test_latency",
                        "send_auth", "update_config", "set_auto_reconnect",
                        "pause", "resume", "api_cleanup"}
ASSUME Callbacks \subseteq BOOLEAN /\ Callbacks /= {}

Slots   == 1..NumSlots
Workers == 1..MaxSpawns          \* pthread_t values; 0 means "no thread"
QIdx    == 0..(QueueSize - 1)
Threads == Callers \cup Workers

VARIABLES
    slot,      \* slot[s]: the fields of g_sessions[s] the code branches on
    ring,      \* ring[s]: event_queue, event_queue_head, event_queue_tail
    nextId,    \* g_next_session_id
    wk,        \* wk[w]: program counter, session pointer and current_state
    cl,        \* cl[c]: program counter and locals of caller c
    regLock,   \* owner of g_sessions_mutex while cleanup holds it
    strayFree, \* history: a configuration string the session did not own
               \* has been passed to free()
    inCallback \* inCallback[t]: the queue entry client_event_handler has
               \* handed (or is about to hand) to the user callback on t

vars == <<slot, ring, nextId, wk, cl, regLock, strayFree, inCallback>>

-----------------------------------------------------------------------------
(* ovpn_client_state_t values the code assigns. *)
States == {"INITIAL", "CONNECTING", "AUTH", "GET_CONFIG", "ASSIGN_IP",
           "ADD_ROUTES", "CONNECTED", "DISCONNECTED"}

(* The switch of client_worker_thread: the state each handshake state     *)
(* moves to.                                                               *)
Advance ==
    "CONNECTING" :> "AUTH" @@ "AUTH" :> "GET_CONFIG" @@
    "GET_CONFIG" :> "ASSIGN_IP" @@ "ASSIGN_IP" :> "ADD_ROUTES" @@
    "ADD_ROUTES" :> "CONNECTED"
Handshake == DOMAIN Advance

(* ovpn_client_event_type_t values the code emits (the message text is *)
(* left out).                                                             *)
Kinds == {"STATE_CHANGE", "RECONNECT", "LATENCY_UPDATE", "QUALITY_UPDATE",
          "BYTES_COUNT", "STATS_UPDATE", "AUTH_REQUIRED"}

Event    == [sid : 0..MaxSessionId, kind : Kinds]
NoEvent  == [sid |-> 0, kind |-> "None"]        \* a zeroed queue entry

(* Documents a caller parses with ovpn_client_parse_config_json before *)
(* create_session or update_config: the two of example_client_usage.c,  *)
(* and ones with a server profile, no "connection" group, no profile   *)
(* text, and text cJSON cannot parse.                                      *)
ExampleClientJson1 ==
    Obj([profile_name |-> Chars(10), ovpn_config |-> ProfileText(TRUE),
         auth |-> Obj([username |-> Chars(8), password |-> Chars(13)]),
         certificates |-> Obj([ca_path |-> Chars(19), cert_path |-> Chars(23),
                               key_path |-> Chars(23)]),
         connection |-> Obj([auto_reconnect |-> JTrue, reconnect_interval |-> Num(30),
                             ping_interval |-> Num(10), mtu_size |-> Num(1500)]),
         settings |-> Obj([enable_compression |-> JTrue, log_verbose |-> JTrue,
                           stats_interval |-> Num(5)])])
ExampleClientJson2 ==
    Obj([profile_name |-> Chars(8), ovpn_config |-> ProfileText(TRUE),
         auth |-> Obj([username |-> Chars(8), password |-> Chars(11)]),
         connection |-> Obj([auto_reconnect |-> JTrue, reconnect_interval |-> Num(15),
                             ping_interval |-> Num(5)]),
         proxy |-> Obj([host |-> Chars(17), port |-> Num(8080),
                        username |-> Chars(9), password |-> Chars(9)]),
         settings |-> Obj([enable_compression |-> JFalse, log_verbose |-> JFalse,
                           stats_interval |-> Num(10)])])
ServerProfileJson(conn) == Obj([ovpn_config |-> ProfileText(FALSE), connection |-> conn])
ClientDocs ==
    {ExampleClientJson1, ExampleClientJson2, Obj([ovpn_config |-> ProfileText(TRUE)]),
     ServerProfileJson(Obj([auto_reconnect |-> JTrue])),
     ServerProfileJson(Obj([auto_reconnect |-> JFalse])),
     Obj([profile_name |-> Chars(8)]), Malformed}

(* The two facts of ovpn_client_config_t the code branches on, for every *)
(* document that parses.  Whether the session owns its strings (the     *)
(* strdup copies of create_session) is kept in the slot as ownsCreds     *)
(* (username, password) and ownsRest (the other string fields).          *)
ConfigInputs ==
    {[client |-> ContainsClient(r.cfg), auto |-> r.cfg.auto] :
        r \in {x \in {ParseClientConfigJson(d) : d \in ClientDocs} : x.rc = "SUCCESS"}}

(* parse_ovpn_config: non-empty and containing "client". *)
ConfigValid(cfg) == cfg.client

EmptySlot == [active |-> FALSE, id |-> 0, state |-> "INITIAL",
              running |-> FALSE, connected |-> FALSE, thread |-> 0,
              auto |-> FALSE, valid |-> FALSE, cb |-> FALSE,
              ownsCreds |-> FALSE, ownsRest |-> FALSE]
EmptyRing == [buf |-> [i \in QIdx |-> NoEvent], head |-> 0, tail |-> 0]
IdleCaller == [pc |-> "idle", op |-> "none", id |-> 0, slot |-> 0, thread |-> 0]
Unborn == [pc |-> "unborn", slot |-> 0, cur |-> "INITIAL"]

(* ovpn_client_event_t *event = &session->event_queue[tail]: which slot's *)
(* ring, which entry, and the event written there.                        *)
NoCallback == [slot |-> 0, idx |-> 0, ev |-> NoEvent]

-----------------------------------------------------------------------------
(* Helpers shared by the handlers. *)

RegFree == regLock = NoThread

IssuedIds == 1..(nextId - 1)

(* The lookup loop every API function runs under g_sessions_mutex. *)
Lookup(id) == {s \in Slots : slot[s].active /\ slot[s].id = id}

FreeSlots == {s \in Slots : ~slot[s].active}
FirstOf(S) == CHOOSE s \in S : \A t \in S : s <= t

Live(w) == wk[w].pc \notin {"unborn", "done"}

(* Fault variants of client_event_handler's append: the tail index not  *)
(* taken modulo the queue size, and a full ring overwritten without the  *)
(* head being advanced.                                                    *)
PushedNoWrap(r, e) ==
    [r EXCEPT !.buf = [i \in DOMAIN @ |-> IF i = r.tail THEN e ELSE @[i]],
              !.tail = r.tail + 1]
PushedOverrun(r, e) ==
    [r EXCEPT !.buf[r.tail] = e, !.tail = (r.tail + 1) % QueueSize]

(* client_event_handler: append under event_mutex, advancing head first  *)
(* when the ring is full (one entry always stays empty).  An entry that   *)
(* leaves [head, tail) is never read before it is written again, so the  *)
(* model blanks it (here and in GetTake) rather than keep its stale copy. *)
Pushed(r, e) ==
    LET nt == (r.tail + 1) % QueueSize
    IN  IF nt = r.head
          THEN [r EXCEPT !.head = (@ + 1) % QueueSize,
                         !.buf = [@ EXCEPT ![r.head] = NoEvent, ![r.tail] = e],
                         !.tail = nt]
          ELSE [r EXCEPT !.buf[r.tail] = e, !.tail = nt]

Emit(s, kind) ==
    ring' = [ring EXCEPT ![s] = Pushed(@, [sid |-> slot[s].id, kind |-> kind])]

RingEmpty(s) == ring[s].head = ring[s].tail

(* The entry the last append of ring r wrote: the one before tail. *)
Newest(r) == (r.tail + QueueSize - 1) % QueueSize

(* The end of client_event_handler on thread t for slot s: after the    *)
(* unlock, if session->event_callback is set it is called with the       *)
(* pointer to the entry just written, which is still inside event_queue.  *)
CallbackFor(t, s) ==
    inCallback' = [inCallback EXCEPT ![t] =
                      IF slot[s].cb
                        THEN [slot |-> s, idx |-> Newest(ring'[s]),
                              ev |-> ring'[s].buf[Newest(ring'[s])]]
                        ELSE NoCallback]

(* client_event_handler(session, kind, ...) on thread t. *)
Post(t, s, kind) == Emit(s, kind) /\ CallbackFor(t, s)

-----------------------------------------------------------------------------
(* Caller actions.  A caller in "idle" may start any API call; its later  *)
(* steps are the sections of that call.                                    *)

(* A caller at program point pc emits an event through its session      *)
(* pointer, after the registry lock is released, and moves on to next.    *)
CallerEmits(c, pc, kind, next) ==
    /\ cl[c].pc = pc
    /\ Post(c, cl[c].slot, kind)
    /\ cl' = [cl EXCEPT ![c] = next]
    /\ UNCHANGED <<slot, nextId, wk, regLock, strayFree>>

(* ovpn_client_create_session, registry section: the first free slot is  *)
(* zeroed and initialised with the next id.  With no free slot it returns *)
(* 0 and changes nothing.                                                  *)
CreateSession(c, cfg, cb) ==
    /\ cl[c].pc = "idle"
    /\ RegFree
    /\ nextId <= MaxSessionId
    /\ IF FreeSlots = {}
         THEN UNCHANGED vars
         ELSE LET s == FirstOf(FreeSlots) IN
              /\ slot' = [slot EXCEPT ![s] =
                            [EmptySlot EXCEPT !.active = TRUE, !.id = nextId,
                                              !.auto = cfg.auto,
                                              !.valid = ConfigValid(cfg),
                                              !.cb = cb,
                                              !.ownsCreds = TRUE,
                                              !.ownsRest = TRUE]]
              /\ ring' = [ring EXCEPT ![s] = EmptyRing]
              /\ nextId' = nextId + 1
              /\ cl' = [cl EXCEPT ![c] = [IdleCaller EXCEPT !.pc = "create_emit",
                                                           !.slot = s]]
              /\ UNCHANGED <<wk, regLock, strayFree>>

(* ... then "Session created" is emitted through the slot pointer after  *)
(* the registry lock is released.                                          *)
CreateEmit(c) == CallerEmits(c, "create_emit", "STATE_CHANGE", IdleCaller)

(* ovpn_client_connect refuses a session that is already connected or  *)
(* whose thread_running is set.                                           *)
ConnectRefusedNoRunning(s) == slot[s].connected
ConnectRefused(s) == slot[s].connected \/ slot[s].running

(* pthread_create of client_worker_thread for slot s: thread_running and  *)
(* worker_thread are set, and the caller goes on to the CONNECTING write. *)
Spawn(c, id, s) ==
    /\ \E w \in Workers : wk[w].pc = "unborn"
    /\ LET w == FirstOf({v \in Workers : wk[v].pc = "unborn"}) IN
       /\ slot' = [slot EXCEPT ![s].running = TRUE, ![s].thread = w]
       /\ wk' = [wk EXCEPT ![w] = [pc |-> "top", slot |-> s, cur |-> "INITIAL"]]
       /\ cl' = [cl EXCEPT ![c] = [IdleCaller EXCEPT
                    !.pc = "connect_state", !.id = id, !.slot = s]]
       /\ UNCHANGED <<ring, nextId, regLock, strayFree>>

(* ovpn_client_connect, registry section: refuse an unknown session, a    *)
(* refused one or an invalid profile; otherwise create the worker.        *)
Connect(c, id) ==
    /\ cl[c].pc = "idle"
    /\ RegFree
    /\ LET S == Lookup(id)
           s == FirstOf(S)
       IN IF S = {} \/ ConnectRefused(s) \/ ~slot[s].valid
            THEN UNCHANGED vars
            ELSE Spawn(c, id, s)

(* ... then, under state_mutex only, state := CONNECTING ... *)
ConnectState(c) ==
    /\ cl[c].pc = "connect_state"
    /\ slot' = [slot EXCEPT ![cl[c].slot].state = "CONNECTING"]
    /\ cl' = [cl EXCEPT ![c].pc = "connect_emit"]
    /\ UNCHANGED <<ring, nextId, wk, regLock, strayFree>>

(* ... and "Connection initiated" is emitted. *)
ConnectEmit(c) == CallerEmits(c, "connect_emit", "STATE_CHANGE", IdleCaller)

(* ovpn_client_disconnect, registry section, entered by a direct call     *)
(* (op "disconnect"), by ovpn_client_destroy_session (op "destroy") or by *)
(* the destroy calls of ovpn_client_api_cleanup (op "cleanup").  An       *)
(* unknown session, or one with neither thread_running nor is_connected,  *)
(* returns an error; otherwise thread_running is cleared.  The destroy    *)
(* path goes on to its own registry section whatever the result.          *)
AfterDisconnect(op, id) ==
    IF op = "disconnect" THEN IdleCaller
    ELSE [IdleCaller EXCEPT !.pc = "destroy_free", !.op = op, !.id = id]

DisconnectBody(c, id, op) ==
    /\ RegFree
    /\ LET S == Lookup(id)
           s == FirstOf(S)
       IN IF S = {} \/ (~slot[s].running /\ ~slot[s].connected)
            THEN /\ cl' = [cl EXCEPT ![c] = AfterDisconnect(op, id)]
                 /\ UNCHANGED <<slot, ring, nextId, wk, regLock, strayFree>>
            ELSE /\ slot' = [slot EXCEPT ![s].running = FALSE]
                 /\ cl' = [cl EXCEPT ![c] = [IdleCaller EXCEPT !.pc = "disc_read",
                                              !.op = op, !.id = id, !.slot = s]]
                 /\ UNCHANGED <<ring, nextId, wk, regLock, strayFree>>

Disconnect(c, id) ==
    /\ cl[c].pc = "idle"
    /\ DisconnectBody(c, id, "disconnect")

DestroySession(c, id) ==
    /\ cl[c].pc = "idle"
    /\ DisconnectBody(c, id, "destroy")

(* After the unlock: session->worker_thread is read again ... *)
DiscRead(c) ==
    LET h == slot[cl[c].slot].thread IN
    /\ cl[c].pc = "disc_read"
    /\ cl' = [cl EXCEPT ![c].pc = IF h = 0 THEN "disc_state" ELSE "disc_join",
                        ![c].thread = h]
    /\ UNCHANGED <<slot, ring, nextId, wk, regLock, strayFree>>

(* Fault variant: the join does not wait for the worker to return. *)
DiscJoinNoWait(c) ==
    /\ cl[c].pc = "disc_join"
    /\ slot' = [slot EXCEPT ![cl[c].slot].thread = 0]
    /\ cl' = [cl EXCEPT ![c].pc = "disc_state", ![c].thread = 0]
    /\ UNCHANGED <<ring, nextId, wk, regLock, strayFree>>

(* ... pthread_join waits for that thread to return, then worker_thread  *)
(* is cleared.                                                             *)
DiscJoin(c) ==
    /\ cl[c].pc = "disc_join"
    /\ wk[cl[c].thread].pc = "done"
    /\ slot' = [slot EXCEPT ![cl[c].slot].thread = 0]
    /\ cl' = [cl EXCEPT ![c].pc = "disc_state", ![c].thread = 0]
    /\ UNCHANGED <<ring, nextId, wk, regLock, strayFree>>

(* ... under state_mutex: state := DISCONNECTED, is_connected := false ... *)
DiscState(c) ==
    /\ cl[c].pc = "disc_state"
    /\ slot' = [slot EXCEPT ![cl[c].slot].state = "DISCONNECTED",
                            ![cl[c].slot].connected = FALSE]
    /\ cl' = [cl EXCEPT ![c].pc = "disc_emit"]
    /\ UNCHANGED <<ring, nextId, wk, regLock, strayFree>>

(* ... and "Disconnected" is emitted. *)
DiscEmit(c) == CallerEmits(c, "disc_emit", "STATE_CHANGE", AfterDisconnect(cl[c].op, cl[c].id))

(* ovpn_client_free_config on a slot's configuration: does it release   *)
(* strings the session does not own?                                       *)
FreesForeign(s) == ~slot[s].ownsCreds \/ ~slot[s].ownsRest

(* ovpn_client_destroy_session, registry section: look the id up again,  *)
(* free the configuration and zero the slot (queue included).             *)
AfterDestroy(op) ==
    IF op = "cleanup" THEN [IdleCaller EXCEPT !.pc = "cleanup_scan"]
    ELSE IdleCaller

DestroyFree(c) ==
    /\ cl[c].pc = "destroy_free"
    /\ RegFree
    /\ LET S == Lookup(cl[c].id)
           s == FirstOf(S)
       IN IF S = {}
            THEN /\ cl' = [cl EXCEPT ![c] = AfterDestroy(cl[c].op)]
                 /\ UNCHANGED <<slot, ring, nextId, wk, regLock, strayFree>>
            ELSE /\ strayFree' = (strayFree \/ FreesForeign(s))
                 /\ slot' = [slot EXCEPT ![s] = EmptySlot]
                 /\ ring' = [ring EXCEPT ![s] = EmptyRing]
                 /\ cl' = [cl EXCEPT ![c] = AfterDestroy(cl[c].op)]
                 /\ UNCHANGED <<nextId, wk, regLock>>

(* ovpn_client_get_next_event: find the session under the registry lock, *)
(* release it ...                                                          *)
GetNextEvent(c, id) ==
    /\ cl[c].pc = "idle"
    /\ RegFree
    /\ Lookup(id) /= {}
    /\ cl' = [cl EXCEPT ![c] = [IdleCaller EXCEPT !.pc = "get_take", !.id = id,
                                                 !.slot = FirstOf(Lookup(id))]]
    /\ UNCHANGED <<slot, ring, nextId, wk, regLock, strayFree>>

(* Fault variant: the entry is copied out and cleared but head is not   *)
(* advanced.                                                               *)
GetTakeNoAdvance(c) ==
    LET s == cl[c].slot IN
    /\ cl[c].pc = "get_take"
    /\ ring' = IF RingEmpty(s) THEN ring
               ELSE [ring EXCEPT ![s].buf[ring[s].head] = NoEvent]
    /\ cl' = [cl EXCEPT ![c] = IdleCaller]
    /\ UNCHANGED <<slot, nextId, wk, regLock, strayFree>>

(* ... then, under event_mutex, dequeue the entry at head if any. *)
GetTake(c) ==
    LET s == cl[c].slot IN
    /\ cl[c].pc = "get_take"
    /\ ring' = IF RingEmpty(s) THEN ring
               ELSE [ring EXCEPT ![s].head = (@ + 1) % QueueSize,
                                 ![s].buf[ring[s].head] = NoEvent]
    /\ cl' = [cl EXCEPT ![c] = IdleCaller]
    /\ UNCHANGED <<slot, nextId, wk, regLock, strayFree>>

(* ovpn_client_test_latency called by the application: under the        *)
(* registry lock, give up (-1) unless the session exists and is_connected; *)
(* then, with the lock released and after the simulated round trip ...   *)
TestLatency(c, id) ==
    /\ cl[c].pc = "idle"
    /\ RegFree
    /\ LET S == Lookup(id) IN
       IF S = {} \/ ~slot[FirstOf(S)].connected
         THEN UNCHANGED vars
         ELSE /\ cl' = [cl EXCEPT ![c] = [IdleCaller EXCEPT !.pc = "latency_emit",
                                          !.id = id, !.slot = FirstOf(S)]]
              /\ UNCHANGED <<slot, ring, nextId, wk, regLock, strayFree>>

(* ... ping_ms is written under state_mutex and LATENCY_UPDATE emitted    *)
(* through the session pointer.                                            *)
LatencyEmit(c) == CallerEmits(c, "latency_emit", "LATENCY_UPDATE", IdleCaller)

(* ovpn_client_send_auth, registry section: free username and password  *)
(* and store strdup copies of the new ones ...                            *)
SendAuth(c, id) ==
    /\ cl[c].pc = "idle"
    /\ RegFree
    /\ LET S == Lookup(id)
           s == FirstOf(S)
       IN IF S = {}
            THEN UNCHANGED vars
            ELSE /\ strayFree' = (strayFree \/ ~slot[s].ownsCreds)
                 /\ slot' = [slot EXCEPT ![s].ownsCreds = TRUE]
                 /\ cl' = [cl EXCEPT ![c] = [IdleCaller EXCEPT !.pc = "auth_emit",
                                              !.id = id, !.slot = s]]
                 /\ UNCHANGED <<ring, nextId, wk, regLock>>

(* ... then AUTH_REQUIRED is emitted after the unlock. *)
AuthEmit(c) == CallerEmits(c, "auth_emit", "AUTH_REQUIRED", IdleCaller)

(* ovpn_client_update_config, under the registry lock: free the old      *)
(* configuration, then session->config = *config, a copy of the struct   *)
(* whose strings stay the caller's.                                        *)
UpdateConfig(c, id, cfg) ==
    /\ cl[c].pc = "idle"
    /\ RegFree
    /\ LET S == Lookup(id)
           s == FirstOf(S)
       IN IF S = {}
            THEN UNCHANGED vars
            ELSE /\ strayFree' = (strayFree \/ FreesForeign(s))
                 /\ slot' = [slot EXCEPT ![s].auto = cfg.auto,
                                         ![s].valid = ConfigValid(cfg),
                                         ![s].ownsCreds = FALSE,
                                         ![s].ownsRest = FALSE]
                 /\ UNCHANGED <<ring, nextId, wk, cl, regLock>>

(* ovpn_client_set_auto_reconnect, under the registry lock. *)
SetAutoReconnect(c, id, enable) ==
    /\ cl[c].pc = "idle"
    /\ RegFree
    /\ LET S == Lookup(id) IN
       IF S = {}
         THEN UNCHANGED vars
         ELSE /\ slot' = [slot EXCEPT ![FirstOf(S)].auto = enable]
              /\ UNCHANGED <<ring, nextId, wk, cl, regLock, strayFree>>

(* ovpn_client_pause and ovpn_client_resume are disconnect and connect. *)
Pause(c, id) == Disconnect(c, id)
Resume(c, id) == Connect(c, id)

(* ovpn_client_api_cleanup: take g_sessions_mutex and keep it while      *)
(* destroying every active session ...                                     *)
Cleanup(c) ==
    /\ cl[c].pc = "idle"
    /\ RegFree
    /\ regLock' = c
    /\ cl' = [cl EXCEPT ![c] = [IdleCaller EXCEPT !.pc = "cleanup_scan"]]
    /\ UNCHANGED <<slot, ring, nextId, wk, strayFree>>

(* ... scanning for the next active slot, releasing the lock when none   *)
(* is left ...                                                             *)
CleanupScan(c) ==
    LET A == {s \in Slots : slot[s].active} IN
    /\ cl[c].pc = "cleanup_scan"
    /\ IF A = {}
         THEN /\ regLock' = NoThread
              /\ cl' = [cl EXCEPT ![c] = IdleCaller]
         ELSE /\ cl' = [cl EXCEPT ![c] = [IdleCaller EXCEPT !.pc = "cleanup_destroy",
                                          !.op = "cleanup", !.id = slot[FirstOf(A)].id]]
              /\ UNCHANGED regLock
    /\ UNCHANGED <<slot, ring, nextId, wk, strayFree>>

(* ... each destroy starting with ovpn_client_disconnect, which locks    *)
(* g_sessions_mutex again.  That lock is held by this very thread and is *)
(* not recursive, so a caller in "cleanup_destroy" has no step left: it   *)
(* is blocked for good inside the disconnect's pthread_mutex_lock.        *)

-----------------------------------------------------------------------------
(* client_worker_thread(w).  wk[w].slot is the session pointer it was    *)
(* created with; it is never looked up again, so the worker goes on       *)
(* writing that slot whatever has happened to it since.                   *)

WSlot(w) == wk[w].slot

(* Back to the loop head; current_state is local to the loop body. *)
Looping(r) == [r EXCEPT !.pc = "top", !.cur = "INITIAL"]

(* Fault variant: a loop head that never tests thread_running. *)
WTopNoCheck(w) ==
    /\ wk[w].pc = "top"
    /\ wk' = [wk EXCEPT ![w] = [@ EXCEPT !.pc = "act",
                                         !.cur = slot[WSlot(w)].state]]
    /\ UNCHANGED <<slot, ring, nextId, cl, regLock, strayFree>>

(* Loop head: while (session->thread_running), read state under          *)
(* state_mutex into current_state.                                        *)
WTop(w) ==
    /\ wk[w].pc = "top"
    /\ wk' = [wk EXCEPT ![w] = IF slot[WSlot(w)].running
                                THEN [@ EXCEPT !.pc = "act",
                                               !.cur = slot[WSlot(w)].state]
                                ELSE [@ EXCEPT !.pc = "exit"]]
    /\ UNCHANGED <<slot, ring, nextId, cl, regLock, strayFree>>

(* The switch on current_state: a handshake state writes its successor   *)
(* under state_mutex (ADD_ROUTES also sets is_connected); CONNECTED goes  *)
(* to the monitoring calls; any other state does nothing and falls into  *)
(* the auto-reconnect test: not connected, auto_reconnect set and        *)
(* current_state DISCONNECTED sleep reconnect_interval, anything else    *)
(* sleeps 100 ms and loops.                                               *)
WAct(w) ==
    LET s == WSlot(w)
        cur == wk[w].cur
    IN
    /\ wk[w].pc = "act"
    /\ cur /= "CONNECTED"
    /\ IF cur \in Handshake
         THEN /\ slot' = [slot EXCEPT ![s].state = Advance[cur],
                                      ![s].connected = IF cur = "ADD_ROUTES"
                                                       THEN TRUE ELSE @]
              /\ wk' = [wk EXCEPT ![w].pc = "emit"]
         ELSE /\ wk' = [wk EXCEPT ![w] =
                        CASE ~slot[s].connected /\ slot[s].auto
                             /\ cur = "DISCONNECTED" -> [@ EXCEPT !.pc = "rsleep"]
                          [] OTHER -> Looping(@)]
              /\ UNCHANGED slot
    /\ UNCHANGED <<ring, nextId, cl, regLock, strayFree>>

(* The StateChange event of that transition, emitted after the unlock;  *)
(* the auto-reconnect test cannot fire (current_state is a handshake     *)
(* state) and the worker loops.                                           *)
WEmit(w) ==
    /\ wk[w].pc = "emit"
    /\ Post(w, WSlot(w), "STATE_CHANGE")
    /\ wk' = [wk EXCEPT ![w] = Looping(@)]
    /\ UNCHANGED <<slot, nextId, cl, regLock, strayFree>>

(* One pass of the CONNECTED branch, run by the worker alone without a  *)
(* lock held between its parts:                                           *)
(*  update_client_stats: if is_connected, "Data transferred"             *)
(*    (BYTES_COUNT) and, when stats_interval has elapsed, "Statistics    *)
(*    updated" (STATS_UPDATE);                                            *)
(*  update_quality_metrics: if is_connected, QUALITY_UPDATE;             *)
(*  when ping_interval has elapsed, ovpn_client_test_latency(session_id), *)
(*    which looks the id up under g_sessions_mutex and, if that session  *)
(*    is connected, emits LATENCY_UPDATE on it.                          *)
(* The two timers (stats timer static and shared by all sessions) are    *)
(* free choices.  The auto-reconnect test that follows cannot fire, since *)
(* current_state is CONNECTED, so the worker loops.                       *)
Telemetry(statsDue) ==
    IF statsDue THEN <<"BYTES_COUNT", "STATS_UPDATE", "QUALITY_UPDATE">>
    ELSE <<"BYTES_COUNT", "QUALITY_UPDATE">>

PushedAll(r, sid, ks) ==
    LET RECURSIVE Go(_, _)
        Go(q, i) == IF i > Len(ks) THEN q
                    ELSE Go(Pushed(q, [sid |-> sid, kind |-> ks[i]]), i + 1)
    IN  Go(r, 1)

WMonitor(w) ==
    LET s == WSlot(w)
        T == Lookup(slot[s].id)
        pingTarget == FirstOf(T)
        pingHits == T /= {} /\ slot[pingTarget].connected
    IN
    /\ wk[w].pc = "act"
    /\ wk[w].cur = "CONNECTED"
    /\ \E statsDue, pingDue \in BOOLEAN :
         LET own == IF slot[s].connected THEN Telemetry(statsDue) ELSE <<>>
             afterOwn == [ring EXCEPT ![s] = PushedAll(@, slot[s].id, own)]
         IN
         /\ pingDue => RegFree
         /\ ring' = IF pingDue /\ pingHits
                     THEN [afterOwn EXCEPT ![pingTarget] =
                              Pushed(@, [sid |-> slot[pingTarget].id,
                                         kind |-> "LATENCY_UPDATE"])]
                     ELSE afterOwn
         \* each earlier post's callback has returned before the next post
         /\ CASE pingDue /\ pingHits -> CallbackFor(w, pingTarget)
               [] own /= <<>>         -> CallbackFor(w, s)
               [] OTHER               -> UNCHANGED inCallback
    /\ wk' = [wk EXCEPT ![w] = Looping(@)]
    /\ UNCHANGED <<slot, nextId, cl, regLock, strayFree>>

(* Waking up: if thread_running is still set, state := CONNECTING. *)
WRSleep(w) ==
    LET s == WSlot(w) IN
    /\ wk[w].pc = "rsleep"
    /\ IF slot[s].running
         THEN /\ slot' = [slot EXCEPT ![s].state = "CONNECTING"]
              /\ wk' = [wk EXCEPT ![w].pc = "remit"]
         ELSE /\ wk' = [wk EXCEPT ![w] = Looping(@)]
              /\ UNCHANGED slot
    /\ UNCHANGED <<ring, nextId, cl, regLock, strayFree>>

(* ... and "Auto-reconnecting" is emitted. *)
WREmit(w) ==
    /\ wk[w].pc = "remit"
    /\ Post(w, WSlot(w), "RECONNECT")
    /\ wk' = [wk EXCEPT ![w] = Looping(@)]
    /\ UNCHANGED <<slot, nextId, cl, regLock, strayFree>>

(* Loop exit: is_connected := false, then state := DISCONNECTED under   *)
(* state_mutex; the thread returns.                                       *)
WExit(w) ==
    /\ wk[w].pc = "exit"
    /\ slot' = [slot EXCEPT ![WSlot(w)].connected = FALSE,
                            ![WSlot(w)].state = "DISCONNECTED"]
    /\ wk' = [wk EXCEPT ![w].pc = "done"]
    /\ UNCHANGED <<ring, nextId, cl, regLock, strayFree>>

-----------------------------------------------------------------------------
Init ==
    /\ slot = [s \in Slots |-> EmptySlot]
    /\ ring = [s \in Slots |-> EmptyRing]
    /\ nextId = 1
    /\ wk = [w \in Workers |-> Unborn]
    /\ cl = [c \in Callers |-> IdleCaller]
    /\ regLock = NoThread
    /\ strayFree = FALSE
    /\ inCallback = [t \in Threads |-> NoCallback]

(* The user callback returns.  It reads the event through the pointer    *)
(* (example_client_usage.c prints event->message and event->data) and    *)
(* changes no library state.  The callback is skipped if                 *)
(* session->event_callback, read after the unlock, is NULL by then.       *)
Callback(t) ==
    /\ inCallback[t] /= NoCallback
    /\ inCallback' = [inCallback EXCEPT ![t] = NoCallback]
    /\ UNCHANGED <<slot, ring, nextId, wk, cl, regLock, strayFree>>

(* A thread inside a user callback takes no other step until it returns. *)
Unhooked(t) == inCallback[t] = NoCallback

(* A call a caller may start: these are the only steps nothing forces. *)
StartCall(c) ==
    \/ "create_session" \in Calls /\ \E cfg \in ConfigInputs, cb \in Callbacks :
                                        CreateSession(c, cfg, cb)
    \/ \E id \in IssuedIds :
          \/ "connect" \in Calls /\ Connect(c, id)
          \/ "disconnect" \in Calls /\ Disconnect(c, id)
          \/ "destroy_session" \in Calls /\ DestroySession(c, id)
          \/ "get_next_event" \in Calls /\ GetNextEvent(c, id)
          \/ "test_latency" \in Calls /\ TestLatency(c, id)
          \/ "send_auth" \in Calls /\ SendAuth(c, id)
          \/ "update_config" \in Calls /\ \E cfg \in ConfigInputs : UpdateConfig(c, id, cfg)
          \/ "set_auto_reconnect" \in Calls /\ \E enable \in BOOLEAN : SetAutoReconnect(c, id, enable)
          \/ "pause" \in Calls /\ Pause(c, id)
          \/ "resume" \in Calls /\ Resume(c, id)
    \/ "api_cleanup" \in Calls /\ Cleanup(c)

(* The remaining sections of a call in progress: those that post an     *)
(* event (and may enter the callback) and those that post none.          *)
CallerPosts(c) ==
    CreateEmit(c) \/ ConnectEmit(c) \/ DiscEmit(c) \/ LatencyEmit(c) \/ AuthEmit(c)

CallerQuiet(c) ==
    \/ ConnectState(c)
    \/ DiscRead(c) \/ DiscJoin(c) \/ DiscState(c)
    \/ DestroyFree(c)
    \/ GetTake(c)
    \/ CleanupScan(c)

CallerStep(c) ==
    \/ Callback(c)
    \/ Unhooked(c) /\ CallerPosts(c)
    \/ Unhooked(c) /\ CallerQuiet(c) /\ UNCHANGED inCallback

WorkerStep(w) ==
    \/ Callback(w)
    \/ Unhooked(w) /\ (WEmit(w) \/ WMonitor(w) \/ WREmit(w))
    \/ Unhooked(w) /\ UNCHANGED inCallback
                   /\ (WTop(w) \/ WAct(w) \/ WRSleep(w) \/ WExit(w))

Next ==
    \/ \E c \in Callers : Unhooked(c) /\ StartCall(c) /\ UNCHANGED inCallback
    \/ \E c \in Callers : CallerStep(c)
    \/ \E w \in Workers : WorkerStep(w)

(* Every created thread keeps being scheduled: a call in progress and a  *)
(* worker loop continue whenever they can.  Starting a call is up to the *)
(* application and is not assumed to happen.                              *)
Fairness ==
    /\ \A c \in Callers : WF_vars(CallerStep(c))
    /\ \A w \in Workers : WF_vars(WorkerStep(w))

Spec == Init /\ [][Next]_vars /\ Fairness

-----------------------------------------------------------------------------
(* Properties *)

CallerPcs == {"idle", "create_emit", "connect_state", "connect_emit",
              "disc_read", "disc_join", "disc_state", "disc_emit",
              "destroy_free", "get_take", "latency_emit", "auth_emit",
              "cleanup_scan", "cleanup_destroy"}
WorkerPcs == {"unborn", "top", "act", "emit", "rsleep", "remit",
              "exit", "done"}

TypeOK ==
    /\ slot \in [Slots -> [active : BOOLEAN, id : 0..MaxSessionId,
                           state : States, running : BOOLEAN,
                           connected : BOOLEAN, thread : 0..MaxSpawns,
                           auto : BOOLEAN, valid : BOOLEAN, cb : BOOLEAN,
                           ownsCreds : BOOLEAN, ownsRest : BOOLEAN]]
    /\ ring \in [Slots -> [buf : [QIdx -> Event \cup {NoEvent}],
                           head : QIdx, tail : QIdx]]
    /\ nextId \in 1..(MaxSessionId + 1)
    /\ wk \in [Workers -> [pc : WorkerPcs, slot : 0..NumSlots, cur : States]]
    /\ cl \in [Callers -> [pc : CallerPcs,
                           op : {"none", "disconnect", "destroy", "cleanup"},
                           id : 0..MaxSessionId, slot : 0..NumSlots,
                           thread : 0..MaxSpawns]]
    /\ regLock \in Callers \cup {NoThread}
    /\ strayFree \in BOOLEAN
    /\ inCallback \in [Threads -> [slot : 0..NumSlots, idx : QIdx,
                                    ev : Event \cup {NoEvent}]]

(* The most events one step posts to one ring: a pass of the CONNECTED  *)
(* branch (BYTES_COUNT, STATS_UPDATE, QUALITY_UPDATE, LATENCY_UPDATE).    *)
MaxPosts == 4

(* The pending events of slot s, oldest first, as the ring holds them:   *)
(* the entries from head up to (not including) tail, modulo QueueSize.   *)
Pending(s) ==
    LET r == ring[s]
        n == (r.tail + QueueSize - r.head) % QueueSize
    IN  [i \in 1..n |-> r.buf[(r.head + i - 1) % QueueSize]]

(* The event ring implements a drop-oldest FIFO that retains             *)
(* MAX_EVENT_QUEUE_SIZE - 1 events: whatever producers (API callers and  *)
(* workers) and consumers (get_next_event) interleave, every change of a *)
(* ring is one post, one take of the oldest event, or a reset that comes *)
(* with a change of the session id the slot holds.                        *)
Channel == INSTANCE EventChannel
               WITH chan <- [s \in Slots |-> Pending(s)],
                    Capacity <- QueueSize - 1,
                    Events <- Event,
                    MaxBurst <- MaxPosts,
                    owner <- [s \in Slots |-> slot[s].id],
                    Owners <- 1..MaxSessionId,
                    Vacant <- 0
ChannelRefinement == Channel!Spec

(* The spec (section 3, section 8 "Event-overflow property") promises    *)
(* that a full channel retains exactly its capacity, MAX_EVENT_QUEUE_SIZE *)
(* events, the most recent ones.                                          *)
SpecifiedChannel == INSTANCE EventChannel
               WITH chan <- [s \in Slots |-> Pending(s)],
                    Capacity <- QueueSize,
                    Events <- Event,
                    MaxBurst <- MaxPosts,
                    owner <- [s \in Slots |-> slot[s].id],
                    Owners <- 1..MaxSessionId,
                    Vacant <- 0
SpecifiedCapacityRetained == SpecifiedChannel!Spec

(* Cooperative cancellation works: a live worker whose session has       *)
(* thread_running cleared returns (or sees the flag set again) -- the    *)
(* loop head re-reads the flag each iteration and no branch of the loop  *)
(* body waits on another thread indefinitely.                             *)
RunningFlag(w) == wk[w].slot \in Slots /\ slot[wk[w].slot].running
WorkerStopsWhenCancelled ==
    \A w \in Workers :
        (Live(w) /\ ~RunningFlag(w)) ~> (wk[w].pc = "done" \/ RunningFlag(w))

(* Spec 4.3/5: one cooperative loop per connected session.  No two live  *)
(* workers drive the same session slot.                                   *)
AtMostOneWorkerPerSession ==
    \A w1, w2 \in Workers :
        (w1 /= w2 /\ Live(w1) /\ Live(w2)) => wk[w1].slot /= wk[w2].slot

(* Spec 8 "no crash, no double-join": two disconnecting callers never    *)
(* wait in pthread_join on the same thread.                               *)
NoDoubleJoin ==
    \A c1, c2 \in Callers :
        (c1 /= c2 /\ cl[c1].pc = "disc_join" /\ cl[c2].pc = "disc_join")
            => cl[c1].thread /= cl[c2].thread

(* Spec 5: Disconnect/DestroySession block until the worker has exited   *)
(* "so callers cannot destroy a session while its worker still          *)
(* references it": no live worker's session slot is free.                 *)
NoWorkerOnFreedSlot ==
    \A w \in Workers : Live(w) => slot[wk[w].slot].active

(* Spec 5: process shutdown disconnects and destroys every active        *)
(* session: a caller of ovpn_client_api_cleanup eventually returns.      *)
CleanupTerminates ==
    \A c \in Callers : (cl[c].pc = "cleanup_scan") ~> (cl[c].pc = "idle")

(* Spec 6 (configuration input format) and 8 (config round-trip): a    *)
(* document that omits reconnectIntervalSeconds, or the whole connection *)
(* policy group, parses to the documented default of 30 seconds, and one *)
(* that omits the diagnostics group to a stats interval of 5.  The code  *)
(* of ovpn_client_parse_config_json applies its defaults only inside     *)
(* if (cJSON_IsObject(connection)) and if (cJSON_IsObject(settings)), so *)
(* a profile-only document gives a reconnect_interval of 0, and the      *)
(* worker's reconnect loop sleep(0)s between attempts.                    *)
OmittedGroupsTakeDefaults ==
    \A d \in ClientDocs :
        LET r == ParseClientConfigJson(d)
        IN  r.rc = "SUCCESS" =>
              /\ ~IsNumber(Item(Item(d, "connection"), "reconnect_interval"))
                    => r.cfg.reconnect = 30
              /\ ~IsNumber(Item(Item(d, "settings"), "stats_interval"))
                    => r.cfg.stats = 5

(* Spec 4.1: GetNextEvent(id) dequeues from that session's channel: the  *)
(* event a caller is about to dequeue was emitted by the session it      *)
(* looked up.                                                              *)
NextEventOfOwnSession ==
    \A c \in Callers :
        (cl[c].pc = "get_take" /\ ~RingEmpty(cl[c].slot))
            => ring[cl[c].slot].buf[ring[cl[c].slot].head].sid = cl[c].id

(* Spec 3/4.2: a session moves through the handshake states only while  *)
(* a worker is attached.  Once no call is in progress, a session in a    *)
(* handshake state has thread_running set and a live worker.              *)
Quiescent == \A c \in Callers : cl[c].pc = "idle"
HandshakeHasWorker ==
    Quiescent =>
        \A s \in Slots :
            (slot[s].active /\ slot[s].state \in Handshake)
                => (slot[s].running /\ \E w \in Workers : Live(w) /\ wk[w].slot = s)

(* Spec section 2, Configuration: a session's configuration is an owned  *)
(* deep copy and releasing it releases each string exactly once.  No     *)
(* destroy_session, update_config or send_auth ever frees a string the    *)
(* session does not own (update_config stores the caller's pointers).    *)
NoStrayFree == ~strayFree

(* Spec section 3: events are immutable once enqueued and ownership of   *)
(* the payload passes to the consumer that dequeues it.  The user        *)
(* callback client_event_handler calls after releasing event_mutex reads *)
(* the entry through a pointer into event_queue; while it runs, that     *)
(* entry is still queued and still holds the event it was handed -- no   *)
(* get_next_event has dequeued it (its consumer frees message and data,  *)
(* as monitor_events of example_client_usage.c does), no later post has  *)
(* overwritten it and no destroy has zeroed it.                           *)
QueuedIdx(s) ==
    {(ring[s].head + i) % QueueSize :
        i \in 0..((ring[s].tail + QueueSize - ring[s].head) % QueueSize) - 1}
CallbackEventQueued ==
    \A t \in Threads :
        LET p == inCallback[t] IN
        (p /= NoCallback /\ slot[p.slot].cb)
            => (p.idx \in QueuedIdx(p.slot) /\ ring[p.slot].buf[p.idx] = p.ev)
=============================================================================
