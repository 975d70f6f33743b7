# TLA+ models of the OpenVPN client/server management API

This directory holds TLA+ models of the C library in `src/source-port/apis/`
and the TLC configurations that check them. `PROJECT.json` lists the
components, runs, fault variants ("mutants"), the map from every TLA+
definition to the source lines it models, the findings and the hazards.

## 1. The system

Two independent libraries share the directory:

* **Client API** (`openvpn_client_api.c`). This is a process-wide table
  `g_sessions[MAX_CLIENT_SESSIONS]` guarded by `g_sessions_mutex`. Each
  active slot is one VPN client session and has:
  * a `state_mutex` for its state fields;
  * an event ring (`event_queue`, `event_queue_head`, `event_queue_tail`)
    guarded by `event_mutex`;
  * one `client_worker_thread` while it is connected.

  Application threads call the API. Workers run the handshake state
  machine and, once connected, emit statistics, quality and latency
  events. Producers (callers and workers) append events with
  `client_event_handler`; consumers drain them with
  `ovpn_client_get_next_event`.
* **Server API** (`openvpn_server_api.c`). This is a context with a client
  record table `clients[]` guarded by `clients_mutex`, plus two threads:
  * the tunnel-engine thread `server_thread_func`;
  * `monitoring_thread_func`, which every 10 s takes `stats_mutex` and
    then `clients_mutex` to recompute the connected count.

  `create_client` appends a record, rejects duplicate live common names
  and allocates a static address by a first-fit scan of the subnet.
  `revoke_client` marks a record revoked.
* `example_client_usage.c` and `example_server_usage.c` drive each API
  from one application thread.

### Inventory

| Component | State | Operations | Hard behaviours |
|---|---|---|---|
| Client session registry | `g_sessions[]` (`is_active`, `session_id`, `state`, `thread_running`, `is_connected`, `worker_thread`, config), `g_next_session_id`, `g_sessions_mutex` | `create_session`, `connect`, `disconnect`, `destroy_session`, `get_next_event`, `test_latency`, `send_auth`, `update_config`, `set_auto_reconnect`, `pause`, `resume`, `api_cleanup`; read-only getters | sections under different locks with the session pointer used between them; join without re-check; cleanup re-entering its own lock |
| Client worker | `current_state` (local), the slot pointer | loop head, handshake step, CONNECTED monitoring pass, auto-reconnect sleep, exit | unlocked flag reads; stale slot pointer after destroy |
| Client event channel | ring per slot | post (drop oldest when full), take, reset on create/destroy | full one entry early; callback gets a pointer into the ring after the unlock |
| Client configuration parsing | none (pure) | `ovpn_client_parse_config_json`, `ovpn_client_free_config` | defaults applied only when a group is present; config left uninitialised on a cJSON failure; `(uint32_t)valueint` |
| Server client registry | `clients[]`, `client_count`, `next_client_id` | `create_client`, `revoke_client`, `allocate_static_ip`, `get_client_info` | revoked addresses never reused; exhausted subnet; records never removed |
| Server lifecycle and monitor | `is_running`, thread handles, `stats` | `start`, server thread, monitoring loop, `stop`, `cleanup` | unlocked start; stop joins an engine that ignores `is_running`; cleanup after an engine failure frees ctx under a sleeping monitor |
| Client profile generation | none (pure) | `build_client_ovpn_config` | `pos` passing the 8192-byte buffer; credential lines dropped past offset 7900 |
| Server configuration parsing | the `ovpn_server_config_t` in the context | `load_config_json` over the `ovpn_server_init` defaults | strings cut by `strncpy` to the field size - 1; `strncpy` from NULL for a mistyped value; unchecked `listen_port` |
| Certificates, server event delivery | none | stub; synchronous callback | none |

## 2. Modules

* **`EventChannel`** is the abstract specification of one event channel
  per slot:
  * a FIFO of at most `Capacity` events;
  * a post of up to `MaxBurst` events drops the oldest ones that no
    longer fit;
  * a take removes the head;
  * the channel is emptied only when the slot changes hands (`owner`
    changes).
* **`ClientRegistry`** is the client library.
  * *State.* `slot[s]` holds the fields of `g_sessions[s]` the code
    branches on (ownership of the configuration strings included).
    `ring[s]` is the event ring, `nextId` is `g_next_session_id` and
    `regLock` is `g_sessions_mutex`.
  * *Thread-local state.* `wk[w]` gives each worker a program counter,
    its slot pointer and its `current_state`. `cl[c]` gives each caller
    thread a program counter and its locals.
  * *History.* `strayFree` records that a configuration string the
    session did not own was freed.
  * *Callbacks.* `slot[s].cb` is whether `create_session` was passed an
    `event_callback` (`Callbacks` is the set of choices a run allows).
    Every `client_event_handler` call is `Post(t, s, kind)`: the append
    under `event_mutex` (`Emit`) and, if the session has a callback,
    `inCallback[t]`, the pointer `&event_queue[tail]` the callback is
    handed after the unlock (slot, index, and the event written there).
    `Callback(t)` is the callback returning; until it does, thread `t`
    takes no other step (`Unhooked`). In `WMonitor` the earlier posts'
    callbacks return inside the atomic pass, so only the last post's
    callback is left pending.
  * *Locking.* Each section under one lock (or none) is one action, so
    the points where the code drops a lock and keeps using the session
    pointer are where other threads interleave. Only `api_cleanup` holds
    `g_sessions_mutex` across several steps, which is why the lock is a
    variable.
  * *Calls.* `Calls` is the set of API functions the application may
    call; each run picks one.
  * *Refinement.* `Channel == INSTANCE EventChannel WITH chan <- Pending,
    owner <- slot id, Capacity <- QueueSize - 1` is how the ring is shown
    to implement the channel (`ChannelRefinement`).
  * *Fault variants.* `PushedNoWrap`, `PushedOverrun`,
    `ConnectRefusedNoRunning`, `DiscJoinNoWait`,
    `GetTakeNoAdvance` and `WTopNoCheck` are plausible bugs of the
    operation each one precedes. Each one breaks a property checked by a
    passing run.
* **`StaticIpAllocation`** is `allocate_static_ip` as a pure operator.
  * `ScanFrom` is the outer loop as a RECURSIVE operator. It takes the loop
    bound `ScanBound` as the code computes it, an `int`
    `(1 << (32 - prefix)) - 1`.
  * `AllocateStaticIp` adds the no-`/` early return.
  * `FirstFreeHost` is the reference taken from spec section 4.4: the
    least free host offset from 10, below the broadcast address.
  * An address is a host offset in an aligned subnet.
* **`ServerRegistry`** is the server library.
  * *State.* `clients` is the record table as a sequence (stored common
    name, static address, revoked flag). `running` is `is_running` and
    `ctxFreed` records that cleanup freed `ctx`.
  * *Threads.* `srv[t]` and `mon[t]` are the server and monitoring
    threads of the t-th start that created threads, with a program counter
    and a join count. `srvHandle` and `monHandle` are the two `pthread_t`
    fields (0 = never set). `cl[c]` is a caller's program counter.
  * *Atomic steps.* `create_client`, `revoke_client` and one monitoring
    pass each run under `clients_mutex` (and `stats_mutex`), so each is
    one step. `start`, `stop` and `cleanup` take no lock. They are split
    where `is_running` or a handle can change in between.
  * *Environment.* The outcomes of `context_init_2` (`Init2Results`) and
    of `pthread_create` (`CreateResults`) are choices. So is whether
    `tunnel_server` ever returns (`SrvExit`, guarded by `EngineReturns`).
  * *Names.* `Stored(n)` is the `strncpy` into 256 bytes. `SameText` is
    the `strcmp` with the caller's full string, so a name in `LongNames`
    never matches its own stored copy.
  * *Configurations.* `ConfigInputs`, what `create_session` and
    `update_config` receive, is the set of (contains `client`,
    `auto_reconnect`) facts of every successful parse of `ClientDocs`:
    * the two documents of `example_client_usage.c`;
    * a profile-only document, which gets no defaults;
    * a server profile with auto-reconnect on, and one with it off;
    * a document without profile text, and one cJSON cannot parse (both
      fail, so they add nothing).
  * *Fault variants.* `FullPastEnd`, `DuplicateSkipLast`, `InUseSkipLast`,
    `StopNoCheck` (and `ScanPastBound` in
    `StaticIpAllocation`).
* **`ConfigParsing`** holds the two JSON parsers as pure operators over a
  cJSON tree. An object is a record of its keys, a string is what the
  code reads of it, and a number is its integer value. `NoItem` is the
  NULL of a missing key, and `Malformed` is text that `cJSON_Parse`
  rejects.
  * `ParseClientConfigJson(doc)` returns the return code and the
    configuration:
    * JSON_PARSE before the `memset`, with the configuration untouched;
    * CONFIG_INVALID without profile text, with `profile_name` already
      strdup'd;
    * otherwise the strdup'd string set, the flags and the numbers.
    The defaults 30, 10, 1500 and 5 are used only inside a present
    `connection` or `settings` object (`NumberOr`).
  * `ParseServerConfigJson(cfg, doc)` is `parse_server_config_json` on
    the configuration it is given:
    * `StringKeys`, `NumberKeys` and `BoolKeys` say where each field is
      read from (and, for strings, the size of its char array);
    * a present string is cut by `Strncpy` to the size - 1;
    * `DnsItems` copies the first two `dns_servers` elements;
    * absent keys keep the value they had;
    * a present key of the wrong type makes the result `defined = FALSE`
      (`strncpy` from NULL, a NaN converted to int).
* **`ProfileBuilder`** is `build_client_ovpn_config` as a pure operator.
  * *Abstraction.* Every `pos += snprintf(config + pos, 8192 - pos, ...)`
    becomes `Snprintf(b, n)`, where `n` is what snprintf returns: the
    format's literal characters plus the `strlen` of each `%s` and the
    decimal width of each `%d` (`DecimalWidth`).
  * *State of a build.* A build `b` records `pos`, the largest offset a
    call started at (`maxStart`), and the credential lines fgets read but
    never copied (`dropped`).
  * *Structure.* The operator keeps the function's order: the header
    (`HeaderLength`), the flag-guarded directives (`SnprintfIf`), the
    route and DNS loops (`FoldLeft`), and the inline blocks or the file
    references. The inline blocks use `InlineFile` around the RECURSIVE
    `CopyLines`, which is the `fgets ... && pos < 7900` loop.
  * *Files.* A credential file is whether `fopen` succeeded and the
    lengths of the chunks fgets returns, at most 255 each.
  * *Fault variant.* `CopyLinesUnguarded`.
* **`MC_ClientRegistry`** holds the bounds (`Single_*`, `Pair_*`,
  `Reuse_MaxSessionId`), the call repertoires (`AllCalls`,
  `LifecycleCalls`, `ConfigCalls`), the callback choices
  (`NoCallbackArg`, `WithCallback`) and the caller symmetry.
* **`MC_ServerRegistry`** holds:
  * the server bounds (`Subnet28`, `Registry_MaxClients`,
    `Lifecycle_MaxStarts`) and repertoires;
  * the allocator's input set (`Subnets`, `UsedWindow`);
  * `ScanIsFirstFit`, which checks the scan on every input of that set
    (`FirstFitOnAllInputs`, a constant evaluated once) and on the current
    table;
  * the server configurations: `InitServerConfig` (what
    `ovpn_server_init` leaves) and `ServerDocs`:
    * `ExampleServerJson`, the `server_config_json` of
      `example_server_usage.c`;
    * `LongestServerJson`, with every string longer than its field,
      three DNS servers and a `listen_port` of -2147483647;
    * `MistypedServerJson`, a number where a string is read;
    * `Malformed`.
    `ServerConfigs` is what each defined load leaves, seen through
    `ProfileView`. A failed parse leaves the defaults.
    `ExampleServerConfig` is the configuration the example loads;
  * the other profile inputs: `ClientRecords`, `ProfileOptions` (every
    flag) and `CredentialFiles`;
  * `ExampleOptions`, the options `example_server_usage.c` passes;
  * `ProfileFitsBuffer`, which checks every input combination (a
    constant) and, on every record of the current table, the example's
    options with the example's loaded configuration.

### How actions correspond to the code

| Code | Actions |
|---|---|
| `create_session` | `CreateSession` (registry section), `CreateEmit` ("Session created" after the unlock) |
| `connect` | `Connect` (checks via `ConnectRefused`, `pthread_create` via `Spawn`), `ConnectState` (CONNECTING under `state_mutex`), `ConnectEmit` |
| `disconnect` | `Disconnect`/`DisconnectBody` (checks, clear `thread_running`), `DiscRead` (read `worker_thread`), `DiscJoin`, `DiscState`, `DiscEmit` |
| `destroy_session` | `DestroySession` (its disconnect), `DestroyFree` (second registry section: free, memset) |
| `get_next_event` | `GetNextEvent` (lookup), `GetTake` (dequeue under `event_mutex`) |
| `client_event_handler` | `Post` inside every emitting action (`CreateEmit`, `ConnectEmit`, `DiscEmit`, `LatencyEmit`, `AuthEmit`, `WEmit`, `WREmit`, `WMonitor`), then `Callback` (the user callback, after the unlock) |
| `test_latency` | `TestLatency` (lookup and connected check), `LatencyEmit` |
| `send_auth` | `SendAuth`, `AuthEmit` |
| `update_config`, `set_auto_reconnect` | `UpdateConfig`, `SetAutoReconnect` (one section each) |
| `pause`, `resume` | `Pause` = `Disconnect`, `Resume` = `Connect` |
| `api_cleanup` | `Cleanup` (lock), `CleanupScan`; the destroy it then calls blocks on the lock cleanup holds, so the caller stays at `cleanup_destroy` |
| `client_worker_thread` | `WTop` (flag test, state read), `WAct` (handshake write, or the auto-reconnect test), `WEmit`, `WMonitor` (CONNECTED pass: `update_client_stats`, `update_quality_metrics`, periodic `test_latency`), `WRSleep`, `WREmit`, `WExit` |

| Server code | Actions |
|---|---|
| `ovpn_server_init` | `Init` (`InitServerConfig` for the configuration) |
| `load_config_json` | `ParseServerConfigJson` (operator; the run's profile configurations are its results) |
| `create_client` | `CreateClient` (capacity test `Full`, duplicate loop `Duplicate`, `AllocateStaticIp` over `InUse`) |
| `revoke_client` | `RevokeClient` (the post-unlock `currently_connected` branch is dead: nothing sets the flag) |
| `start` | `Start` (unlocked `is_running` test), `StartServer` (set `is_running`, create the server thread), `StartMonitor` (create the monitor; on failure cancel `ctx->server_thread`) |
| `server_thread_func` | `SrvInit2` (`context_init_2` fails or not), `SrvExit` (`tunnel_server` returns), `SrvCancelled` |
| `monitoring_thread_func` | `MonCheck` (loop test), `MonPass` (the locked pass and the sleep) |
| `stop` | `Stop`/`StopBody` (test, clear `is_running`), `StopJoinSrv`, `StopJoinMon` |
| `cleanup` | `Cleanup` (stop only if running), `CleanupFree` |
| `build_client_ovpn_config` (after the lookup) | `BuildClientOvpnConfig` (operator, no action: it changes no shared state) |

Data is abstracted to what the properties distinguish:

* an event is its session id and type;
* a configuration is "contains `client`", `auto_reconnect` and whether
  the session owns its strings. The first two come from parsing the
  client documents.

Timers (stats interval, ping interval) are free choices. Statistics,
quality numbers, messages and timestamps are left out.

## 3. Runs

| Run | Expect | Checks | Shows |
|---|---|---|---|
| `client_single` | pass | `TypeOK`, `AtMostOneWorkerPerSession`, `NoWorkerOnFreedSlot`, `ChannelRefinement`, `WorkerStopsWhenCancelled` | With one application thread and a callback on every session (the example's usage), the lifecycle invariants hold, the ring implements the channel, and a cancelled worker returns. |
| `client_concurrent` | pass | `TypeOK`, `ChannelRefinement` | With two racing callers and the stray workers they leave, the ring still changes only by post, take or reset on a change of session. |
| `client_config` | pass | `TypeOK`, `AtMostOneWorkerPerSession`, `NoWorkerOnFreedSlot` | Reconfiguration, pause and resume keep the lifecycle invariants, and the run never deadlocks. |
| `server` | pass | `TypeOK`, `ScanIsFirstFit`, `ProfileFitsBuffer`, `UniqueLiveFittingNames`, `DistinctLiveAddresses`, `JoinsAreValid` | With one application thread calling every server function and every engine and thread-creation outcome, the scan is first fit and no profile build writes outside its buffer. Live names that fit their 256-byte field are unique, even beside a long name stored cut (`LongNames = {n2}`). Live addresses are unique, and stop joins each existing thread at most once. |
| `race_double_worker` | violation | `AtMostOneWorkerPerSession` | connect inside disconnect's unlock-to-join window starts a second worker. |
| `race_destroy_live_worker` | violation | `NoWorkerOnFreedSlot` | connect between destroy's disconnect and its free. |
| `callback_event_taken` | violation | `CallbackEventQueued` | while a worker is in the callback of an event it posted, the application's `get_next_event` dequeues that entry (and the example frees its message and data). |
| `stray_free` | violation | `NoStrayFree` | `update_config` aliases the caller's strings, which are freed later. |
| `server_revoked_reuse` | violation | `RevokedAddressesReused` | a revoked client's address is never handed out again (spec section 8 says it is). |
| `server_two_monitors` | violation | `AtMostOneMonitor` | a start after the engine failed or returned runs a second monitor beside the unjoined first. |
| `server_cleanup_uaf` | violation | `NoThreadOutlivesContext` | cleanup after a failed start frees `ctx` under a thread that was never joined. |
| `server_stop_hangs` | violation | `StopReturns` | stop joins an engine thread it never asks to return. |

Some properties in the modules are not checked by any run. TLC finds
each of them violated when it replaces a run's property in that run's
cfg:

* `CleanupTerminates`: `api_cleanup` holds `g_sessions_mutex` and the
  destroy it calls locks it again, so it never returns once a session is
  active (`client_single`'s cfg).
* `NoDoubleJoin`: two concurrent disconnects join one worker (Pair
  bounds).
* `NextEventOfOwnSession`: `get_next_event` dequeues the next session's
  events after a destroy and a create (Pair bounds with
  `Reuse_MaxSessionId`).
* `OmittedGroupsTakeDefaults` (ClientRegistry): a document without the
  `connection` group parses to a `reconnect_interval` of 0, not the
  default 30 of spec section 6. It is a constant, and TLC evaluates it
  FALSE.
* `LoadRejectsMistypedDocuments` (MC_ServerRegistry): loading
  `MistypedServerJson` is undefined, not an error return.
* `SpecifiedCapacityRetained`: the ring holds `MAX_EVENT_QUEUE_SIZE - 1`
  events.
* `EveryRecordAddressed`: an exhausted subnet still creates a record,
  without an address, with `Registry_MaxClients`.
* `UniqueLiveNames` (the `server` run's own cfg): a name of 256
  characters or more can be created twice, because its stored copy is
  cut and never equals the caller's string. The run checks
  `UniqueLiveFittingNames` instead.
* `HandshakeHasWorker` with two callers (`client_concurrent`'s cfg, 13
  states):
  1. c1's connect spawns the worker and unlocks (line 342).
  2. c2 disconnects completely while the worker exits (line 739).
  3. c1 then writes CONNECTING (line 345).
  The session is left in a handshake state with no worker. With one
  caller this cannot happen, so no single-caller run claims the
  property.
* `JoinsAreValid` with two callers: a stop between start's two
  `pthread_create` calls joins a `monitoring_thread` handle that was
  never set.

The findings in `PROJECT.json` give the source line and the disagreement
behind each violation.

### Bounds

* **`Single`** (one caller): one slot, ring size 3 (capacity 2), session
  ids 1..3, three worker threads. These bounds are enough for:
  * a full table (create with no free slot);
  * reuse of the slot by a later id;
  * three connect/disconnect cycles, each spawning a worker;
  * a ring that overflows on a single monitoring pass.
* **`Pair`** (two callers): one slot, ring size 2, one id, two worker
  threads. Every two-call race on one session needs just one slot and one
  id, and the second thread is the one a racing connect spawns.
  `NextEventOfOwnSession` needs a second id (`Reuse_MaxSessionId`) so
  that a new session can take the slot.
* **Callbacks.** `client_single` and `callback_event_taken` register a
  callback on every session, as the example does; the other client runs
  pass none, which keeps `client_concurrent` within its time budget. With
  ring size 3 a worker's pending entry can be dequeued, dropped by a
  full ring, or overwritten after two more posts.
* **Calls.** `LifecycleCalls` leaves out the configuration setters,
  which only flip the `auto`, `valid` and ownership flags; `client_config`
  covers those. Together the three passing runs fire every action.

Caller threads are symmetric (`CallerSymmetry`), which is used only in
safety runs.

* **Server.** The `server` run has one caller and two names, one of them
  long (stored cut), a /28 subnet and three records.
  * Three starts cover a restart after an engine failure or exit and a
    start after a failed thread creation.
  * The allocator is checked on its own over prefixes /20 to /32, a
    subnet with no `/`, and every set of used offsets in 9..16. That
    covers the first host, the /28 broadcast and the empty ranges of /30
    to /32.
  * The registry violation run uses six records on the /28, one more
    than it has hosts.
  * The server configurations are the defaults, the example's, and the
    longest: every string field that `build_client_ovpn_config` prints
    at its `strncpy` limit, with compression and both DNS servers set.
  * The profile build is checked on 3 server configurations x 2 name
    lengths x 256 option combinations x 4 x 4 credential files.
    * The files are: none, empty, and 40 chunks of 255 characters (with
      the empty file counted twice, once for the certificate and once for
      the key).
    * A 40-chunk file alone passes offset 7900 from any starting offset,
      so the loop always stops on its guard.
    * Because the starting offset varies with the inputs, a last chunk
      starts at many offsets just below 7900.
    * Deeper recursion (125 PEM lines of 65) exceeds TLC's stack under
      coverage. Those lines are shorter than 255, so they add nothing
      past the guard.
  * Prefixes below /20 only lengthen the scan past the used window. A
    prefix of 0 or above 32 is an undefined shift and is left out.

### Fairness

* Weak fairness for every step of a call in progress (`CallerStep`) and
  for every worker step (`WorkerStep`). A thread that has been created
  and is not blocked keeps being scheduled by the OS. Both include the
  callback returning: the spec (section 6) requires a callback not to
  block, and the example's only prints.
* Starting a new call is the application's choice, so it has no
  fairness.
* The monitoring timers are free choices and are not fair either. A
  worker may never ping.

* **Server.** Weak fairness for a call in progress (`CallerStep`), for
  `context_init_2` and cancellation (`ServerStep`) and for the monitoring
  loop (`MonitorStep`). `tunnel_server` returning (`SrvExit`) has no
  fairness: the engine decides when it returns and does not read
  `is_running`. That missing fairness is why `StopReturns` fails.

### Deadlock

Runs whose repertoire includes `api_cleanup` set `CHECK_DEADLOCK FALSE`.
In them the program really does stop (the cleanup self-deadlock, or a
disconnect joining a worker no one stops). `client_config` checks
deadlock. The server runs set `CHECK_DEADLOCK FALSE` because cleanup
frees the context and the program ends there.

## 4. Not modelled, and why

* **`ovpn_client_api_init`.** The model starts from the state it leaves.
* **Getters.** They change nothing.
* **Callbacks that re-enter the API.** The modelled callback is the
  example's, which only reads the event. No code in the repository
  supplies one that calls back into the library, so the `state_mutex`
  self-deadlock of `openvpn_client_api.c:855` is not reached. A callback
  whose `session->event_callback` is set again between the post and the
  read after the unlock (a destroy and a create in that window) is left
  out.
* **Statistic and quality values and the shared static buffers behind
  them.** These are data races on values, not control.
* **`g_next_session_id` wrap.** It needs 2^32 creates.
* **`ovpn_client_free_config`.** It frees every string and zeroes the
  struct. The session table's ownership flags already track whose
  strings a session frees.
* **The example programs' `main`.** Their JSON documents and options are
  inputs of the runs. The control flow of `main` is not modelled,
  including the cleanup path that frees a configuration `cJSON_Parse`
  never initialised.
* **Numbers outside TLC's integers.** A negative interval converted to
  `uint32_t` is one of them.
* **Certificate generation and server event delivery.**
  `generate_client_certificate_files` is a stub.
  `server_event_handler` calls the callback synchronously and keeps no
  state.
* **Server getters, and functions the header declares but the source
  does not define.** The getters are `get_client_info` and
  `get_statistics`. The declared-but-undefined functions are
  `set_client_static_ip`, `add_client_route`, `list_clients` and
  `disconnect_client`.
* **Inline CA material.** `ca_cert_content` is never loaded from
  `ca_cert_path`, so an inline `<ca>` block is always empty. The model
  keeps its length at 0.
* **The record lookup of `generate_client_config`.** It reads one record
  under `clients_mutex` and changes nothing. The check runs the build for
  every record of the current table instead.
* **`currently_connected`.** Nothing in the code sets it, so the
  monitor's count and revoke's disconnect branch have no effect.

## 5. What is left

1. **Concurrent server callers.** A run with two callers for the
   start/stop race. The property is stated (`JoinsAreValid`) and TLC
   finds the race.
2. **Client callbacks that re-enter the API.** These are needed for the
   `state_mutex` self-deadlock hazard.
3. **The example client's failure path.** A module for `main` of
   `example_client_usage.c`, with `cJSON_Parse` failing, would check
   that cleanup frees only initialised configurations.
4. **Silently truncated credentials.** `ProfileBuilder` already counts
   the lines the copy loops leave out (`dropped`). A violation run on
   that count needs a run slot.
