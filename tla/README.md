# Formal models of the metaverse P2P networking core

This directory holds TLA+ models of the peer-to-peer networking layer of the
repository (`src/src/lib/network/`): the outbound **connector** and the **p2p
service** that owns the sessions, the host cache, the connection pool and the
thread pool. It also models the wallet commands the node serves
(`getnewaddress`, `exportaccountasfile` and the miner's `start`), the
command-line client that posts them, and the offline account tools. TLC
configurations model-check the models on small instances. TLAPS proves
their type and safety invariants for every instance, and proves that the
connector refines an abstract connector.

## 1. The system and its parts

| Part | Source | Role |
|---|---|---|
| Connector | `src/src/lib/network/connector.cpp` | `connect(host, port, handler)`: resolve the name, then for **every** resolved address create a socket and a deadline, register the socket in `pending_`, start the deadline and `async_connect`. The deadline and the connect race. `stop()` cancels the resolver, sets `stopped_` under an upgradeable lock, then clears `pending_` (cancelling the sockets) outside the lock. |
| P2P service | `src/src/lib/network/p2p.cpp` | `start()` is a chain of continuations: manual session start, then the host cache load, then the seed session start. `run()` starts the inbound and then the outbound session. `stop()` stops the host cache, sets `stopped_`, releases the manual session, stops and notifies the subscribers, stops the connection pool and shuts the thread pool down. `close()` is `stop()` plus a join of the pool. `connect(host, port, handler)` hands a request to the retained manual session. The query surface forwards to the host cache and the connection pool. |
| Manual session protocols | `src/src/lib/node/sessions/session_manual.cpp` | attaches the six protocols to a new channel |
| Host cache, connection pool, subscribers, sessions, thread pool | not in the repository (libbitcoin) | collaborators, described by `spec.md` |
| Wallet commands | `src/src/lib/explorer/extensions/wallet/getnewaddress.cpp`, `exportaccountasfile.cpp` | `getnewaddress` loads the account, then for each requested address derives the key at the account's `hd_index`, increments the index, stores the account, then stores the address record. `exportaccountasfile` checks its arguments and writes the account to a file. |
| Miner `start` | `src/src/lib/explorer/extensions/miner/start.cpp` | runs `getnewaddress` when the miner has no payment address, then `miner.start()`. The miner itself is not in `src/`. |
| mvs-cli | `src/src/mvs-cli/main.cpp` | runs a local command, or posts an extension command to the node's RPC and exits on the reply or on a 3000 ms timeout |
| mvs-tools, mvstools | `src/src/mvs-tools/main.cpp`, `src/builds/msvc-140/mvstools/mvstools.cpp` | open the account table and print the mnemonic of the account named on the command line |

The two modelled parts interact through the sessions. Each session owns a
connector, and `p2p::stop()` reaches the connectors only through the sessions
(the pool shutdown and the session stop). The two are modelled as separate
components, and section 6 plans their composition.

None of the p2p calls takes a lock, so concurrent callers (the node's main
thread, the signal handler's `close()`, RPC threads) interleave at every
statement that reads or writes shared state. The connector guards `stopped_`
and the resolver with a `shared_mutex`. Its socket, timer and resolver
callbacks run on the pool's threads in any order.

## 2. Modules

### Connector.tla: `connector.cpp`
- **Constants.** `Requests`: connect() calls. `Addrs`: the addresses a name can resolve to. `Stoppers`: threads calling `stop()`. `NoAddr`: the address of a completion that has none.
- **State.**
  - `stopped` is `stopped_`.
  - `req[r]` is the phase of call r: pending resolve, resolved, failed, canceled or handled.
  - `resolved[r]` is the resolver's answer.
  - For each attempt (r, a): `sock[t]` is the socket state and `timer[t]` the deadline state.
  - `pending` is `pending_`.
  - `delivered[r]` is the sequence of (address, code) pairs the handler received.
  - `stopPc[s]` is where a `stop()` caller is, between `safe_stop()` and `pending_.clear()`.
- **Actions.**
  - `connect(r)`: the stopped test, then dispatch or `async_resolve`.
  - `handle_resolve(r)`: the ordered early returns for stopped, then error, then `do_connecting` for all resolved addresses in one step (the shared lock is held over the loop).
  - `safe_stop(s)` and `stop(s)`: the flag and the resolver cancel under the lock, then the clear outside it.
  - `handle_timer(t)`: cancels the socket unconditionally.
  - `handle_connect(t)`: `timer->stop()`, `pending_.remove`, then the handler with `success` or the mapped error.
  - The environment is asio: `ResolveSucceed`/`ResolveFail`, `SocketComplete` (connected or refused) and `TimerExpire`. A cancel turns a connecting socket into `aborted`, which asio queues like any other completion.
- **Properties.** `ExactlyOnce`, `StopCancelsAll`, `PendingOnlyInFlight` and `EveryCallAnswered`. There are two properties the code violates (section 3).

### P2P.tla: `p2p.cpp`
- **Constants.** `Callers`: the threads calling the API. `MaxCalls`: the calls each makes. `Authorities`: the peers the sessions connect to.
- **State.**
  - `stopped` is `stopped_`.
  - `hosts` is the host cache's started flag.
  - `manual` records that `manual_` holds a session.
  - `pool` is the thread pool: joined, running or shut down.
  - `pc[c]` is the link of the call each caller is in.
  - `results[c]` holds the codes the caller's start and run handlers received. `handlerCalls[c]` counts its start and run calls.
  - `connectAnswer[c]` is the outcome of its last `connect(..., handler)`.
  - `stopReturned` records that a stop() or close() returned and no start() has spawned since.
  - `subscriber` is the shared state of `channel_subscriber_` and `stop_subscriber_` (started or stopped). `subscribed[k]` holds the callers with a handler waiting in list k. `subCalls[c][k]` and `notes[c][k]` count the subscriptions and the invocations.
  - `conns` holds the authorities registered in `connections_`, and `connsStopped` records that the pool was stopped.
- **Actions.** Every link of a chain is one action, split where the code yields to the pool or where nothing holds a concurrent call off:
  - `start` (the stopped test), `start_spawn` (join, spawn, `stopped_ = false`, line 81) and `start_attach` (the subscribers' start, then attaching and storing the manual session, lines 82-93). The split at line 81 is where a concurrent stop() can run.
  - `handle_manual_started`, `handle_hosts_loaded` (including `hosts_->start()`) and `handle_started`.
  - `run`, `handle_inbound_started` and `handle_running`.
  - `stop` (`hosts_->stop()`) and `stop_signal`, the rest of `stop()`. That rest is `StopSignal`: the flag, the manual session, the subscribers' stop and their service_stopped invocation, the connection pool's stop and the pool shutdown.
  - `close`, `close_signal` and `close_join`.
  - `connect` (the stopped test) and `connect_load` (`manual_.load()`).
  - `subscribe(c, k)`: `subscribe_connection` or `subscribe_stop`.
  - `session_store(a, notify)`: a session's `store()` of a new channel on a pool thread, with `handle_new_connection`'s relay. `channel_removed(a)` is `remove()`.
  - Sessions answer with success or `session_failed`. A host cache start fails with `operation_failed` when the cache is already started, and with `load_failed` when the file cannot be read.
- **Collaborators, from spec.md.** The subscriber and the connection pool are libbitcoin classes, so they follow the spec (sections 3 and 4.2):
  - a subscriber is stopped until started;
  - it answers a subscription made while stopped at once with service_stopped;
  - an invocation calls every waiting handler once and empties the list (`Invoke`, `Notified`);
  - the pool refuses a second channel for an authority, and every channel once it is stopped.
- **Join.** `threadpool::join()` (the thread pool is libbitcoin's) returns only when the pool was shut down and no handler is left. That is `JoinReturns`, and it is what the spec's "close blocks until all work has drained" says.
- **Properties.** `TypeOK` and `HandlerOnce` hold. `CallsReturn`, `ShutdownComplete`, `ConnectNeverDropped` and `RestartAcceptsChannels` are properties the code violates (section 3).


### ConnectorSpec.tla: what the connector promises
- **State.** `stopped`; `call[r]` is idle, waiting (resolve outstanding), answered (ended without attempts) or attempting; `att[t]` is none, outstanding or answered; `delivered` is as in `Connector`.
- **Actions.** `Call`, `Fail`, `Attempt(r, S)` (one attempt per address of a non-empty set, only while not stopped), `Complete` (an outstanding attempt answered once) and `Stop`.
- **Refinement mapping** (end of `Connector.tla`). `stopped` and `delivered` map to themselves. `AbsCall` maps a call that is idle to idle, one not yet through `handle_resolve` to waiting, and a handled call to attempting if `do_connecting` made sockets for it, else answered. `AbsAtt` maps an attempt with no socket to none, one whose socket is in flight to outstanding, and the rest to answered. `ImplementsSafety == Abs!SafetySpec`. The connector's liveness is stated directly, as `EveryCallAnswered`, rather than as a refinement with fairness.

### AccountSpec.tla: what the account database promises
- **State.** `next`, the account's `hd_index`, and `issued`, the key index of each recorded address, in order.
- **Actions.** `Reserve` moves the index forward by one. `Issue` records an address at the index reserved last (`next - 1`), if none was recorded there yet. A reserved index that never gets a record (a failed derivation, a crash) is skipped for good.
- **Refinement mapping** (end of `Wallet.tla`). `next <- hdIndex` and `issued <- stored`: the abstract state is exactly the persistent part of the wallet. `ImplementsAccount == Account!Spec`.

### Wallet.tla: the wallet commands, the miner's start and mvs-cli
- **Constants.** `MaxCount`: the largest count a request asks for. `MaxIndex`: a bound on `hd_index`. `MaxPosts`: the client's posts. `WalletAssumption` requires `MaxCount >= 1`, because `start` asks for one address.
- **State.**
  - The account database, which survives a crash: `hdIndex` (the stored `hd_index`) and `stored`, the key indices of the stored address records, in order.
  - The node: `pc` (the step of the running command), `caller` (client or start), `accIdx` (the in-memory index), `key`, `todo` (addresses left), `serving` (the post being answered) and `inbox` (posts not yet taken).
  - `minerAddr` (the miner has a payment address), `exportFile` and `exportReply`.
  - The client: `cliPc`, `cliPost`, `posts`, `cliExit` (main's exit status) and `cliOutcome` (what the command really did).
- **Actions.**
  - `serve_getnewaddress`, `serve_start` and `serve_export` take the next post, one at a time.
  - `getnewaddress` is its loop: `derive` (every `dispatch_command` step can fail; a failure replies with an error), `store_account`, then `store_address`.
  - `miner_start`, and `export_write` (the file write, whose result is not checked).
  - `crash`: the node dies. The database keeps what was stored; the running command and the pending posts are lost; a waiting client's post fails.
  - The client: `cli_local`, `cli_post(c)` and `cli_timeout`.
- **Properties.** `NoKeyReused`: no two address records were derived at the same key index, whatever fails or crashes between the two stores. It holds. `ImplementsAccount`: the database behaves as `AccountSpec`. The model also records whether the export file was written, what the client's exit status says, and what its command really did. Section 6 lists what the code does there.

### AccountTools.tla: mvs-tools and mvstools
- **Constants.** `Names` and `Passwords`. An account is a name with its password.
- **State.** The table (`accounts`), the command line (`argc`, `argName`, `argPass`), whether the table file exists, the walk (`pc`, `todo`), and what was printed (`out`, `notFound`) and the exit status.
- **Actions.** `ToolsSpec` has `tools_start` (argument and file checks), `tools_visit(n)` (one account of the walk, in any order) and `tools_not_found`. `MsvcSpec` is the msvc-140 build: `msvc_start`, `msvc_visit(n)` and `msvc_end`.
- **Properties.** `NotFoundOnlyIfAbsent`: "not found" is printed only when the table has no account of that name, whatever order the walk takes; it depends on both branches for the named account (match or wrong password) ending the program. `PrintsOnlyOwnMnemonic` (only the named account's mnemonic, only with its own password) is checked against the msvc-140 build only, where it fails; for mvs-tools it would restate the guards of `tools_visit`.

### ConnectorProofs.tla, ConnectorOnceProofs.tla, P2PProofs.tla, WalletProofs.tla, AccountToolsProofs.tla
These hold the TLAPS proofs about `Connector`, `P2P`, `Wallet` and `AccountTools` (section 5).

### MC_Connector.tla, MC_P2P.tla, MC_Wallet.tla, MC_AccountTools.tla
These instantiate the constants with model values and define the symmetry sets.

## 3. Runs

| Run | Config | Result | What it shows |
|---|---|---|---|
| connector_safety | MC_Connector.cfg | pass, about 315k states | 2 requests × 2 addresses × 2 stoppers, symmetric in all three. The three safety properties hold in every interleaving of resolves, timers, completions and stops. So does `ImplementsSafety`: under the refinement mapping every behaviour is a behaviour of `ConnectorSpec`. |
| connector_live | MC_Connector_live.cfg | pass | 1 request, 2 addresses, 1 stopper. Every connect() is eventually answered, even when the peer never answers. |
| connector_timer_kills_channel | MC_Connector_TimerNeverKillsChannel.cfg | violation | **Finding.** The deadline expires, the connect then succeeds, and `handle_connect` stops the timer and hands out a channel. The already-queued `handle_timer` then cancels that channel's socket. |
| p2p_safety | MC_P2P.cfg | pass, about 1.33M states | 2 threads × 3 calls each, 1 authority, symmetric in the threads. Every start/run handler is called exactly once per call. |
| p2p_calls_race | MC_P2P_CallsReturn.cfg | violation | **Finding.** Two start() calls both pass the unlocked stopped() test, or a close() races a start(). The loser blocks in `threadpool_.join()` until some later stop(). |
| p2p_stop_inside_start | MC_P2P_ShutdownComplete.cfg | violation | **Finding.** A stop() between start()'s `stopped_ = false` (line 81) and `manual_.store()` returns first. start() then restarts the subscribers and retains a manual session on the stopped service. The same happens one link later: a stop() between `handle_manual_started`'s test and `hosts_->start()` returns with the host cache started again. |
| p2p_connect_dropped | MC_P2P_ConnectNeverDropped.cfg | violation | **Finding.** A connect() whose `manual_.load()` finds no session drops the handler without calling it. This happens when the connect() races a stop(), or lands between start()'s line 81 and `manual_.store()`. |
| p2p_restart_refuses_channels | MC_P2P_RestartAcceptsChannels.cfg | violation | **Finding (spec gap).** `connections_` is made once in the constructor and stopped by every stop(), but start() never restarts it. After any stop(), even one before the first start(), the started service refuses every channel. |
| wallet_safety | MC_Wallet.cfg | pass, about 23k states | `MaxCount = 2`, `MaxIndex = 4`, `MaxPosts = 3`. `NoKeyReused` holds under derivation failures, crashes between the two stores, client timeouts and retries. So does `ImplementsAccount`: the database only reserves indices one by one and records an address once, at the index reserved last. |
| account_tools | MC_AccountTools.cfg | pass | Every table of up to three accounts, every argument count and command line: mvs-tools says "not found" only when the account is absent, whatever order the walk takes. |
| mvstools_prints_all | MC_AccountTools_msvc.cfg | violation | **Finding.** The msvc-140 mvstools has its name and password check commented out (mvstools.cpp:43). It prints every account's name and mnemonic, decrypted with the given password. |

**Bounds.**
- **Connector.** Two requests and two addresses give two attempts of one call racing each other and a second call racing the first. Two stoppers exercise the idempotence of `safe_stop`. Every hazard trace above needs at most one request, one address and one stopper, so the bound covers them with room to spare.
- **P2P.** Two threads with three calls each reach every pair of overlapping calls: start against stop, start against close, connect against stop, start against start, and subscribe against stop. A subscribe, a stop and a re-subscribe fit in three calls. One authority is enough for the store path: what the properties tell apart is a stored channel against a refused one (pool stopped, or authority taken), and a second store of the same authority reaches the refusal.
- **Wallet.** A count of two runs the loop twice, so a crash can land between the stores of the second iteration after the first completed. `MaxIndex = 4` lets a start, a failed request and a two-address request all derive keys. Three posts let a client time out, post again and have the node serve the stale post after the retry.
- **Account tools.** Three names and two passwords give a table with the named account, with another account, and with the named account holding another password.
- **Liveness runs.** The connector's liveness run uses one request: with two it takes several minutes, and the request's two attempts already race each other and the stop. `CallsReturn` is checked with two P2P callers only, where it is violated (run p2p_calls_race): with one caller the start/close race it is about cannot happen.

**Deadlock.** `MC_P2P.cfg` and the P2P violation runs set `CHECK_DEADLOCK FALSE`, because the system really does hang there. A caller blocked in join behind a pool that a racing start() respawned has no successor once the other caller has made its calls. `CallsReturn` is the property about that hang.

**Mutants.** Every property of a passing run is broken by a plausible bug in the code it is about, for example:
- a `handle_resolve` without its stopped test;
- a `handle_timer` that also reports `channel_timeout`;
- a `handle_connect` that keeps the socket registered;
- a `handle_manual_started` that does not return after an error;
- a host cache load that reports the file's own error code;
- a `getnewaddress` that skips storing the account, or runs its loop once too often;
- an mvs-tools that skips the password check, keeps walking after a wrong password, or exits with another status.

## 4. Fairness

- **Connector.** Weak fairness applies to the connector's own handlers (`handle_resolve`, `handle_timer`, `handle_connect`), to `stop()`'s second half, and to the resolver and the deadline timer answering. asio runs every queued handler, the resolver always completes, and a started deadline always expires or is canceled. The peer is not obliged to answer: `SocketComplete` has no fairness, so liveness rests on the deadline alone.
- **P2P.** Weak fairness applies to every link of a call already in progress (the sessions call back, and the pool runs the handlers). A caller is never obliged to make a new call. It is used by run `p2p_calls_race`: even under this fairness a call can fail to return.
- **Wallet, account tools.** Only safety is checked, so no fairness is assumed.

## 5. What is proved (TLAPS)

### ConnectorProofs.tla
- `TypeCorrect`: `Spec => []TypeOK`. It is proved from `TypeInit` and `TypeStep`, with one step per action. The lemma `DeliverType` shows that appending a well-typed completion keeps `delivered` well typed (via `AppendProperties`).
- `StopSafety`: `Spec => [](StopCancelsAll /\ PendingOnlyInFlight)`. `StopCancelsAll` is not inductive: a step of `handle_resolve` could add connecting sockets after a stop. The inductive invariant `IInv` adds:
  - `Registered`: every connecting socket is in `pending`, because `do_connecting` stores it before `async_connect`.
  - `StopFlagged`: a stop() past `safe_stop()` has set `stopped_`. `handle_resolve` tests that flag under the lock, so it adds no attempt after a stop.

  TLC checked `IInv` before it was proved. The proof is `InitIInv`, `NextIInv` (one step per action, with `handle_resolve` split on its early returns), then PTL.
- The proofs hold for every finite set of requests, addresses and stoppers, under the module's `ConstantsAssumption`.

- `Refinement`: `Spec => ImplementsSafety`. The proof has two parts:
  - `AbsInit`: the initial states map to `ConnectorSpec`'s initial state.
  - `AbsStep`: every step maps to an abstract step or a stutter. `connect` maps to `Call`; `handle_resolve` to `Fail` or `Attempt` (on the resolved addresses, non-empty when it connects); `handle_connect` to `Complete`; `safe_stop` to `Stop` or a stutter; every other step is a stutter.
  - The step needs the invariant `RInv == TypeOK /\ Fresh /\ ResolvedNonEmpty`. `Fresh` says a call has no socket before its `handle_resolve`, so `connect` and the resolve's early returns map to `Call` and `Fail` and not to a change of attempts. `ResolvedNonEmpty` says a successful resolve returned an address, so `do_connecting` maps to an `Attempt` on a non-empty set.
  - Extensionality lemmas (`ExceptPointwise`, `SamePointwise`) show that the mapped functions change only where the abstract action says.

### WalletProofs.tla
- `TypeCorrect`: `Spec => []TypeOK`.
- `KeysFresh`: `Spec => []NoKeyReused`.
- `NoKeyReused` is not inductive. A state with distinct keys but the in-memory index below a stored key would reuse it. The inductive invariant adds two conjuncts:
  - `IndexAhead`: every stored key is below the stored `hd_index`.
  - `LoopState`: where the loop is, relative to the database. Before `derive` the in-memory index is the stored one. After it, the key is the stored index. After `store_account`, the stored index is one past the key, which is above every stored key.
- Together these say that `store_address` appends a key above every stored one (`AppendFresh`).
- A crash keeps the database and resets the loop to idle, so the invariant survives it. This is why storing the account before the address record matters: the mutant that skips `store_account` breaks it.
- The proofs hold for every `MaxCount >= 1`, `MaxIndex` and `MaxPosts`.

- `AccountRefinement`: `Spec => ImplementsAccount`. `AccountStep` shows `IInv /\ [Next]_vars => [Account!Next]_Account!avars`, one case per action. `store_account` is `Reserve`, because `LoopState` says the in-memory index is the stored one plus one there. `store_address` is `Issue`: `LoopState` gives `key = hdIndex - 1` and every stored key below `key`, so the index has no record yet. Every other action, `crash` included, leaves the database alone and is a stutter. The invariant is the same `IInv` as for `KeysFresh`.

### ConnectorOnceProofs.tla
- `Once`: `Spec => []ExactlyOnce`. `ExactlyOnce` is not inductive on its own: when `connect` or `handle_resolve` answers a request without attempts, the step must know the request has no socket yet (`Fresh`), and when `do_connecting` starts attempts, that the resolved set is non-empty (`ResolvedNonEmpty`); both are in `RInv`, with `TypeOK`. The inductive invariant is `XInv == RInv /\ ExactlyOnce`, with `RInv` from `ConnectorProofs`.
- The proof works one request at a time: `ExactlyOnce` is split into `EO1` (no attempt: one completion once handled), `EO2` (the number of completions of an address equals the number of its finished attempts, counted with `CF` and `FS_AddElement`) and `EO3` (a completion says success exactly for a socket handed to a channel). `EOAll` and `EOAllPrimed` move between the whole and the parts.
- Lemmas per kind of step: `Relabel`/`RelabelAll` (a step that moves no socket between the classes the property tells apart), `AnswerNoAddr` (a resolve that fails or finds the service stopped), `StartAttempts` (`do_connecting`), `ConnectDone` (`handle_connect` appends one completion for its own attempt), and `Untouched` (the other requests). `XStep` has one step per action.
- `PendingInFlight`: `Spec => []PendingOnlyInFlight`, a corollary of `StopSafety`.

### AccountToolsProofs.tla
- `TypeCorrect` and `NotFoundSound`: `ToolsSpec => []TypeOK` and `[]NotFoundOnlyIfAbsent`, for every set of names and passwords.
- `NotFoundOnlyIfAbsent` is not inductive: `tools_not_found` fires on an empty walk, and nothing in the property says the named account was not skipped. The strengthening `NamedAhead` says that while the walk runs, the named account, if the table has it, is still to be visited, because visiting it ends the program. `IInv == TypeOK /\ NamedAhead /\ NotFoundOnlyIfAbsent`; `IInvStep` has one step per action, `tools_visit` split on whether it visits the named account.

### P2PProofs.tla
- `TypeCorrect`: `Spec => []TypeOK`.
- `StartRunHandlerOnce`: `Spec => []HandlerOnce`.
- `HandlerOnce` is inductive together with `TypeOK`, so `IInv == TypeOK /\ HandlerOnce`. These are exactly the invariants of run `p2p_safety`, which checked them first. The type is needed because the counting steps use `Len` on sequences and arithmetic on `Nat`.
- `NextIInv` has one step per action, and under it one per branch of the code: the stopped test, the error test, the subscriber's stopped test, and a stored channel with the notify flag.
- Three lemmas carry most of the work:
  - `QuietStep` covers a link that neither answers nor counts.
  - `AnswerStep` covers a link that ends a start() or run() call with its one handler call.
  - `CallStep` covers entering a call.
- The variables a step may set freely are stated once, as `Frame`.
- The proofs hold for every set of callers, every `MaxCalls \in Nat` (`CallsAssumption`) and every set of authorities.

**Only model-checked.** The following stay with TLC:
- every liveness property (`EveryCallAnswered`, `CallsReturn`), because TLAPS does not reason about fairness or ENABLED;
- the violations, which are counterexamples TLC finds and nothing to prove.

Every safety invariant and every refinement that a passing run checks is proved for every value of the constants.

## 6. Not modelled, and the plan

**Not modelled now.**
- `connect(host, port)` without a handler. It only hands a request to the manual session, and its effect is the channels it makes, which `session_store` models.
- The query surface (`height`, counts, lists), which only forwards. `connected_count` is an operator over `conns`.
- `session_manual::attach_protocols`, which has no state.
- **Seen in the code, not given a run.** Each is a fixed consequence of one line, not of an interleaving:
  - A timed-out attempt is reported as `operation_aborted`, never `channel_timeout`. The code for it is commented out (connector.cpp 232-242).
  - `run()` has no stopped() test (p2p.cpp 167).
  - `start` drops the address its `getnewaddress` generates, and calls `miner.start()` even when that failed (start.cpp 67).
  - `exportaccountasfile` never checks its file write (line 90).
  - mvs-cli returns 0 for every posted command (main.cpp 135).
- The other explorer commands, the RPC server, and the account database's implementation. The model keeps only the database's effect: what was stored survives a crash.
- The miner's implementation (block assembly and the mining thread), which is outside `src/`. `miner.start()` either succeeds or fails.
- The wallet command's key derivation, encryption and JSON output. A key is identified by its index.
- mvs-cli's `wmain`, which only converts the environment and arguments to UTF-8.
- The interleaving of two concurrent `getnewaddress` requests on one account (getnewaddress.cpp:54). The model's node serves one command at a time, as its single RPC work queue does.

**Plan for later sittings.**
1. (Done: `ConnectorSpec` and the proved refinement.)
2. A composition of a manual session with the connector and the connection pool, so that p2p's stop() reaches the connectors through the sessions.
3. Proofs of `ExactlyOnce` for the connector.
4. An abstract p2p lifecycle ("stop() and start() alternate; a returned stop() leaves the service quiescent") that the fixed chain (start guarded by a lock) would refine, against the current code's violations.
