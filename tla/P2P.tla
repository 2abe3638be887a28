--------------------------------- MODULE P2P ---------------------------------
(***************************************************************************)
(* The p2p service lifecycle (src/src/lib/network/p2p.cpp).                *)
(*                                                                         *)
(* start() is a chain of continuations: the manual session's start        *)
(* callback, then the host cache load, then the seed session's callback;   *)
(* each link tests stopped() first.  run() starts the inbound then the     *)
(* outbound session.  stop() stops the host cache, sets stopped_, drops    *)
(* the manual session and shuts the thread pool down; close() is stop()    *)
(* followed by a join of the pool.  None of these calls takes a lock, so   *)
(* the steps of concurrent callers interleave.                             *)
(*                                                                         *)
(* The sessions and the host cache are collaborators whose code is not in  *)
(* this repository: a session's start completes with success or an error;  *)
(* hosts::start() fails when the cache is already started or its file      *)
(* cannot be loaded, hosts::stop() may fail to save.  So are the channel   *)
(* subscribers and the connection pool (spec.md sections 3 and 4.2): a     *)
(* subscriber is stopped until started, answers a subscription made while  *)
(* stopped at once with service_stopped, and hands each event to the       *)
(* handlers subscribed and drops them; the pool refuses a second channel   *)
(* for an authority and, once stopped, every channel.                      *)
(***************************************************************************)
EXTENDS Naturals, Sequences, FiniteSets

CONSTANTS
    Callers,     \* threads of the node process that call the p2p API
    MaxCalls,    \* bound on the calls each caller makes
    Authorities  \* the peer authorities sessions connect to

ASSUME CallsAssumption == MaxCalls \in Nat

Codes == {"success", "operation_failed", "service_stopped", "session_failed",
          "load_failed"}

\* Where a caller is: between calls, or inside one of the calls below.
\* The st_ states are the links of start(), run_ those of run(), and the
\* cn_ state the second half of connect(host, port, handler).
PcStates == {"idle", "st_spawn", "st_attach", "st_manual", "st_hosts", "st_seed",
             "run_inbound", "run_outbound", "stop_signal", "close_signal",
             "close_join", "cn_load"}

\* Links at which a caller waits for a session to call back on the pool.
Waiting == {"st_manual", "st_seed", "run_inbound", "run_outbound"}

\* The two subscriber lists: channel_subscriber_ and stop_subscriber_.
Lists == {"channel", "stop"}

VARIABLES
    stopped,        \* p2p::stopped_
    hosts,          \* hosts_ lifecycle: "stopped" or "started"
    manual,         \* manual_ holds a session
    pool,           \* threadpool_: "joined", "running" or "shutdown"
    pc,             \* where each caller is
    calls,          \* calls each caller has made
    handlerCalls,   \* start() and run() calls each caller has made
    results,        \* what each caller's start and run handlers received
    connectAnswer,  \* the outcome of each caller's last connect(handler)
    stopReturned,   \* a stop() or close() returned and no start spawned since
    subscriber,     \* channel_subscriber_ and stop_subscriber_, started and
                    \* stopped together: "stopped" or "started"
    subscribed,     \* for each list, the callers with a handler in it
    subCalls,       \* subscribe calls each caller has made, per list
    notes,          \* invocations each caller's handlers received, per list
    conns,          \* authorities of the channels registered in connections_
    connsStopped    \* connections_ was stopped

chanVars == <<subscriber, subscribed, subCalls, notes, conns, connsStopped>>

vars == <<stopped, hosts, manual, pool, pc, calls, handlerCalls, results,
          connectAnswer, stopReturned, chanVars>>

TypeOK ==
    /\ stopped \in BOOLEAN
    /\ hosts \in {"stopped", "started"}
    /\ manual \in BOOLEAN
    /\ pool \in {"joined", "running", "shutdown"}
    /\ pc \in [Callers -> PcStates]
    /\ calls \in [Callers -> 0..MaxCalls]
    /\ handlerCalls \in [Callers -> Nat]
    /\ results \in [Callers -> Seq(Codes)]
    /\ connectAnswer \in [Callers -> {"none", "service_stopped", "delegated",
                                      "dropped"}]
    /\ stopReturned \in BOOLEAN
    /\ subscriber \in {"stopped", "started"}
    /\ subscribed \in [Lists -> SUBSET Callers]
    /\ subCalls \in [Callers -> [Lists -> Nat]]
    /\ notes \in [Callers -> [Lists -> Nat]]
    /\ conns \in SUBSET Authorities
    /\ connsStopped \in BOOLEAN

\* p2p::p2p(): stopped_ starts true; the host cache, the pool and the
\* subscriber idle, the connection pool empty.
Init ==
    /\ stopped = TRUE
    /\ hosts = "stopped"
    /\ manual = FALSE
    /\ pool = "joined"
    /\ pc = [c \in Callers |-> "idle"]
    /\ calls = [c \in Callers |-> 0]
    /\ handlerCalls = [c \in Callers |-> 0]
    /\ results = [c \in Callers |-> <<>>]
    /\ connectAnswer = [c \in Callers |-> "none"]
    /\ stopReturned = FALSE
    /\ subscriber = "stopped"
    /\ subscribed = [k \in Lists |-> {}]
    /\ subCalls = [c \in Callers |-> [k \in Lists |-> 0]]
    /\ notes = [c \in Callers |-> [k \in Lists |-> 0]]
    /\ conns = {}
    /\ connsStopped = FALSE

Goto(c, s) == pc' = [pc EXCEPT ![c] = s]

Answer(c, code) == results' = [results EXCEPT ![c] = Append(@, code)]

\* A caller begins a new call.
Call(c) ==
    /\ pc[c] = "idle"
    /\ calls[c] < MaxCalls
    /\ calls' = [calls EXCEPT ![c] = @ + 1]

\* A caller begins a start() or run() call, whose handler it is owed.
HandlerCall(c) ==
    /\ Call(c)
    /\ handlerCalls' = [handlerCalls EXCEPT ![c] = @ + 1]

\* threadpool::join() returns once the threads have exited: the pool was
\* shut down (its work guard released) and no handler is left to run.
Drained == \A c \in Callers : pc[c] \notin Waiting
JoinReturns == pool # "running" /\ Drained

\* One more invocation for each handler in the lists ks.
Notified(ks) ==
    [c \in Callers |-> [k \in Lists |->
        IF k \in ks /\ c \in subscribed[k] THEN notes[c][k] + 1 ELSE notes[c][k]]]

\* subscriber::invoke/relay on the lists ks: every handler in a list is
\* called once with the event and the list is emptied.
Invoke(ks) ==
    /\ notes' = Notified(ks)
    /\ subscribed' = [k \in Lists |-> IF k \in ks THEN {} ELSE subscribed[k]]

-----------------------------------------------------------------------------
(* start()                                                                 *)

\* The stopped() test at the top of start().
start(c) ==
    /\ HandlerCall(c)
    /\ IF stopped
         THEN /\ Goto(c, "st_spawn")
              /\ UNCHANGED results
         ELSE /\ Goto(c, "idle")
              /\ Answer(c, "operation_failed")
    /\ UNCHANGED <<stopped, hosts, manual, pool, connectAnswer, stopReturned, chanVars>>

\* start() goes on: join and respawn the pool, clear stopped_.
start_spawn(c) ==
    /\ pc[c] = "st_spawn"
    /\ JoinReturns
    /\ pool' = "running"
    /\ stopped' = FALSE
    /\ stopReturned' = FALSE
    /\ Goto(c, "st_attach")
    /\ UNCHANGED <<hosts, manual, calls, handlerCalls, results, connectAnswer, chanVars>>

\* The rest of start(): start the subscribers, attach the manual session,
\* retain it in manual_ and start it.
start_attach(c) ==
    /\ pc[c] = "st_attach"
    /\ subscriber' = "started"
    /\ manual' = TRUE
    /\ Goto(c, "st_manual")
    /\ UNCHANGED <<stopped, hosts, pool, calls, handlerCalls, results,
                   connectAnswer, stopReturned, subscribed, subCalls, notes,
                   conns, connsStopped>>

\* Mutant: the error branch of handle_manual_started answers but does not
\* return, so the chain goes on to load the host cache.
handle_manual_started_noreturn(c, ec) ==
    /\ pc[c] = "st_manual"
    /\ CASE stopped -> Goto(c, "idle") /\ Answer(c, "service_stopped")
         [] ~stopped /\ ec # "success" -> Goto(c, "st_hosts") /\ Answer(c, ec)
         [] ~stopped /\ ec = "success" -> Goto(c, "st_hosts") /\ UNCHANGED results
    /\ UNCHANGED <<stopped, hosts, manual, pool, calls, handlerCalls, connectAnswer, stopReturned, chanVars>>

\* handle_manual_started(): the stopped() and error tests.  The host cache
\* start that follows is a separate step: nothing holds stop() off between.
handle_manual_started(c, ec) ==
    /\ pc[c] = "st_manual"
    /\ CASE stopped -> Goto(c, "idle") /\ Answer(c, "service_stopped")
         [] ~stopped /\ ec # "success" -> Goto(c, "idle") /\ Answer(c, ec)
         [] ~stopped /\ ec = "success" -> Goto(c, "st_hosts") /\ UNCHANGED results
    /\ UNCHANGED <<stopped, hosts, manual, pool, calls, handlerCalls, connectAnswer, stopReturned, chanVars>>

\* Mutant: a failed load hands the host file's own error code to the
\* handler instead of a service code.
handle_hosts_loaded_raw(c, loadOk) ==
    /\ pc[c] = "st_hosts"
    /\ LET ec == IF hosts = "started" THEN "operation_failed"
                 ELSE IF loadOk THEN "success" ELSE "file_error"
       IN /\ hosts' = IF hosts = "stopped" /\ loadOk THEN "started" ELSE hosts
          /\ CASE stopped -> Goto(c, "idle") /\ Answer(c, "service_stopped")
               [] ~stopped /\ ec # "success" -> Goto(c, "idle") /\ Answer(c, ec)
               [] ~stopped /\ ec = "success" -> Goto(c, "st_seed") /\ UNCHANGED results
    /\ UNCHANGED <<stopped, manual, pool, calls, handlerCalls, connectAnswer, stopReturned, chanVars>>

\* hosts_->start() then handle_hosts_loaded(): a failed load or a stopped
\* service ends the call, otherwise the seed session is attached and started.
handle_hosts_loaded(c, loadOk) ==
    /\ pc[c] = "st_hosts"
    /\ LET ec == IF hosts = "started" THEN "operation_failed"
                 ELSE IF loadOk THEN "success" ELSE "load_failed"
       IN /\ hosts' = IF hosts = "stopped" /\ loadOk THEN "started" ELSE hosts
          /\ CASE stopped -> Goto(c, "idle") /\ Answer(c, "service_stopped")
               [] ~stopped /\ ec # "success" -> Goto(c, "idle") /\ Answer(c, ec)
               [] ~stopped /\ ec = "success" -> Goto(c, "st_seed") /\ UNCHANGED results
    /\ UNCHANGED <<stopped, manual, pool, calls, handlerCalls, connectAnswer, stopReturned, chanVars>>

\* handle_started(): the seed session called back; the end of start().
handle_started(c, ec) ==
    /\ pc[c] = "st_seed"
    /\ Goto(c, "idle")
    /\ Answer(c, IF stopped THEN "service_stopped" ELSE ec)
    /\ UNCHANGED <<stopped, hosts, manual, pool, calls, handlerCalls, connectAnswer, stopReturned, chanVars>>

-----------------------------------------------------------------------------
(* run()                                                                   *)

\* run(): hand the configured peers to the manual session (connect(peer)
\* has no handler; the channels it makes are session_store events below),
\* attach and start the inbound session.  run() does not test stopped().
run(c) ==
    /\ HandlerCall(c)
    /\ Goto(c, "run_inbound")
    /\ UNCHANGED <<stopped, hosts, manual, pool, results, connectAnswer, stopReturned, chanVars>>

\* handle_inbound_started(): on success attach and start the outbound session.
handle_inbound_started(c, ec) ==
    /\ pc[c] = "run_inbound"
    /\ IF ec # "success"
         THEN Goto(c, "idle") /\ Answer(c, ec)
         ELSE Goto(c, "run_outbound") /\ UNCHANGED results
    /\ UNCHANGED <<stopped, hosts, manual, pool, calls, handlerCalls, connectAnswer, stopReturned, chanVars>>

\* handle_running(): the end of run().
handle_running(c, ec) ==
    /\ pc[c] = "run_outbound"
    /\ Goto(c, "idle")
    /\ Answer(c, ec)
    /\ UNCHANGED <<stopped, hosts, manual, pool, calls, handlerCalls, connectAnswer, stopReturned, chanVars>>

-----------------------------------------------------------------------------
(* stop() and close()                                                      *)

\* The first statement of stop(): hosts_->stop(), the only step that can
\* fail.  Its result only decides stop()'s return value.
stop(c) ==
    /\ Call(c)
    /\ UNCHANGED handlerCalls
    /\ hosts' = "stopped"
    /\ Goto(c, "stop_signal")
    /\ UNCHANGED <<stopped, manual, pool, results, connectAnswer, stopReturned, chanVars>>

\* The rest of stop(): set stopped_, release the manual session, stop the
\* subscriber and invoke it with service_stopped, stop the connection pool
\* (which stops and drops every channel) and shut the pool down.
StopSignal ==
    /\ stopped' = TRUE
    /\ manual' = FALSE
    /\ subscriber' = "stopped"
    /\ Invoke(Lists)
    /\ connsStopped' = TRUE
    /\ conns' = {}
    /\ UNCHANGED subCalls
    /\ pool' = IF pool = "running" THEN "shutdown" ELSE pool

stop_signal(c) ==
    /\ pc[c] = "stop_signal"
    /\ StopSignal
    /\ stopReturned' = TRUE
    /\ Goto(c, "idle")
    /\ UNCHANGED <<hosts, calls, handlerCalls, results, connectAnswer>>

\* close(): stop(), then join the pool.
close(c) ==
    /\ Call(c)
    /\ UNCHANGED handlerCalls
    /\ hosts' = "stopped"
    /\ Goto(c, "close_signal")
    /\ UNCHANGED <<stopped, manual, pool, results, connectAnswer, stopReturned, chanVars>>

close_signal(c) ==
    /\ pc[c] = "close_signal"
    /\ StopSignal
    /\ Goto(c, "close_join")
    /\ UNCHANGED <<hosts, calls, handlerCalls, results, connectAnswer, stopReturned>>

close_join(c) ==
    /\ pc[c] = "close_join"
    /\ JoinReturns
    /\ pool' = "joined"
    /\ stopReturned' = TRUE
    /\ Goto(c, "idle")
    /\ UNCHANGED <<stopped, hosts, manual, calls, handlerCalls, results, connectAnswer, chanVars>>

-----------------------------------------------------------------------------
(* connect(hostname, port, handler)                                        *)

\* The stopped() test: a stopped service answers service_stopped at once.
connect(c) ==
    /\ Call(c)
    /\ UNCHANGED handlerCalls
    /\ IF stopped
         THEN Goto(c, "idle") /\ connectAnswer' = [connectAnswer EXCEPT ![c] = "service_stopped"]
         ELSE Goto(c, "cn_load") /\ UNCHANGED connectAnswer
    /\ UNCHANGED <<stopped, hosts, manual, pool, results, stopReturned, chanVars>>

\* manual_.load(): a retained session takes the request (and will answer
\* it); when there is none the call returns without invoking the handler.
connect_load(c) ==
    /\ pc[c] = "cn_load"
    /\ Goto(c, "idle")
    /\ connectAnswer' = [connectAnswer EXCEPT ![c] = IF manual THEN "delegated" ELSE "dropped"]
    /\ UNCHANGED <<stopped, hosts, manual, pool, calls, handlerCalls, results, stopReturned, chanVars>>

-----------------------------------------------------------------------------
(* Subscriptions and the channel store path                                *)

\* subscribe_connection() (k = "channel") and subscribe_stop() (k = "stop"):
\* the subscriber answers at once with service_stopped when stopped, and
\* otherwise adds the handler to its list.  A caller keeps at most one
\* subscription per list outstanding.
subscribe(c, k) ==
    /\ Call(c)
    /\ UNCHANGED handlerCalls
    /\ c \notin subscribed[k]
    /\ subCalls' = [subCalls EXCEPT ![c][k] = @ + 1]
    /\ IF subscriber = "stopped"
         THEN notes' = [notes EXCEPT ![c][k] = @ + 1] /\ UNCHANGED subscribed
         ELSE subscribed' = [subscribed EXCEPT ![k] = @ \cup {c}] /\ UNCHANGED notes
    /\ UNCHANGED <<stopped, hosts, manual, pool, pc, results, connectAnswer,
                   stopReturned, subscriber, conns, connsStopped>>

\* A session hands a new channel for authority a to p2p::store(), on one of
\* the pool's threads: connections_->store() refuses it when stopped or when
\* the authority is taken, and handle_new_connection() relays a stored
\* channel whose notify flag is set to the subscribers.
session_store(a, notify) ==
    /\ pool # "joined"
    /\ LET ec == IF connsStopped THEN "service_stopped"
                 ELSE IF a \in conns THEN "address_in_use" ELSE "success"
       IN /\ conns' = IF ec = "success" THEN conns \cup {a} ELSE conns
          /\ IF ec = "success" /\ notify
               THEN Invoke({"channel"})
               ELSE UNCHANGED <<notes, subscribed>>
    /\ UNCHANGED <<stopped, hosts, manual, pool, pc, calls, handlerCalls, results,
                   connectAnswer, stopReturned, subscriber, subCalls, connsStopped>>

\* A channel stops and its session removes it: p2p::remove().
channel_removed(a) ==
    /\ a \in conns
    /\ conns' = conns \ {a}
    /\ UNCHANGED <<stopped, hosts, manual, pool, pc, calls, handlerCalls, results,
                   connectAnswer, stopReturned, subscriber, subscribed, subCalls,
                   notes, connsStopped>>

\* The query on the connection pool: p2p::connected_count().
connected_count == Cardinality(conns)

-----------------------------------------------------------------------------

SessionCodes == {"success", "session_failed"}

\* Every caller has made its calls and returned.
Done == \A c \in Callers : pc[c] = "idle" /\ calls[c] = MaxCalls

Next ==
    \/ \E c \in Callers :
         \/ start(c) \/ start_spawn(c) \/ start_attach(c) \/ run(c)
         \/ stop(c) \/ stop_signal(c)
         \/ close(c) \/ close_signal(c) \/ close_join(c)
         \/ connect(c) \/ connect_load(c)
         \/ \E k \in Lists : subscribe(c, k)
         \/ \E ok \in BOOLEAN : handle_hosts_loaded(c, ok)
         \/ \E ec \in SessionCodes :
              \/ handle_manual_started(c, ec) \/ handle_started(c, ec)
              \/ handle_inbound_started(c, ec) \/ handle_running(c, ec)
    \/ \E a \in Authorities :
         \/ channel_removed(a)
         \/ \E notify \in BOOLEAN : session_store(a, notify)
    \/ Done /\ UNCHANGED vars

\* Sessions call back and every call runs to its end; a caller is not
\* obliged to make a new call.
Progress(c) ==
    \/ start_spawn(c) \/ start_attach(c) \/ stop_signal(c) \/ close_signal(c) \/ close_join(c)
    \/ connect_load(c)
    \/ \E ok \in BOOLEAN : handle_hosts_loaded(c, ok)
    \/ \E ec \in SessionCodes :
         \/ handle_manual_started(c, ec) \/ handle_started(c, ec)
         \/ handle_inbound_started(c, ec) \/ handle_running(c, ec)

Spec == Init /\ [][Next]_vars /\ \A c \in Callers : WF_vars(Progress(c))

-----------------------------------------------------------------------------
(* Properties.                                                             *)

InStartOrRun == {"st_spawn", "st_attach", "st_manual", "st_hosts", "st_seed",
                 "run_inbound", "run_outbound"}

\* Every start() and run() handler is invoked exactly once per call (each
\* link of the start and run chains ends with one handler call and a
\* return): a caller has one answer per finished call and none yet for the
\* call it is in.
HandlerOnce ==
    \A c \in Callers :
      Len(results[c]) = handlerCalls[c] - (IF pc[c] \in InStartOrRun THEN 1 ELSE 0)

\* The spec (sections 3 and 4.5): shutdown is complete when stop() or
\* close() returns: unless a start() has since respawned the pool, the
\* service is stopped, the host cache stopped, the manual session
\* released, no subscription left waiting and no channel registered.  A
\* stop() between start()'s stopped_ = false and manual_.store() returns
\* before start() restarts the subscribers and retains a manual session on
\* the stopped service; a stop() between handle_manual_started's stopped()
\* test and hosts_->start() returns before the cache is started again.
ShutdownComplete ==
    stopReturned => /\ stopped /\ hosts = "stopped" /\ ~manual /\ pool # "running"
                    /\ \A k \in Lists : subscribed[k] = {}
                    /\ connected_count = 0

\* Every call returns (the start and run chains, close()'s join): a caller
\* inside a call is eventually back between calls.
CallsReturn ==
    \A c \in Callers : pc[c] # "idle" ~> pc[c] = "idle"

\* A started service registers the channels its sessions make (spec.md
\* section 2): start() restarts the subscribers but not connections_, which
\* the previous stop() stopped, so a restarted service refuses every channel.
RestartAcceptsChannels ==
    ~stopped /\ subscriber = "started" => ~connsStopped

\* The spec (sections 4.5 and 7): connect(host, port, handler) on a stopped
\* service answers service_stopped, otherwise the manual session answers;
\* every failure reaches exactly one handler.  connect() loads manual_
\* after its stopped() test, and drops the handler when it is empty.
ConnectNeverDropped ==
    \A c \in Callers : connectAnswer[c] # "dropped"

=============================================================================
