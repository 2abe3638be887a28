------------------------------ MODULE Connector ------------------------------
(***************************************************************************)
(* The network connector (src/src/lib/network/connector.cpp).              *)
(*                                                                         *)
(* A connect call resolves a hostname; on success handle_resolve starts,   *)
(* for EVERY resolved address, a connect attempt that races a deadline     *)
(* timer.  The timer handler cancels the socket; the connect handler stops *)
(* the timer, drops the socket from the pending registry and invokes the   *)
(* caller's handler.  stop() sets stopped_ and cancels the resolver under  *)
(* the upgradeable mutex, then clears the pending registry (cancelling the *)
(* sockets still in it) outside that mutex.                                *)
(*                                                                         *)
(* An attempt is the pair <<request, address>>.  Sockets, timers and the   *)
(* resolver are the asio collaborators: their completions are queued      *)
(* events that the handlers consume, so every order asio can produce is    *)
(* an interleaving of this model.                                          *)
(***************************************************************************)
EXTENDS Naturals, Sequences, FiniteSets

CONSTANTS
    Requests,   \* connect() calls made by sessions, one hostname each
    Addrs,      \* the addresses a resolve may return
    Stoppers,   \* threads that call connector::stop()
    NoAddr      \* the address field of a completion without an attempt

ASSUME ConstantsAssumption ==
    /\ IsFiniteSet(Requests) /\ IsFiniteSet(Addrs)
    /\ Addrs # {} /\ NoAddr \notin Addrs

Attempts == Requests \X Addrs

\* The codes a connect handler can receive.  "aborted" is the mapping of
\* asio's operation_aborted, "refused" stands for every other transport
\* error boost_to_error_code passes through.
Codes == {"success", "service_stopped", "resolve_failed", "aborted",
          "refused", "channel_timeout"}

\* Resolver state of a request: idle (not yet called), pending (resolve
\* outstanding), resolved/failed/canceled (completion queued), handled.
ReqStates == {"idle", "pending", "resolved", "failed", "canceled", "handled"}

\* Socket of an attempt: none, connecting, a queued completion (connected,
\* refused, aborted), then open (handed to a channel) or closed; killed is
\* an open channel whose socket was later cancelled.
SockStates == {"none", "connecting", "connected", "refused", "aborted",
               "open", "closed", "killed"}
Queued == {"connected", "refused", "aborted"}

\* Deadline of an attempt: armed, expired (handler queued; stop() can no
\* longer withdraw it), canceled (stop() won), done (handler ran).
TimerStates == {"none", "armed", "expired", "canceled", "done"}

VARIABLES
    stopped,    \* connector::stopped_
    req,        \* resolver state of each request
    resolved,   \* the addresses each successful resolve returned
    sock,       \* socket of each attempt
    timer,      \* deadline of each attempt
    pending,    \* connector::pending_, the registry of in-flight sockets
    delivered,  \* completions each request's handler received, in order
    stopPc      \* progress of each stop() call

vars == <<stopped, req, resolved, sock, timer, pending, delivered, stopPc>>

Completion(a, c) == [addr |-> a, code |-> c]

Deliver(r, a, c) ==
    delivered' = [delivered EXCEPT ![r] = Append(@, Completion(a, c))]

TypeOK ==
    /\ stopped \in BOOLEAN
    /\ req \in [Requests -> ReqStates]
    /\ resolved \in [Requests -> SUBSET Addrs]
    /\ sock \in [Attempts -> SockStates]
    /\ timer \in [Attempts -> TimerStates]
    /\ pending \subseteq Attempts
    /\ delivered \in [Requests -> Seq([addr : Addrs \cup {NoAddr}, code : Codes])]
    /\ stopPc \in [Stoppers -> {"idle", "clear", "done"}]

Init ==
    /\ stopped = FALSE
    /\ req = [r \in Requests |-> "idle"]
    /\ resolved = [r \in Requests |-> {}]
    /\ sock = [t \in Attempts |-> "none"]
    /\ timer = [t \in Attempts |-> "none"]
    /\ pending = {}
    /\ delivered = [r \in Requests |-> <<>>]
    /\ stopPc = [s \in Stoppers |-> "idle"]

-----------------------------------------------------------------------------
(* Public operations.                                                      *)

\* connect(): when stopped the handler is dispatched with service_stopped,
\* otherwise an asynchronous resolve is issued under the exclusive lock.
connect(r) ==
    /\ req[r] = "idle"
    /\ IF stopped
         THEN /\ req' = [req EXCEPT ![r] = "handled"]
              /\ Deliver(r, NoAddr, "service_stopped")
         ELSE /\ req' = [req EXCEPT ![r] = "pending"]
              /\ UNCHANGED delivered
    /\ UNCHANGED <<stopped, resolved, sock, timer, pending, stopPc>>

\* safe_stop(): the first caller cancels the resolver, which completes every
\* outstanding resolve with operation_aborted, and sets stopped_.
safe_stop(s) ==
    /\ stopPc[s] = "idle"
    /\ stopPc' = [stopPc EXCEPT ![s] = "clear"]
    /\ IF ~stopped
         THEN /\ stopped' = TRUE
              /\ req' = [r \in Requests |->
                           IF req[r] = "pending" THEN "canceled" ELSE req[r]]
         ELSE UNCHANGED <<stopped, req>>
    /\ UNCHANGED <<resolved, sock, timer, pending, delivered>>

\* stop() after safe_stop(): pending_.clear() stops every socket still in
\* the registry (an outstanding connect completes with operation_aborted)
\* and empties it.  This runs outside the connector's mutex.
stop(s) ==
    /\ stopPc[s] = "clear"
    /\ stopPc' = [stopPc EXCEPT ![s] = "done"]
    /\ sock' = [t \in Attempts |->
                  CASE t \in pending /\ sock[t] = "connecting" -> "aborted"
                    [] t \in pending /\ sock[t] = "open" -> "killed"
                    [] OTHER -> sock[t]]
    /\ pending' = {}
    /\ UNCHANGED <<stopped, req, resolved, timer, delivered>>

-----------------------------------------------------------------------------
(* Handlers run by the thread pool.                                        *)

\* do_connecting() for every resolved address: a deadline and a socket,
\* the socket stored in pending_, the timer started, then safe_connect()
\* issues async_connect.
do_connecting(r) ==
    LET new == {<<r, a>> : a \in resolved[r]} IN
    /\ pending' = pending \cup new
    /\ timer' = [t \in Attempts |-> IF t \in new THEN "armed" ELSE timer[t]]
    /\ sock' = [t \in Attempts |-> IF t \in new THEN "connecting" ELSE sock[t]]

\* Mutant: handle_resolve without its stopped_ test.
handle_resolve_unchecked(r) ==
    /\ req[r] \in {"resolved", "failed", "canceled"}
    /\ req' = [req EXCEPT ![r] = "handled"]
    /\ IF req[r] # "resolved"
         THEN /\ Deliver(r, NoAddr, "resolve_failed")
              /\ UNCHANGED <<pending, timer, sock>>
         ELSE /\ do_connecting(r)
              /\ UNCHANGED delivered
    /\ UNCHANGED <<stopped, resolved, stopPc>>

\* handle_resolve(), under the shared lock: stopped first, then the
\* resolver's error code, then one attempt per address.
handle_resolve(r) ==
    /\ req[r] \in {"resolved", "failed", "canceled"}
    /\ req' = [req EXCEPT ![r] = "handled"]
    /\ IF stopped
         THEN /\ Deliver(r, NoAddr, "service_stopped")
              /\ UNCHANGED <<pending, timer, sock>>
         ELSE IF req[r] # "resolved"
         THEN /\ Deliver(r, NoAddr, "resolve_failed")
              /\ UNCHANGED <<pending, timer, sock>>
         ELSE /\ do_connecting(r)
              /\ UNCHANGED delivered
    /\ UNCHANGED <<stopped, resolved, stopPc>>

\* Mutant: the timer handler also invokes the connect handler with
\* channel_timeout, as the commented-out code did, without synchronize().
handle_timer_notify(t) ==
    /\ timer[t] = "expired"
    /\ timer' = [timer EXCEPT ![t] = "done"]
    /\ sock' = [sock EXCEPT ![t] = CASE @ = "connecting" -> "aborted"
                                     [] @ = "open" -> "killed"
                                     [] OTHER -> @]
    /\ Deliver(t[1], t[2], "channel_timeout")
    /\ UNCHANGED <<stopped, req, resolved, pending, stopPc>>

\* Mutant: the timer handler does not cancel the socket.
handle_timer_nocancel(t) ==
    /\ timer[t] = "expired"
    /\ timer' = [timer EXCEPT ![t] = "done"]
    /\ UNCHANGED <<stopped, req, resolved, sock, pending, delivered, stopPc>>

\* handle_timer(): the deadline fired; it cancels the socket whatever state
\* the socket is in.  An outstanding connect then completes with
\* operation_aborted; a socket already handed to a channel loses its
\* outstanding reads, which stops the channel.
handle_timer(t) ==
    /\ timer[t] = "expired"
    /\ timer' = [timer EXCEPT ![t] = "done"]
    /\ sock' = [sock EXCEPT ![t] = CASE @ = "connecting" -> "aborted"
                                     [] @ = "open" -> "killed"
                                     [] OTHER -> @]
    /\ UNCHANGED <<stopped, req, resolved, pending, delivered, stopPc>>

\* Mutant: handle_connect keeps the socket in pending_.
handle_connect_keep(t) ==
    /\ sock[t] \in Queued
    /\ timer' = [timer EXCEPT ![t] = IF @ = "armed" THEN "canceled" ELSE @]
    /\ sock' = [sock EXCEPT ![t] = IF @ = "connected" THEN "open" ELSE "closed"]
    /\ Deliver(t[1], t[2], IF sock[t] = "connected" THEN "success" ELSE sock[t])
    /\ UNCHANGED <<stopped, req, resolved, pending, stopPc>>

\* Mutant: handle_connect passes the raw socket outcome on unmapped.
handle_connect_unmapped(t) ==
    /\ sock[t] \in Queued
    /\ timer' = [timer EXCEPT ![t] = IF @ = "armed" THEN "canceled" ELSE @]
    /\ pending' = pending \ {t}
    /\ sock' = [sock EXCEPT ![t] = IF @ = "connected" THEN "open" ELSE "closed"]
    /\ Deliver(t[1], t[2], sock[t])
    /\ UNCHANGED <<stopped, req, resolved, stopPc>>

\* handle_connect(): stop the timer (a queued expiry is not withdrawn),
\* remove the socket from pending_, build the channel and invoke the
\* handler with success or the mapped error.
handle_connect(t) ==
    /\ sock[t] \in Queued
    /\ timer' = [timer EXCEPT ![t] = IF @ = "armed" THEN "canceled" ELSE @]
    /\ pending' = pending \ {t}
    /\ sock' = [sock EXCEPT ![t] = IF @ = "connected" THEN "open" ELSE "closed"]
    /\ Deliver(t[1], t[2], IF sock[t] = "connected" THEN "success" ELSE sock[t])
    /\ UNCHANGED <<stopped, req, resolved, stopPc>>

-----------------------------------------------------------------------------
(* The asio collaborators.                                                 *)

\* The resolver answers with a non-empty address list or an error.
ResolveSucceed(r, S) ==
    /\ req[r] = "pending"
    /\ req' = [req EXCEPT ![r] = "resolved"]
    /\ resolved' = [resolved EXCEPT ![r] = S]
    /\ UNCHANGED <<stopped, sock, timer, pending, delivered, stopPc>>

ResolveFail(r) ==
    /\ req[r] = "pending"
    /\ req' = [req EXCEPT ![r] = "failed"]
    /\ UNCHANGED <<stopped, resolved, sock, timer, pending, delivered, stopPc>>

\* The peer accepts or refuses; a silent peer takes no step at all.
SocketComplete(t, outcome) ==
    /\ sock[t] = "connecting"
    /\ sock' = [sock EXCEPT ![t] = outcome]
    /\ UNCHANGED <<stopped, req, resolved, timer, pending, delivered, stopPc>>

\* The connect timeout elapses.
TimerExpire(t) ==
    /\ timer[t] = "armed"
    /\ timer' = [timer EXCEPT ![t] = "expired"]
    /\ UNCHANGED <<stopped, req, resolved, sock, pending, delivered, stopPc>>

\* Nothing is left to happen: every request and attempt is finished.
Quiescent ==
    /\ \A r \in Requests : req[r] = "handled"
    /\ \A t \in Attempts : sock[t] \notin {"connecting"} \cup Queued
    /\ \A t \in Attempts : timer[t] \notin {"armed", "expired"}
    /\ \A s \in Stoppers : stopPc[s] # "clear"

Next ==
    \/ \E r \in Requests : connect(r) \/ handle_resolve(r) \/ ResolveFail(r)
    \/ \E r \in Requests, S \in (SUBSET Addrs) \ {{}} : ResolveSucceed(r, S)
    \/ \E s \in Stoppers : safe_stop(s) \/ stop(s)
    \/ \E t \in Attempts : handle_timer(t) \/ handle_connect(t) \/ TimerExpire(t)
    \/ \E t \in Attempts, o \in {"connected", "refused"} : SocketComplete(t, o)
    \/ Quiescent /\ UNCHANGED vars

\* The thread pool runs every queued handler, the resolver answers and the
\* deadline expires; the peer is not obliged to answer.
Fairness ==
    /\ \A r \in Requests :
         WF_vars(handle_resolve(r)) /\ WF_vars(ResolveFail(r)
                                          \/ \E S \in (SUBSET Addrs) \ {{}} : ResolveSucceed(r, S))
    /\ \A s \in Stoppers : WF_vars(stop(s))
    /\ \A t \in Attempts :
         WF_vars(handle_timer(t)) /\ WF_vars(handle_connect(t)) /\ WF_vars(TimerExpire(t))

Spec == Init /\ [][Next]_vars /\ Fairness

-----------------------------------------------------------------------------
(* Properties.                                                             *)

Handled == {"open", "closed", "killed"}
InFlight == {"connecting"} \cup Queued

\* The positions of r's completions that concern address a.
CompletionsFor(r, a) == {i \in 1..Len(delivered[r]) : delivered[r][i].addr = a}

\* Exactly-once completion (handle_resolve, handle_timer, handle_connect):
\* a request that started no attempt has one completion, without an
\* address, once handled; a request that started attempts has exactly one
\* completion per finished attempt and none for the others; and a
\* completion says success exactly when that attempt's socket went to a
\* channel.  A timer handler that also invoked the handler (the version
\* commented out in handle_timer) would break it.
ExactlyOnce ==
    \A r \in Requests :
      LET started == {a \in Addrs : sock[<<r, a>>] # "none"} IN
      /\ started = {} =>
           Len(delivered[r]) = IF req[r] = "handled" THEN 1 ELSE 0
      /\ started # {} =>
           /\ CompletionsFor(r, NoAddr) = {}
           /\ \A a \in Addrs :
                Cardinality(CompletionsFor(r, a)) =
                  IF sock[<<r, a>>] \in Handled THEN 1 ELSE 0
      /\ \A i \in 1..Len(delivered[r]) :
           (delivered[r][i].code = "success") <=>
             (delivered[r][i].addr # NoAddr
              /\ sock[<<r, delivered[r][i].addr>>] \in {"open", "killed"})

\* Cancellation reaches every attempt (stop, handle_resolve): once some
\* stop() call has cleared the pending registry, no connect attempt is
\* outstanding, so none can be left without a completion.
StopCancelsAll ==
    (\E s \in Stoppers : stopPc[s] = "done") =>
      \A t \in Attempts : sock[t] # "connecting"

\* The pending registry only holds sockets whose connect has not been
\* handled (handle_connect removes them), so pending_.clear() never stops
\* a socket that a channel owns.
PendingOnlyInFlight ==
    \A t \in pending : sock[t] \in InFlight

\* Every connect call is answered (handle_timer bounds every attempt): a
\* request that was made is eventually handled and each of its attempts
\* finished, even when the peer never answers.
EveryCallAnswered ==
    \A r \in Requests :
      req[r] # "idle" ~>
        (req[r] = "handled" /\ \A a \in Addrs : sock[<<r, a>>] \notin InFlight)

\* The spec (section 4.1): when the connect completes first it stops the
\* deadline, so the timer never interferes with the channel the connect
\* produced.  handle_timer cancels the socket unconditionally.
TimerNeverKillsChannel ==
    \A t \in Attempts : sock[t] # "killed"

-----------------------------------------------------------------------------
(* Refinement: the connector implements ConnectorSpec.                     *)

\* A call is idle until connect(), waiting until handle_resolve(), then
\* attempting if do_connecting() created its sockets, else answered.
AbsCall == [r \in Requests |->
              IF req[r] = "idle" THEN "idle"
              ELSE IF req[r] # "handled" THEN "waiting"
              ELSE IF \E a \in Addrs : sock[<<r, a>>] # "none" THEN "attempting"
              ELSE "answered"]

\* An attempt is outstanding from do_connecting() until handle_connect().
AbsAtt == [t \in Attempts |->
             IF sock[t] = "none" THEN "none"
             ELSE IF sock[t] \in InFlight THEN "outstanding"
             ELSE "answered"]

Abs == INSTANCE ConnectorSpec WITH call <- AbsCall, att <- AbsAtt

\* The connector keeps the promises of ConnectorSpec (handle_resolve,
\* handle_connect, handle_timer, stop): a call is answered at once only
\* when stopped, attempts start only while not stopped and on a non-empty
\* address list, and each attempt's handler runs exactly once.
ImplementsSafety == Abs!SafetySpec
=============================================================================
