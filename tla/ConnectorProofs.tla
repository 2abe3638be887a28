--------------------------- MODULE ConnectorProofs ---------------------------
(***************************************************************************)
(* Proofs about the connector, for every set of requests, addresses and    *)
(* stop() callers.                                                         *)
(***************************************************************************)
EXTENDS Connector, SequenceTheorems, TLAPS

\* The record type of one completion.
CompletionType == [addr : Addrs \cup {NoAddr}, code : Codes]

\* Appending a well-typed completion keeps delivered well typed.
LEMMA DeliverType ==
    ASSUME TypeOK, NEW r \in Requests, NEW a \in Addrs \cup {NoAddr},
           NEW c \in Codes, Deliver(r, a, c)
    PROVE  delivered' \in [Requests -> Seq(CompletionType)]
<1>1. Completion(a, c) \in CompletionType
  BY DEF Completion, CompletionType
<1>2. delivered[r] \in Seq(CompletionType)
  BY DEF TypeOK, CompletionType
<1>3. Append(delivered[r], Completion(a, c)) \in Seq(CompletionType)
  BY <1>1, <1>2, AppendProperties
<1>4. delivered \in [Requests -> Seq(CompletionType)]
  BY DEF TypeOK, CompletionType
<1>5. QED
  BY <1>3, <1>4 DEF Deliver

LEMMA TypeInit == Init => TypeOK
<1> SUFFICES ASSUME Init PROVE TypeOK
  OBVIOUS
<1>1. delivered \in [Requests -> Seq(CompletionType)]
  BY EmptySeq DEF Init
<1>2. QED
  BY <1>1 DEF Init, TypeOK, ReqStates, SockStates, TimerStates, CompletionType

LEMMA TypeStep == TypeOK /\ [Next]_vars => TypeOK'
<1> SUFFICES ASSUME TypeOK, [Next]_vars PROVE TypeOK'
  OBVIOUS
<1>1. ASSUME NEW r \in Requests, connect(r) PROVE TypeOK'
  <2>1. CASE stopped
    <3>1. Deliver(r, NoAddr, "service_stopped")
      BY <1>1, <2>1 DEF connect
    <3>2. delivered' \in [Requests -> Seq(CompletionType)]
      BY <3>1, DeliverType DEF Codes
    <3>3. QED
      BY <1>1, <2>1, <3>2 DEF connect, TypeOK, ReqStates, CompletionType
  <2>2. CASE ~stopped
    BY <1>1, <2>2 DEF connect, TypeOK, ReqStates
  <2>3. QED BY <2>1, <2>2
<1>2. ASSUME NEW r \in Requests, handle_resolve(r) PROVE TypeOK'
  <2>1. CASE stopped
    <3>1. Deliver(r, NoAddr, "service_stopped")
      BY <1>2, <2>1 DEF handle_resolve
    <3>2. delivered' \in [Requests -> Seq(CompletionType)]
      BY <3>1, DeliverType DEF Codes
    <3>3. QED
      BY <1>2, <2>1, <3>2 DEF handle_resolve, TypeOK, ReqStates, CompletionType
  <2>2. CASE ~stopped /\ req[r] # "resolved"
    <3>1. Deliver(r, NoAddr, "resolve_failed")
      BY <1>2, <2>2 DEF handle_resolve
    <3>2. delivered' \in [Requests -> Seq(CompletionType)]
      BY <3>1, DeliverType DEF Codes
    <3>3. QED
      BY <1>2, <2>2, <3>2 DEF handle_resolve, TypeOK, ReqStates, CompletionType
  <2>3. CASE ~stopped /\ req[r] = "resolved"
    <3>1. do_connecting(r) /\ UNCHANGED <<delivered, stopped, resolved, stopPc>>
      BY <1>2, <2>3 DEF handle_resolve
    <3> DEFINE new == {<<r, a>> : a \in resolved[r]}
    <3>2. new \subseteq Attempts
      BY DEF TypeOK, Attempts
    <3>3. pending' \subseteq Attempts
      BY <3>1, <3>2 DEF do_connecting, TypeOK
    <3>4. sock' \in [Attempts -> SockStates] /\ timer' \in [Attempts -> TimerStates]
      BY <3>1 DEF do_connecting, TypeOK, SockStates, TimerStates
    <3>5. req' \in [Requests -> ReqStates]
      BY <1>2 DEF handle_resolve, TypeOK, ReqStates
    <3>6. QED
      BY <3>1, <3>3, <3>4, <3>5 DEF TypeOK
  <2>4. QED BY <2>1, <2>2, <2>3
<1>3. ASSUME NEW r \in Requests, ResolveFail(r) PROVE TypeOK'
  BY <1>3 DEF ResolveFail, TypeOK, ReqStates
<1>4. ASSUME NEW r \in Requests, NEW S \in (SUBSET Addrs) \ {{}},
             ResolveSucceed(r, S) PROVE TypeOK'
  BY <1>4 DEF ResolveSucceed, TypeOK, ReqStates
<1>5. ASSUME NEW s \in Stoppers, safe_stop(s) PROVE TypeOK'
  BY <1>5 DEF safe_stop, TypeOK, ReqStates
<1>6. ASSUME NEW s \in Stoppers, stop(s) PROVE TypeOK'
  BY <1>6 DEF stop, TypeOK, SockStates
<1>7. ASSUME NEW t \in Attempts, handle_timer(t) PROVE TypeOK'
  BY <1>7 DEF handle_timer, TypeOK, SockStates, TimerStates
<1>8. ASSUME NEW t \in Attempts, handle_connect(t) PROVE TypeOK'
  <2>1. t[1] \in Requests /\ t[2] \in Addrs
    BY DEF Attempts
  <2>2. (IF sock[t] = "connected" THEN "success" ELSE sock[t]) \in Codes
    BY <1>8 DEF handle_connect, Queued, Codes
  <2>3. delivered' \in [Requests -> Seq(CompletionType)]
    BY <1>8, <2>1, <2>2, DeliverType DEF handle_connect
  <2>4. QED
    BY <1>8, <2>3 DEF handle_connect, TypeOK, SockStates, TimerStates, CompletionType
<1>9. ASSUME NEW t \in Attempts, TimerExpire(t) PROVE TypeOK'
  BY <1>9 DEF TimerExpire, TypeOK, TimerStates
<1>10. ASSUME NEW t \in Attempts, NEW o \in {"connected", "refused"},
              SocketComplete(t, o) PROVE TypeOK'
  BY <1>10 DEF SocketComplete, TypeOK, SockStates
<1>11. CASE UNCHANGED vars
  BY <1>11 DEF vars, TypeOK
<1>12. QED
  BY <1>1, <1>2, <1>3, <1>4, <1>5, <1>6, <1>7, <1>8, <1>9, <1>10, <1>11
     DEF Next

\* The type invariant: every step keeps each variable in its type.
THEOREM TypeCorrect == Spec => []TypeOK
BY TypeInit, TypeStep, PTL DEF Spec
-----------------------------------------------------------------------------
(* The inductive invariant behind StopCancelsAll and PendingOnlyInFlight.  *)

\* Every outstanding connect is registered in pending_ (do_connecting
\* stores the socket before async_connect).
Registered == \A t \in Attempts : sock[t] = "connecting" => t \in pending

\* A stop() call past safe_stop() has seen stopped_ set.
StopFlagged == (\E s \in Stoppers : stopPc[s] # "idle") => stopped

IInv == /\ TypeOK
        /\ Registered
        /\ StopFlagged
        /\ StopCancelsAll
        /\ PendingOnlyInFlight

LEMMA InitIInv == Init => IInv
BY TypeInit DEF Init, IInv, Registered, StopFlagged, StopCancelsAll,
                   PendingOnlyInFlight

LEMMA NextIInv == IInv /\ [Next]_vars => IInv'
<1> SUFFICES ASSUME IInv, [Next]_vars PROVE IInv'
  OBVIOUS
<1>0. TypeOK'
  BY TypeStep DEF IInv
<1> USE DEF IInv, Registered, StopFlagged, StopCancelsAll, PendingOnlyInFlight,
            InFlight, Queued
<1>1. ASSUME NEW r \in Requests, connect(r) PROVE IInv'
  BY <1>0, <1>1 DEF connect
<1>2. ASSUME NEW r \in Requests, handle_resolve(r) PROVE IInv'
  <2>1. CASE stopped
    BY <1>0, <1>2, <2>1 DEF handle_resolve
  <2>2. CASE ~stopped /\ req[r] # "resolved"
    BY <1>0, <1>2, <2>2 DEF handle_resolve
  <2>3. CASE ~stopped /\ req[r] = "resolved"
    <3>1. do_connecting(r) /\ UNCHANGED <<stopped, stopPc>>
      BY <1>2, <2>3 DEF handle_resolve
    <3>2. \A s \in Stoppers : stopPc[s] = "idle"
      BY <2>3
    <3>3. QED
      BY <1>0, <3>1, <3>2 DEF do_connecting, TypeOK
  <2>4. QED BY <2>1, <2>2, <2>3
<1>3. ASSUME NEW r \in Requests, ResolveFail(r) PROVE IInv'
  BY <1>0, <1>3 DEF ResolveFail
<1>4. ASSUME NEW r \in Requests, NEW S \in (SUBSET Addrs) \ {{}},
             ResolveSucceed(r, S) PROVE IInv'
  BY <1>0, <1>4 DEF ResolveSucceed
<1>5. ASSUME NEW s \in Stoppers, safe_stop(s) PROVE IInv'
  BY <1>0, <1>5 DEF safe_stop, TypeOK
<1>6. ASSUME NEW s \in Stoppers, stop(s) PROVE IInv'
  BY <1>0, <1>6 DEF stop, TypeOK
<1>7. ASSUME NEW t \in Attempts, handle_timer(t) PROVE IInv'
  BY <1>0, <1>7 DEF handle_timer, TypeOK
<1>8. ASSUME NEW t \in Attempts, handle_connect(t) PROVE IInv'
  BY <1>0, <1>8 DEF handle_connect, TypeOK
<1>9. ASSUME NEW t \in Attempts, TimerExpire(t) PROVE IInv'
  BY <1>0, <1>9 DEF TimerExpire
<1>10. ASSUME NEW t \in Attempts, NEW o \in {"connected", "refused"},
              SocketComplete(t, o) PROVE IInv'
  BY <1>0, <1>10 DEF SocketComplete, TypeOK
<1>11. CASE UNCHANGED vars
  BY <1>0, <1>11 DEF vars
<1>12. QED
  BY <1>1, <1>2, <1>3, <1>4, <1>5, <1>6, <1>7, <1>8, <1>9, <1>10, <1>11
     DEF Next

\* Cancellation reaches every attempt: once a stop() call has cleared the
\* pending registry no connect is outstanding (StopCancelsAll), and the
\* registry never holds a socket whose connect was already handled
\* (PendingOnlyInFlight), for every number of requests, addresses and
\* stop() callers.
THEOREM StopSafety == Spec => [](StopCancelsAll /\ PendingOnlyInFlight)
<1>1. Spec => []IInv
  BY InitIInv, NextIInv, PTL DEF Spec
<1>2. IInv => StopCancelsAll /\ PendingOnlyInFlight
  BY DEF IInv
<1>3. QED
  BY <1>1, <1>2, PTL
-----------------------------------------------------------------------------
(* Refinement: Connector implements the safety part of ConnectorSpec.      *)

\* No socket of a request exists before its handle_resolve() ran: only
\* do_connecting() creates sockets, and only for the request it handles.
Fresh == \A r \in Requests : req[r] # "handled" =>
                               \A a \in Addrs : sock[<<r, a>>] = "none"

\* A successful resolve returned at least one address.
ResolvedNonEmpty == \A r \in Requests : req[r] = "resolved" => resolved[r] # {}

RInv == TypeOK /\ Fresh /\ ResolvedNonEmpty

LEMMA RInvInit == Init => RInv
BY TypeInit DEF Init, RInv, Fresh, ResolvedNonEmpty, Attempts

LEMMA RInvStep == RInv /\ [Next]_vars => RInv'
<1> SUFFICES ASSUME RInv, [Next]_vars PROVE RInv'
  OBVIOUS
<1>0. TypeOK'
  BY TypeStep DEF RInv
<1> USE DEF RInv, Fresh, ResolvedNonEmpty
<1>1. ASSUME NEW r \in Requests, connect(r) PROVE RInv'
  BY <1>0, <1>1 DEF connect, TypeOK, Attempts
<1>2. ASSUME NEW r \in Requests, handle_resolve(r) PROVE RInv'
  <2>1. CASE stopped \/ req[r] # "resolved"
    BY <1>0, <1>2, <2>1 DEF handle_resolve, TypeOK, Attempts
  <2>2. CASE ~stopped /\ req[r] = "resolved"
    <3>1. do_connecting(r) /\ req' = [req EXCEPT ![r] = "handled"]
          /\ UNCHANGED resolved
      BY <1>2, <2>2 DEF handle_resolve
    <3>2. Fresh'
      <4> SUFFICES ASSUME NEW r2 \in Requests, req'[r2] # "handled",
                          NEW a \in Addrs
                   PROVE  sock'[<<r2, a>>] = "none"
        BY DEF Fresh
      <4>1. r2 # r /\ req[r2] # "handled"
        BY <3>1 DEF TypeOK
      <4>2. <<r2, a>> \notin {<<r, b>> : b \in resolved[r]}
        BY <4>1
      <4>3. QED
        BY <3>1, <4>1, <4>2 DEF do_connecting, Attempts
    <3>3. ResolvedNonEmpty'
      BY <3>1 DEF TypeOK
    <3>4. QED
      BY <1>0, <3>2, <3>3
  <2>3. QED BY <2>1, <2>2
<1>3. ASSUME NEW r \in Requests, ResolveFail(r) PROVE RInv'
  BY <1>0, <1>3 DEF ResolveFail, TypeOK, Attempts
<1>4. ASSUME NEW r \in Requests, NEW S \in (SUBSET Addrs) \ {{}},
             ResolveSucceed(r, S) PROVE RInv'
  <2>1. S # {} /\ req[r] = "pending" /\ req' = [req EXCEPT ![r] = "resolved"]
        /\ resolved' = [resolved EXCEPT ![r] = S] /\ UNCHANGED sock
    BY <1>4 DEF ResolveSucceed
  <2>2. Fresh'
    BY <2>1 DEF TypeOK
  <2>3. ResolvedNonEmpty'
    BY <2>1 DEF TypeOK
  <2>4. QED BY <1>0, <2>2, <2>3
<1>5. ASSUME NEW s \in Stoppers, safe_stop(s) PROVE RInv'
  BY <1>0, <1>5 DEF safe_stop, TypeOK, Attempts
<1>6. ASSUME NEW s \in Stoppers, stop(s) PROVE RInv'
  BY <1>0, <1>6 DEF stop, TypeOK, Attempts
<1>7. ASSUME NEW t \in Attempts, handle_timer(t) PROVE RInv'
  <2>1. Fresh'
    <3> SUFFICES ASSUME NEW r \in Requests, req'[r] # "handled", NEW a \in Addrs
                 PROVE  sock'[<<r, a>>] = "none"
      BY DEF Fresh
    <3>1. sock[<<r, a>>] = "none" /\ <<r, a>> \in Attempts
      BY <1>7 DEF handle_timer, Attempts
    <3>2. QED
      BY <1>7, <3>1 DEF handle_timer, TypeOK
  <2>2. QED
    BY <1>0, <1>7, <2>1 DEF handle_timer
<1>8. ASSUME NEW t \in Attempts, handle_connect(t) PROVE RInv'
  BY <1>0, <1>8 DEF handle_connect, TypeOK, Queued, Attempts
<1>9. ASSUME NEW t \in Attempts, TimerExpire(t) PROVE RInv'
  BY <1>0, <1>9 DEF TimerExpire, TypeOK, Attempts
<1>10. ASSUME NEW t \in Attempts, NEW o \in {"connected", "refused"},
              SocketComplete(t, o) PROVE RInv'
  BY <1>0, <1>10 DEF SocketComplete, TypeOK, Attempts
<1>11. CASE UNCHANGED vars
  BY <1>0, <1>11 DEF vars, TypeOK, Attempts
<1>12. QED
  BY <1>1, <1>2, <1>3, <1>4, <1>5, <1>6, <1>7, <1>8, <1>9, <1>10, <1>11
     DEF Next

LEMMA AbsInit == Init => Abs!Init
<1> SUFFICES ASSUME Init PROVE Abs!Init
  OBVIOUS
<1>1. AbsCall = [r \in Requests |-> "idle"]
  <2>1. \A r \in Requests : req[r] = "idle"
    BY DEF Init
  <2>2. \A r \in Requests : AbsCall[r] = "idle"
    BY <2>1 DEF AbsCall
  <2>3. QED
    BY <2>2 DEF AbsCall
<1>2. AbsAtt = [t \in Attempts |-> "none"]
  <2>1. \A t \in Attempts : sock[t] = "none"
    BY DEF Init
  <2>2. \A t \in Attempts : AbsAtt[t] = "none"
    BY <2>1 DEF AbsAtt
  <2>3. QED
    BY <2>2 DEF AbsAtt
<1>3. QED
  BY <1>1, <1>2 DEF Init, Abs!Init, Abs!Attempts, Attempts



\* Two functions on S that agree everywhere but at x, where the second is v.
LEMMA ExceptPointwise ==
    ASSUME NEW S, NEW F, NEW G, NEW x \in S, NEW v,
           F = [y \in S |-> F[y]], G = [y \in S |-> G[y]],
           \A y \in S : G[y] = IF y = x THEN v ELSE F[y]
    PROVE  G = [F EXCEPT ![x] = v]
OBVIOUS

\* Two functions on S that agree everywhere are equal.
LEMMA SamePointwise ==
    ASSUME NEW S, NEW F, NEW G,
           F = [y \in S |-> F[y]], G = [y \in S |-> G[y]],
           \A y \in S : G[y] = F[y]
    PROVE  G = F
OBVIOUS

\* The mapped functions, before and after a step, are functions.
LEMMA AbsFunctions ==
    /\ AbsCall = [r \in Requests |-> AbsCall[r]]
    /\ AbsCall' = [r \in Requests |-> AbsCall'[r]]
    /\ AbsAtt = [t \in Attempts |-> AbsAtt[t]]
    /\ AbsAtt' = [t \in Attempts |-> AbsAtt'[t]]
BY DEF AbsCall, AbsAtt

\* A step that keeps every request's and attempt's abstract phase, the
\* stopped_ flag and the completions is a stutter of ConnectorSpec.
LEMMA SameAbs ==
    ASSUME TypeOK, TypeOK', UNCHANGED <<stopped, delivered>>,
           \A r \in Requests : /\ (req'[r] = "idle") <=> (req[r] = "idle")
                               /\ (req'[r] = "handled") <=> (req[r] = "handled"),
           \A t \in Attempts : /\ (sock'[t] = "none") <=> (sock[t] = "none")
                               /\ (sock'[t] \in InFlight) <=> (sock[t] \in InFlight)
    PROVE  UNCHANGED Abs!avars
<1>1. AbsCall' = AbsCall
  <2>1. \A r \in Requests : AbsCall'[r] = AbsCall[r]
    BY DEF AbsCall, Attempts
  <2>2. QED BY <2>1, AbsFunctions, SamePointwise
<1>2. AbsAtt' = AbsAtt
  <2>1. \A t \in Attempts : AbsAtt'[t] = AbsAtt[t]
    BY DEF AbsAtt
  <2>2. QED BY <2>1, AbsFunctions, SamePointwise
<1>3. QED
  BY <1>1, <1>2 DEF Abs!avars

LEMMA AbsStep == RInv /\ [Next]_vars => [Abs!Next]_Abs!avars
<1> SUFFICES ASSUME RInv, [Next]_vars PROVE [Abs!Next]_Abs!avars
  OBVIOUS
<1>0. TypeOK /\ TypeOK' /\ Fresh
  BY TypeStep DEF RInv
<1>1. ASSUME NEW r \in Requests, connect(r) PROVE [Abs!Next]_Abs!avars
  <2>1. req[r] = "idle" /\ \A a \in Addrs : sock[<<r, a>>] = "none"
    BY <1>0, <1>1 DEF connect, Fresh
  <2>2. AbsCall[r] = "idle"
    BY <2>1 DEF AbsCall
  <2>3. AbsAtt' = AbsAtt
    BY <1>1 DEF connect, AbsAtt
  <2>4. CASE stopped
    <3>1. AbsCall' = [AbsCall EXCEPT ![r] = "answered"]
      <4>1. \A r2 \in Requests : AbsCall'[r2] = IF r2 = r THEN "answered" ELSE AbsCall[r2]
        BY <1>0, <1>1, <2>1, <2>4 DEF connect, AbsCall, TypeOK
      <4>2. QED BY <4>1, AbsFunctions, ExceptPointwise
    <3>2. QED
      BY <1>1, <2>2, <2>3, <2>4, <3>1 DEF connect, Deliver, Completion, Abs!Next,
                                         Abs!Call, Abs!Answer
  <2>5. CASE ~stopped
    <3>1. AbsCall' = [AbsCall EXCEPT ![r] = "waiting"]
      <4>1. \A r2 \in Requests : AbsCall'[r2] = IF r2 = r THEN "waiting" ELSE AbsCall[r2]
        BY <1>0, <1>1, <2>1, <2>5 DEF connect, AbsCall, TypeOK
      <4>2. QED BY <4>1, AbsFunctions, ExceptPointwise
    <3>2. QED
      BY <1>1, <2>2, <2>3, <2>5, <3>1 DEF connect, Abs!Next, Abs!Call
  <2>6. QED BY <2>4, <2>5

<1>2. ASSUME NEW r \in Requests, handle_resolve(r) PROVE [Abs!Next]_Abs!avars
  <2>1. req[r] \in {"resolved", "failed", "canceled"}
        /\ \A a \in Addrs : sock[<<r, a>>] = "none"
    BY <1>0, <1>2 DEF handle_resolve, Fresh
  <2>2. AbsCall[r] = "waiting"
    BY <2>1 DEF AbsCall
  <2>3. ASSUME NEW c \in {"service_stopped", "resolve_failed"},
               Deliver(r, NoAddr, c), UNCHANGED <<pending, timer, sock>>
        PROVE  [Abs!Next]_Abs!avars
    <3>1. AbsCall' = [AbsCall EXCEPT ![r] = "answered"]
      <4>1. \A r2 \in Requests : AbsCall'[r2] = IF r2 = r THEN "answered" ELSE AbsCall[r2]
        BY <1>0, <1>2, <2>1, <2>3 DEF handle_resolve, AbsCall, TypeOK
      <4>2. QED BY <4>1, AbsFunctions, ExceptPointwise
    <3>2. AbsAtt' = AbsAtt
      BY <2>3 DEF AbsAtt
    <3>3. Abs!Fail(r, c)
      BY <1>2, <2>2, <2>3, <3>1, <3>2 DEF handle_resolve, Deliver, Completion,
                                         Abs!Fail, Abs!Answer
    <3>4. QED
      BY <3>3 DEF Abs!Next
  <2>4. CASE stopped
    BY <1>2, <2>3, <2>4 DEF handle_resolve
  <2>5. CASE ~stopped /\ req[r] # "resolved"
    BY <1>2, <2>3, <2>5 DEF handle_resolve
  <2>6. CASE ~stopped /\ req[r] = "resolved"
    <3> DEFINE S == resolved[r]
    <3>1. do_connecting(r) /\ UNCHANGED <<stopped, delivered, resolved>>
          /\ req' = [req EXCEPT ![r] = "handled"]
      BY <1>2, <2>6 DEF handle_resolve
    <3>2. S \in (SUBSET Addrs) \ {{}}
      BY <1>0, <2>6 DEF RInv, ResolvedNonEmpty, TypeOK
    <3>3. \A a \in Addrs : sock'[<<r, a>>] = IF a \in S THEN "connecting" ELSE "none"
      BY <2>1, <3>1 DEF do_connecting, Attempts
    <3>4. AbsCall' = [AbsCall EXCEPT ![r] = "attempting"]
      <4>1. \A r2 \in Requests : AbsCall'[r2] = IF r2 = r THEN "attempting" ELSE AbsCall[r2]
        <5>1. \E a \in Addrs : sock'[<<r, a>>] # "none"
          BY <3>2, <3>3
        <5>2. \A r2 \in Requests \ {r} : \A a \in Addrs : sock'[<<r2, a>>] = sock[<<r2, a>>]
          BY <3>1 DEF do_connecting, Attempts
        <5>3. QED
          BY <1>0, <3>1, <5>1, <5>2 DEF AbsCall, TypeOK
      <4>2. QED BY <4>1, AbsFunctions, ExceptPointwise
    <3>5. AbsAtt' = [t \in Attempts |->
                       IF t[1] = r /\ t[2] \in S THEN "outstanding" ELSE AbsAtt[t]]
      <4>1. \A t \in Attempts : AbsAtt'[t] = IF t[1] = r /\ t[2] \in S
                                               THEN "outstanding" ELSE AbsAtt[t]
        BY <3>1 DEF do_connecting, AbsAtt, Attempts, InFlight
      <4>2. QED BY <4>1 DEF AbsAtt
    <3>6. Abs!Attempt(r, S)
      BY <2>2, <2>6, <3>1, <3>4, <3>5 DEF Abs!Attempt, Abs!Attempts, Attempts
    <3>7. QED
      BY <3>2, <3>6 DEF Abs!Next
  <2>7. QED BY <2>4, <2>5, <2>6
<1>3. ASSUME NEW t \in Attempts, handle_connect(t) PROVE [Abs!Next]_Abs!avars
  <2> DEFINE c == IF sock[t] = "connected" THEN "success" ELSE sock[t]
  <2>1. t = <<t[1], t[2]>> /\ t[1] \in Requests /\ t[2] \in Addrs
    BY DEF Attempts
  <2>2. sock[t] \in Queued /\ req[t[1]] = "handled"
    BY <1>0, <1>3, <2>1 DEF handle_connect, Fresh, Queued
  <2>3. c \in Abs!AttemptCodes
    BY <2>2 DEF Queued, Abs!AttemptCodes
  <2>4. AbsAtt[t] = "outstanding"
    BY <2>2 DEF AbsAtt, Queued, InFlight
  <2>5. sock' = [sock EXCEPT ![t] = IF sock[t] = "connected" THEN "open" ELSE "closed"]
        /\ UNCHANGED <<stopped, req>>
    BY <1>3 DEF handle_connect
  <2>6. AbsAtt' = [AbsAtt EXCEPT ![t] = "answered"]
    <3>1. \A u \in Attempts : AbsAtt'[u] = IF u = t THEN "answered" ELSE AbsAtt[u]
      BY <1>0, <2>5 DEF AbsAtt, InFlight, Queued, TypeOK
    <3>2. QED BY <3>1, AbsFunctions, ExceptPointwise
  <2>7. AbsCall' = AbsCall
    <3>1. \A r \in Requests : AbsCall'[r] = AbsCall[r]
      BY <1>0, <2>1, <2>2, <2>5 DEF AbsCall, TypeOK, Attempts, Queued
    <3>2. QED BY <3>1, AbsFunctions, SamePointwise
  <2>8. Abs!Complete(t, c)
    BY <1>3, <2>4, <2>5, <2>6, <2>7 DEF handle_connect, Deliver, Completion,
                                       Abs!Complete, Abs!Answer
  <2>9. QED
    BY <2>3, <2>8 DEF Abs!Next, Abs!Attempts, Attempts
<1>4. ASSUME NEW s \in Stoppers, safe_stop(s) PROVE [Abs!Next]_Abs!avars
  <2>1. CASE ~stopped
    <3>1. UNCHANGED <<AbsCall, AbsAtt, delivered>>
      <4>1. /\ req' = [r \in Requests |->
                         IF req[r] = "pending" THEN "canceled" ELSE req[r]]
            /\ UNCHANGED <<sock, delivered>>
        BY <1>4, <2>1 DEF safe_stop
      <4>2. \A r \in Requests : AbsCall'[r] = AbsCall[r]
        <5> SUFFICES ASSUME NEW r \in Requests PROVE AbsCall'[r] = AbsCall[r]
          OBVIOUS
        <5>1. (req'[r] = "idle") = (req[r] = "idle")
              /\ (req'[r] = "handled") = (req[r] = "handled")
          BY <4>1
        <5>2. QED BY <4>1, <5>1 DEF AbsCall
      <4>3. AbsCall' = AbsCall BY <4>2, AbsFunctions, SamePointwise
      <4>4. AbsAtt' = AbsAtt BY <4>1 DEF AbsAtt
      <4>5. QED BY <4>1, <4>3, <4>4
    <3>2. QED
      BY <1>4, <2>1, <3>1 DEF safe_stop, Abs!Next, Abs!Stop
  <2>2. CASE stopped
    BY <1>0, <1>4, <2>2, SameAbs DEF safe_stop
  <2>3. QED BY <2>1, <2>2
<1>5. ASSUME NEW s \in Stoppers, stop(s) PROVE [Abs!Next]_Abs!avars
  BY <1>0, <1>5, SameAbs DEF stop, InFlight, Queued
<1>6. ASSUME NEW t \in Attempts, handle_timer(t) PROVE [Abs!Next]_Abs!avars
  BY <1>0, <1>6, SameAbs DEF handle_timer, InFlight, Queued, TypeOK
<1>7. ASSUME NEW r \in Requests, ResolveFail(r) PROVE [Abs!Next]_Abs!avars
  BY <1>0, <1>7, SameAbs DEF ResolveFail
<1>8. ASSUME NEW r \in Requests, NEW S \in (SUBSET Addrs) \ {{}},
             ResolveSucceed(r, S) PROVE [Abs!Next]_Abs!avars
  BY <1>0, <1>8, SameAbs DEF ResolveSucceed
<1>9. ASSUME NEW t \in Attempts, TimerExpire(t) PROVE [Abs!Next]_Abs!avars
  BY <1>0, <1>9, SameAbs DEF TimerExpire
<1>10. ASSUME NEW t \in Attempts, NEW o \in {"connected", "refused"},
              SocketComplete(t, o) PROVE [Abs!Next]_Abs!avars
  BY <1>0, <1>10, SameAbs DEF SocketComplete, InFlight, Queued
<1>11. CASE UNCHANGED vars
  BY <1>0, <1>11, SameAbs DEF vars
<1>12. QED
  BY <1>1, <1>2, <1>3, <1>4, <1>5, <1>6, <1>7, <1>8, <1>9, <1>10, <1>11
     DEF Next

\* The connector implements the safety part of ConnectorSpec under the
\* refinement mapping AbsCall/AbsAtt (handle_resolve, handle_connect,
\* handle_timer, stop): every step of connect(), the handlers and asio is
\* an abstract Call, Fail, Attempt, Complete or Stop, or leaves the
\* abstract state alone, so no handler is ever invoked twice for one
\* attempt and no attempt starts after stopped_ was seen set.
THEOREM Refinement == Spec => ImplementsSafety
<1>1. Spec => []RInv
  BY RInvInit, RInvStep, PTL DEF Spec
<1>2. QED
  BY <1>1, AbsInit, AbsStep, PTL DEF Spec, ImplementsSafety, Abs!SafetySpec

=============================================================================
