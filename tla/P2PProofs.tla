------------------------------ MODULE P2PProofs ------------------------------
(***************************************************************************)
(* Proofs about the p2p service, for every set of callers, every bound on  *)
(* their calls and every set of peer authorities.                          *)
(***************************************************************************)
EXTENDS P2P, SequenceTheorems, TLAPS

\* A handler call appends one well-typed code to one caller's results.
LEMMA AnswerFacts ==
    ASSUME TypeOK, NEW c \in Callers, NEW code \in Codes, Answer(c, code)
    PROVE  /\ results' \in [Callers -> Seq(Codes)]
           /\ Len(results'[c]) = Len(results[c]) + 1
           /\ \A d \in Callers \ {c} : results'[d] = results[d]
<1>1. results[c] \in Seq(Codes)
  BY DEF TypeOK
<1>2. Append(results[c], code) \in Seq(Codes)
      /\ Len(Append(results[c], code)) = Len(results[c]) + 1
  BY <1>1, AppendProperties
<1>3. QED
  BY <1>2 DEF Answer, TypeOK

\* An invocation of the lists ks keeps the subscriber state well typed.
LEMMA InvokeType ==
    ASSUME TypeOK, NEW ks \in SUBSET Lists, Invoke(ks)
    PROVE  /\ notes' \in [Callers -> [Lists -> Nat]]
           /\ subscribed' \in [Lists -> SUBSET Callers]
BY DEF Invoke, Notified, TypeOK

LEMMA TypeInit == Init => TypeOK
<1> SUFFICES ASSUME Init PROVE TypeOK
  OBVIOUS
<1>1. results \in [Callers -> Seq(Codes)]
  BY EmptySeq DEF Init
<1>2. pc \in [Callers -> PcStates] /\ calls \in [Callers -> 0..MaxCalls]
      /\ handlerCalls \in [Callers -> Nat]
  BY CallsAssumption DEF Init, PcStates
<1>3. subscribed \in [Lists -> SUBSET Callers]
      /\ subCalls \in [Callers -> [Lists -> Nat]]
      /\ notes \in [Callers -> [Lists -> Nat]]
  BY DEF Init
<1>4. QED
  BY <1>1, <1>2, <1>3 DEF Init, TypeOK
-----------------------------------------------------------------------------
(* HandlerOnce is inductive together with TypeOK.                         *)

IInv == TypeOK /\ HandlerOnce

LEMMA InitIInv == Init => IInv
BY TypeInit DEF Init, IInv, HandlerOnce, InStartOrRun

\* The variables a step may set freely stay in their types.
Frame ==
    /\ stopped' \in BOOLEAN
    /\ hosts' \in {"stopped", "started"}
    /\ manual' \in BOOLEAN
    /\ pool' \in {"joined", "running", "shutdown"}
    /\ connectAnswer' \in [Callers -> {"none", "service_stopped", "delegated",
                                       "dropped"}]
    /\ stopReturned' \in BOOLEAN
    /\ subscriber' \in {"stopped", "started"}
    /\ conns' \in SUBSET Authorities
    /\ connsStopped' \in BOOLEAN

\* A link that neither answers nor touches the counters.
LEMMA QuietStep ==
    ASSUME IInv, NEW c \in Callers, NEW s \in PcStates,
           pc[c] \in InStartOrRun <=> s \in InStartOrRun,
           Goto(c, s), Frame,
           UNCHANGED <<calls, handlerCalls, results, subscribed, subCalls, notes>>
    PROVE  IInv'
<1>1. TypeOK'
  BY DEF IInv, TypeOK, Frame, Goto
<1>2. HandlerOnce'
  BY DEF IInv, TypeOK, HandlerOnce, Goto
<1>3. QED BY <1>1, <1>2 DEF IInv

\* A link that ends a start() or run() call with one handler call.
LEMMA AnswerStep ==
    ASSUME IInv, NEW c \in Callers, NEW code \in Codes,
           pc[c] \in InStartOrRun,
           Goto(c, "idle"), Answer(c, code), Frame,
           UNCHANGED <<calls, handlerCalls, subscribed, subCalls, notes>>
    PROVE  IInv'
<1>1. results' \in [Callers -> Seq(Codes)]
      /\ Len(results'[c]) = Len(results[c]) + 1
      /\ \A d \in Callers \ {c} : results'[d] = results[d]
  BY AnswerFacts DEF IInv
<1>2. "idle" \notin InStartOrRun /\ "idle" \in PcStates
  BY DEF InStartOrRun, PcStates
<1>3. TypeOK'
  BY <1>1, <1>2 DEF IInv, TypeOK, Goto, Frame
<1>4. HandlerOnce'
  <2> SUFFICES ASSUME NEW d \in Callers
               PROVE  Len(results'[d]) = handlerCalls'[d]
                        - (IF pc'[d] \in InStartOrRun THEN 1 ELSE 0)
    BY DEF HandlerOnce
  <2>1. CASE d = c
    BY <1>1, <1>2, <2>1 DEF IInv, TypeOK, HandlerOnce, Goto
  <2>2. CASE d # c
    BY <1>1, <2>2 DEF IInv, TypeOK, HandlerOnce, Goto
  <2>3. QED BY <2>1, <2>2
<1>5. QED
  BY <1>3, <1>4 DEF IInv

\* A caller between calls enters a call at s; a start() or run() call is
\* owed one handler call more.
LEMMA CallStep ==
    ASSUME IInv, NEW c \in Callers, NEW s \in PcStates,
           Call(c), Goto(c, s), Frame,
           \/ s \in InStartOrRun /\ handlerCalls' = [handlerCalls EXCEPT ![c] = @ + 1]
           \/ s \notin InStartOrRun /\ UNCHANGED handlerCalls,
           UNCHANGED <<results, subscribed, subCalls, notes>>
    PROVE  IInv'
<1>1. "idle" \notin InStartOrRun
  BY DEF InStartOrRun
<1>2. TypeOK'
  <2>1. calls' \in [Callers -> 0..MaxCalls]
    BY CallsAssumption DEF IInv, TypeOK, Call
  <2>2. handlerCalls' \in [Callers -> Nat]
    <3>1. CASE handlerCalls' = [handlerCalls EXCEPT ![c] = @ + 1]
      BY <3>1 DEF IInv, TypeOK
    <3>2. CASE UNCHANGED handlerCalls
      BY <3>2 DEF IInv, TypeOK
    <3>3. QED BY <3>1, <3>2
  <2>3. pc' \in [Callers -> PcStates]
    BY DEF IInv, TypeOK, Goto
  <2>4. QED
    BY <2>1, <2>2, <2>3 DEF IInv, TypeOK, Frame
<1>3. HandlerOnce'
  <2> SUFFICES ASSUME NEW d \in Callers
               PROVE  Len(results'[d]) = handlerCalls'[d]
                        - (IF pc'[d] \in InStartOrRun THEN 1 ELSE 0)
    BY DEF HandlerOnce
  <2>1. CASE d = c
    BY <1>1, <2>1 DEF IInv, TypeOK, HandlerOnce, Goto, Call
  <2>2. CASE d # c
    BY <2>2 DEF IInv, TypeOK, HandlerOnce, Goto
  <2>3. QED BY <2>1, <2>2
<1>4. QED BY <1>2, <1>3 DEF IInv

LEMMA NextIInv == IInv /\ [Next]_vars => IInv'
<1> SUFFICES ASSUME IInv, [Next]_vars PROVE IInv'
  OBVIOUS
<1>0. TypeOK
  BY DEF IInv
<1>1. ASSUME NEW c \in Callers, start(c) PROVE IInv'
  <2>1. Frame
    BY <1>0, <1>1 DEF start, Frame, chanVars, TypeOK
  <2>2. CASE stopped
    <3>1. Call(c) /\ Goto(c, "st_spawn")
          /\ handlerCalls' = [handlerCalls EXCEPT ![c] = @ + 1]
          /\ UNCHANGED <<results, subscribed, subCalls, notes>>
      BY <1>1, <2>2 DEF start, HandlerCall, chanVars
    <3>2. "st_spawn" \in PcStates /\ "st_spawn" \in InStartOrRun
      BY DEF PcStates, InStartOrRun
    <3>3. QED
      BY <2>1, <3>1, <3>2, CallStep
  <2>3. CASE ~stopped
    <3>1. Answer(c, "operation_failed") /\ Call(c) /\ Goto(c, "idle")
          /\ handlerCalls' = [handlerCalls EXCEPT ![c] = @ + 1]
      BY <1>1, <2>3 DEF start, HandlerCall
    <3>2. results' \in [Callers -> Seq(Codes)]
          /\ Len(results'[c]) = Len(results[c]) + 1
          /\ \A d \in Callers \ {c} : results'[d] = results[d]
      BY <1>0, <3>1, AnswerFacts DEF Codes
    <3>3. UNCHANGED <<subscribed, subCalls, notes>>
      BY <1>1 DEF start, chanVars
    <3>4. TypeOK'
      <4>1. calls' \in [Callers -> 0..MaxCalls]
        BY <1>0, <3>1, CallsAssumption DEF TypeOK, Call
      <4>2. handlerCalls' \in [Callers -> Nat] /\ pc' \in [Callers -> PcStates]
        BY <1>0, <3>1 DEF TypeOK, Goto, PcStates
      <4>3. QED
        BY <1>0, <2>1, <3>2, <3>3, <4>1, <4>2 DEF TypeOK, Frame
    <3>5. HandlerOnce'
      BY <1>0, <3>1, <3>2 DEF IInv, TypeOK, HandlerOnce, Goto, Call, InStartOrRun
    <3>6. QED BY <3>4, <3>5 DEF IInv
  <2>4. QED BY <2>2, <2>3
<1>2. ASSUME NEW c \in Callers, start_spawn(c) PROVE IInv'
  <2>1. Frame
    BY <1>0, <1>2 DEF start_spawn, Frame, chanVars, TypeOK
  <2>2. QED
    BY <1>2, <2>1, QuietStep DEF start_spawn, InStartOrRun, PcStates, chanVars
<1>3. ASSUME NEW c \in Callers, start_attach(c) PROVE IInv'
  <2>1. Frame
    BY <1>0, <1>3 DEF start_attach, Frame, chanVars, TypeOK
  <2>2. QED
    BY <1>3, <2>1, QuietStep DEF start_attach, InStartOrRun, PcStates
<1>4. ASSUME NEW c \in Callers, NEW ec \in SessionCodes,
             handle_manual_started(c, ec) PROVE IInv'
  <2>1. Frame /\ UNCHANGED <<calls, handlerCalls, subscribed, subCalls, notes>>
    BY <1>0, <1>4 DEF handle_manual_started, Frame, chanVars, TypeOK
  <2>2. CASE stopped
    BY <1>4, <2>1, <2>2, AnswerStep DEF handle_manual_started, InStartOrRun, Codes
  <2>3. CASE ~stopped /\ ec # "success"
    BY <1>4, <2>1, <2>3, AnswerStep DEF handle_manual_started, InStartOrRun, Codes,
                                        SessionCodes
  <2>4. CASE ~stopped /\ ec = "success"
    BY <1>4, <2>1, <2>4, QuietStep DEF handle_manual_started, InStartOrRun, PcStates
  <2>5. QED BY <2>2, <2>3, <2>4
<1>5. ASSUME NEW c \in Callers, NEW ok \in BOOLEAN,
             handle_hosts_loaded(c, ok) PROVE IInv'
  <2> DEFINE ec == IF hosts = "started" THEN "operation_failed"
                   ELSE IF ok THEN "success" ELSE "load_failed"
  <2>0. ec \in Codes
    BY DEF Codes
  <2>1. Frame /\ UNCHANGED <<calls, handlerCalls, subscribed, subCalls, notes>>
    BY <1>0, <1>5 DEF handle_hosts_loaded, Frame, chanVars, TypeOK
  <2>2. CASE stopped
    BY <1>5, <2>1, <2>2, AnswerStep DEF handle_hosts_loaded, InStartOrRun, Codes
  <2>3. CASE ~stopped /\ ec # "success"
    BY <1>5, <2>0, <2>1, <2>3, AnswerStep DEF handle_hosts_loaded, InStartOrRun
  <2>4. CASE ~stopped /\ ec = "success"
    BY <1>5, <2>1, <2>4, QuietStep DEF handle_hosts_loaded, InStartOrRun, PcStates
  <2>5. QED BY <2>2, <2>3, <2>4
<1>6. ASSUME NEW c \in Callers, NEW ec \in SessionCodes,
             handle_started(c, ec) PROVE IInv'
  <2>1. Frame /\ UNCHANGED <<calls, handlerCalls, subscribed, subCalls, notes>>
    BY <1>0, <1>6 DEF handle_started, Frame, chanVars, TypeOK
  <2>2. QED
    BY <1>6, <2>1, AnswerStep DEF handle_started, InStartOrRun, Codes, SessionCodes
<1>7. ASSUME NEW c \in Callers, run(c) PROVE IInv'
  <2>1. Frame /\ UNCHANGED <<results, subscribed, subCalls, notes>>
    BY <1>0, <1>7 DEF run, Frame, chanVars, TypeOK
  <2>2. QED
    BY <1>7, <2>1, CallStep DEF run, HandlerCall, InStartOrRun, PcStates
<1>8. ASSUME NEW c \in Callers, NEW ec \in SessionCodes,
             handle_inbound_started(c, ec) PROVE IInv'
  <2>1. Frame /\ UNCHANGED <<calls, handlerCalls, subscribed, subCalls, notes>>
    BY <1>0, <1>8 DEF handle_inbound_started, Frame, chanVars, TypeOK
  <2>2. CASE ec # "success"
    BY <1>8, <2>1, <2>2, AnswerStep DEF handle_inbound_started, InStartOrRun,
                                        Codes, SessionCodes
  <2>3. CASE ec = "success"
    BY <1>8, <2>1, <2>3, QuietStep DEF handle_inbound_started, InStartOrRun,
                                       PcStates
  <2>4. QED BY <2>2, <2>3
<1>9. ASSUME NEW c \in Callers, NEW ec \in SessionCodes,
             handle_running(c, ec) PROVE IInv'
  <2>1. Frame /\ UNCHANGED <<calls, handlerCalls, subscribed, subCalls, notes>>
    BY <1>0, <1>9 DEF handle_running, Frame, chanVars, TypeOK
  <2>2. QED
    BY <1>9, <2>1, AnswerStep DEF handle_running, InStartOrRun, Codes, SessionCodes
<1>10. ASSUME NEW c \in Callers, stop(c) PROVE IInv'
  <2>1. Frame /\ UNCHANGED <<results, subscribed, subCalls, notes>>
    BY <1>0, <1>10 DEF stop, Frame, chanVars, TypeOK
  <2>2. QED
    BY <1>10, <2>1, CallStep DEF stop, InStartOrRun, PcStates
<1>11. ASSUME NEW c \in Callers, close(c) PROVE IInv'
  <2>1. Frame /\ UNCHANGED <<results, subscribed, subCalls, notes>>
    BY <1>0, <1>11 DEF close, Frame, chanVars, TypeOK
  <2>2. QED
    BY <1>11, <2>1, CallStep DEF close, InStartOrRun, PcStates
<1>12. ASSUME NEW c \in Callers, NEW s \in {"idle", "close_join"},
              pc[c] \in {"stop_signal", "close_signal"}, StopSignal, Goto(c, s),
              UNCHANGED <<hosts, calls, handlerCalls, results, connectAnswer>>,
              stopReturned' \in BOOLEAN
       PROVE  IInv'
  <2>1. Lists \in SUBSET Lists /\ Invoke(Lists) /\ UNCHANGED subCalls
    BY <1>12 DEF StopSignal
  <2>2. notes' \in [Callers -> [Lists -> Nat]]
        /\ subscribed' \in [Lists -> SUBSET Callers]
    BY <1>0, <2>1, InvokeType
  <2>3. TypeOK'
    BY <1>0, <1>12, <2>1, <2>2 DEF StopSignal, Goto, TypeOK, PcStates
  <2>4. HandlerOnce'
    BY <1>0, <1>12 DEF IInv, Goto, TypeOK, HandlerOnce, InStartOrRun
  <2>5. QED BY <2>3, <2>4 DEF IInv
<1>13. ASSUME NEW c \in Callers, stop_signal(c) PROVE IInv'
  BY <1>13, <1>12 DEF stop_signal
<1>14. ASSUME NEW c \in Callers, close_signal(c) PROVE IInv'
  <2>1. "close_join" \in {"idle", "close_join"} /\ stopReturned' \in BOOLEAN
    BY <1>0, <1>14 DEF close_signal, TypeOK
  <2>2. QED
    BY <1>14, <1>12, <2>1 DEF close_signal
<1>15. ASSUME NEW c \in Callers, close_join(c) PROVE IInv'
  <2>1. Frame /\ UNCHANGED <<calls, handlerCalls, results, subscribed, subCalls, notes>>
    BY <1>0, <1>15 DEF close_join, Frame, chanVars, TypeOK
  <2>2. QED
    BY <1>15, <2>1, QuietStep DEF close_join, InStartOrRun, PcStates
<1>16. ASSUME NEW c \in Callers, connect(c) PROVE IInv'
  <2>1. Frame /\ UNCHANGED <<results, subscribed, subCalls, notes>>
    BY <1>0, <1>16 DEF connect, Frame, chanVars, TypeOK
  <2>2. CASE stopped
    BY <1>16, <2>1, <2>2, CallStep DEF connect, InStartOrRun, PcStates
  <2>3. CASE ~stopped
    BY <1>16, <2>1, <2>3, CallStep DEF connect, InStartOrRun, PcStates
  <2>4. QED BY <2>2, <2>3
<1>17. ASSUME NEW c \in Callers, connect_load(c) PROVE IInv'
  <2>1. Frame /\ UNCHANGED <<calls, handlerCalls, results, subscribed, subCalls, notes>>
    BY <1>0, <1>17 DEF connect_load, Frame, chanVars, TypeOK
  <2>2. QED
    BY <1>17, <2>1, QuietStep DEF connect_load, InStartOrRun, PcStates
<1>18. ASSUME NEW c \in Callers, NEW k \in Lists, subscribe(c, k) PROVE IInv'
  <2>1. TypeOK'
    <3>1. calls' \in [Callers -> 0..MaxCalls]
      BY <1>0, <1>18, CallsAssumption DEF subscribe, Call, TypeOK
    <3>2. subCalls' \in [Callers -> [Lists -> Nat]]
      BY <1>0, <1>18 DEF subscribe, TypeOK
    <3>3. notes' \in [Callers -> [Lists -> Nat]]
          /\ subscribed' \in [Lists -> SUBSET Callers]
      <4>1. CASE subscriber = "stopped"
        <5>1. notes' = [notes EXCEPT ![c][k] = @ + 1] /\ subscribed' = subscribed
          BY <1>18, <4>1 DEF subscribe
        <5>2. QED BY <1>0, <5>1 DEF TypeOK
      <4>2. CASE subscriber # "stopped"
        <5>1. subscribed' = [subscribed EXCEPT ![k] = @ \cup {c}] /\ notes' = notes
          BY <1>18, <4>2 DEF subscribe
        <5>2. QED BY <1>0, <5>1 DEF TypeOK
      <4>3. QED BY <4>1, <4>2
    <3>4. UNCHANGED <<stopped, hosts, manual, pool, pc, handlerCalls, results,
                      connectAnswer, stopReturned, subscriber, conns, connsStopped>>
      BY <1>18 DEF subscribe
    <3>5. QED
      BY <1>0, <3>1, <3>2, <3>3, <3>4 DEF TypeOK
  <2>2. HandlerOnce'
    BY <1>0, <1>18 DEF IInv, subscribe, TypeOK, HandlerOnce
  <2>3. QED BY <2>1, <2>2 DEF IInv
<1>19. ASSUME NEW a \in Authorities, NEW notify \in BOOLEAN,
              session_store(a, notify) PROVE IInv'
  <2>1. CASE ~connsStopped /\ a \notin conns /\ notify
    <3>1. {"channel"} \in SUBSET Lists /\ Invoke({"channel"}) /\ UNCHANGED subCalls
      BY <1>19, <2>1 DEF session_store, Lists
    <3>2. notes' \in [Callers -> [Lists -> Nat]]
          /\ subscribed' \in [Lists -> SUBSET Callers]
      BY <1>0, <3>1, InvokeType
    <3>3. TypeOK'
      BY <1>0, <1>19, <3>2 DEF session_store, TypeOK
    <3>4. HandlerOnce'
      BY <1>0, <1>19 DEF IInv, session_store, HandlerOnce
    <3>5. QED BY <3>3, <3>4 DEF IInv
  <2>2. CASE ~(~connsStopped /\ a \notin conns /\ notify)
    <3>1. UNCHANGED <<notes, subscribed>>
      BY <1>19, <2>2 DEF session_store
    <3>2. QED
      BY <1>0, <1>19, <3>1 DEF IInv, session_store, TypeOK, HandlerOnce
  <2>3. QED BY <2>1, <2>2
<1>20. ASSUME NEW a \in Authorities, channel_removed(a) PROVE IInv'
  BY <1>0, <1>20 DEF IInv, channel_removed, TypeOK, HandlerOnce
<1>21. CASE UNCHANGED vars
  BY <1>21 DEF IInv, vars, chanVars, TypeOK, HandlerOnce
<1>22. QED
  BY <1>1, <1>2, <1>3, <1>4, <1>5, <1>6, <1>7, <1>8, <1>9, <1>10, <1>11,
     <1>13, <1>14, <1>15, <1>16, <1>17, <1>18, <1>19, <1>20, <1>21 DEF Next

\* The type invariant of the p2p service: whatever the interleaving of the
\* callers' start/run/stop/close/connect/subscribe links and the sessions'
\* channel stores, every variable stays in its type (the call counters
\* within their bound, the handler results well-typed code sequences).
THEOREM TypeCorrect == Spec => []TypeOK
<1>1. Spec => []IInv
  BY InitIInv, NextIInv, PTL DEF Spec
<1>2. QED
  BY <1>1, PTL DEF IInv

\* Every start() and run() handler is called exactly once per call (each
\* link of the start and run chains, handle_started and handle_running,
\* ends with one handler call and a return), however the callers' links,
\* the sessions' callbacks, stop(), close() and the channel stores
\* interleave, for every number of callers and every bound on their calls.
THEOREM StartRunHandlerOnce == Spec => []HandlerOnce
<1>1. Spec => []IInv
  BY InitIInv, NextIInv, PTL DEF Spec
<1>2. QED
  BY <1>1, PTL DEF IInv
=============================================================================
