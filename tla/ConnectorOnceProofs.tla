------------------------- MODULE ConnectorOnceProofs -------------------------
(***************************************************************************)
(* The exactly-once completion of the connector, for every set of         *)
(* requests, addresses and stop() callers.  ExactlyOnce is inductive      *)
(* together with RInv: a request has no socket before handle_resolve ran  *)
(* (Fresh), so its one address-less completion and its per-address        *)
(* completions never mix; and do_connecting starts at least one attempt   *)
(* (ResolvedNonEmpty).                                                     *)
(***************************************************************************)
EXTENDS ConnectorProofs, FiniteSetTheorems

\* The positions of a sequence of completions that concern address a.
CF(s, a) == {i \in 1..Len(s) : s[i].addr = a}

\* The positions a completion list has for one address form a finite set,
\* and appending a completion adds its own position to its address's set
\* and leaves the other addresses' sets alone.
LEMMA CFAppend ==
    ASSUME NEW s \in Seq(CompletionType), NEW e \in CompletionType, NEW a
    PROVE  /\ IsFiniteSet(CF(s, a))
           /\ Len(s) + 1 \notin CF(s, a)
           /\ CF(Append(s, e), a) =
                IF e.addr = a THEN CF(s, a) \cup {Len(s) + 1} ELSE CF(s, a)
<1>1. IsFiniteSet(1..Len(s)) /\ CF(s, a) \subseteq 1..Len(s)
  BY FS_Interval DEF CF
<1>2. IsFiniteSet(CF(s, a))
  BY <1>1, FS_Subset
<1>3. Len(Append(s, e)) = Len(s) + 1
      /\ \A i \in 1..Len(s) : Append(s, e)[i] = s[i]
      /\ Append(s, e)[Len(s) + 1] = e
  BY AppendProperties
<1>4. QED
  BY <1>2, <1>3 DEF CF

\* The number of completions for address a after one is appended.
LEMMA CFCount ==
    ASSUME NEW s \in Seq(CompletionType), NEW e \in CompletionType, NEW a
    PROVE  Cardinality(CF(Append(s, e), a)) =
             IF e.addr = a THEN Cardinality(CF(s, a)) + 1
                           ELSE Cardinality(CF(s, a))
<1>1. IsFiniteSet(CF(s, a)) /\ Len(s) + 1 \notin CF(s, a)
  BY CFAppend
<1>2. CASE e.addr = a
  BY <1>1, <1>2, CFAppend, FS_AddElement
<1>3. CASE e.addr # a
  BY <1>3, CFAppend
<1>4. QED
  BY <1>2, <1>3

\* No completion for address a is the same as a count of zero.
LEMMA CFEmpty ==
    ASSUME NEW s \in Seq(CompletionType), NEW a
    PROVE  Cardinality(CF(s, a)) = 0 <=> CF(s, a) = {}
<1>1. IsFiniteSet(CF(s, a))
  BY FS_Interval, FS_Subset DEF CF
<1>2. QED
  BY <1>1, FS_EmptySet

\* The addresses request r started an attempt on.
Started(r) == {a \in Addrs : sock[<<r, a>>] # "none"}

\* ExactlyOnce for one request, conjunct by conjunct: without attempts,
\* one completion once handled; with attempts, none without an address
\* and one per handled attempt; success exactly for channels.
EO1(r) == Started(r) = {} => Len(delivered[r]) = IF req[r] = "handled" THEN 1 ELSE 0
EO2(r) == Started(r) # {} =>
            /\ CompletionsFor(r, NoAddr) = {}
            /\ \A a \in Addrs :
                 Cardinality(CompletionsFor(r, a)) =
                   IF sock[<<r, a>>] \in Handled THEN 1 ELSE 0
EO3(r) == \A i \in 1..Len(delivered[r]) :
            (delivered[r][i].code = "success") <=>
              (delivered[r][i].addr # NoAddr
               /\ sock[<<r, delivered[r][i].addr>>] \in {"open", "killed"})
EO(r) == EO1(r) /\ EO2(r) /\ EO3(r)

\* Every completion a request's handler received names an address or none.
LEMMA CompletionAddr ==
    ASSUME TypeOK, NEW r \in Requests
    PROVE  \A i \in 1..Len(delivered[r]) : delivered[r][i].addr \in Addrs \cup {NoAddr}
<1>1. delivered[r] \in Seq(CompletionType)
  BY DEF TypeOK, CompletionType
<1>2. \A i \in 1..Len(delivered[r]) : delivered[r][i] \in CompletionType
  BY <1>1
<1>3. QED
  BY <1>2 DEF CompletionType

LEMMA EOAll == ExactlyOnce <=> \A r \in Requests : EO(r)
BY DEF ExactlyOnce, EO, EO1, EO2, EO3, Started

\* A step that leaves r's completions alone, keeps r handled or not, and
\* moves r's sockets only within the classes ExactlyOnce tells apart
\* (none, handed to a channel, owned by a channel) keeps r exactly once.
LEMMA Relabel ==
    ASSUME TypeOK, NEW r \in Requests, EO(r),
           delivered'[r] = delivered[r],
           req'[r] = "handled" <=> req[r] = "handled",
           \A a \in Addrs :
             /\ sock'[<<r, a>>] = "none" <=> sock[<<r, a>>] = "none"
             /\ sock'[<<r, a>>] \in Handled <=> sock[<<r, a>>] \in Handled
             /\ sock'[<<r, a>>] \in {"open", "killed"}
                  <=> sock[<<r, a>>] \in {"open", "killed"}
    PROVE  EO(r)'
<1> DEFINE d == delivered[r]
<1>1. Started(r)' = Started(r)
  BY DEF Started
<1>2. \A a : CompletionsFor(r, a)' = CompletionsFor(r, a)
  BY DEF CompletionsFor
<1>3. \A i \in 1..Len(d) : d[i].addr \in Addrs \cup {NoAddr}
  BY CompletionAddr
<1>4. \A i \in 1..Len(d) :
        (d[i].addr # NoAddr /\ sock'[<<r, d[i].addr>>] \in {"open", "killed"})
          <=> (d[i].addr # NoAddr /\ sock[<<r, d[i].addr>>] \in {"open", "killed"})
  BY <1>3
<1>5. EO1(r)' /\ EO2(r)'
  BY <1>1, <1>2 DEF EO, EO1, EO2
<1>6. EO3(r)'
  BY <1>4 DEF EO, EO3
<1>7. QED
  BY <1>5, <1>6 DEF EO

\* connect() on a stopped connector and handle_resolve()'s early returns:
\* the one completion of a request that has no socket, without an
\* address and not success, ends it.
LEMMA AnswerNoAddr ==
    ASSUME TypeOK, NEW r \in Requests, EO(r),
           req[r] # "handled", req'[r] = "handled",
           \A a \in Addrs : sock[<<r, a>>] = "none" /\ sock'[<<r, a>>] = "none",
           NEW c \in Codes \ {"success"},
           delivered'[r] = Append(delivered[r], Completion(NoAddr, c))
    PROVE  EO(r)'
<1>1. Started(r) = {} /\ Started(r)' = {}
  BY DEF Started
<1>2. Len(delivered[r]) = 0
  BY <1>1 DEF EO, EO1
<1>3. delivered[r] = << >>
  BY <1>2, EmptySeq DEF TypeOK
<1>4. delivered'[r] = << Completion(NoAddr, c) >>
  BY <1>3
<1>5. Completion(NoAddr, c).code # "success" /\ Completion(NoAddr, c).addr = NoAddr
  BY DEF Completion
<1>6. EO1(r)'
  BY <1>1, <1>4 DEF EO1
<1>7. EO2(r)'
  BY <1>1 DEF EO2
<1>8. EO3(r)'
  BY <1>4, <1>5 DEF EO3
<1>9. QED
  BY <1>6, <1>7, <1>8 DEF EO

\* do_connecting() for a request without sockets and completions: its
\* attempts on the resolved addresses S start, none of them handled.
LEMMA StartAttempts ==
    ASSUME TypeOK, NEW r \in Requests, EO(r), req[r] # "handled",
           \A a \in Addrs : sock[<<r, a>>] = "none",
           delivered'[r] = delivered[r],
           NEW S \in SUBSET Addrs, S # {},
           \A a \in Addrs : sock'[<<r, a>>] = IF a \in S THEN "connecting" ELSE "none"
    PROVE  EO(r)'
<1>1. Started(r) = {} /\ Started(r)' # {}
  BY DEF Started
<1>2. Len(delivered[r]) = 0
  BY <1>1 DEF EO, EO1
<1>3. \A a : CompletionsFor(r, a)' = {}
  BY <1>2 DEF CompletionsFor
<1>4. \A a \in Addrs : sock'[<<r, a>>] \notin Handled
  BY DEF Handled
<1>5. EO1(r)'
  BY <1>1 DEF EO1
<1>6. EO2(r)'
  BY <1>3, <1>4, FS_EmptySet DEF EO2
<1>7. EO3(r)'
  BY <1>2 DEF EO3
<1>8. QED
  BY <1>5, <1>6, <1>7 DEF EO

\* The code handle_connect() passes on for a queued socket outcome.
ConnectCode(o) == IF o = "connected" THEN "success" ELSE o

\* handle_connect() for r's attempt on b: its socket goes to a channel or
\* is closed, and its one completion says success exactly when it went to
\* a channel.
LEMMA ConnectDone ==
    ASSUME TypeOK, NEW r \in Requests, NEW b \in Addrs, EO(r),
           sock[<<r, b>>] \in Queued,
           sock'[<<r, b>>] = IF sock[<<r, b>>] = "connected" THEN "open" ELSE "closed",
           \A a \in Addrs \ {b} : sock'[<<r, a>>] = sock[<<r, a>>],
           req'[r] = req[r],
           delivered'[r] = Append(delivered[r], Completion(b, ConnectCode(sock[<<r, b>>])))
    PROVE  EO(r)'
<1> DEFINE d == delivered[r]
           ev == Completion(b, ConnectCode(sock[<<r, b>>]))
<1>1. d \in Seq(CompletionType) /\ ev \in CompletionType
  BY DEF TypeOK, CompletionType, Completion, Queued, Codes, ConnectCode
<1>2. \A a : CompletionsFor(r, a) = CF(d, a) /\ CompletionsFor(r, a)' = CF(delivered'[r], a)
  BY DEF CompletionsFor, CF
<1>3. b \in Started(r) /\ b \in Started(r)'
  BY DEF Started, Queued
<1>4. sock[<<r, b>>] \notin Handled
  BY DEF Queued, Handled
<1>5. /\ CF(d, NoAddr) = {}
      /\ \A a \in Addrs : Cardinality(CF(d, a)) = IF sock[<<r, a>>] \in Handled THEN 1 ELSE 0
  BY <1>2, <1>3 DEF EO, EO2
<1>6. CF(d, b) = {}
  BY <1>1, <1>4, <1>5, CFEmpty
<1>7. ev.addr = b /\ b # NoAddr /\ ev.code = ConnectCode(sock[<<r, b>>])
  BY ConstantsAssumption DEF Completion
<1>8. CF(Append(d, ev), NoAddr) = {}
  BY <1>1, <1>5, <1>7, CFAppend
<1>9. ASSUME NEW a \in Addrs
      PROVE  Cardinality(CF(Append(d, ev), a)) =
               IF sock'[<<r, a>>] \in Handled THEN 1 ELSE 0
  <2>1. Cardinality(CF(Append(d, ev), a)) =
          IF ev.addr = a THEN Cardinality(CF(d, a)) + 1 ELSE Cardinality(CF(d, a))
    BY <1>1, CFCount
  <2>2. CASE a = b
    <3>1. Cardinality(CF(d, b)) = 0
      BY <1>6, FS_EmptySet
    <3>2. sock'[<<r, b>>] \in Handled
      BY DEF Handled
    <3>3. QED
      BY <2>1, <2>2, <3>1, <3>2, <1>7
  <2>3. CASE a # b
    BY <1>5, <2>1, <2>3, <1>7
  <2>4. QED
    BY <2>2, <2>3
<1>10. EO2(r)'
  <2>1. delivered'[r] = Append(d, ev)
    OBVIOUS
  <2>2. \A a : CompletionsFor(r, a)' = CF(Append(d, ev), a)
    BY <2>1, <1>2
  <2>3. QED
    BY <1>8, <1>9, <2>2 DEF EO2
<1>11. ASSUME NEW i \in 1..Len(delivered'[r])
       PROVE  (delivered'[r][i].code = "success") <=>
                (delivered'[r][i].addr # NoAddr
                 /\ sock'[<<r, delivered'[r][i].addr>>] \in {"open", "killed"})
  <2>1. Len(delivered'[r]) = Len(d) + 1
    BY <1>1, AppendProperties
  <2>2. CASE i = Len(d) + 1
    <3>1. delivered'[r][i] = ev
      BY <1>1, <2>2, AppendProperties
    <3>2. (ConnectCode(sock[<<r, b>>]) = "success") <=> sock'[<<r, b>>] \in {"open", "killed"}
      BY DEF ConnectCode, Queued
    <3>3. QED
      BY <3>1, <3>2, <1>7
  <2>3. CASE i \in 1..Len(d)
    <3>1. delivered'[r][i] = d[i]
      BY <1>1, <2>3, AppendProperties
    <3>2. d[i].addr # b
      BY <1>6, <2>3 DEF CF
    <3>3. d[i].addr \in Addrs \cup {NoAddr}
      BY <2>3, CompletionAddr
    <3>4. (d[i].code = "success") <=>
            (d[i].addr # NoAddr /\ sock[<<r, d[i].addr>>] \in {"open", "killed"})
      BY <2>3 DEF EO, EO3
    <3>5. QED
      BY <3>1, <3>2, <3>3, <3>4
  <2>4. QED
    BY <2>1, <2>2, <2>3
<1>12. EO1(r)'
  BY <1>3 DEF EO1
<1>13. QED
  BY <1>10, <1>11, <1>12 DEF EO, EO3

LEMMA EOAllPrimed == ExactlyOnce' <=> \A r \in Requests : EO(r)'
BY DEF ExactlyOnce, EO, EO1, EO2, EO3, Started

\* The socket classes ExactlyOnce tells apart, kept by a step.
SameClass(t) ==
    /\ sock'[t] = "none" <=> sock[t] = "none"
    /\ sock'[t] \in Handled <=> sock[t] \in Handled
    /\ sock'[t] \in {"open", "killed"} <=> sock[t] \in {"open", "killed"}

\* A step that delivers nothing, handles no request and moves no socket
\* between those classes keeps every request exactly once.
LEMMA RelabelAll ==
    ASSUME TypeOK, ExactlyOnce, UNCHANGED delivered,
           \A r \in Requests : req'[r] = "handled" <=> req[r] = "handled",
           \A t \in Attempts : SameClass(t)
    PROVE  ExactlyOnce'
<1> SUFFICES ASSUME NEW r \in Requests PROVE EO(r)'
  BY EOAllPrimed
<1>1. EO(r)
  BY EOAll
<1>2. \A a \in Addrs : <<r, a>> \in Attempts
  BY DEF Attempts
<1>3. QED
  BY <1>1, <1>2, Relabel DEF SameClass

-----------------------------------------------------------------------------
(* The inductive invariant and the step.                                   *)

XInv == RInv /\ ExactlyOnce

\* A request other than the one a step answers keeps its completions,
\* its resolver state and its sockets, so it stays exactly once.
LEMMA Untouched ==
    ASSUME TypeOK, ExactlyOnce, NEW r \in Requests,
           delivered'[r] = delivered[r], req'[r] = req[r],
           \A a \in Addrs : sock'[<<r, a>>] = sock[<<r, a>>]
    PROVE  EO(r)'
BY EOAll, Relabel

\* Every action keeps ExactlyOnce, one step per handler.
LEMMA XStep == XInv /\ [Next]_vars => ExactlyOnce'
<1> SUFFICES ASSUME RInv, ExactlyOnce, [Next]_vars PROVE ExactlyOnce'
  BY DEF XInv
<1>0. TypeOK /\ TypeOK' /\ Fresh /\ ResolvedNonEmpty
  BY TypeStep DEF RInv
<1>1. ASSUME NEW r \in Requests, connect(r) PROVE ExactlyOnce'
  <2>1. CASE stopped
    <3>1. req[r] = "idle" /\ req' = [req EXCEPT ![r] = "handled"]
          /\ delivered' = [delivered EXCEPT ![r] = Append(@, Completion(NoAddr, "service_stopped"))]
          /\ UNCHANGED sock
      BY <1>1, <2>1 DEF connect, Deliver
    <3>2. \A a \in Addrs : sock[<<r, a>>] = "none"
      BY <1>0, <3>1 DEF Fresh
    <3>3. EO(r)'
      BY <1>0, <3>1, <3>2, EOAll, AnswerNoAddr DEF Codes, TypeOK
    <3>4. \A r2 \in Requests \ {r} : EO(r2)'
      BY <1>0, <3>1, Untouched DEF TypeOK
    <3>5. QED
      BY <3>3, <3>4, EOAllPrimed
  <2>2. CASE ~stopped
    <3>1. req[r] = "idle" /\ req' = [req EXCEPT ![r] = "pending"]
          /\ UNCHANGED <<delivered, sock>>
      BY <1>1, <2>2 DEF connect
    <3>2. QED
      BY <1>0, <3>1, RelabelAll DEF SameClass, TypeOK
  <2>3. QED
    BY <2>1, <2>2
<1>2. ASSUME NEW r \in Requests, handle_resolve(r) PROVE ExactlyOnce'
  <2>1. req[r] \in {"resolved", "failed", "canceled"} /\ req' = [req EXCEPT ![r] = "handled"]
    BY <1>2 DEF handle_resolve
  <2>2. \A a \in Addrs : sock[<<r, a>>] = "none"
    BY <1>0, <2>1 DEF Fresh
  <2>3. CASE stopped \/ req[r] # "resolved"
    <3>1. PICK c \in {"service_stopped", "resolve_failed"} :
            /\ delivered' = [delivered EXCEPT ![r] = Append(@, Completion(NoAddr, c))]
            /\ UNCHANGED sock
      BY <1>2, <2>3 DEF handle_resolve, Deliver
    <3>2. EO(r)'
      BY <1>0, <2>1, <2>2, <3>1, EOAll, AnswerNoAddr DEF Codes, TypeOK
    <3>3. \A r2 \in Requests \ {r} : EO(r2)'
      BY <1>0, <2>1, <3>1, Untouched DEF TypeOK
    <3>4. QED
      BY <3>2, <3>3, EOAllPrimed
  <2>4. CASE ~stopped /\ req[r] = "resolved"
    <3>1. do_connecting(r) /\ UNCHANGED delivered
      BY <1>2, <2>4 DEF handle_resolve
    <3>2. \A a \in Addrs :
            sock'[<<r, a>>] = IF a \in resolved[r] THEN "connecting" ELSE "none"
      BY <1>0, <2>2, <3>1 DEF do_connecting, Attempts
    <3>3. resolved[r] # {} /\ resolved[r] \in SUBSET Addrs
      BY <1>0, <2>4 DEF ResolvedNonEmpty, TypeOK
    <3>4. EO(r)'
      BY <1>0, <2>1, <2>2, <3>1, <3>2, <3>3, EOAll, StartAttempts
    <3>5. ASSUME NEW r2 \in Requests \ {r} PROVE EO(r2)'
      <4>1. \A a \in Addrs : sock'[<<r2, a>>] = sock[<<r2, a>>]
        BY <3>1 DEF do_connecting, Attempts
      <4>2. QED
        BY <1>0, <2>1, <3>1, <4>1, Untouched DEF TypeOK
    <3>6. QED
      BY <3>4, <3>5, EOAllPrimed
  <2>5. QED
    BY <2>3, <2>4
<1>3. ASSUME NEW t \in Attempts, handle_connect(t) PROVE ExactlyOnce'
  <2>1. PICK r \in Requests, b \in Addrs : t = <<r, b>>
    BY DEF Attempts
  <2>2. /\ sock[t] \in Queued
        /\ sock' = [sock EXCEPT ![t] = IF @ = "connected" THEN "open" ELSE "closed"]
        /\ delivered' = [delivered EXCEPT ![r] = Append(@, Completion(b, ConnectCode(sock[t])))]
        /\ UNCHANGED req
    BY <1>3, <2>1 DEF handle_connect, Deliver, ConnectCode
  <2>3. EO(r)'
    <3>1. \A a \in Addrs \ {b} : sock'[<<r, a>>] = sock[<<r, a>>]
      BY <2>1, <2>2
    <3>2. QED
      BY <1>0, <2>1, <2>2, <3>1, EOAll, ConnectDone DEF TypeOK
  <2>4. ASSUME NEW r2 \in Requests \ {r} PROVE EO(r2)'
    <3>1. \A a \in Addrs : sock'[<<r2, a>>] = sock[<<r2, a>>]
      BY <2>1, <2>2
    <3>2. QED
      BY <1>0, <2>2, <3>1, Untouched DEF TypeOK
  <2>5. QED
    BY <2>3, <2>4, EOAllPrimed
<1>4. ASSUME NEW r \in Requests, ResolveFail(r) PROVE ExactlyOnce'
  BY <1>0, <1>4, RelabelAll DEF ResolveFail, SameClass, TypeOK
<1>5. ASSUME NEW r \in Requests, NEW S \in (SUBSET Addrs) \ {{}},
             ResolveSucceed(r, S) PROVE ExactlyOnce'
  BY <1>0, <1>5, RelabelAll DEF ResolveSucceed, SameClass, TypeOK
<1>6. ASSUME NEW s \in Stoppers, safe_stop(s) PROVE ExactlyOnce'
  BY <1>0, <1>6, RelabelAll DEF safe_stop, SameClass, TypeOK
<1>7. ASSUME NEW s \in Stoppers, stop(s) PROVE ExactlyOnce'
  BY <1>0, <1>7, RelabelAll DEF stop, SameClass, Handled
<1>8. ASSUME NEW t \in Attempts, handle_timer(t) PROVE ExactlyOnce'
  BY <1>0, <1>8, RelabelAll DEF handle_timer, SameClass, Handled, TypeOK
<1>9. ASSUME NEW t \in Attempts, TimerExpire(t) PROVE ExactlyOnce'
  BY <1>0, <1>9, RelabelAll DEF TimerExpire, SameClass
<1>10. ASSUME NEW t \in Attempts, NEW o \in {"connected", "refused"},
              SocketComplete(t, o) PROVE ExactlyOnce'
  BY <1>0, <1>10, RelabelAll DEF SocketComplete, SameClass, Handled, TypeOK
<1>11. CASE UNCHANGED vars
  BY <1>0, <1>11, RelabelAll DEF vars, SameClass
<1>12. QED
  BY <1>1, <1>2, <1>3, <1>4, <1>5, <1>6, <1>7, <1>8, <1>9, <1>10, <1>11
     DEF Next

LEMMA XInit == Init => XInv
<1> SUFFICES ASSUME Init PROVE XInv
  OBVIOUS
<1>1. RInv
  BY RInvInit
<1>2. ASSUME NEW r \in Requests PROVE EO(r)
  <2>1. Started(r) = {} /\ delivered[r] = << >> /\ req[r] = "idle"
    BY DEF Init, Started, Attempts
  <2>2. QED
    BY <2>1 DEF EO, EO1, EO2, EO3
<1>3. QED
  BY <1>1, <1>2, EOAll DEF XInv

\* Exactly-once completion (handle_resolve, handle_timer, handle_connect,
\* stop): for every set of requests, addresses and stop() callers, a
\* request without attempts gets one address-less completion once
\* handled, a request with attempts gets exactly one completion per
\* finished attempt and none for the others, and a completion says success
\* exactly when its socket went to a channel.
THEOREM Once == Spec => []ExactlyOnce
<1>1. XInv /\ [Next]_vars => XInv'
  BY RInvStep, XStep DEF XInv
<1>2. Spec => []XInv
  BY XInit, <1>1, PTL DEF Spec
<1>3. QED
  BY <1>2, PTL DEF XInv


\* pending_.clear() in stop() never cancels a socket a channel owns:
\* handle_connect removes every socket it hands out from the registry, so
\* the registry only holds connects in flight, for every instance.
THEOREM PendingInFlight == Spec => []PendingOnlyInFlight
BY StopSafety, PTL
=============================================================================
