---------------------------- MODULE ConnectorSpec ----------------------------
(***************************************************************************)
(* What the connector promises its sessions (spec.md sections 4.1 and 5),  *)
(* without resolvers, sockets, timers or a pending registry.               *)
(*                                                                         *)
(* A connect call is answered at once with service_stopped when the        *)
(* connector is stopped; otherwise it waits for its resolve, which either  *)
(* answers the call with an error and no attempt, or starts one attempt    *)
(* per address of a non-empty set, but only while the connector is not    *)
(* stopped.  Every attempt is answered exactly once, with success or an    *)
(* error, and nothing is answered twice.                                   *)
(***************************************************************************)
EXTENDS Sequences

CONSTANTS Requests, Addrs, NoAddr

VARIABLES
    stopped,    \* the connector was stopped
    call,       \* phase of each connect call
    att,        \* phase of each attempt <<request, address>>
    delivered   \* completions each call's handler received, in order

avars == <<stopped, call, att, delivered>>

Attempts == Requests \X Addrs

\* idle: not called; waiting: resolve outstanding; answered: ended without
\* attempts; attempting: its attempts were started.
CallStates == {"idle", "waiting", "answered", "attempting"}

AttemptCodes == {"success", "aborted", "refused", "channel_timeout"}

Answer(r, a, c) ==
    delivered' = [delivered EXCEPT ![r] = Append(@, [addr |-> a, code |-> c])]

Init ==
    /\ stopped = FALSE
    /\ call = [r \in Requests |-> "idle"]
    /\ att = [t \in Attempts |-> "none"]
    /\ delivered = [r \in Requests |-> <<>>]

\* A call arrives: answered at once if stopped, else its resolve starts.
Call(r) ==
    /\ call[r] = "idle"
    /\ IF stopped
         THEN call' = [call EXCEPT ![r] = "answered"]
              /\ Answer(r, NoAddr, "service_stopped")
         ELSE call' = [call EXCEPT ![r] = "waiting"] /\ UNCHANGED delivered
    /\ UNCHANGED <<stopped, att>>

\* The resolve ends the call with an error.
Fail(r, c) ==
    /\ call[r] = "waiting"
    /\ call' = [call EXCEPT ![r] = "answered"]
    /\ Answer(r, NoAddr, c)
    /\ UNCHANGED <<stopped, att>>

\* The resolve starts one attempt per address of S, unless stopped.
Attempt(r, S) ==
    /\ call[r] = "waiting"
    /\ ~stopped
    /\ call' = [call EXCEPT ![r] = "attempting"]
    /\ att' = [t \in Attempts |->
                 IF t[1] = r /\ t[2] \in S THEN "outstanding" ELSE att[t]]
    /\ UNCHANGED <<stopped, delivered>>

\* An outstanding attempt is answered, once.
Complete(t, c) ==
    /\ att[t] = "outstanding"
    /\ att' = [att EXCEPT ![t] = "answered"]
    /\ Answer(t[1], t[2], c)
    /\ UNCHANGED <<stopped, call>>

Stop ==
    /\ stopped' = TRUE
    /\ UNCHANGED <<call, att, delivered>>

Next ==
    \/ Stop
    \/ \E r \in Requests :
         \/ Call(r)
         \/ \E c \in {"service_stopped", "resolve_failed"} : Fail(r, c)
         \/ \E S \in (SUBSET Addrs) \ {{}} : Attempt(r, S)
    \/ \E t \in Attempts, c \in AttemptCodes : Complete(t, c)

SafetySpec == Init /\ [][Next]_avars

=============================================================================
