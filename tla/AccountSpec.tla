----------------------------- MODULE AccountSpec -----------------------------
(***************************************************************************)
(* What the account database promises about an account's keys, without    *)
(* commands, derivations, crashes or clients.                              *)
(*                                                                         *)
(* The account's hd_index is a counter of reserved key indices: it only    *)
(* ever moves forward by one.  An address record is only ever stored for   *)
(* the index reserved last, and at most once; an index reserved and never  *)
(* recorded (a derivation that failed, a node that crashed) is skipped for *)
(* good.                                                                   *)
(***************************************************************************)
EXTENDS Naturals, Sequences

VARIABLES
    next,    \* the account's hd_index: indices below it are reserved
    issued   \* key index of each recorded address, in order

avars == <<next, issued>>

Init ==
    /\ next = 0
    /\ issued = <<>>

\* The next key index is reserved.
Reserve ==
    /\ next' = next + 1
    /\ UNCHANGED issued

\* An address is recorded at the index reserved last, if none was yet.
Issue ==
    /\ next > 0
    /\ \A i \in 1..Len(issued) : issued[i] # next - 1
    /\ issued' = Append(issued, next - 1)
    /\ UNCHANGED next

Next == Reserve \/ Issue

Spec == Init /\ [][Next]_avars
=============================================================================
