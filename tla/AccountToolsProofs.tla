------------------------- MODULE AccountToolsProofs -------------------------
(***************************************************************************)
(* Proofs about mvs-tools, for every set of names and passwords: the walk  *)
(* keeps its variables in their types and prints "not found" only         *)
(* when the table has no account of that name, in whatever order the walk *)
(* visits the accounts.                                                    *)
(***************************************************************************)
EXTENDS AccountTools, TLAPS

\* While the walk runs, the named account, if the table has it, has not
\* been visited yet: visiting it ends the program.
NamedAhead == pc = "loop" /\ argName \in DOMAIN accounts => argName \in todo

IInv == TypeOK /\ NamedAhead /\ NotFoundOnlyIfAbsent

\* The account table maps names to passwords.
LEMMA AccountsType ==
    ASSUME TypeOK
    PROVE  /\ DOMAIN accounts \subseteq Names
           /\ \A n \in DOMAIN accounts : accounts[n] \in Passwords
<1>1. PICK N \in SUBSET Names : accounts \in [N -> Passwords]
  BY DEF TypeOK
<1>2. QED
  BY <1>1

LEMMA IInvInit == Init => IInv
BY DEF Init, IInv, TypeOK, NamedAhead, NotFoundOnlyIfAbsent

\* A step of mvs-tools keeps the table and the command line.
LEMMA ConstantKept ==
    ASSUME [ToolsNext]_vars
    PROVE  UNCHANGED Constant
BY DEF ToolsNext, tools_start, tools_visit, tools_not_found, vars, Constant

LEMMA IInvStep == IInv /\ [ToolsNext]_vars => IInv'
<1> SUFFICES ASSUME IInv, [ToolsNext]_vars PROVE IInv'
  OBVIOUS
<1>0. UNCHANGED Constant /\ DOMAIN accounts \subseteq Names
      /\ \A n \in DOMAIN accounts : accounts[n] \in Passwords
  BY ConstantKept, AccountsType DEF IInv
<1> USE <1>0 DEF IInv, Constant
<1>1. CASE tools_start
  <2>1. TypeOK'
    BY <1>1 DEF tools_start, Exit, TypeOK
  <2>2. NamedAhead'
    BY <1>1 DEF tools_start, Exit, NamedAhead
  <2>3. QED
    BY <1>1, <2>1, <2>2 DEF tools_start, NotFoundOnlyIfAbsent
<1>2. ASSUME NEW n \in Names, tools_visit(n) PROVE IInv'
  <2>1. n \in todo /\ todo' = todo \ {n} /\ pc = "loop" /\ UNCHANGED notFound
    BY <1>2 DEF tools_visit
  <2>2. n \in DOMAIN accounts
    BY <2>1 DEF TypeOK
  <2>3. CASE n # argName
    <3>1. UNCHANGED <<pc, exit, out>>
      BY <1>2, <2>3 DEF tools_visit
    <3>2. TypeOK'
      BY <2>1, <3>1 DEF TypeOK
    <3>3. NamedAhead'
      BY <2>1, <2>3, <3>1 DEF NamedAhead
    <3>4. QED
      BY <2>1, <3>1, <3>2, <3>3 DEF NotFoundOnlyIfAbsent
  <2>4. CASE n = argName
    <3>1. pc' = "done" /\ exit' = 0
          /\ out' \in {out, out \cup {<<n, argPass>>}}
          /\ (out' # out => accounts[n] = argPass)
      BY <1>2, <2>4 DEF tools_visit, Exit
    <3>2. TypeOK'
      BY <2>1, <2>2, <3>1 DEF TypeOK
    <3>3. QED
      BY <2>1, <3>1, <3>2 DEF NamedAhead, NotFoundOnlyIfAbsent
  <2>5. QED
    BY <2>3, <2>4
<1>3. CASE tools_not_found
  <2>1. pc = "loop" /\ todo = {} /\ notFound' = TRUE /\ pc' = "done" /\ exit' = 0
        /\ UNCHANGED <<todo, out>>
    BY <1>3 DEF tools_not_found, Exit
  <2>2. argName \notin DOMAIN accounts
    BY <2>1 DEF NamedAhead
  <2>3. QED
    BY <2>1, <2>2 DEF TypeOK, NamedAhead, NotFoundOnlyIfAbsent
<1>4. CASE UNCHANGED vars
  BY <1>4 DEF vars, TypeOK, NamedAhead, NotFoundOnlyIfAbsent
<1>5. QED
  BY <1>1, <1>2, <1>3, <1>4 DEF ToolsNext

\* mvs-tools keeps its variables in their types (tools_start,
\* tools_visit, tools_not_found), for every set of names and passwords.
THEOREM TypeCorrect == ToolsSpec => []TypeOK
<1>1. ToolsSpec => []IInv
  BY IInvInit, IInvStep, PTL DEF ToolsSpec
<1>2. QED
  BY <1>1, PTL DEF IInv

\* mvs-tools prints "not found" only when the table has no account of
\* that name (tools_not_found runs only after the walk visited every
\* account, and visiting the named one ends the program), whatever order
\* the walk takes.
THEOREM NotFoundSound == ToolsSpec => []NotFoundOnlyIfAbsent
<1>1. ToolsSpec => []IInv
  BY IInvInit, IInvStep, PTL DEF ToolsSpec
<1>2. QED
  BY <1>1, PTL DEF IInv
=============================================================================
