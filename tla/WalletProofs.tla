---------------------------- MODULE WalletProofs ----------------------------
(***************************************************************************)
(* Proofs about the wallet commands: every step keeps the variables in     *)
(* their types, and no key index is ever stored twice, for every bound on *)
(* the count, the hd_index and the client's posts.                         *)
(***************************************************************************)
EXTENDS Wallet, TLAPS, SequenceTheorems

\* Every stored address was derived below the stored hd_index, so a new
\* derivation, which starts at the stored hd_index, is fresh.
IndexAhead == \A i \in 1..Len(stored) : stored[i] < hdIndex

\* Where getnewaddress's loop is, relative to the database: before a
\* derivation the in-memory index is the stored one; after it the key is
\* the stored index and the in-memory index one past it; after
\* store_account the stored index is one past the key, which is above
\* every stored key.  The loop has an iteration left while it runs.
LoopState ==
    /\ pc = "derive" => accIdx = hdIndex
    /\ pc = "store_account" => key = hdIndex /\ accIdx = hdIndex + 1
    /\ pc = "store_address" =>
         /\ accIdx = hdIndex /\ hdIndex = key + 1
         /\ \A i \in 1..Len(stored) : stored[i] < key
    /\ pc \in {"derive", "store_account", "store_address"} => todo >= 1

IInv == TypeOK /\ IndexAhead /\ LoopState /\ NoKeyReused

USE WalletAssumption

\* A reply to post p keeps the client's variables in their types.
LEMMA ReplyType ==
    ASSUME TypeOK, NEW p, NEW res \in {"ok", "error"}, ReplyTo(p, res)
    PROVE  /\ pc' = "idle" /\ serving' = 0
           /\ cliPc' \in {"idle", "waiting"} /\ cliPost' = cliPost /\ posts' = posts
           /\ cliExit' \in {"none", "okay", "failure"}
           /\ cliOutcome' \in {"none", "ok", "error", "unknown"}
BY DEF ReplyTo, TypeOK

\* The head of a non-empty inbox is a post number and a command.
LEMMA HeadType ==
    ASSUME TypeOK, inbox # <<>>
    PROVE  /\ Head(inbox)[1] \in 1..MaxPosts /\ Head(inbox)[2] \in Commands
           /\ Tail(inbox) \in Seq((1..MaxPosts) \X Commands)
<1>1. Head(inbox) \in (1..MaxPosts) \X Commands /\ Tail(inbox) \in Seq((1..MaxPosts) \X Commands)
  BY HeadTailProperties DEF TypeOK
<1>2. QED BY <1>1

LEMMA TypeInit == Init => TypeOK
BY DEF Init, TypeOK, PcStates

LEMMA TypeStep == TypeOK /\ LoopState /\ [Next]_vars => TypeOK'
<1> SUFFICES ASSUME TypeOK, LoopState, [Next]_vars PROVE TypeOK'
  OBVIOUS
<1>1. ASSUME serve_getnewaddress PROVE TypeOK'
  <2>1. PICK n \in 0..MaxCount : StartGetNewAddress("client", n)
    BY <1>1 DEF serve_getnewaddress
  <2>2. inbox # <<>> /\ inbox' = Tail(inbox)
    BY <1>1 DEF serve_getnewaddress, Take
  <2>3. PICK authOk \in BOOLEAN :
          IF authOk /\ n > 0
            THEN /\ pc' = "derive" /\ caller' = "client" /\ accIdx' = hdIndex
                 /\ todo' = n /\ serving' = Head(inbox)[1] /\ UNCHANGED cliVars
            ELSE /\ ReplyTo(Head(inbox)[1], "error")
                 /\ UNCHANGED <<caller, accIdx, todo>>
    BY <2>1 DEF StartGetNewAddress
  <2>4. UNCHANGED <<dbVars, key, minerAddr, exportFile, exportReply>>
    BY <1>1 DEF serve_getnewaddress
  <2>5. CASE authOk /\ n > 0
    BY <2>2, <2>3, <2>4, <2>5, HeadType DEF TypeOK, PcStates, cliVars, dbVars
  <2>6. CASE ~(authOk /\ n > 0)
    <3>1. ReplyTo(Head(inbox)[1], "error") /\ UNCHANGED <<caller, accIdx, todo>>
      BY <2>3, <2>6
    <3>2. QED BY <2>2, <2>4, <3>1, ReplyType, HeadType DEF TypeOK, PcStates, dbVars
  <2>7. QED BY <2>5, <2>6
<1>2. ASSUME serve_start PROVE TypeOK'
  <2>1. inbox # <<>> /\ inbox' = Tail(inbox)
        /\ UNCHANGED <<dbVars, key, minerAddr, exportFile, exportReply>>
    BY <1>2 DEF serve_start, Take
  <2>2. CASE minerAddr
    BY <1>2, <2>1, <2>2, HeadType DEF serve_start, TypeOK, PcStates, cliVars, dbVars
  <2>3. CASE ~minerAddr
    <3>1. PICK authOk \in BOOLEAN :
            IF authOk /\ 1 > 0
              THEN /\ pc' = "derive" /\ caller' = "start" /\ accIdx' = hdIndex
                   /\ todo' = 1 /\ serving' = Head(inbox)[1] /\ UNCHANGED cliVars
              ELSE /\ ReplyTo(Head(inbox)[1], "error")
                   /\ UNCHANGED <<caller, accIdx, todo>>
      BY <1>2, <2>3 DEF serve_start, StartGetNewAddress
    <3>2. CASE authOk
      BY <2>1, <3>1, <3>2, HeadType DEF TypeOK, PcStates, cliVars, dbVars
    <3>3. CASE ~authOk
      BY <2>1, <3>1, <3>3, ReplyType, HeadType DEF TypeOK, PcStates, dbVars
    <3>4. QED BY <3>2, <3>3
  <2>4. QED BY <2>2, <2>3
<1>3. ASSUME serve_export PROVE TypeOK'
  <2>1. inbox # <<>> /\ inbox' = Tail(inbox)
        /\ UNCHANGED <<dbVars, caller, accIdx, key, todo, minerAddr, exportFile>>
    BY <1>3 DEF serve_export, Take
  <2>2. CASE pc' = "export_write" /\ serving' = Head(inbox)[1]
             /\ UNCHANGED <<cliVars, exportReply>>
    BY <2>1, <2>2, HeadType DEF TypeOK, PcStates, cliVars, dbVars
  <2>3. CASE ReplyTo(Head(inbox)[1], "error") /\ exportReply' = "error"
    BY <2>1, <2>3, ReplyType, HeadType DEF TypeOK, PcStates, dbVars
  <2>4. QED BY <1>3, <2>2, <2>3 DEF serve_export
<1>4. ASSUME derive PROVE TypeOK'
  <2>1. UNCHANGED <<dbVars, caller, todo, inbox, minerAddr, exportFile, exportReply>>
    BY <1>4 DEF derive
  <2>2. CASE accIdx < MaxIndex /\ key' = accIdx /\ accIdx' = accIdx + 1
             /\ pc' = "store_account" /\ UNCHANGED <<serving, cliVars>>
    BY <2>1, <2>2 DEF TypeOK, PcStates, cliVars, dbVars
  <2>3. CASE EndGetNewAddress("error") /\ UNCHANGED <<accIdx, key>>
    <3>1. ReplyTo(serving, "error")
      BY <2>3 DEF EndGetNewAddress, Reply
    <3>2. QED BY <2>1, <2>3, <3>1, ReplyType DEF TypeOK, PcStates, dbVars
  <2>4. QED BY <1>4, <2>2, <2>3 DEF derive
<1>5. ASSUME store_account PROVE TypeOK'
  BY <1>5 DEF store_account, TypeOK, PcStates, cliVars
<1>6. ASSUME store_address PROVE TypeOK'
  <2>1. todo >= 1 /\ stored' = Append(stored, key) /\ todo' = todo - 1
        /\ UNCHANGED <<hdIndex, caller, accIdx, key, inbox, minerAddr, exportFile,
                       exportReply>>
    BY <1>6 DEF store_address, LoopState
  <2>2. stored' \in Seq(0..MaxIndex) /\ todo' \in 0..MaxCount
    BY <2>1, AppendProperties DEF TypeOK
  <2>3. CASE todo > 1
    BY <1>6, <2>1, <2>2, <2>3 DEF store_address, TypeOK, PcStates, cliVars
  <2>4. CASE ~(todo > 1) /\ caller = "start"
    BY <1>6, <2>1, <2>2, <2>4 DEF store_address, EndGetNewAddress, TypeOK,
                                  PcStates, cliVars
  <2>5. CASE ~(todo > 1) /\ caller # "start"
    <3>1. ReplyTo(serving, "ok")
      BY <1>6, <2>5 DEF store_address, EndGetNewAddress, Reply
    <3>2. QED BY <2>1, <2>2, <3>1, ReplyType DEF TypeOK, PcStates
  <2>6. QED BY <2>3, <2>4, <2>5
<1>7. ASSUME miner_start PROVE TypeOK'
  <2>1. PICK ok \in BOOLEAN : ReplyTo(serving, IF ok THEN "ok" ELSE "error")
    BY <1>7 DEF miner_start, Reply
  <2>2. (IF ok THEN "ok" ELSE "error") \in {"ok", "error"}
    OBVIOUS
  <2>3. QED BY <1>7, <2>1, <2>2, ReplyType DEF miner_start, TypeOK, PcStates, dbVars
<1>8. ASSUME export_write PROVE TypeOK'
  <2>1. ReplyTo(serving, "ok") BY <1>8 DEF export_write, Reply
  <2>2. QED BY <1>8, <2>1, ReplyType DEF export_write, TypeOK, PcStates, dbVars
<1>9. ASSUME crash PROVE TypeOK'
  BY <1>9, EmptySeq DEF crash, TypeOK, PcStates, dbVars
<1>10. ASSUME cli_local PROVE TypeOK'
  BY <1>10 DEF cli_local, TypeOK, dbVars
<1>11. ASSUME NEW c \in Commands, cli_post(c) PROVE TypeOK'
  <2>1. inbox' \in Seq((1..MaxPosts) \X Commands)
    <3>1. <<posts + 1, c>> \in (1..MaxPosts) \X Commands
      BY <1>11 DEF cli_post, TypeOK
    <3>2. QED BY <1>11, <3>1, AppendProperties DEF cli_post, TypeOK
  <2>2. QED BY <1>11, <2>1 DEF cli_post, TypeOK, dbVars
<1>12. ASSUME cli_timeout PROVE TypeOK'
  BY <1>12 DEF cli_timeout, TypeOK, dbVars
<1>13. CASE UNCHANGED vars
  BY <1>13 DEF vars, TypeOK
<1>14. QED
  BY <1>1, <1>2, <1>3, <1>4, <1>5, <1>6, <1>7, <1>8, <1>9, <1>10, <1>11,
     <1>12, <1>13 DEF Next

-----------------------------------------------------------------------------
(* No key index is stored twice.                                           *)

\* Appending a key above every stored one keeps the keys distinct and
\* below the next index.
LEMMA AppendFresh ==
    ASSUME NEW s \in Seq(Nat), NEW k \in Nat,
           \A i, j \in 1..Len(s) : i # j => s[i] # s[j],
           \A i \in 1..Len(s) : s[i] < k
    PROVE  LET t == Append(s, k) IN
           /\ \A i, j \in 1..Len(t) : i # j => t[i] # t[j]
           /\ \A i \in 1..Len(t) : t[i] < k + 1
<1> DEFINE t == Append(s, k)
<1>1. Len(t) = Len(s) + 1 /\ t[Len(s) + 1] = k
      /\ \A i \in 1..Len(s) : t[i] = s[i]
  BY AppendProperties
<1>2. \A i \in 1..Len(t) : t[i] < k + 1
  BY <1>1
<1>3. \A i, j \in 1..Len(t) : i # j => t[i] # t[j]
  BY <1>1
<1>4. QED BY <1>2, <1>3

\* Steps that leave the database alone and end or leave getnewaddress's
\* loop as it was keep the invariant.
LEMMA QuietStep ==
    ASSUME IInv, TypeOK', UNCHANGED dbVars,
           \/ pc' \in {"idle", "miner_start", "export_write"}
           \/ UNCHANGED <<pc, accIdx, key, todo>>
    PROVE  IInv'
BY DEF IInv, IndexAhead, LoopState, NoKeyReused, dbVars

\* getnewaddress's start either enters the loop at the stored hd_index or
\* replies with an error.
LEMMA StartCases ==
    ASSUME NEW who, NEW n, StartGetNewAddress(who, n)
    PROVE  \/ pc' = "derive" /\ accIdx' = hdIndex /\ todo' = n /\ n > 0
           \/ pc' = "idle"
<1>1. PICK authOk \in BOOLEAN :
        IF authOk /\ n > 0
          THEN /\ pc' = "derive" /\ caller' = who /\ accIdx' = hdIndex
               /\ todo' = n /\ serving' = Head(inbox)[1] /\ UNCHANGED cliVars
          ELSE /\ ReplyTo(Head(inbox)[1], "error")
               /\ UNCHANGED <<caller, accIdx, todo>>
  BY DEF StartGetNewAddress
<1>2. CASE authOk /\ n > 0
  BY <1>1, <1>2
<1>3. CASE ~(authOk /\ n > 0)
  BY <1>1, <1>3 DEF ReplyTo
<1>4. QED BY <1>2, <1>3

LEMMA IInvInit == Init => IInv
BY TypeInit DEF Init, IInv, IndexAhead, LoopState, NoKeyReused

LEMMA IInvStep == IInv /\ [Next]_vars => IInv'
<1> SUFFICES ASSUME IInv, [Next]_vars PROVE IInv'
  OBVIOUS
<1>0. TypeOK'
  BY TypeStep DEF IInv
<1>1. ASSUME serve_getnewaddress PROVE IInv'
  <2>1. UNCHANGED dbVars
    BY <1>1 DEF serve_getnewaddress
  <2>2. PICK n \in 0..MaxCount : StartGetNewAddress("client", n)
    BY <1>1 DEF serve_getnewaddress
  <2>3. CASE pc' = "derive"
    <3>1. accIdx' = hdIndex /\ todo' = n /\ n > 0
      BY <2>2, <2>3, StartCases
    <3>2. QED BY <1>0, <2>1, <2>3, <3>1 DEF IInv, IndexAhead, LoopState, NoKeyReused, dbVars
  <2>4. CASE pc' # "derive"
    <3>1. pc' = "idle" BY <2>2, <2>4, StartCases
    <3>2. QED BY <1>0, <2>1, <3>1, QuietStep
  <2>5. QED BY <2>3, <2>4
<1>2. ASSUME serve_start PROVE IInv'
  <2>1. UNCHANGED dbVars
    BY <1>2 DEF serve_start
  <2>2. CASE pc' = "derive"
    <3>1. accIdx' = hdIndex /\ todo' = 1
      <4>1. CASE minerAddr BY <1>2, <2>2, <4>1 DEF serve_start
      <4>2. CASE ~minerAddr
        <5>1. StartGetNewAddress("start", 1) BY <1>2, <4>2 DEF serve_start
        <5>2. QED BY <2>2, <5>1, StartCases
      <4>3. QED BY <4>1, <4>2
    <3>2. QED BY <1>0, <2>1, <2>2, <3>1 DEF IInv, IndexAhead, LoopState, NoKeyReused, dbVars
  <2>3. CASE pc' # "derive"
    <3>1. pc' \in {"idle", "miner_start"}
      <4>1. CASE minerAddr BY <1>2, <4>1 DEF serve_start
      <4>2. CASE ~minerAddr
        <5>1. StartGetNewAddress("start", 1) BY <1>2, <4>2 DEF serve_start
        <5>2. QED BY <2>3, <5>1, StartCases
      <4>3. QED BY <4>1, <4>2
    <3>2. QED BY <1>0, <2>1, <3>1, QuietStep
  <2>4. QED BY <2>2, <2>3
<1>3. ASSUME serve_export PROVE IInv'
  <2>1. UNCHANGED dbVars /\ pc' \in {"idle", "export_write"}
    BY <1>3 DEF serve_export, ReplyTo
  <2>2. QED BY <1>0, <2>1, QuietStep
<1>4. ASSUME derive PROVE IInv'
  <2>1. UNCHANGED <<dbVars, todo>> /\ pc = "derive"
    BY <1>4 DEF derive
  <2>2. CASE pc' = "store_account"
    <3>1. key' = accIdx /\ accIdx' = accIdx + 1
      BY <1>4, <2>2 DEF derive, EndGetNewAddress, Reply, ReplyTo
    <3>2. accIdx = hdIndex /\ todo >= 1
      BY <2>1 DEF IInv, LoopState
    <3>3. QED BY <1>0, <2>1, <2>2, <3>1, <3>2
              DEF IInv, IndexAhead, LoopState, NoKeyReused, dbVars
  <2>3. CASE pc' # "store_account"
    <3>1. pc' = "idle"
      BY <1>4, <2>3 DEF derive, EndGetNewAddress, Reply, ReplyTo
    <3>2. QED BY <1>0, <2>1, <3>1, QuietStep
  <2>4. QED BY <2>2, <2>3
<1>5. ASSUME store_account PROVE IInv'
  <2>1. pc = "store_account" /\ hdIndex' = accIdx /\ pc' = "store_address"
        /\ UNCHANGED <<stored, accIdx, key, todo>>
    BY <1>5 DEF store_account
  <2>2. key = hdIndex /\ accIdx = hdIndex + 1 /\ todo >= 1
    BY <2>1 DEF IInv, LoopState
  <2>3. \A i \in 1..Len(stored) : stored[i] < key
    BY <2>2 DEF IInv, IndexAhead
  <2>4. IndexAhead'
    BY <1>0, <2>1, <2>2, <2>3 DEF IndexAhead, TypeOK
  <2>5. LoopState'
    BY <2>1, <2>2, <2>3 DEF LoopState
  <2>6. QED BY <1>0, <2>1, <2>4, <2>5 DEF IInv, NoKeyReused
<1>6. ASSUME store_address PROVE IInv'
  <2>1. pc = "store_address" /\ stored' = Append(stored, key) /\ todo' = todo - 1
        /\ UNCHANGED <<hdIndex, accIdx, key>>
    BY <1>6 DEF store_address
  <2>2. accIdx = hdIndex /\ hdIndex = key + 1
        /\ \A i \in 1..Len(stored) : stored[i] < key
    BY <2>1 DEF IInv, LoopState
  <2>3. stored \in Seq(Nat) /\ key \in Nat
    BY DEF IInv, TypeOK
  <2>4. /\ \A i, j \in 1..Len(stored') : i # j => stored'[i] # stored'[j]
        /\ \A i \in 1..Len(stored') : stored'[i] < key + 1
    BY <2>1, <2>2, <2>3, AppendFresh DEF IInv, NoKeyReused
  <2>5. NoKeyReused' /\ IndexAhead'
    BY <2>1, <2>2, <2>4 DEF NoKeyReused, IndexAhead
  <2>6. CASE todo > 1
    <3>1. pc' = "derive" BY <1>6, <2>6 DEF store_address
    <3>2. LoopState' BY <2>1, <2>2, <2>6, <3>1 DEF LoopState, IInv, TypeOK
    <3>3. QED BY <1>0, <2>5, <3>2 DEF IInv
  <2>7. CASE ~(todo > 1)
    <3>1. pc' \in {"idle", "miner_start"}
      BY <1>6, <2>7 DEF store_address, EndGetNewAddress, Reply, ReplyTo
    <3>2. LoopState' BY <3>1 DEF LoopState
    <3>3. QED BY <1>0, <2>5, <3>2 DEF IInv
  <2>8. QED BY <2>6, <2>7
<1>7. ASSUME miner_start PROVE IInv'
  BY <1>0, <1>7, QuietStep DEF miner_start, Reply, ReplyTo
<1>8. ASSUME export_write PROVE IInv'
  BY <1>0, <1>8, QuietStep DEF export_write, Reply, ReplyTo
<1>9. ASSUME crash PROVE IInv'
  BY <1>0, <1>9, QuietStep DEF crash
<1>10. ASSUME cli_local PROVE IInv'
  BY <1>0, <1>10, QuietStep DEF cli_local
<1>11. ASSUME NEW c \in Commands, cli_post(c) PROVE IInv'
  BY <1>0, <1>11, QuietStep DEF cli_post
<1>12. ASSUME cli_timeout PROVE IInv'
  BY <1>0, <1>12, QuietStep DEF cli_timeout
<1>13. CASE UNCHANGED vars
  BY <1>0, <1>13, QuietStep DEF vars, dbVars
<1>14. QED
  BY <1>1, <1>2, <1>3, <1>4, <1>5, <1>6, <1>7, <1>8, <1>9, <1>10, <1>11,
     <1>12, <1>13 DEF Next

\* Every step of the wallet commands, the client and crashes keeps every
\* variable in its type.
THEOREM TypeCorrect == Spec => []TypeOK
<1>1. Spec => []IInv
  BY IInvInit, IInvStep, PTL DEF Spec
<1>2. QED BY <1>1, PTL DEF IInv

\* getnewaddress never derives a key twice, for every count, hd_index
\* bound and number of posts: storing the account's incremented hd_index
\* before the address record means that a crash between the two stores, a
\* failed derivation, and a later getnewaddress (from the client's retry
\* or from start) all resume above every stored key.
THEOREM KeysFresh == Spec => []NoKeyReused
<1>1. Spec => []IInv
  BY IInvInit, IInvStep, PTL DEF Spec
<1>2. QED BY <1>1, PTL DEF IInv


-----------------------------------------------------------------------------
(* Refinement: the account database implements AccountSpec.                *)

\* Every step of the wallet is a step of AccountSpec on the database, or
\* leaves the database alone.
LEMMA AccountStep == IInv /\ [Next]_vars => [Account!Next]_Account!avars
<1> SUFFICES ASSUME IInv, [Next]_vars PROVE [Account!Next]_Account!avars
  OBVIOUS
<1>1. CASE store_account
  <2>1. pc = "store_account" /\ hdIndex' = accIdx /\ UNCHANGED stored
    BY <1>1 DEF store_account
  <2>2. accIdx = hdIndex + 1
    BY <2>1 DEF IInv, LoopState
  <2>3. QED
    BY <2>1, <2>2 DEF Account!Next, Account!Reserve
<1>2. CASE store_address
  <2>1. pc = "store_address" /\ stored' = Append(stored, key) /\ UNCHANGED hdIndex
    BY <1>2 DEF store_address
  <2>2. hdIndex = key + 1 /\ \A i \in 1..Len(stored) : stored[i] < key
    BY <2>1 DEF IInv, LoopState
  <2>3. key \in Nat /\ stored \in Seq(Nat)
    BY DEF IInv, TypeOK
  <2>4. hdIndex > 0 /\ key = hdIndex - 1
        /\ \A i \in 1..Len(stored) : stored[i] # hdIndex - 1
    BY <2>2, <2>3
  <2>5. QED
    BY <2>1, <2>4 DEF Account!Next, Account!Issue
<1>3. CASE UNCHANGED dbVars
  BY <1>3 DEF dbVars, Account!avars
<1>4. QED
  BY <1>1, <1>2, <1>3
     DEF Next, serve_getnewaddress, serve_start, serve_export, derive,
         miner_start, export_write, crash, cli_local, cli_post, cli_timeout,
         vars, dbVars

\* The account's stored hd_index only moves forward by one, and an address
\* record is stored only for the index the last store_account reserved,
\* once (store_account before store_address in getnewaddress's loop),
\* whatever fails or crashes in between, for every instance.
THEOREM AccountRefinement == Spec => ImplementsAccount
<1>1. Init => Account!Init
  BY DEF Init, Account!Init
<1>2. Spec => []IInv
  BY IInvInit, IInvStep, PTL DEF Spec
<1>3. QED
  BY <1>1, <1>2, AccountStep, PTL DEF Spec, ImplementsAccount, Account!Spec
=============================================================================
