-------------------------------- MODULE Wallet --------------------------------
(***************************************************************************)
(* The wallet commands of the node and the command-line client that posts  *)
(* them (explorer/extensions/wallet, explorer/extensions/miner/start.cpp,  *)
(* mvs-cli/main.cpp), for one account.                                     *)
(*                                                                         *)
(* The account database holds the account's hd_index (the next key index   *)
(* to derive) and its address records; it survives a crash of the node.    *)
(* getnewaddress loads the account, and for each of the count addresses    *)
(* derives the key at the loaded hd_index, increments the in-memory        *)
(* index, stores the account, then stores the address record.  start      *)
(* runs getnewaddress when the miner has no payment address, then starts   *)
(* the miner.  exportaccountasfile writes the account to a file.  The      *)
(* client posts a command to the node's RPC and exits when the reply       *)
(* comes or its 3000 ms timeout fires.                                     *)
(*                                                                         *)
(* A key, an address and an address record are identified by the key      *)
(* index they were derived at; mnemonics, keys, encryption and the JSON    *)
(* output are left out.  Every derivation step (the dispatch_command calls *)
(* and relay_exception) may fail; the node runs one command at a time.     *)
(***************************************************************************)
EXTENDS Naturals, Sequences

CONSTANTS
    MaxCount,   \* largest address count a getnewaddress request asks for
    MaxIndex,   \* bound on the account's hd_index
    MaxPosts    \* bound on the requests the client posts

\* The count bound covers the one address start asks for.
ASSUME WalletAssumption ==
    MaxCount \in Nat \ {0} /\ MaxIndex \in Nat /\ MaxPosts \in Nat

Commands == {"getnewaddress", "exportaccountasfile", "start"}

\* Where the node's command thread is: idle, inside getnewaddress's loop
\* (derive, then store the account, then store the address), about to call
\* miner.start(), or about to write the export file.
PcStates == {"idle", "derive", "store_account", "store_address", "miner_start",
             "export_write"}

VARIABLES
    hdIndex,     \* database: the stored account's hd_index
    stored,      \* database: key index of each stored address record, in order
    pc,          \* the node's command thread
    caller,      \* who runs getnewaddress: the client or start
    accIdx,      \* hd_index of the in-memory account copy (acc)
    key,         \* key index of the address being built (addr)
    todo,        \* iterations of getnewaddress's loop still to run
    serving,     \* the post the running command answers (0: none)
    inbox,       \* posts received by the node's RPC and not yet served
    minerAddr,   \* the miner has a payment address (from its configuration)
    exportFile,  \* the export file: "none", "written" or "failed"
    exportReply, \* what exportaccountasfile last answered
    cliPc,       \* the client: "idle" or "waiting" for its post
    cliPost,     \* the post the client waits for
    posts,       \* posts made so far
    cliExit,     \* the client's last exit status
    cliOutcome   \* what the client's last command really did

vars == <<hdIndex, stored, pc, caller, accIdx, key, todo, serving, inbox,
          minerAddr, exportFile, exportReply, cliPc, cliPost, posts, cliExit,
          cliOutcome>>

dbVars == <<hdIndex, stored>>
cliVars == <<cliPc, cliPost, posts, cliExit, cliOutcome>>

TypeOK ==
    /\ hdIndex \in 0..MaxIndex
    /\ stored \in Seq(0..MaxIndex)
    /\ pc \in PcStates
    /\ caller \in {"client", "start"}
    /\ accIdx \in 0..MaxIndex
    /\ key \in 0..MaxIndex
    /\ todo \in 0..MaxCount
    /\ serving \in 0..MaxPosts
    /\ inbox \in Seq((1..MaxPosts) \X Commands)
    /\ minerAddr \in BOOLEAN
    /\ exportFile \in {"none", "written", "failed"}
    /\ exportReply \in {"none", "success", "error"}
    /\ cliPc \in {"idle", "waiting"}
    /\ cliPost \in 0..MaxPosts
    /\ posts \in 0..MaxPosts
    /\ cliExit \in {"none", "okay", "failure"}
    /\ cliOutcome \in {"none", "ok", "error", "unknown"}

Init ==
    /\ hdIndex = 0
    /\ stored = <<>>
    /\ pc = "idle"
    /\ caller = "client"
    /\ accIdx = 0
    /\ key = 0
    /\ todo = 0
    /\ serving = 0
    /\ inbox = <<>>
    /\ minerAddr \in BOOLEAN
    /\ exportFile = "none"
    /\ exportReply = "none"
    /\ cliPc = "idle"
    /\ cliPost = 0
    /\ posts = 0
    /\ cliExit = "none"
    /\ cliOutcome = "none"

-----------------------------------------------------------------------------
(* The node's command thread.                                              *)

\* The command serving post p returns res ("ok" or "error", a thrown
\* exception); the RPC writes the reply to the post's connection, which
\* the client reads if it is still waiting for that post.
ReplyTo(p, res) ==
    /\ pc' = "idle"
    /\ serving' = 0
    /\ IF cliPc = "waiting" /\ cliPost = p
         THEN /\ cliPc' = "idle"
              /\ cliExit' = "okay"
              /\ cliOutcome' = res
         ELSE UNCHANGED <<cliPc, cliExit, cliOutcome>>
    /\ UNCHANGED <<cliPost, posts>>

Reply(res) == ReplyTo(serving, res)

\* The node's RPC hands it the oldest post, for command c.
Take(c) ==
    /\ pc = "idle"
    /\ inbox # <<>>
    /\ Head(inbox)[2] = c
    /\ inbox' = Tail(inbox)

\* getnewaddress::invoke up to its loop: is_account_passwd_valid loads the
\* account or throws on a bad password; an empty mnemonic or a count of 0
\* throws.  The loop starts at the loaded hd_index.
StartGetNewAddress(who, n) ==
    \E authOk \in BOOLEAN :
      IF authOk /\ n > 0
        THEN /\ pc' = "derive"
             /\ caller' = who
             /\ accIdx' = hdIndex
             /\ todo' = n
             /\ serving' = Head(inbox)[1]
             /\ UNCHANGED cliVars
        ELSE /\ ReplyTo(Head(inbox)[1], "error")
             /\ UNCHANGED <<caller, accIdx, todo>>

\* A getnewaddress request of some count.
serve_getnewaddress ==
    /\ Take("getnewaddress")
    /\ \E n \in 0..MaxCount : StartGetNewAddress("client", n)
    /\ UNCHANGED <<dbVars, key, minerAddr, exportFile, exportReply>>

\* start::invoke: without a payment address it dispatches getnewaddress
\* (one address); with one it goes straight to miner.start().
serve_start ==
    /\ Take("start")
    /\ IF minerAddr
         THEN /\ pc' = "miner_start"
              /\ serving' = Head(inbox)[1]
              /\ UNCHANGED <<caller, accIdx, todo, cliVars>>
         ELSE StartGetNewAddress("start", 1)
    /\ UNCHANGED <<dbVars, key, minerAddr, exportFile, exportReply>>

\* exportaccountasfile::invoke up to the write: it throws on a bad
\* password, a last word that does not match the mnemonic, a missing
\* destination directory or a null address list.
serve_export ==
    /\ Take("exportaccountasfile")
    /\ \/ /\ pc' = "export_write"
          /\ serving' = Head(inbox)[1]
          /\ UNCHANGED <<cliVars, exportReply>>
       \/ /\ ReplyTo(Head(inbox)[1], "error")
          /\ exportReply' = "error"
    /\ UNCHANGED <<dbVars, caller, accIdx, key, todo, minerAddr, exportFile>>

\* getnewaddress ends: to the client it replies; inside start, a failure
\* throws address_generate_exception and a success goes on to
\* miner.start() with the generated address dropped.
EndGetNewAddress(res) ==
    IF caller = "start" /\ res = "ok"
      THEN pc' = "miner_start" /\ UNCHANGED <<serving, cliVars>>
      ELSE Reply(res)

\* One iteration's derivation: mnemonic-to-seed, hd-new, hd-private at the
\* in-memory hd_index, hd-to-ec, ec-to-public, ec-to-address.  Any step may
\* fail and throw; on success the in-memory index is incremented.
derive ==
    /\ pc = "derive"
    /\ \/ /\ accIdx < MaxIndex
          /\ key' = accIdx
          /\ accIdx' = accIdx + 1
          /\ pc' = "store_account"
          /\ UNCHANGED <<serving, cliVars>>
       \/ /\ EndGetNewAddress("error")
          /\ UNCHANGED <<accIdx, key>>
    /\ UNCHANGED <<dbVars, caller, todo, inbox, minerAddr, exportFile, exportReply>>

\* Mutant: the account is not stored (store_account's write lost), so the
\* next command reloads the old hd_index.
store_account_skipped ==
    /\ pc = "store_account"
    /\ pc' = "store_address"
    /\ UNCHANGED <<hdIndex, stored, caller, accIdx, key, todo, serving, inbox,
                   minerAddr, exportFile, exportReply, cliVars>>

\* blockchain.store_account(acc): the account with its new hd_index.
store_account ==
    /\ pc = "store_account"
    /\ hdIndex' = accIdx
    /\ pc' = "store_address"
    /\ UNCHANGED <<stored, caller, accIdx, key, todo, serving, inbox, minerAddr,
                   exportFile, exportReply, cliVars>>

\* Mutant: the loop runs while idx <= count, one iteration too many.
store_address_overrun ==
    /\ pc = "store_address"
    /\ stored' = Append(stored, key)
    /\ todo' = todo - 1
    /\ IF todo > 0
         THEN pc' = "derive" /\ UNCHANGED <<serving, cliVars>>
         ELSE EndGetNewAddress("ok")
    /\ UNCHANGED <<hdIndex, caller, accIdx, key, inbox, minerAddr, exportFile,
                   exportReply>>

\* blockchain.store_account_address(addr), then the loop's next iteration
\* or the end of the command.
store_address ==
    /\ pc = "store_address"
    /\ stored' = Append(stored, key)
    /\ todo' = todo - 1
    /\ IF todo > 1
         THEN pc' = "derive" /\ UNCHANGED <<serving, cliVars>>
         ELSE EndGetNewAddress("ok")
    /\ UNCHANGED <<hdIndex, caller, accIdx, key, inbox, minerAddr, exportFile,
                   exportReply>>

\* start: miner.start() succeeds or not; the reply says which.
miner_start ==
    /\ pc = "miner_start"
    /\ \E ok \in BOOLEAN : Reply(IF ok THEN "ok" ELSE "error")
    /\ UNCHANGED <<dbVars, caller, accIdx, key, todo, inbox, minerAddr,
                   exportFile, exportReply>>

\* exportaccountasfile: the file is opened, written, flushed and closed
\* with no check of the stream, and the command reports success.
export_write ==
    /\ pc = "export_write"
    /\ \E ok \in BOOLEAN : exportFile' = IF ok THEN "written" ELSE "failed"
    /\ exportReply' = "success"
    /\ Reply("ok")
    /\ UNCHANGED <<dbVars, caller, accIdx, key, todo, inbox, minerAddr>>

\* The node process dies and restarts: the database keeps what was stored,
\* the running command, the RPC's pending posts and its connections are
\* lost, and a waiting client's post fails.
crash ==
    /\ pc' = "idle"
    /\ serving' = 0
    /\ inbox' = <<>>
    /\ IF cliPc = "waiting"
         THEN cliPc' = "idle" /\ cliExit' = "okay" /\ cliOutcome' = "unknown"
         ELSE UNCHANGED <<cliPc, cliExit, cliOutcome>>
    /\ UNCHANGED <<dbVars, caller, accIdx, key, todo, minerAddr, exportFile,
                   exportReply, cliPost, posts>>

-----------------------------------------------------------------------------
(* The command-line client (mvs-cli main).                                 *)

\* --help, or a command that is neither an extension nor a fetch- command:
\* it runs in the client, which exits with failure when it fails.
cli_local ==
    /\ cliPc = "idle"
    /\ \E ok \in BOOLEAN :
         /\ cliExit' = IF ok THEN "okay" ELSE "failure"
         /\ cliOutcome' = IF ok THEN "ok" ELSE "error"
    /\ UNCHANGED <<cliPc, cliPost, posts>>
    /\ UNCHANGED <<dbVars, pc, caller, accIdx, key, todo, serving, inbox,
                   minerAddr, exportFile, exportReply>>

\* An extension command is posted to the node's RPC.
cli_post(c) ==
    /\ cliPc = "idle"
    /\ posts < MaxPosts
    /\ posts' = posts + 1
    /\ inbox' = Append(inbox, <<posts + 1, c>>)
    /\ cliPc' = "waiting"
    /\ cliPost' = posts + 1
    /\ UNCHANGED <<cliExit, cliOutcome>>
    /\ UNCHANGED <<dbVars, pc, caller, accIdx, key, todo, serving, minerAddr,
                   exportFile, exportReply>>

\* The 3000 ms timeout of the post fires; main returns 0.
cli_timeout ==
    /\ cliPc = "waiting"
    /\ cliPc' = "idle"
    /\ cliExit' = "okay"
    /\ cliOutcome' = "unknown"
    /\ UNCHANGED <<cliPost, posts>>
    /\ UNCHANGED <<dbVars, pc, caller, accIdx, key, todo, serving, inbox,
                   minerAddr, exportFile, exportReply>>

Next ==
    \/ serve_getnewaddress \/ serve_start \/ serve_export
    \/ derive \/ store_account \/ store_address
    \/ miner_start \/ export_write \/ crash
    \/ cli_local \/ cli_timeout
    \/ \E c \in Commands : cli_post(c)

Spec == Init /\ [][Next]_vars

-----------------------------------------------------------------------------
(* Properties.                                                             *)

\* No key is handed out twice (getnewaddress stores the account's new
\* hd_index before the address record): however derivations fail, the
\* node crashes between the two stores, and start and the client's
\* retries run getnewaddress again, no two address records of the account
\* were derived at the same key index.
NoKeyReused ==
    \A i, j \in 1..Len(stored) : i # j => stored[i] # stored[j]


-----------------------------------------------------------------------------
(* Refinement: the account database implements AccountSpec.                *)

Account == INSTANCE AccountSpec WITH next <- hdIndex, issued <- stored

\* The account's stored hd_index and address records evolve as
\* AccountSpec says (store_account, store_address, crash): the index only
\* moves forward by one, and an address is stored only for the index the
\* last store_account reserved, once, whatever fails or crashes between
\* the two stores.
ImplementsAccount == Account!Spec
=============================================================================
