---------------------------- MODULE AccountTools ----------------------------
(***************************************************************************)
(* The offline tools that read the account table and print an account's   *)
(* mnemonic: mvs-tools (src/mvs-tools/main.cpp) and the Windows build's    *)
(* mvstools (builds/msvc-140/mvstools/mvstools.cpp).  Each takes a user    *)
(* name and a password, opens the account table and walks its accounts.    *)
(*                                                                         *)
(* An account is its name and its password; a printed mnemonic is the     *)
(* account's name and the password it was decrypted with.  The table's    *)
(* order is not known, so the walk visits the accounts in any order.       *)
(***************************************************************************)
EXTENDS Integers, FiniteSets

CONSTANTS Names, Passwords

VARIABLES
    accounts,  \* the account table: each account's password
    argc,      \* number of command-line arguments, the program's included
    argName,   \* argv[1]
    argPass,   \* argv[2]
    dbExists,  \* the account table file exists
    pc,        \* "start", "loop" or "done"
    todo,      \* accounts the walk has not visited
    out,       \* mnemonics printed: <<account, password used>>
    notFound,  \* "not found" was printed
    exit       \* the exit status, once pc is "done"

vars == <<accounts, argc, argName, argPass, dbExists, pc, todo, out, notFound,
          exit>>

TypeOK ==
    /\ accounts \in UNION {[N -> Passwords] : N \in SUBSET Names}
    /\ argc \in 1..4 /\ argName \in Names /\ argPass \in Passwords
    /\ dbExists \in BOOLEAN
    /\ pc \in {"start", "loop", "done"}
    /\ todo \subseteq DOMAIN accounts
    /\ out \subseteq Names \X Passwords
    /\ notFound \in BOOLEAN
    /\ exit \in {-1, 0}

Init ==
    /\ accounts \in UNION {[N -> Passwords] : N \in SUBSET Names}
    /\ argc \in 1..4 /\ argName \in Names /\ argPass \in Passwords
    /\ dbExists \in BOOLEAN
    /\ pc = "start"
    /\ todo = {}
    /\ out = {}
    /\ notFound = FALSE
    /\ exit = 0

Constant == <<accounts, argc, argName, argPass, dbExists>>

Exit(code) == pc' = "done" /\ exit' = code

-----------------------------------------------------------------------------
(* mvs-tools                                                               *)

\* Mutant: usage errors exit with 1.
tools_start_exit1 ==
    /\ pc = "start"
    /\ IF argc < 3 \/ ~dbExists
         THEN Exit(1) /\ UNCHANGED todo
         ELSE pc' = "loop" /\ todo' = DOMAIN accounts /\ UNCHANGED exit
    /\ UNCHANGED <<Constant, out, notFound>>

\* Usage when fewer than two arguments; a third one names the table; a
\* missing table ends the program; otherwise the accounts are loaded.
tools_start ==
    /\ pc = "start"
    /\ IF argc < 3 \/ ~dbExists
         THEN Exit(-1) /\ UNCHANGED todo
         ELSE pc' = "loop" /\ todo' = DOMAIN accounts /\ UNCHANGED exit
    /\ UNCHANGED <<Constant, out, notFound>>

\* Mutant: the password is not compared.
tools_visit_nocheck(n) ==
    /\ pc = "loop"
    /\ n \in todo
    /\ todo' = todo \ {n}
    /\ IF n # argName
         THEN UNCHANGED <<pc, exit, out>>
         ELSE Exit(0) /\ out' = out \cup {<<n, argPass>>}
    /\ UNCHANGED <<Constant, notFound>>

\* Mutant: a wrong password skips the account instead of ending.
tools_visit_continue(n) ==
    /\ pc = "loop"
    /\ n \in todo
    /\ todo' = todo \ {n}
    /\ IF n # argName \/ accounts[n] # argPass
         THEN UNCHANGED <<pc, exit, out>>
         ELSE Exit(0) /\ out' = out \cup {<<n, argPass>>}
    /\ UNCHANGED <<Constant, notFound>>

\* One account of the walk: another name is skipped; the named account
\* with another password ends the program silently; with its password its
\* mnemonic is printed and the program ends.
tools_visit(n) ==
    /\ pc = "loop"
    /\ n \in todo
    /\ todo' = todo \ {n}
    /\ IF n # argName
         THEN UNCHANGED <<pc, exit, out>>
         ELSE /\ Exit(0)
              /\ IF accounts[n] # argPass THEN UNCHANGED out
                 ELSE out' = out \cup {<<n, argPass>>}
    /\ UNCHANGED <<Constant, notFound>>

\* The walk ends without the named account.
tools_not_found ==
    /\ pc = "loop"
    /\ todo = {}
    /\ notFound' = TRUE
    /\ Exit(0)
    /\ UNCHANGED <<Constant, todo, out>>

ToolsNext ==
    tools_start \/ tools_not_found \/ \E n \in Names : tools_visit(n)

ToolsSpec == Init /\ [][ToolsNext]_vars

-----------------------------------------------------------------------------
(* mvstools (msvc-140 build)                                               *)

\* Usage unless exactly two arguments; a missing table ends the program.
msvc_start ==
    /\ pc = "start"
    /\ IF argc # 3 \/ ~dbExists
         THEN Exit(-1) /\ UNCHANGED todo
         ELSE pc' = "loop" /\ todo' = DOMAIN accounts /\ UNCHANGED exit
    /\ UNCHANGED <<Constant, out, notFound>>

\* One account of the walk: its name and its mnemonic, decrypted with
\* argv[2], are printed (the name and password check is commented out).
msvc_visit(n) ==
    /\ pc = "loop"
    /\ n \in todo
    /\ todo' = todo \ {n}
    /\ out' = out \cup {<<n, argPass>>}
    /\ UNCHANGED <<Constant, pc, notFound, exit>>

msvc_end ==
    /\ pc = "loop"
    /\ todo = {}
    /\ Exit(0)
    /\ UNCHANGED <<Constant, todo, out, notFound>>

MsvcNext ==
    msvc_start \/ msvc_end \/ \E n \in Names : msvc_visit(n)

MsvcSpec == Init /\ [][MsvcNext]_vars

-----------------------------------------------------------------------------
(* Properties.                                                             *)

\* The tools print a mnemonic only for the account named on the command
\* line, and only when the password given is that account's: the account
\* table holds every user's encrypted mnemonic.
PrintsOnlyOwnMnemonic ==
    \A m \in out : m[1] = argName /\ m[2] = accounts[m[1]]

\* "not found" is printed only when the table has no account of that
\* name, however the walk is ordered.
NotFoundOnlyIfAbsent ==
    notFound => argName \notin DOMAIN accounts
=============================================================================
