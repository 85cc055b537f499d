------------------------------ MODULE CfsCustody ------------------------------
(***************************************************************************)
(* The signer as a cFS application (flight/cfs/custody/fsw/src/            *)
(* custody_app.c): started by the executive, it tests itself, loads the    *)
(* vehicle's key and writes every receipt it signs to a numbered file. It  *)
(* may be restarted at any time, and the key file may be replaced.         *)
(*                                                                         *)
(* A receipt is the command it answers and the key it is signed with;      *)
(* "torn" is a file that the file system cut short. The file system and    *)
(* the executive are external.                                             *)
(***************************************************************************)
EXTENDS Integers, Sequences

CONSTANTS
  Seeds,         \* keys that may be in the key file
  NoSeed,        \* the file is missing or has not 32 bytes
  MaxSignCmds, MaxCfsRestarts, MaxFileFaults \* bounds

ASSUME CfsAssumption == MaxSignCmds \in Nat

VARIABLES
  keyFile,
  app,       \* [up, tested, key, signed, errors]
  cf,        \* by number, what is in the receipt files
  cmds,      \* SIGN commands sent so far
  announced, \* history: the receipts announced in this life, in order
  cfsFaults  \* restarts and file faults so far

cfsVars == <<keyFile, app, cf, cmds, announced, cfsFaults>>

Empty == <<>>
Torn == <<"torn">>
Numbers == 1 .. MaxSignCmds

\* SelfTest and LoadKey: a build whose test fails, or without a key, runs on
\* but signs nothing.
Started(tested) == [up |-> TRUE, tested |-> tested, key |-> keyFile, signed |-> 0, errors |-> 0]

CfsInit ==
  /\ keyFile \in Seeds \cup {NoSeed}
  /\ \E tested \in BOOLEAN : app = Started(tested)
  /\ cf = [n \in Numbers |-> Empty]
  /\ cmds = 0 /\ announced = <<>>
  /\ cfsFaults = [restarts |-> 0, file |-> 0]

\* CUSTODY_AppMain again: everything in memory starts from zero.
CfsRestart ==
  /\ cfsFaults.restarts < MaxCfsRestarts
  /\ cfsFaults' = [cfsFaults EXCEPT !.restarts = @ + 1]
  /\ app' = Started(app.tested)
  /\ announced' = <<>>
  /\ UNCHANGED <<keyFile, cf, cmds>>

\* The pipe could not be made: the loop ends before its first command.
CfsExit ==
  /\ app.up /\ app.signed = 0 /\ app.errors = 0
  /\ app' = [app EXCEPT !.up = FALSE]
  /\ UNCHANGED <<keyFile, cf, cmds, announced, cfsFaults>>

\* The ground replaces the key file; the application reads it when it starts.
NewKeyFile ==
  /\ \E k \in Seeds \cup {NoSeed} : keyFile' = k
  /\ UNCHANGED <<app, cf, cmds, announced, cfsFaults>>

Refuse == app' = [app EXCEPT !.errors = @ + 1] /\ UNCHANGED <<cf, announced>>

Signs == app.tested /\ app.key # NoSeed

\* Fault: the receipt is counted before its file is opened.
WriteCountedFirst(receipt, opens, whole) ==
  LET n == app.signed + 1
  IN  IF ~opens
      THEN app' = [app EXCEPT !.signed = n, !.errors = @ + 1] /\ UNCHANGED <<cf, announced>>
      ELSE /\ cf' = [cf EXCEPT ![n] = IF whole THEN receipt ELSE Torn]
           /\ app' = [app EXCEPT !.signed = n]
           /\ announced' = Append(announced, receipt)

\* The end of Sign: to the next file, cut to nothing first; what OS_write
\* returns is not looked at. Only a file that was opened is counted.
Write(receipt, opens, whole) ==
  LET n == app.signed + 1
  IN  IF ~opens THEN Refuse
      ELSE /\ cf' = [cf EXCEPT ![n] = IF whole THEN receipt ELSE Torn]
           /\ app' = [app EXCEPT !.signed = n]
           /\ announced' = Append(announced, receipt)

\* Sign: a command of the wrong length or with an open string, or one that the
\* record does not take, is refused like any without a key or a passed test.
SignCommand ==
  /\ app.up /\ cmds < MaxSignCmds
  /\ cmds' = cmds + 1
  /\ \/ Refuse /\ UNCHANGED cfsFaults
     \/ /\ Signs
        /\ \E opens, whole \in BOOLEAN :
             /\ ~(opens /\ whole) => cfsFaults.file < MaxFileFaults
             /\ Write(<<cmds + 1, app.key>>, opens, whole)
             /\ cfsFaults' = [cfsFaults EXCEPT !.file = IF opens /\ whole THEN @ ELSE @ + 1]
  /\ UNCHANGED keyFile

CfsNext == CfsRestart \/ CfsExit \/ NewKeyFile \/ SignCommand

-----------------------------------------------------------------------------

\* The files up to the number announced hold this life's receipts in their
\* order, each under one key and for one command, unless the file system cut
\* it short; those above are receipts of earlier lives, untouched, older than
\* any of this one (README.md of flight/cfs: one record per file; a refused
\* command leaves no record).
FilesAreNumbered ==
  /\ app.signed = Len(announced)
  /\ \A n \in DOMAIN announced : cf[n] \in {announced[n], Torn}
  /\ \A n \in DOMAIN announced : \A m \in Numbers :
       m > app.signed /\ cf[m] \notin {Empty, Torn} => cf[m][1] < announced[n][1]
=============================================================================
