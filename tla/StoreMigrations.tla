--------------------------- MODULE StoreMigrations ---------------------------
(***************************************************************************)
(* The telemetry database at core's start: Migrate runs the SQL files that *)
(* are not recorded yet, each in a transaction with its record, and        *)
(* ApplyRetentionPolicy replaces the retention policy in two statements of *)
(* their own.  Cores of different versions may start against one database  *)
(* (an upgrade that overlaps), die at any point and start again.  The      *)
(* first file declares the default policy.                                 *)
(***************************************************************************)
EXTENDS Naturals, FiniteSets

CONSTANTS
  OldCore, NewCore, \* two cores; the new one embeds one more file
  MaxStarts         \* bound: starts

Cores == {OldCore, NewCore}
Files == 1..2
Embedded(c) == IF c = OldCore THEN {1} ELSE Files
DefaultPolicy == "90 days"
NoPolicy == "none"

ASSUME StoreAssumption == NoPolicy \notin Cores /\ MaxStarts \in Nat

VARIABLES
  recorded, \* schema_migrations, committed
  ran,      \* file -> how often its statements were committed
  policy,   \* the retention policy: none, the default or the core that set it
  corePc,   \* core -> where its start is
  file,     \* core -> the file migrate's loop is at
  lost,     \* history: cores that removed the policy and did not come to adding theirs
  starts

storeVars == <<recorded, ran, policy, corePc, file, lost, starts>>

StoreTypeOK ==
  /\ recorded \subseteq Files /\ ran \in [Files -> Nat] /\ lost \subseteq Cores
  /\ policy \in {NoPolicy, DefaultPolicy} \cup Cores
  /\ corePc \in [Cores -> {"down", "check", "exec", "record", "commit", "remove", "add", "up"}]
  /\ file \in [Cores -> 1..3] /\ starts \in 0..MaxStarts

StoreInit ==
  /\ recorded = {} /\ ran = [f \in Files |-> 0] /\ policy = NoPolicy
  /\ corePc = [c \in Cores |-> "down"] /\ file = [c \in Cores |-> 1] /\ lost = {} /\ starts = 0

At(c, pc) == corePc[c] = pc
CoreTo(c, pc) == corePc' = [corePc EXCEPT ![c] = pc]
-----------------------------------------------------------------------------
(* Plausible bugs *)

\* The statements run outside the transaction of the record.
ExecFileAtOnce(c) ==
  /\ At(c, "exec") /\ CoreTo(c, "record")
  /\ ran' = [ran EXCEPT ![file[c]] = @ + 1]
  /\ UNCHANGED <<recorded, policy, file, lost, starts>>
-----------------------------------------------------------------------------
Start(c) ==
  /\ At(c, "down") /\ starts < MaxStarts
  /\ starts' = starts + 1 /\ CoreTo(c, "check") /\ file' = [file EXCEPT ![c] = 1]
  /\ UNCHANGED <<recorded, ran, policy, lost>>

\* SELECT EXISTS, outside the transaction: a recorded file is skipped.
CheckFile(c) ==
  /\ At(c, "check")
  /\ IF file[c] \notin Embedded(c) THEN CoreTo(c, "remove") /\ UNCHANGED file
     ELSE IF file[c] \in recorded THEN file' = [file EXCEPT ![c] = @ + 1] /\ UNCHANGED corePc
     ELSE CoreTo(c, "exec") /\ UNCHANGED file
  /\ UNCHANGED <<recorded, ran, policy, lost, starts>>

ExecFile(c) ==
  /\ At(c, "exec") /\ CoreTo(c, "record")
  /\ UNCHANGED <<recorded, ran, policy, file, lost, starts>>

\* INSERT of the primary key: it waits for another transaction that inserted it, and
\* fails once that one has committed; the transaction is rolled back and core gives up.
RecordFile(c) ==
  /\ At(c, "record")
  /\ \A d \in Cores \ {c} : ~(At(d, "commit") /\ file[d] = file[c])
  /\ CoreTo(c, IF file[c] \in recorded THEN "down" ELSE "commit")
  /\ UNCHANGED <<recorded, ran, policy, file, lost, starts>>

\* Statements and record take effect together; the answer may be lost, and core gives up.
CommitFile(c) ==
  /\ At(c, "commit")
  /\ recorded' = recorded \cup {file[c]} /\ ran' = [ran EXCEPT ![file[c]] = @ + 1]
  /\ policy' = IF file[c] = 1 /\ policy = NoPolicy THEN DefaultPolicy ELSE policy
  /\ \/ CoreTo(c, "check") /\ file' = [file EXCEPT ![c] = @ + 1]
     \/ CoreTo(c, "down") /\ UNCHANGED file
  /\ UNCHANGED <<lost, starts>>

\* remove_retention_policy; an error is logged only and core starts without adding.
RemoveRetention(c) ==
  /\ At(c, "remove")
  /\ \/ policy' = NoPolicy /\ lost' = lost \cup {c} /\ CoreTo(c, "add")
     \/ CoreTo(c, "up") /\ UNCHANGED <<policy, lost>>
  /\ UNCHANGED <<recorded, ran, file, starts>>

\* add_retention_policy with if_not_exists: a policy that is there stays.
AddRetention(c) ==
  /\ At(c, "add") /\ CoreTo(c, "up")
  /\ \/ policy' = (IF policy = NoPolicy THEN c ELSE policy) /\ lost' = {}
     \/ UNCHANGED <<policy, lost>>
  /\ UNCHANGED <<recorded, ran, file, starts>>

\* A statement fails, or the process dies: what was not committed is gone.
Dies(c) ==
  /\ ~At(c, "down") /\ CoreTo(c, "down")
  /\ UNCHANGED <<recorded, ran, policy, file, lost, starts>>

StoreNext ==
  \E c \in Cores :
    \/ Start(c) \/ CheckFile(c) \/ ExecFile(c) \/ RecordFile(c) \/ CommitFile(c)
    \/ RemoveRetention(c) \/ AddRetention(c) \/ Dies(c)

StoreSpec == StoreInit /\ [][StoreNext]_storeVars
-----------------------------------------------------------------------------
(* Properties *)

\* Every file was run once if it is recorded and never if not, in order; a core past its
\* migrations has all of its files; and a migrated database is without a retention policy
\* only if a core has removed it and has not come to adding its own.
StoreSound ==
  /\ StoreTypeOK
  /\ \A f \in Files : ran[f] = IF f \in recorded THEN 1 ELSE 0
  /\ \A f \in recorded : 1..f \subseteq recorded
  /\ \A c \in Cores : corePc[c] \in {"remove", "add", "up"} => Embedded(c) \subseteq recorded
  /\ (1 \in recorded /\ policy = NoPolicy) => lost # {}
=============================================================================
