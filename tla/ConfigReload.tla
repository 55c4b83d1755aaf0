----------------------------- MODULE ConfigReload -----------------------------
(***************************************************************************)
(* Live configuration: an edit of a PocketBase collection commits, and the *)
(* goroutine of its request then runs the reloads bound to the collection. *)
(* Each reload reads the whole collection and installs what it read in one *)
(* or two tables, each under a lock of its own, none held across the two.  *)
(* Next to them the ingest consumer takes one telemetry message after      *)
(* another through tables that may be replaced between its reads.          *)
(*                                                                         *)
(* A collection's content is a version: the number of its edits.           *)
(*                                                                         *)
(* The core modelled has persistence configured. Without it the persist    *)
(* registry is nil, the reloads of mappings and toggles return at once and *)
(* a message is done after its validation: nothing reads the two tables.   *)
(***************************************************************************)
EXTENDS Naturals, Sequences, FiniteSets, Functions

CONSTANTS
  Groups,     \* agent groups
  NoGroup,    \* the agent belongs to none
  Hashes,     \* hashes of schemas that compile
  NoSchema,   \* a group without one
  BadSchema,  \* one that does not compile
  MemberOf,   \* MemberOf[v]: the agent's group in version v of the agents collection
  SchemaOf,   \* SchemaOf[v][g]: g's schema in version v of agent_groups
  EnabledIn,  \* EnabledIn[v]: the groups whose persist_enabled is set in version v
  MaxEdits    \* bound: edits of all collections together

Versions == 0..MaxEdits
Edits == 1..MaxEdits

ASSUME ReloadAssumption ==
  /\ MaxEdits \in Nat /\ NoGroup \notin Groups
  /\ MemberOf \in [Versions -> Groups \cup {NoGroup}]
  /\ SchemaOf \in [Versions -> [Groups -> Hashes \cup {NoSchema, BadSchema}]]
  /\ EnabledIn \in [Versions -> SUBSET Groups]

Collections == {"agents", "missions", "agent_layouts", "agent_groups", "telemetry_settings"}

\* bind: the hooks of one collection, in the order they reload; each calls the next one
\* before it reloads itself, so the last bound comes first.
Bound(coll) == CASE coll = "agents"             -> <<"memberships", "agents">>
                 [] coll = "missions"           -> <<"missions">>
                 [] coll = "agent_layouts"      -> <<"layouts">>
                 [] coll = "agent_groups"       -> <<"mappings", "schemas">>
                 [] coll = "telemetry_settings" -> <<"enabled">>

\* The tables one reload replaces, in order: SetAllowedAgents and SetAllowed replace two.
Replaces(reload) == CASE reload = "agents"   -> <<"agentTokens", "allowedAgents">>
                      [] reload = "missions" -> <<"missionTokens", "allowedMissions">>
                      [] OTHER               -> <<reload>>

TablesOf(coll) == UNION {Range(Replaces(r)) : r \in Range(Bound(coll))}
Tables == UNION {TablesOf(c) : c \in Collections}

VARIABLES
  db,        \* the version of each collection
  loaded,    \* the version each table was made from
  groupHash, \* Registry.groupHash
  compiled,  \* Registry.compiled: the hashes in it
  edit,      \* the requests: [coll, reloads, todo, snap]; reloads and todo are what is left
  disturbed, \* history: collections whose last edit overlapped another or failed to load
  msg,       \* the ingest consumer's message: [pc, checked, group, stored, mapping]
  touched    \* history: a table was replaced under the message

reloadVars == <<db, loaded, groupHash, compiled, edit, disturbed, msg, touched>>

\* What a group's schemas come to once compiled: those that do not are left out.
HashesOf(v) ==
  [g \in {h \in Groups : SchemaOf[v][h] \in Hashes} |-> SchemaOf[v][g]]

Active(e) == edit[e].reloads # <<>> \/ edit[e].todo # <<>>
Busy(coll) == \E e \in Edits : Active(e) /\ edit[e].coll = coll
NoEdit == [coll |-> "agents", reloads |-> <<>>, todo |-> <<>>, snap |-> 0]
NoReport == [pc |-> "idle", checked |-> NoSchema, group |-> NoGroup, stored |-> NoSchema,
              mapping |-> 0]

ReloadTypeOK ==
  /\ db \in [Collections -> Versions] /\ loaded \in [Tables -> Versions]
  /\ DOMAIN groupHash \subseteq Groups /\ Range(groupHash) \subseteq Hashes
  /\ compiled \subseteq Hashes
  /\ \A e \in Edits : /\ edit[e].coll \in Collections /\ edit[e].snap \in Versions
                      /\ Range(edit[e].todo) \subseteq TablesOf(edit[e].coll)
  /\ disturbed \subseteq Collections
  /\ msg.pc \in {"idle", "validate", "group", "enabled", "resolve", "mapping", "row"}
  /\ touched \in BOOLEAN

\* main loads and installs everything once before it binds the hooks.
ReloadInit ==
  /\ db = [c \in Collections |-> 0] /\ loaded = [t \in Tables |-> 0]
  /\ groupHash = HashesOf(0) /\ compiled = Range(HashesOf(0))
  /\ edit = [e \in Edits |-> NoEdit] /\ disturbed = {}
  /\ msg = NoReport /\ touched = FALSE

NextEdit == 1 + db["agents"] + db["missions"] + db["agent_layouts"] + db["agent_groups"]
              + db["telemetry_settings"]
-----------------------------------------------------------------------------
(* Plausible bugs, each a changed form of a definition below; no run uses them, the *)
(* manifest's mutants do.                                                          *)

\* What no group used before is evicted, not what none uses now.
SetGroupSchemasStale(e) ==
  /\ edit[e].todo # <<>> /\ Head(edit[e].todo) = "schemas"
  /\ groupHash' = HashesOf(edit[e].snap)
  /\ compiled' = (compiled \cup Range(HashesOf(edit[e].snap))) \cap Range(groupHash)
  /\ loaded' = [loaded EXCEPT !["schemas"] = edit[e].snap]
  /\ edit' = [edit EXCEPT ![e].todo = Tail(@)]
  /\ touched' = TRUE
  /\ UNCHANGED <<db, disturbed, msg>>

\* The content is read before the edit commits.
LoadEarly(e, ok) ==
  /\ edit[e].todo = <<>> /\ edit[e].reloads # <<>>
  /\ edit' = [edit EXCEPT ![e].reloads = Tail(@),
                          ![e].todo = IF ok THEN Replaces(Head(edit[e].reloads)) ELSE <<>>,
                          ![e].snap = db[edit[e].coll] - 1]
  /\ disturbed' = IF ok THEN disturbed ELSE disturbed \cup {edit[e].coll}
  /\ UNCHANGED <<db, loaded, groupHash, compiled, msg, touched>>

\* Validate's verdict is reused though the contract is looked up by another group.
ResolveAnyGroup ==
  /\ msg.pc = "resolve"
  /\ msg' = [msg EXCEPT !.pc = "mapping",
                        !.stored = IF groupHash = <<>> THEN NoSchema ELSE CHOOSE h \in compiled : TRUE]
  /\ UNCHANGED <<db, loaded, groupHash, compiled, edit, disturbed, touched>>
-----------------------------------------------------------------------------
(* Edits and their hooks *)

\* A request creates, updates or deletes a row; the hooks run after the commit, in the
\* request's own goroutine.
Commit(coll) ==
  /\ NextEdit \in Edits
  /\ db' = [db EXCEPT ![coll] = @ + 1]
  /\ edit' = [edit EXCEPT ![NextEdit] = [coll |-> coll, reloads |-> Bound(coll),
                                         todo |-> <<>>, snap |-> 0]]
  /\ disturbed' = IF Busy(coll) THEN disturbed \cup {coll} ELSE disturbed \ {coll}
  /\ UNCHANGED <<loaded, groupHash, compiled, msg, touched>>

\* A reload reads its collection; if it cannot, it is logged and the tables stay.
Load(e, ok) ==
  /\ edit[e].todo = <<>> /\ edit[e].reloads # <<>>
  /\ edit' = [edit EXCEPT ![e].reloads = Tail(@),
                          ![e].todo = IF ok THEN Replaces(Head(edit[e].reloads)) ELSE <<>>,
                          ![e].snap = db[edit[e].coll]]
  /\ disturbed' = IF ok THEN disturbed ELSE disturbed \cup {edit[e].coll}
  /\ UNCHANGED <<db, loaded, groupHash, compiled, msg, touched>>

\* SetAgentGroups, ResetRegTokens, SetLayouts, SetMappings, SetPersistEnabled, ...: a table
\* is replaced as a whole, under its own lock.
Install(e) ==
  /\ edit[e].todo # <<>> /\ Head(edit[e].todo) # "schemas"
  /\ loaded' = [loaded EXCEPT ![Head(edit[e].todo)] = edit[e].snap]
  /\ edit' = [edit EXCEPT ![e].todo = Tail(@)]
  /\ touched' = TRUE
  /\ UNCHANGED <<db, groupHash, compiled, disturbed, msg>>

\* SetGroupSchemas: what is not cached is compiled, what no group points at is evicted; a
\* schema that does not compile leaves its group without a contract and the others alone.
SetGroupSchemas(e) ==
  /\ edit[e].todo # <<>> /\ Head(edit[e].todo) = "schemas"
  /\ groupHash' = HashesOf(edit[e].snap)
  /\ compiled' = (compiled \cup Range(HashesOf(edit[e].snap))) \cap Range(HashesOf(edit[e].snap))
  /\ loaded' = [loaded EXCEPT !["schemas"] = edit[e].snap]
  /\ edit' = [edit EXCEPT ![e].todo = Tail(@)]
  /\ touched' = TRUE
  /\ UNCHANGED <<db, disturbed, msg>>
-----------------------------------------------------------------------------
(* The ingest consumer: each lookup takes and releases the lock *)

GroupID == MemberOf[loaded["memberships"]]

\* Resolve: no group, no schema, and a hash the cache does not have all mean no contract.
Resolve ==
  IF GroupID \in DOMAIN groupHash /\ groupHash[GroupID] \in compiled
  THEN groupHash[GroupID] ELSE NoSchema

Lookup(pc, next) == msg.pc = pc /\ msg' = next /\ UNCHANGED <<db, loaded, groupHash, compiled, edit, disturbed, touched>>

TakeMessage ==
  /\ msg.pc \in {"idle", "row"}
  /\ msg' = [NoReport EXCEPT !.pc = "validate"] /\ touched' = FALSE
  /\ UNCHANGED <<db, loaded, groupHash, compiled, edit, disturbed>>

\* Validate judges the payload by the contract of the moment.
ValidateMessage == Lookup("validate", [msg EXCEPT !.pc = "group", !.checked = Resolve])

\* enqueueTelemetryRow: an agent without a group has no row.
LookUpGroup ==
  Lookup("group", [msg EXCEPT !.pc = IF GroupID = NoGroup THEN "idle" ELSE "enabled",
                              !.group = GroupID])

LookUpToggle ==
  Lookup("enabled",
         [msg EXCEPT !.pc = IF msg.group \in EnabledIn[loaded["enabled"]] THEN "resolve" ELSE "idle"])

ResolveAgain == Lookup("resolve", [msg EXCEPT !.pc = "mapping", !.stored = Resolve])

LookUpMapping == Lookup("mapping", [msg EXCEPT !.pc = "row", !.mapping = loaded["mappings"]])
-----------------------------------------------------------------------------
ReloadNext ==
  \/ \E c \in Collections : Commit(c)
  \/ \E e \in Edits : \E ok \in BOOLEAN : Load(e, ok)
  \/ \E e \in Edits : Install(e) \/ SetGroupSchemas(e)
  \/ TakeMessage \/ ValidateMessage \/ LookUpGroup \/ LookUpToggle \/ ResolveAgain
  \/ LookUpMapping

ReloadSpec == ReloadInit /\ [][ReloadNext]_reloadVars
-----------------------------------------------------------------------------
(* Properties *)

\* Without a restart an edit is in force in all tables of its collection once its hooks
\* are done, and so is every edit before it, failed and overlapping ones included, as long
\* as the last edit of the collection overlapped none and could be read.
EditsTakeEffect ==
  \A c \in Collections : (~Busy(c) /\ c \notin disturbed) =>
    \A t \in TablesOf(c) : loaded[t] = db[c]

\* The cache holds a compiled schema for every group that points at one, whichever reload
\* came last, and nothing no group points at: Resolve's impossible case is impossible.
CacheServesGroups == compiled = Range(groupHash)

\* A row carries the schema it was judged by, of the group whose toggle let it through,
\* unless a table was replaced while its message was under way.
RowsAreCoherent ==
  (msg.pc = "row" /\ ~touched) =>
    /\ msg.checked = msg.stored
    /\ msg.group = MemberOf[loaded["memberships"]] /\ msg.group \in EnabledIn[loaded["enabled"]]
    /\ msg.stored = (IF msg.group \in DOMAIN groupHash THEN groupHash[msg.group] ELSE NoSchema)

ReloadSound == ReloadTypeOK /\ EditsTakeEffect /\ CacheServesGroups /\ RowsAreCoherent
=============================================================================
