------------------------ MODULE CollectionMigrations ------------------------
(***************************************************************************)
(* The migrations of core's embedded PocketBase (cmd/core/migrations), as  *)
(* core applies them at every start before it reads a collection, and as   *)
(* `migrate down` reverts them.  The database may be new, may have been    *)
(* provisioned in part by the imperative code the migrations replaced, and *)
(* may hold the operator's own rows.  The command line applies what is     *)
(* pending before it reverts anything (setupPocketBase comes first).       *)
(*                                                                         *)
(* A schema is the set of its parts; of a collection's rows only matters   *)
(* whether it has some with the fixtures' identifiers and some without.    *)
(***************************************************************************)
EXTENDS Naturals, Sequences, SequencesExt

CONSTANTS
  MaxReverts,  \* bound: uses of `migrate down`
  MaxFailures, \* bound: starts that fail or die with a migration half applied
  MaxRows      \* bound: rows the operator adds

ASSUME MigrationAssumption ==
  MaxReverts \in Nat /\ MaxFailures \in Nat /\ MaxRows \in Nat

\* The files of cmd/core/migrations in the order of their names.
Migrations == <<"init_schema", "seed_dev_data", "layout_files", "layout_id_optional", "file_10KB",
                "file_10MB", "group_schema", "group_mapping", "agent_events",
                "telemetry_settings", "event_paths">>

\* initConfigCollections, in the order the collections are made.
ConfigCollections == <<"agent_groups", "agents", "missions", "layouts", "agent_layouts">>
Seeded == {"agents", "missions", "layouts", "agent_layouts"}
Filled == Seeded \cup {"users"}   \* collections with rows; the fixture of users is "admin"
UserFields == {"users.username", "users.role"}

\* What hangs on a collection: its fields, and relations to it keep it from being deleted.
PartsOf(coll) ==
  CASE coll = "agents"       -> {"agents", "agents.agent_group"}
    [] coll = "agent_groups" -> {"agent_groups", "group_schema", "group_mapping"}
    [] coll = "layouts"      -> {"layouts", "pixel_file", "gis_bound", "layout_id_optional", "file_10KB",
                                 "file_10MB"}
    [] coll = "agent_events" -> {"agent_events", "event_paths"}
    [] OTHER                 -> {coll}
Refers == [agents |-> {}, missions |-> {}, layouts |-> {}, agent_layouts |-> {},
           agent_groups |-> {"agents.agent_group", "telemetry_settings"}]

FullSchema ==
  UserFields \cup {"telemetry_settings"}
    \cup UNION {PartsOf(c) : c \in ToSet(ConfigCollections) \cup {"agent_events"}}

VARIABLES
  phase,     \* "stopped", "migrating", "loading", "serving", and "reverting" for `migrate down`
  command,   \* how many migrations the command is to revert; 0 for a start of the server
  data,      \* the database as the open transaction sees it: [schema, rows, applied]
  committed, \* the database
  reverts, failures, added, \* bounded counts
  refused,   \* history: a migration could not be applied or reverted
  trampled   \* history: a migration touched rows it should have left alone

migrationVars == <<phase, command, data, committed, reverts, failures, added, refused, trampled>>

\* What the imperative code may have left behind: some fields, some collections, the
\* relation if both its ends are there, and rows.
Provisioned ==
  {[schema |-> s, applied |-> 0,
    rows |-> [c \in Filled |-> IF c = "users" THEN u ELSE IF c \in s THEN r ELSE {}]] :
     s \in {p \in SUBSET {"users.username", "users.role", "agent_groups", "agents", "layouts",
                          "agents.agent_group"} :
              "agents.agent_group" \in p => {"agents", "agent_groups"} \subseteq p},
     r \in {{}, {"own"}, {"fixture"}}, u \in {{}, {"own"}, {"fixture"}}}

MigrationTypeOK ==
  /\ phase \in {"stopped", "migrating", "loading", "serving", "reverting"}
  /\ command \in 0..Len(Migrations)
  /\ \A d \in {data, committed} :
       /\ d.schema \subseteq FullSchema /\ d.applied \in 0..Len(Migrations)
       /\ d.rows \in [Filled -> SUBSET {"own", "fixture"}]
       /\ \A c \in Seeded : c \notin d.schema => d.rows[c] = {}
  /\ reverts \in 0..MaxReverts /\ failures \in 0..MaxFailures /\ added \in 0..MaxRows
  /\ refused \in BOOLEAN /\ trampled \in BOOLEAN

MigrationInit ==
  /\ committed \in Provisioned /\ data = committed
  /\ phase = "stopped" /\ command = 0
  /\ reverts = 0 /\ failures = 0 /\ added = 0 /\ refused = FALSE /\ trampled = FALSE
-----------------------------------------------------------------------------
(* Plausible bugs, each a changed form of a definition below; no run uses them, the *)
(* manifest's mutants do.                                                          *)

\* The groups go first, while agents still refer to them.
DropOrderGroupsFirst == <<"agent_groups", "agent_layouts", "agents", "missions", "layouts">>

\* Fixtures are added to whatever is there.
SeedAlways(d) == [d EXCEPT !.rows = [c \in Filled |-> d.rows[c] \cup {"fixture"}]]
-----------------------------------------------------------------------------
(* What each file does, up and down *)

AddParts(d, parts) == [d EXCEPT !.schema = @ \cup parts]
DropParts(d, parts) == [d EXCEPT !.schema = @ \ parts]

\* init_schema: each block leaves alone what is there already.
InitUsers(d) == AddParts(d, UserFields)
InitConfigCollections(d) == AddParts(d, ToSet(ConfigCollections))
InitAgentGroupRelation(d) == AddParts(d, {"agents.agent_group"})

\* seed_dev_data: fixtures for collections without a row, an admin if there is no user.
SeedIfEmpty(d) ==
  [d EXCEPT !.rows = [c \in Filled |-> IF d.rows[c] = {} THEN {"fixture"} ELSE d.rows[c]]]

\* The later files: what each looks up and fails without, adds, and takes out again.
File(needs, adds) == [needs |-> needs, adds |-> adds, takes |-> adds]

LayoutFiles       == File({"layouts"}, {"pixel_file", "gis_bound"})
LayoutIdOptional  == File({"layouts"}, {"layout_id_optional"})
LayoutFile10KB    == File({"layouts"}, {"file_10KB"})
LayoutFile10MB    == File({"layouts"}, {"file_10MB"})
GroupSchema       == File({"agent_groups"}, {"group_schema"})
GroupMapping      == File({"agent_groups"}, {"group_mapping"})
AgentEvents       == [File({}, {"agent_events"}) EXCEPT !.takes = PartsOf("agent_events")]
TelemetrySettings == File({"agent_groups"}, {"telemetry_settings"})
EventPaths        == File({"agent_events"}, {"event_paths"})

FileOf == [layout_files |-> LayoutFiles, layout_id_optional |-> LayoutIdOptional,
           file_10KB |-> LayoutFile10KB, file_10MB |-> LayoutFile10MB,
           group_schema |-> GroupSchema, group_mapping |-> GroupMapping,
           agent_events |-> AgentEvents, telemetry_settings |-> TelemetrySettings,
           event_paths |-> EventPaths]

Needs(file) ==
  CASE file = "init_schema" -> {} [] file = "seed_dev_data" -> Seeded [] OTHER -> FileOf[file].needs

Up(file, d) ==
  CASE file = "init_schema"   -> InitAgentGroupRelation(InitConfigCollections(InitUsers(d)))
    [] file = "seed_dev_data" -> SeedIfEmpty(d)
    [] OTHER                  -> AddParts(d, FileOf[file].adds)

\* deleteByField: by the fixtures' identifiers, whoever made the rows.
DeleteFixtures(d) == [d EXCEPT !.rows = [c \in Filled |-> d.rows[c] \ {"fixture"}]]

\* Collections are dropped one after the other, with their rows; one that something not
\* dropped before it still refers to cannot be.
DropOrder == <<"agent_layouts", "agents", "missions", "layouts", "agent_groups">>
PartsOfFirst(n) == UNION {PartsOf(DropOrder[i]) : i \in 1..n}
DropCollections(d) ==
  IF \E i \in 1..Len(DropOrder) : Refers[DropOrder[i]] \cap (d.schema \ PartsOfFirst(i - 1)) # {}
  THEN [d EXCEPT !.applied = Len(Migrations) + 1]
  ELSE [DropParts(d, PartsOfFirst(Len(DropOrder))) EXCEPT
          !.rows = [c \in Filled |-> IF c \in ToSet(DropOrder) THEN {} ELSE d.rows[c]]]

Down(file, d) ==
  CASE file = "init_schema"   -> DropParts(DropCollections(d), UserFields)
    [] file = "seed_dev_data" -> DeleteFixtures(d)
    [] OTHER                  -> DropParts(d, FileOf[file].takes)
-----------------------------------------------------------------------------
(* Core and its command line *)

\* setupPocketBase is the first thing both do.
StartCore(n) ==
  /\ phase = "stopped" /\ n \in 0..Len(Migrations)
  /\ n > 0 => reverts < MaxReverts
  /\ reverts' = IF n > 0 THEN reverts + 1 ELSE reverts
  /\ phase' = "migrating" /\ command' = n
  /\ UNCHANGED <<data, committed, failures, added, refused, trampled>>

\* The runner applies what is pending, in order.
ApplyNext ==
  /\ phase = "migrating" /\ data.applied < Len(Migrations)
  /\ LET file == Migrations[data.applied + 1] IN
       IF Needs(file) \subseteq data.schema
       THEN /\ data' = [Up(file, data) EXCEPT !.applied = data.applied + 1]
            /\ trampled' = (trampled \/ \E c \in Filled :
                              data.rows[c] # {} /\ data'.rows[c] # data.rows[c])
            /\ UNCHANGED <<phase, refused>>
       ELSE /\ data' = committed /\ phase' = "stopped" /\ refused' = TRUE /\ UNCHANGED trampled
  /\ UNCHANGED <<command, committed, reverts, failures, added>>

\* PocketBase commits after a file or after all of them.
CommitMigrations ==
  /\ phase \in {"migrating", "reverting"} /\ committed # data
  /\ committed' = data
  /\ UNCHANGED <<phase, command, data, reverts, failures, added, refused, trampled>>

\* Nothing is pending: the server loads its collections, the command reverts.
MigrationsApplied ==
  /\ phase = "migrating" /\ data.applied = Len(Migrations) /\ committed = data
  /\ phase' = IF command > 0 THEN "reverting" ELSE "loading"
  /\ UNCHANGED <<command, data, committed, reverts, failures, added, refused, trampled>>

RevertLast ==
  /\ phase = "reverting" /\ command > 0
  /\ LET after == Down(Migrations[data.applied], data) IN
       IF after.applied <= Len(Migrations)
       THEN /\ data' = [after EXCEPT !.applied = data.applied - 1]
            /\ command' = command - 1
            /\ trampled' = (trampled \/ (data.applied > 1 /\ \E c \in Filled :
                              "own" \in data.rows[c] /\ "own" \notin data'.rows[c]))
            /\ UNCHANGED <<phase, refused>>
       ELSE /\ data' = committed /\ phase' = "stopped" /\ command' = 0 /\ refused' = TRUE
            /\ UNCHANGED trampled
  /\ UNCHANGED <<committed, reverts, failures, added>>

\* The command is done.
CommandExits ==
  /\ phase = "reverting" /\ command = 0 /\ committed = data
  /\ phase' = "stopped"
  /\ UNCHANGED <<command, data, committed, reverts, failures, added, refused, trampled>>

\* A database error or a crash: what is not committed is rolled back.
StartFails ==
  /\ phase \in {"migrating", "reverting", "loading"} /\ failures < MaxFailures
  /\ failures' = failures + 1 /\ phase' = "stopped" /\ command' = 0 /\ data' = committed
  /\ UNCHANGED <<committed, reverts, added, refused, trampled>>

\* main's loaders read agents, missions, agent_layouts, agent_groups and telemetry_settings.
LoadCollections ==
  /\ phase = "loading" /\ phase' = "serving"
  /\ UNCHANGED <<command, data, committed, reverts, failures, added, refused, trampled>>

\* The operator adds a row of their own, and may take the fixtures out.
AddRow(c) ==
  /\ phase = "serving" /\ added < MaxRows /\ added' = added + 1
  /\ \E r \in {data.rows[c] \cup {"own"}, {"own"}} :
       data' = [data EXCEPT !.rows[c] = r] /\ committed' = data'
  /\ UNCHANGED <<phase, command, reverts, failures, refused, trampled>>

StopCore ==
  /\ phase = "serving" /\ phase' = "stopped"
  /\ UNCHANGED <<command, data, committed, reverts, failures, added, refused, trampled>>

MigrationNext ==
  \/ \E n \in 0..Len(Migrations) : StartCore(n)
  \/ ApplyNext \/ CommitMigrations \/ MigrationsApplied \/ RevertLast \/ CommandExits
  \/ StartFails \/ LoadCollections \/ StopCore
  \/ \E c \in Filled : AddRow(c)

MigrationSpec == MigrationInit /\ [][MigrationNext]_migrationVars
-----------------------------------------------------------------------------
(* Properties *)

\* Whatever the old code had provisioned, whatever was reverted and wherever a start
\* died, a core that serves has the whole schema, no file was ever refused for want of what
\* it looks up or alters, some user exists, and no migration put fixtures among rows that
\* were there or took one of the operator's own, but for the revert that drops the
\* collections.
CollectionsComeUp ==
  /\ MigrationTypeOK
  /\ phase \in {"loading", "serving"} => data.schema = FullSchema /\ data.rows["users"] # {}
  /\ ~refused /\ ~trampled
=============================================================================
