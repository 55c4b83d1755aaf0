---------------------------- MODULE MCConnections ----------------------------
(* TLC instance of the modules of core's start, of registration and of who is *)
(* online, which share no state: each behaviour exercises one of them and     *)
(* leaves the others as they begin.                                           *)
EXTENDS MissionStreams, Presence, Registration, CollectionMigrations, StoreMigrations, TopicLayout

CONSTANTS Slices, m1, m2, s1, s2, s3

VARIABLE slice

allVars == <<slice, vars, presenceVars, registrationVars, migrationVars, storeVars, topicVars>>

\* One mission waits for its handler before it opens another stream, the other does not.
MCMissions == {m1, m2}
MCPatient  == {m1}
MCStreams  == {s1, s2, s3}

AllInit ==
  /\ slice \in Slices
  /\ Init /\ PresenceInit /\ RegistrationInit /\ MigrationInit /\ StoreInit /\ TopicInit
  /\ slice # "registration" => keys = Ids /\ mqtt
  /\ slice # "migrations" => committed = CHOOSE d \in Provisioned : TRUE

Of(name, step) == slice = name /\ step /\ UNCHANGED slice

InStreams(step)      == Of("streams", step) /\ UNCHANGED <<presenceVars, registrationVars, migrationVars, storeVars, topicVars>>
InPresence(step)     == Of("presence", step) /\ UNCHANGED <<vars, registrationVars, migrationVars, storeVars, topicVars>>
InRegistration(step) == Of("registration", step) /\ UNCHANGED <<vars, presenceVars, migrationVars, storeVars, topicVars>>
InMigrations(step)   == Of("migrations", step) /\ UNCHANGED <<vars, presenceVars, registrationVars, storeVars, topicVars>>
InStore(step)        == Of("store", step) /\ UNCHANGED <<vars, presenceVars, registrationVars, migrationVars, topicVars>>
InTopics(step)       == Of("topics", step) /\ UNCHANGED <<vars, presenceVars, registrationVars, migrationVars, storeVars>>

AllNext ==
  \/ InStreams(Next) \/ InPresence(PresenceNext) \/ InRegistration(RegistrationNext)
  \/ InMigrations(MigrationNext) \/ InStore(StoreNext) \/ InTopics(TopicNext)

\* A mission's handlers are scheduled and their publishes answered; the agent's goroutines,
\* the broker, core's handlers and the passing of time go on.
AllSpec ==
  /\ AllInit /\ [][AllNext]_allVars
  /\ \A s \in Streams : WF_allVars(InStreams(Serve(s)))
  /\ WF_allVars(InPresence(PresenceWork))
=============================================================================
