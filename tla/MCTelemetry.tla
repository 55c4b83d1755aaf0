----------------------------- MODULE MCTelemetry -----------------------------
(* TLC instance of the modules of the telemetry path that share no state: each *)
(* behaviour exercises one of them and leaves the others as they begin.        *)
EXTENDS TelemetryPipeline, EventThrottle, ConfigReload, TelemetryContract, LiveBroadcast, QueryPaging, TLC

CONSTANTS Slices, a1, s1, s2, s3, g1, g2, h1, h2

VARIABLE slice

vars == <<slice, pipelineVars, throttleVars, reloadVars, contractVars, liveVars, pagingVars>>

MCAgents     == {a1}
MCSignatures == {s1, s2, s3}

\* The agent moves between the groups and out of them, a group's schema is changed, dropped
\* and broken, persistence is switched.
MCGroups    == {g1, g2}
MCHashes    == {h1, h2}
MCMemberOf  == [v \in 0..MaxEdits |-> <<g1, g2, NoGroup, g1>>[v + 1]]
MCSchemaOf  == [v \in 0..MaxEdits |->
                  <<(g1 :> h1 @@ g2 :> h1), (g1 :> BadSchema @@ g2 :> h1),
                    (g1 :> h2 @@ g2 :> NoSchema), (g1 :> h2 @@ g2 :> h1)>>[v + 1]]
MCEnabledIn == [v \in 0..MaxEdits |-> <<{g1}, {g1, g2}, {g2}, {}>>[v + 1]]

Init ==
  /\ slice \in Slices
  /\ PipelineInit /\ ThrottleInit /\ ReloadInit /\ ContractInit /\ LiveInit /\ PagingInit

Of(name, step) == slice = name /\ step /\ UNCHANGED slice

InPipeline(step) == Of("pipeline", step) /\ UNCHANGED <<throttleVars, reloadVars, contractVars, liveVars, pagingVars>>
InThrottle(step) == Of("throttle", step) /\ UNCHANGED <<pipelineVars, reloadVars, contractVars, liveVars, pagingVars>>
InReload(step)   == Of("reload", step) /\ UNCHANGED <<pipelineVars, throttleVars, contractVars, liveVars, pagingVars>>
InContract(step) == Of("contract", step) /\ UNCHANGED <<pipelineVars, throttleVars, reloadVars, liveVars, pagingVars>>
InLive(step)     == Of("live", step) /\ UNCHANGED <<pipelineVars, throttleVars, reloadVars, contractVars, pagingVars>>
InPaging(step)   == Of("paging", step) /\ UNCHANGED <<pipelineVars, throttleVars, reloadVars, contractVars, liveVars>>

Next ==
  \/ InPipeline(PipelineNext) \/ InThrottle(ThrottleNext) \/ InReload(ReloadNext)
  \/ InContract(ContractNext) \/ InLive(LiveNext) \/ InPaging(PagingNext)

\* The daemon's consumer, the throttler's goroutines and timers, Publish and the viewers
\* that are not slow take finitely many steps, so one condition serves them.
Goroutines == InPipeline(Daemon) \/ InThrottle(ThrottleWork) \/ InLive(Publish \/ Watch)

Spec == Init /\ [][Next]_vars

\* Where Postgres answers, the store's Run goes on; its select takes each ready branch again
\* and again.
FairSpec ==
  /\ Spec /\ WF_vars(Goroutines)
  /\ WF_vars(InPipeline(TickAnswered)) /\ WF_vars(InPipeline(RunAnswered))
  /\ SF_vars(InPipeline(RowAnswered))
=============================================================================
