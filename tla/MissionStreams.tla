--------------------------- MODULE MissionStreams ---------------------------
(***************************************************************************)
(* Which missions are online: MissionGrpc.StreamMission, one goroutine for *)
(* every gRPC stream a mission opens, and the table of live streams in     *)
(* MissionRegistry that AttachStream, DetachStream, GetStream and          *)
(* ListMissions share.  The table is keyed by mission, and a mission that  *)
(* lost its connection may be back before its old goroutine has noticed.   *)
(*                                                                         *)
(* A stream that the interceptor refuses leaves no trace and is left out;  *)
(* what the client sent before it went counts as received before it went.  *)
(***************************************************************************)
CONSTANTS
  Missions,
  Streams,   \* streams that missions may open (bounds the run)
  NoStream, NoMission,
  Patient    \* missions that wait for their earlier handler to return before they
             \* open another stream; the others may come back at any time

ASSUME StreamsAssumption == NoStream \notin Streams /\ Patient \subseteq Missions

VARIABLES
  streams,  \* MissionRegistry.streams, NoStream where there is no entry
  handler,  \* the StreamMission goroutine of each stream: [pc, mission]
  gone      \* streams whose client has closed or lost them

vars == <<streams, handler, gone>>

Serving  == {"recv", "create"}
Entered  == {"attach", "recv", "create", "detach"}
Handlers(m, pcs) == {s \in Streams : handler[s].pc \in pcs /\ handler[s].mission = m}

TypeOK ==
  /\ streams \in [Missions -> Streams \cup {NoStream}]
  /\ handler \in [Streams -> [pc : Entered \cup {"unused", "returned"},
                             mission : Missions \cup {NoMission}]]
  /\ gone \subseteq Streams

Init ==
  /\ streams = [m \in Missions |-> NoStream]
  /\ handler = [s \in Streams |-> [pc |-> "unused", mission |-> NoMission]]
  /\ gone = {}
-----------------------------------------------------------------------------
(* Plausible bugs, each a changed form of a definition below; no run uses them, the *)
(* manifest's mutants do.                                                          *)

\* The deferred detach is missing.
ReturnAttached(s) ==
  /\ handler[s].pc = "detach"
  /\ handler' = [handler EXCEPT ![s].pc = "returned"]
  /\ UNCHANGED <<streams, gone>>

\* Detach runs when a CreateTask fails, with the stream still served.
CreateDetaches(s) ==
  /\ handler[s].pc = "create"
  /\ streams' = [streams EXCEPT ![handler[s].mission] = NoStream]
  /\ handler' = [handler EXCEPT ![s].pc = "recv"]
  /\ UNCHANGED gone

\* The detach is left to the return on io.EOF; an error returns without it.
RecvErrorReturns(s) ==
  /\ handler[s].pc = "recv" /\ s \in gone
  /\ \E pc \in {"detach", "returned"} : handler' = [handler EXCEPT ![s].pc = pc]
  /\ UNCHANGED <<streams, gone>>

\* The zero stream is stored before the handler has one.
AttachNothing(s) ==
  /\ handler[s].pc = "attach"
  /\ streams' = [streams EXCEPT ![handler[s].mission] = "nil"]
  /\ handler' = [handler EXCEPT ![s].pc = "recv"]
  /\ UNCHANGED gone
-----------------------------------------------------------------------------
\* A mission opens a stream and the interceptor lets it through.
Open(s, m) ==
  /\ handler[s].pc = "unused"
  /\ m \in Patient => Handlers(m, Entered) = {}
  /\ handler' = [handler EXCEPT ![s] = [pc |-> "attach", mission |-> m]]
  /\ UNCHANGED <<streams, gone>>

\* AttachStream: whatever stream the mission had is replaced.
Attach(s) ==
  /\ handler[s].pc = "attach"
  /\ streams' = [streams EXCEPT ![handler[s].mission] = s]
  /\ handler' = [handler EXCEPT ![s].pc = "recv"]
  /\ UNCHANGED gone

\* Recv returns a CreateTask; OnCreateTask runs on this goroutine, publish included.
RecvCreateTask(s) ==
  /\ handler[s].pc = "recv" /\ s \notin gone
  /\ handler' = [handler EXCEPT ![s].pc = "create"]
  /\ UNCHANGED <<streams, gone>>

\* OnCreateTask returns, with an error or without; the stream goes on.
CreateTaskReturns(s) ==
  /\ handler[s].pc = "create"
  /\ handler' = [handler EXCEPT ![s].pc = "recv"]
  /\ UNCHANGED <<streams, gone>>

\* The client closes the stream or its connection is lost.
ClientGoes(s) ==
  /\ handler[s].pc \in Entered /\ s \notin gone
  /\ gone' = gone \cup {s}
  /\ UNCHANGED <<streams, handler>>

\* Recv returns io.EOF or an error.
RecvEnds(s) ==
  /\ handler[s].pc = "recv" /\ s \in gone
  /\ handler' = [handler EXCEPT ![s].pc = "detach"]
  /\ UNCHANGED <<streams, gone>>

\* The deferred DetachStream deletes the mission's entry, whoever's it is by now.
Detach(s) ==
  /\ handler[s].pc = "detach"
  /\ streams' = [streams EXCEPT ![handler[s].mission] = NoStream]
  /\ handler' = [handler EXCEPT ![s].pc = "returned"]
  /\ UNCHANGED gone
-----------------------------------------------------------------------------
Serve(s) == Attach(s) \/ CreateTaskReturns(s) \/ RecvEnds(s) \/ Detach(s)

Next ==
  \/ \E s \in Streams, m \in Missions : Open(s, m)
  \/ \E s \in Streams : Serve(s) \/ RecvCreateTask(s) \/ ClientGoes(s)

Spec == Init /\ [][Next]_vars

\* The handlers are scheduled and OnCreateTask returns (its publish is answered).
FairSpec == Spec /\ \A s \in Streams : WF_vars(Serve(s))
-----------------------------------------------------------------------------
(* Properties *)

\* ListMissions' Online, and what GetStream finds.
Online(m) == streams[m] # NoStream

\* The table never holds a stream whose handler has returned, nor another mission's:
\* no update is sent on a dead stream the table still lists.
TableHoldsLiveStreams ==
  \A m \in Missions : Online(m) => streams[m] \in Handlers(m, {"recv", "create", "detach"})

\* A mission whose stream is being served is online: its status updates find a stream.
OnlineWhenServed(m) == Handlers(m, Serving) \ gone # {} => Online(m)

\* A patient mission's detach never removes a newer stream, whatever the others do.
PatientMissionIsOnline == \A m \in Patient : OnlineWhenServed(m)

\* The same for every mission, also one that is back before its old handler noticed.
ServedMissionIsOnline == \A m \in Missions : OnlineWhenServed(m)

\* A mission that has gone is shown offline in the end, however its streams overlapped.
GoneGoesOffline ==
  \A m \in Missions : <>[](Handlers(m, Entered) \subseteq gone) => <>[]~Online(m)
=============================================================================
