-------------------------- MODULE TaskManagerProofs --------------------------
(***************************************************************************)
(* Theorems about TaskManager for any set of tasks, any cache size and any *)
(* number of duplicates, reconnects and crashes: type correctness, a cache *)
(* whose map and list agree, one execution per tracked task, and outcomes  *)
(* reported only of tasks that were executed.                              *)
(***************************************************************************)
EXTENDS TaskManager, TLAPS

ListenerFrames == Frames({"idle", "recall", "republish", "start", "ack"})
WorkerFrames   == Frames({"idle", "execute", "remember", "publish", "ack"})

\* A frame that is in use is about a task.
BusyFrames ==
  /\ lis.pc # "idle" => lis.task \in Tasks
  /\ \A w \in Workers : run[w].pc # "idle" => run[w].task \in Tasks

TypeInv == TypeOK /\ BusyFrames

LEMMA FrameType == Frame \in ListenerFrames /\ Frame \in WorkerFrames
BY ManagerAssumption DEF Frame, ListenerFrames, WorkerFrames, Frames, Gens, Status
-----------------------------------------------------------------------------
(* The list of the cache *)

\* What PushFront writes: the new task first, then the first entries as they were.
LEMMA PushFrontType ==
  ASSUME NEW t \in Tasks, NEW n \in Nat, order \in Seq(Tasks), n <= Len(order) + 1
  PROVE  /\ PushFront(t, n) \in Seq(Tasks)
         /\ Len(PushFront(t, n)) = n
         /\ DOMAIN PushFront(t, n) = 1..n
         /\ \A i \in 1..n : PushFront(t, n)[i] = IF i = 1 THEN t ELSE order[i - 1]
<1> DEFINE s == [i \in 1..n |-> IF i = 1 THEN t ELSE order[i - 1]]
<1>1. \A i \in 1..n : i # 1 => i - 1 \in 1..Len(order) /\ order[i - 1] \in Tasks
    OBVIOUS
<1>2. s \in [1..n -> Tasks]
    BY <1>1
<1>3. s \in Seq(Tasks) /\ Len(s) = n
    BY <1>2
<1>4. QED
    BY <1>3 DEF PushFront

\* Where MoveToFront finds a listed task.
LEMMA MoveToFrontType ==
  ASSUME NEW t \in Tasks, order \in Seq(Tasks)
  PROVE  /\ MoveToFront(t) \in Seq(Tasks)
         /\ Len(MoveToFront(t)) = Len(order)
<1> DEFINE k == CHOOSE i \in DOMAIN order : order[i] = t
           s == [i \in 1..Len(order) |->
                   IF i = 1 THEN t ELSE IF i <= k THEN order[i - 1] ELSE order[i]]
<1>1. \A i \in 1..Len(order) :
        order[i] \in Tasks /\ (i # 1 => i - 1 \in 1..Len(order) /\ order[i - 1] \in Tasks)
    OBVIOUS
<1> HIDE DEF k
<1>2. s \in [1..Len(order) -> Tasks]
    BY <1>1
<1>3. s \in Seq(Tasks) /\ Len(s) = Len(order)
    BY <1>2
<1>4. QED
    BY <1>3 DEF MoveToFront, k

\* MoveToFront permutes the list: the same tasks, each still once.
LEMMA MoveToFrontPermutes ==
  ASSUME NEW t \in Tasks, order \in Seq(Tasks),
         t \in {order[i] : i \in DOMAIN order},
         \A i, j \in DOMAIN order : order[i] = order[j] => i = j
  PROVE  LET s == MoveToFront(t) IN
         /\ {s[i] : i \in DOMAIN s} = {order[i] : i \in DOMAIN order}
         /\ \A i, j \in DOMAIN s : s[i] = s[j] => i = j
<1> DEFINE k == CHOOSE i \in DOMAIN order : order[i] = t
           n == Len(order)
           s == MoveToFront(t)
           from(i) == IF i = 1 THEN k ELSE IF i <= k THEN i - 1 ELSE i
           to(i) == IF i = k THEN 1 ELSE IF i < k THEN i + 1 ELSE i
<1>1. DOMAIN order = 1..n /\ n \in Nat
    OBVIOUS
<1>2. k \in 1..n /\ order[k] = t
    BY <1>1
<1>3. s = [i \in 1..n |-> IF i = 1 THEN t ELSE IF i <= k THEN order[i - 1] ELSE order[i]]
    BY DEF MoveToFront
<1> HIDE DEF k, s
<1>4. DOMAIN s = 1..n /\ \A i \in 1..n : from(i) \in 1..n /\ s[i] = order[from(i)]
    BY <1>1, <1>2, <1>3
<1>5. \A i \in 1..n : to(i) \in 1..n /\ from(to(i)) = i
    BY <1>1, <1>2
<1>6. \A i, j \in 1..n : from(i) = from(j) => i = j
    BY <1>1, <1>2
<1> HIDE DEF from, to
<1>7. \A i \in 1..n : order[i] = s[to(i)]
    BY <1>4, <1>5
<1>8. {s[i] : i \in DOMAIN s} = {order[i] : i \in DOMAIN order}
    BY <1>1, <1>4, <1>5, <1>7
<1>9. \A i, j \in DOMAIN s : s[i] = s[j] => i = j
    BY <1>1, <1>4, <1>6
<1>10. QED
    BY <1>8, <1>9 DEF s
-----------------------------------------------------------------------------
(* Type correctness *)

\* What an acknowledgement leaves of the session was there before.
LEMMA AckShrinks ==
  ASSUME NEW f, NEW acked \in BOOLEAN
  PROVE  AfterAck(f, acked) \subseteq session
BY DEF AfterAck

LEMMA UnsentType == session \subseteq Messages => Unsent \subseteq Messages
BY DEF Messages, Unsent

LEMMA TypeInit == Init => TypeInv
<1> SUFFICES ASSUME Init PROVE TypeInv
    OBVIOUS
<1>1. seen \in [DOMAIN seen -> Status] /\ DOMAIN seen = {}
    BY DEF Init, NothingSeen
<1>2. gen \in Gens
    BY ManagerAssumption DEF Init, Gens
<1>3. BusyFrames
    BY DEF Init, BusyFrames, Frame
<1>4. /\ run \in [Workers -> WorkerFrames] /\ lis \in ListenerFrames
      /\ order \in Seq(Tasks) /\ session \subseteq Messages
    BY FrameType DEF Init
<1>5. starts \in [Tasks -> Nat] /\ reported \in [Tasks -> SUBSET Status]
    BY DEF Init
<1>6. TypeOK
    BY <1>1, <1>2, <1>4, <1>5 DEF Init, TypeOK, ListenerFrames, WorkerFrames
<1>7. QED
    BY <1>3, <1>6 DEF TypeInv

LEMMA TypeStep == TypeInv /\ [Next]_vars => TypeInv'
<1> SUFFICES ASSUME TypeInv, [Next]_vars PROVE TypeInv'
    OBVIOUS
<1> USE DEF TypeInv, BusyFrames
<1>1. ASSUME NEW t \in Tasks, Accept(t) PROVE TypeInv'
  <2>1. session' \subseteq Messages
    <3>1. PICK n \in 1..MaxCopies :
            session' = session \cup {[task |-> t, copy |-> i, sent |-> FALSE] : i \in 1..n}
        BY <1>1 DEF Accept
    <3>2. \A i \in 1..n : i \in 1..MaxCopies
        BY ManagerAssumption
    <3>3. \A i \in 1..n : [task |-> t, copy |-> i, sent |-> FALSE] \in Messages
        BY <3>2 DEF Messages
    <3>4. QED
        BY <3>1, <3>3 DEF TypeOK
  <2>2. QED
      BY <1>1, <2>1 DEF Accept, TypeOK, procVars
<1>2. ASSUME NEW m \in session, Deliver(m) PROVE TypeInv'
  <2>1. m \in Messages /\ m.task \in Tasks /\ m.copy \in 0..MaxCopies
      BY ManagerAssumption DEF TypeOK, Messages
  <2>2. [m EXCEPT !.sent = TRUE] \in Messages
      BY <2>1 DEF Messages
  <2>3. session' \subseteq Messages
      BY <1>2, <2>2 DEF Deliver, TypeOK
  <2>4. lis' \in ListenerFrames /\ lis'.task \in Tasks
      BY <1>2, <2>1 DEF Deliver, TypeOK, ListenerFrames, Frames, Status
  <2>5. QED
      BY <1>2, <2>3, <2>4 DEF Deliver, TypeOK, histVars, ListenerFrames
<1>3. CASE RecallNew
  <2>1. lis' \in ListenerFrames /\ lis'.task = lis.task /\ lis.task \in Tasks
      BY <1>3 DEF RecallNew, TypeOK, ListenerFrames, Frames
  <2>2. Victims \subseteq Tasks
      BY ManagerAssumption DEF Victims, TypeOK
  <2>3. /\ seen' \in [DOMAIN seen' -> Status] /\ DOMAIN seen' \subseteq Tasks
      BY <1>3, <2>1 DEF RecallNew, TypeOK, Status
  <2>4. order' \in Seq(Tasks)
    <3>1. order \in Seq(Tasks) /\ Len(order) \in Nat /\ Len(order) + 1 \in Nat
        BY DEF TypeOK
    <3>2. Len(order) <= Len(order) + 1 /\ Len(order) + 1 <= Len(order) + 1
        BY <3>1
    <3> HIDE DEF TypeInv
    <3>3. PushFront(lis.task, Len(order)) \in Seq(Tasks)
        BY <2>1, <3>1, <3>2, PushFrontType
    <3>4. PushFront(lis.task, Len(order) + 1) \in Seq(Tasks)
        BY <2>1, <3>1, <3>2, PushFrontType
    <3>5. QED
        BY <1>3, <3>3, <3>4 DEF RecallNew
  <2>5. QED
      BY <1>3, <2>1, <2>2, <2>3, <2>4 DEF RecallNew, TypeOK, linkVars, histVars, ListenerFrames
<1>4. CASE RecallSeen
  <2>1. lis' \in ListenerFrames /\ lis'.task = lis.task /\ lis.task \in Tasks
      BY <1>4 DEF RecallSeen, TypeOK, ListenerFrames, Frames
  <2>2. order' \in Seq(Tasks)
      BY <1>4, <2>1, MoveToFrontType DEF RecallSeen, TypeOK
  <2>3. QED
      BY <1>4, <2>1, <2>2 DEF RecallSeen, TypeOK, linkVars, histVars, ListenerFrames
<1>5. ASSUME NEW ok \in BOOLEAN, Republish(ok) PROVE TypeInv'
  <2>1. lis' \in ListenerFrames /\ lis'.task = lis.task /\ lis.task \in Tasks
      BY <1>5 DEF Republish, TypeOK, ListenerFrames, Frames
  <2>2. reported' \in [Tasks -> SUBSET Status]
      BY <1>5, <2>1 DEF Republish, Publish, TypeOK, Frames
  <2>3. QED
      BY <1>5, <2>1, <2>2 DEF Republish, TypeOK, linkVars, ListenerFrames
<1>6. CASE ListenerAck
  <2>1. session' \subseteq session
      BY <1>6, AckShrinks DEF ListenerAck, AckOutcome
  <2>2. QED
      BY <1>6, <2>1, FrameType DEF ListenerAck, TypeOK, histVars, ListenerFrames, Frame
<1>7. ASSUME NEW w \in Workers, NEW ok \in BOOLEAN, StartTask(w, ok) PROVE TypeInv'
  <2>1. lis.task \in Tasks /\ "started" \in Status
      BY <1>7 DEF StartTask, Status
  <2>2. run' \in [Workers -> WorkerFrames]
      BY <1>7, <2>1 DEF StartTask, TypeOK, WorkerFrames, Frames
  <2>3. \A v \in Workers : run'[v].pc # "idle" => run'[v].task \in Tasks
      BY <1>7, <2>1 DEF StartTask, TypeOK, Frames
  <2>4. reported' \in [Tasks -> SUBSET Status] /\ starts' \in [Tasks -> Nat]
      BY <1>7, <2>1 DEF StartTask, Publish, TypeOK
  <2>5. QED
      BY <1>7, <2>2, <2>3, <2>4, FrameType
      DEF StartTask, TypeOK, linkVars, WorkerFrames, ListenerFrames, Frame
<1>8. ASSUME NEW w \in Workers, NEW final \in Final, ExecuteReturns(w, final) PROVE TypeInv'
  <2>1. run' \in [Workers -> WorkerFrames]
      BY <1>8, ZenonT(30) DEF ExecuteReturns, TypeOK, WorkerFrames, Frames, Final, Status
  <2>2. \A v \in Workers : run'[v].pc # "idle" => run'[v].task \in Tasks
      BY <1>8 DEF ExecuteReturns, TypeOK, Frames
  <2>3. QED
      BY <1>8, <2>1, <2>2 DEF ExecuteReturns, TypeOK, linkVars, WorkerFrames
<1>9. ASSUME NEW w \in Workers, RememberFinal(w) PROVE TypeInv'
  <2>1. run' \in [Workers -> WorkerFrames]
      BY <1>9 DEF RememberFinal, TypeOK, WorkerFrames, Frames
  <2>2. \A v \in Workers : run'[v].pc # "idle" => run'[v].task \in Tasks
      BY <1>9 DEF RememberFinal, TypeOK, Frames
  <2>3. /\ DOMAIN seen' = DOMAIN seen /\ seen' \in [DOMAIN seen' -> Status]
      BY <1>9 DEF RememberFinal, TypeOK, Frames
  <2>4. order' \in Seq(Tasks)
      BY <1>9, MoveToFrontType DEF RememberFinal, TypeOK
  <2>5. QED
      BY <1>9, <2>1, <2>2, <2>3, <2>4
      DEF RememberFinal, TypeOK, linkVars, histVars, WorkerFrames
<1>10. ASSUME NEW w \in Workers, NEW ok \in BOOLEAN, PublishFinal(w, ok) PROVE TypeInv'
  <2>1. run' \in [Workers -> WorkerFrames]
      BY <1>10 DEF PublishFinal, TypeOK, WorkerFrames, Frames
  <2>2. \A v \in Workers : run'[v].pc # "idle" => run'[v].task \in Tasks
      BY <1>10 DEF PublishFinal, TypeOK, Frames
  <2>3. reported' \in [Tasks -> SUBSET Status]
      BY <1>10 DEF PublishFinal, Publish, TypeOK, Frames
  <2>4. QED
      BY <1>10, <2>1, <2>2, <2>3 DEF PublishFinal, TypeOK, linkVars, WorkerFrames
<1>11. ASSUME NEW w \in Workers, WorkerAck(w) PROVE TypeInv'
  <2>1. session' \subseteq session
      BY <1>11, AckShrinks DEF WorkerAck, AckOutcome
  <2>2. run' \in [Workers -> WorkerFrames]
      BY <1>11, FrameType DEF WorkerAck, TypeOK, WorkerFrames
  <2>3. \A v \in Workers : run'[v].pc # "idle" => run'[v].task \in Tasks
      BY <1>11 DEF WorkerAck, TypeOK, Frame
  <2>4. QED
      BY <1>11, <2>1, <2>2, <2>3 DEF WorkerAck, TypeOK, histVars, WorkerFrames
<1>12. CASE Reconnect
  <2>1. gen' \in Gens /\ session' \subseteq Messages
    <3>1. session' \subseteq Messages
      BY <1>12, UnsentType DEF Reconnect, TypeOK
    <3>2. gen \in Gens /\ gen.reconnects < MaxReconnects
          /\ gen' = [gen EXCEPT !.reconnects = @ + 1]
      BY <1>12 DEF Reconnect, TypeOK
    <3>3. gen' \in Gens
      BY <3>2, ManagerAssumption DEF Gens
    <3>4. QED
      BY <3>1, <3>3
  <2>2. QED
      BY <1>12, <2>1 DEF Reconnect, TypeOK, procVars, histVars
<1>13. CASE Crash
  <2>1. gen' \in Gens /\ session' \subseteq Messages
    <3>1. session' \subseteq Messages
      BY <1>13, UnsentType DEF Crash, TypeOK
    <3>2. gen \in Gens /\ gen.crashes < MaxCrashes
          /\ gen' = [gen EXCEPT !.crashes = @ + 1]
      BY <1>13 DEF Crash, TypeOK
    <3>3. gen' \in Gens
      BY <3>2, ManagerAssumption DEF Gens
    <3>4. QED
      BY <3>1, <3>3
  <2>2. seen' \in [DOMAIN seen' -> Status] /\ DOMAIN seen' = {}
      BY <1>13 DEF Crash, NothingSeen
  <2>3. /\ lis' \in ListenerFrames /\ lis'.pc = "idle"
        /\ run' \in [Workers -> WorkerFrames] /\ \A w \in Workers : run'[w].pc = "idle"
      BY <1>13, FrameType DEF Crash, Frame
  <2>4. starts' \in [Tasks -> Nat] /\ order' \in Seq(Tasks)
      BY <1>13 DEF Crash
  <2>5. UNCHANGED <<subscribed, histVars>> /\ client' = FALSE /\ evicted' = {}
      BY <1>13 DEF Crash
  <2>6. QED
      BY <2>1, <2>2, <2>3, <2>4, <2>5 DEF TypeOK, histVars, ListenerFrames, WorkerFrames
<1>14. CASE AttachClient
    BY <1>14 DEF AttachClient, TypeOK, histVars
<1>15. CASE UNCHANGED vars
    BY <1>15 DEF vars, procVars, linkVars, histVars, TypeOK
<1>16. QED
    BY <1>1, <1>2, <1>3, <1>4, <1>5, <1>6, <1>7, <1>8, <1>9, <1>10, <1>11, <1>12, <1>13,
       <1>14, <1>15 DEF Next, Listener, Worker

\* The inductive type invariant.
THEOREM TypeInvariant == Spec => []TypeInv
BY TypeInit, TypeStep, PTL DEF Spec

\* Type correctness of the agent's task state, its session and its goroutines.
THEOREM ManagerTypeCorrect == Spec => []TypeOK
<1>1. TypeInv => TypeOK
    BY DEF TypeInv
<1>2. QED
    BY <1>1, TypeInvariant, PTL
-----------------------------------------------------------------------------
(* The cache *)

LEMMA CacheInsert ==
  ASSUME TypeInv, CacheConsistent, RecallNew
  PROVE  CacheConsistent'
<1> DEFINE t == lis.task
           n == Len(order)
           N == IF Victims = {} THEN n + 1 ELSE n
<1>1. order \in Seq(Tasks) /\ t \in Tasks
    BY DEF TypeInv, TypeOK, BusyFrames, RecallNew
<1>2. n \in Nat /\ DOMAIN order = 1..n
    BY <1>1
<1>3. t \notin DOMAIN seen /\ DOMAIN seen = {order[i] : i \in 1..n}
    BY <1>2 DEF RecallNew, CacheConsistent
<1>4. \A i, j \in 1..n : order[i] = order[j] => i = j
    BY <1>2 DEF CacheConsistent
<1>5. n <= MaxTracked /\ MaxTracked \in Nat /\ MaxTracked >= 1
    BY ManagerAssumption DEF CacheConsistent
<1>6. \A i \in 1..n : order[i] # t
    BY <1>3
<1>7. /\ Victims = IF n >= MaxTracked THEN {order[n]} ELSE {}
      /\ order' = PushFront(t, N)
      /\ DOMAIN seen' = (DOMAIN seen \cup {t}) \ Victims
    BY DEF Victims, RecallNew
<1>8. N \in Nat /\ N <= n + 1 /\ N >= 1 /\ N <= MaxTracked
  <2> HIDE DEF n
  <2>1. n >= MaxTracked <=> Victims # {}
      BY <1>7
  <2>2. CASE Victims = {}
      BY <1>2, <1>5, <2>1, <2>2
  <2>3. CASE Victims # {}
      BY <1>2, <1>5, <2>1, <2>3
  <2>4. QED
      BY <2>2, <2>3
<1>9. /\ Len(order') = N /\ DOMAIN order' = 1..N
      /\ \A i \in 1..N : order'[i] = IF i = 1 THEN t ELSE order[i - 1]
  <2>1. N <= Len(order) + 1
      BY <1>8
  <2>2. order' = PushFront(t, N)
      BY <1>7
  <2>3. t \in Tasks /\ N \in Nat
      BY <1>1, <1>8
  <2> HIDE DEF N, t
  <2>4. /\ Len(PushFront(t, N)) = N /\ DOMAIN PushFront(t, N) = 1..N
        /\ \A i \in 1..N : PushFront(t, N)[i] = IF i = 1 THEN t ELSE order[i - 1]
      BY <1>1, <2>1, <2>3, PushFrontType
  <2>5. QED
      BY <2>2, <2>4
<1> HIDE DEF n, N, t
<1>10. \A i, j \in 1..N : order'[i] = order'[j] => i = j
  <2>1. \A i \in 1..N : i # 1 => i - 1 \in 1..n
      BY <1>2, <1>8
  <2>2. QED
      BY <1>4, <1>6, <1>8, <1>9, <2>1
<1>11. \A i \in 1..n : i + 1 \in 1..N => order'[i + 1] = order[i]
    BY <1>2, <1>8, <1>9
<1>12. {order'[i] : i \in 1..N} = DOMAIN seen'
  <2>1. CASE Victims = {}
    <3>1. N = n + 1
        BY <2>1 DEF N
    <3>2. \A i \in 1..n : i + 1 \in 1..N
        BY <1>2, <3>1
    <3>3. \A i \in 1..N : i # 1 => i - 1 \in 1..n /\ order'[i] = order[i - 1]
        BY <1>2, <1>9, <3>1
    <3>4. 1 \in 1..N /\ order'[1] = t
        BY <1>8, <1>9
    <3>5. QED
        BY <1>3, <1>7, <1>11, <2>1, <3>2, <3>3, <3>4
  <2>2. CASE Victims # {}
    <3>1. N = n /\ Victims = {order[n]}
        BY <1>7, <2>2 DEF N
    <3>2. \A i \in 1..n : i # n => i + 1 \in 1..N /\ order[i] # order[n]
        BY <1>2, <1>4, <1>8, <3>1
    <3>3. \A i \in 1..N : i # 1 => i - 1 \in 1..n /\ i - 1 # n /\ order'[i] = order[i - 1]
        BY <1>2, <1>9, <3>1
    <3>4. 1 \in 1..N /\ order'[1] = t /\ n \in 1..n
        BY <1>2, <1>8, <1>9, <3>1
    <3>5. QED
        BY <1>3, <1>6, <1>7, <1>11, <3>1, <3>2, <3>3, <3>4
  <2>3. QED
      BY <2>1, <2>2
<1>13. QED
    BY <1>8, <1>9, <1>10, <1>12 DEF CacheConsistent

LEMMA CacheTouch ==
  ASSUME TypeInv, CacheConsistent, NEW t \in DOMAIN seen, DOMAIN seen' = DOMAIN seen,
         order' = MoveToFront(t)
  PROVE  CacheConsistent'
<1>1. order \in Seq(Tasks) /\ t \in Tasks
    BY DEF TypeInv, TypeOK
<1>2. /\ t \in {order[i] : i \in DOMAIN order}
      /\ \A i, j \in DOMAIN order : order[i] = order[j] => i = j
      /\ Len(order) <= MaxTracked
    BY DEF CacheConsistent
<1>3. /\ {order'[i] : i \in DOMAIN order'} = {order[i] : i \in DOMAIN order}
      /\ \A i, j \in DOMAIN order' : order'[i] = order'[j] => i = j
    BY <1>1, <1>2, MoveToFrontPermutes
<1>4. Len(order') = Len(order)
    BY <1>1, MoveToFrontType
<1>5. QED
    BY <1>2, <1>3, <1>4 DEF CacheConsistent

LEMMA CacheStep == TypeInv /\ CacheConsistent /\ [Next]_vars => CacheConsistent'
<1> SUFFICES ASSUME TypeInv, CacheConsistent, [Next]_vars PROVE CacheConsistent'
    OBVIOUS
<1>1. CASE RecallNew
    BY <1>1, CacheInsert
<1>2. CASE RecallSeen
    BY <1>2, CacheTouch DEF RecallSeen
<1>3. ASSUME NEW w \in Workers, RememberFinal(w) PROVE CacheConsistent'
  <2>1. CASE run[w].task \in DOMAIN seen
      BY <1>3, <2>1, CacheTouch DEF RememberFinal
  <2>2. CASE run[w].task \notin DOMAIN seen
      BY <1>3, <2>2 DEF RememberFinal, CacheConsistent
  <2>3. QED
      BY <2>1, <2>2
<1>4. CASE Crash
  <2>1. DOMAIN seen' = {} /\ order' = <<>>
      BY <1>4 DEF Crash, NothingSeen
  <2>2. QED
      BY <2>1, ManagerAssumption DEF CacheConsistent
<1>5. CASE UNCHANGED <<seen, order>>
    BY <1>5 DEF CacheConsistent
<1>6. QED
    BY <1>1, <1>2, <1>3, <1>4, <1>5
    DEF Next, Listener, Worker, Accept, Deliver, Republish, ListenerAck, StartTask,
        ExecuteReturns, PublishFinal, WorkerAck, Reconnect, AttachClient, vars, procVars

\* TaskManager's map and list stay the same set of at most maxTrackedTasks tasks.
THEOREM CacheStaysConsistent == Spec => []CacheConsistent
<1>1. Init => CacheConsistent
    BY ManagerAssumption DEF Init, NothingSeen, CacheConsistent
<1>2. QED
    BY <1>1, CacheStep, TypeInvariant, PTL DEF Spec
-----------------------------------------------------------------------------
(* Duplicate delivery *)

\* A task this process has started, or is about to, is tracked or was evicted; one
\* about to be started again was evicted.
DedupInv ==
  /\ \A t \in Tasks : starts[t] > 0 => t \in DOMAIN seen \cup evicted
  /\ lis.pc = "start" =>
       /\ lis.task \in DOMAIN seen \cup evicted
       /\ starts[lis.task] > 0 => lis.task \in evicted
  /\ ExecutedOnceUnlessEvicted

LEMMA DedupStep == TypeInv /\ DedupInv /\ [Next]_vars => DedupInv'
<1> SUFFICES ASSUME TypeInv, DedupInv, [Next]_vars PROVE DedupInv'
    OBVIOUS
<1> USE DEF DedupInv, ExecutedOnceUnlessEvicted
<1>1. CASE RecallNew
  <2>1. DOMAIN seen \cup evicted \cup {lis.task} \subseteq (DOMAIN seen \cup evicted)'
      BY <1>1 DEF RecallNew
  <2>2. lis.task \in Tasks /\ lis.task \notin DOMAIN seen
      BY <1>1 DEF RecallNew, TypeInv, BusyFrames
  <2>3. lis'.task = lis.task /\ starts' = starts /\ evicted \subseteq evicted'
      BY <1>1 DEF RecallNew, TypeInv, TypeOK, Frames
  <2>4. QED
      BY <2>1, <2>2, <2>3
<1>2. ASSUME NEW w \in Workers, NEW ok \in BOOLEAN, StartTask(w, ok) PROVE DedupInv'
  <2>1. /\ lis.task \in Tasks /\ lis.pc = "start" /\ lis' = Frame
        /\ starts' = [starts EXCEPT ![lis.task] = @ + 1]
        /\ UNCHANGED <<seen, evicted>>
      BY <1>2 DEF StartTask, TypeInv, BusyFrames
  <2>2. starts \in [Tasks -> Nat]
      BY DEF TypeInv, TypeOK
  <2>3. QED
      BY <2>1, <2>2 DEF Frame
<1>3. ASSUME NEW w \in Workers, RememberFinal(w) PROVE DedupInv'
  <2>1. DOMAIN seen' = DOMAIN seen
      BY <1>3 DEF RememberFinal
  <2>2. QED
      BY <1>3, <2>1 DEF RememberFinal
<1>4. CASE Crash
    BY <1>4 DEF Crash, Frame
<1>5. ASSUME NEW m \in session, Deliver(m) PROVE DedupInv'
    BY <1>5 DEF Deliver
<1>6. ASSUME NEW ok \in BOOLEAN, Republish(ok) PROVE DedupInv'
    BY <1>6 DEF Republish, TypeInv, TypeOK, Frames
<1>7. CASE RecallSeen
    BY <1>7 DEF RecallSeen, TypeInv, TypeOK, Frames
<1>8. CASE ListenerAck
    BY <1>8 DEF ListenerAck, Frame
<1>9. CASE UNCHANGED <<seen, evicted, starts, lis>>
    BY <1>9
<1>10. QED
    BY <1>1, <1>2, <1>3, <1>4, <1>5, <1>6, <1>7, <1>8, <1>9
    DEF Next, Listener, Worker, Accept, ExecuteReturns, PublishFinal, WorkerAck, Reconnect,
        AttachClient, vars, procVars

\* Duplicate delivery never makes a process execute a task twice unless the task was
\* evicted from the bounded cache in between, for any cache size.
THEOREM ExecutedOnce == Spec => []ExecutedOnceUnlessEvicted
<1>1. Init => DedupInv
    BY DEF Init, DedupInv, ExecutedOnceUnlessEvicted, Frame
<1>2. DedupInv => ExecutedOnceUnlessEvicted
    BY DEF DedupInv
<1>3. QED
    BY <1>1, <1>2, DedupStep, TypeInvariant, PTL DEF Spec
-----------------------------------------------------------------------------
(* What is reported *)

\* Everyone who holds a final status for a task holds it after Execute returned.
OutcomeInv ==
  /\ \A t \in DOMAIN seen : seen[t] \in Final => t \in executed
  /\ lis.pc = "republish" /\ lis.status \in Final => lis.task \in executed
  /\ \A w \in Workers : run[w].pc \in {"remember", "publish", "ack"} => run[w].task \in executed
  /\ OutcomeOnlyIfExecuted

LEMMA OutcomeStep == TypeInv /\ OutcomeInv /\ [Next]_vars => OutcomeInv'
<1> SUFFICES ASSUME TypeInv, OutcomeInv, [Next]_vars PROVE OutcomeInv'
    OBVIOUS
<1> USE DEF OutcomeInv, OutcomeOnlyIfExecuted
<1>0. /\ reported \in [Tasks -> SUBSET Status]
      /\ run \in [Workers -> WorkerFrames] /\ lis \in ListenerFrames
    BY DEF TypeInv, TypeOK, WorkerFrames, ListenerFrames
<1>1. CASE RecallNew
  <2>1. \A t \in DOMAIN seen' : (t \in DOMAIN seen /\ seen'[t] = seen[t]) \/ seen'[t] = "started"
      BY <1>1 DEF RecallNew
  <2>2. lis'.pc # "republish"
      BY <1>0, <1>1 DEF RecallNew, ListenerFrames, Frames
  <2>3. QED
      BY <1>1, <2>1, <2>2 DEF RecallNew, linkVars, histVars, Final
<1>2. CASE RecallSeen
    BY <1>0, <1>2 DEF RecallSeen, linkVars, histVars, ListenerFrames, Frames
<1>3. ASSUME NEW ok \in BOOLEAN, Republish(ok) PROVE OutcomeInv'
  <2>1. lis'.pc = "ack"
      BY <1>0, <1>3 DEF Republish, ListenerFrames, Frames
  <2>2. reported' = reported \/ reported' = [reported EXCEPT ![lis.task] = @ \cup {lis.status}]
      BY <1>3 DEF Republish, Publish
  <2>3. \A t \in Tasks : reported'[t] \cap Final # {} => t \in executed
      BY <1>0, <1>3, <2>2 DEF Republish
  <2>4. QED
      BY <1>3, <2>1, <2>3 DEF Republish, linkVars
<1>4. ASSUME NEW w \in Workers, NEW ok \in BOOLEAN, StartTask(w, ok) PROVE OutcomeInv'
  <2>1. reported' = reported \/ reported' = [reported EXCEPT ![lis.task] = @ \cup {"started"}]
      BY <1>4 DEF StartTask, Publish
  <2>2. \A t \in Tasks : reported'[t] \cap Final # {} => t \in executed
      BY <1>0, <2>1 DEF Final
  <2>3. run'[w].pc = "execute" /\ \A v \in Workers \ {w} : run'[v] = run[v]
      BY <1>0, <1>4 DEF StartTask, ListenerFrames, Frames
  <2>4. lis'.pc = "idle"
      BY <1>4 DEF StartTask, Frame
  <2>5. QED
      BY <1>4, <2>2, <2>3, <2>4 DEF StartTask, linkVars
<1>5. ASSUME NEW w \in Workers, NEW final \in Final, ExecuteReturns(w, final) PROVE OutcomeInv'
  <2>1. run'[w].task = run[w].task /\ \A v \in Workers \ {w} : run'[v] = run[v]
      BY <1>0, <1>5 DEF ExecuteReturns, WorkerFrames, Frames
  <2>2. executed' = executed \cup {run[w].task}
      BY <1>5 DEF ExecuteReturns
  <2>3. QED
      BY <1>5, <2>1, <2>2 DEF ExecuteReturns, linkVars
<1>6. ASSUME NEW w \in Workers, RememberFinal(w) PROVE OutcomeInv'
  <2>1. /\ run'[w].task = run[w].task /\ run[w].task \in executed
        /\ \A v \in Workers \ {w} : run'[v] = run[v]
      BY <1>0, <1>6 DEF RememberFinal, WorkerFrames, Frames
  <2>2. /\ DOMAIN seen' = DOMAIN seen
        /\ \A t \in DOMAIN seen : seen'[t] = seen[t] \/ t = run[w].task
      BY <1>6 DEF RememberFinal
  <2>3. QED
      BY <1>6, <2>1, <2>2 DEF RememberFinal, linkVars, histVars
<1>7. ASSUME NEW w \in Workers, NEW ok \in BOOLEAN, PublishFinal(w, ok) PROVE OutcomeInv'
  <2>1. /\ run'[w].task = run[w].task /\ run[w].task \in executed
        /\ \A v \in Workers \ {w} : run'[v] = run[v]
      BY <1>0, <1>7 DEF PublishFinal, WorkerFrames, Frames
  <2>2. \/ reported' = reported
        \/ reported' = [reported EXCEPT ![run[w].task] = @ \cup {run[w].status}]
      BY <1>7 DEF PublishFinal, Publish
  <2>3. \A t \in Tasks : reported'[t] \cap Final # {} => t \in executed
      BY <1>0, <2>1, <2>2
  <2>4. QED
      BY <1>7, <2>1, <2>3 DEF PublishFinal, linkVars
<1>8. ASSUME NEW w \in Workers, WorkerAck(w) PROVE OutcomeInv'
  <2>1. run'[w].pc = "idle" /\ \A v \in Workers \ {w} : run'[v] = run[v]
      BY <1>0, <1>8 DEF WorkerAck, Frame
  <2>2. QED
      BY <1>8, <2>1 DEF WorkerAck, histVars
<1>9. CASE Crash
    BY <1>9 DEF Crash, Frame, NothingSeen, histVars
<1>10. ASSUME NEW m \in session, Deliver(m) PROVE OutcomeInv'
    BY <1>10 DEF Deliver, histVars
<1>11. CASE ListenerAck
    BY <1>11 DEF ListenerAck, Frame, histVars
<1>12. CASE UNCHANGED <<seen, run, lis, executed, reported>>
    BY <1>12
<1>13. QED
    BY <1>1, <1>2, <1>3, <1>4, <1>5, <1>6, <1>7, <1>8, <1>9, <1>10, <1>11, <1>12
    DEF Next, Listener, Worker, Accept, Reconnect, AttachClient, vars, procVars, histVars

\* No outcome is published, by a goroutine or in answer to a redelivery, for a task
\* whose Execute has not returned.
THEOREM OutcomesAreTrue == Spec => []OutcomeOnlyIfExecuted
<1>1. Init => OutcomeInv
    BY DEF Init, OutcomeInv, OutcomeOnlyIfExecuted, Frame, NothingSeen
<1>2. OutcomeInv => OutcomeOnlyIfExecuted
    BY DEF OutcomeInv
<1>3. QED
    BY <1>1, <1>2, OutcomeStep, TypeInvariant, PTL DEF Spec
-----------------------------------------------------------------------------
(* A restart loses no task *)

\* Under the assumptions of the theorem below a message is sent once per process: an
\* unsent message is about a task this process knows nothing of, and the listener
\* never meets a task it has seen.
FreshInv ==
  /\ \A m, n \in session : m.task = n.task => m = n
  /\ \A m \in session :
       /\ m.task \in accepted
       /\ ~m.sent => /\ m.task \notin DOMAIN seen
                     /\ lis.pc # "idle" => lis.task # m.task
  /\ DOMAIN seen \subseteq accepted
  /\ lis.pc # "idle" => lis.task \in accepted
  /\ lis.pc = "recall" => lis.task \notin DOMAIN seen
  /\ lis.pc # "republish"
  /\ lis.pc = "ack" => lis.task \notin Known

\* What is acknowledged leaves the session, and nothing else does.
LEMMA AckRemoves ==
  ASSUME NEW f, \E acked \in AckOutcome(f) : session' = AfterAck(f, acked)
  PROVE  /\ session' \subseteq session
         /\ \A m \in session : m \in session' \/ m.task = f.task
BY DEF AfterAck

\* Resending keeps every message and its task.
LEMMA UnsentTasks ==
  ASSUME session \subseteq Messages
  PROVE  /\ \A m \in Unsent : \E n \in session :
              m = [n EXCEPT !.sent = FALSE] /\ m.task = n.task
         /\ \A n \in session : \E m \in Unsent : m.task = n.task
<1>1. \A n \in session : [n EXCEPT !.sent = FALSE].task = n.task
    BY DEF Messages
<1>2. \A m \in Unsent : \E n \in session : m = [n EXCEPT !.sent = FALSE]
    BY DEF Unsent
<1>3. \A n \in session : [n EXCEPT !.sent = FALSE] \in Unsent
    BY DEF Unsent
<1>4. QED
    BY <1>1, <1>2, <1>3

LEMMA FreshStep ==
  ASSUME MaxCopies = 1, gen'.reconnects = 0, TypeInv, OutcomeInv, FreshInv,
         HeldUntilExecuted, [Next]_vars
  PROVE  FreshInv' /\ HeldUntilExecuted'
<1> USE DEF FreshInv, HeldUntilExecuted
<1>0. /\ session \subseteq Messages /\ gen \in Gens
      /\ run \in [Workers -> WorkerFrames] /\ lis \in ListenerFrames
    BY DEF TypeInv, TypeOK, WorkerFrames, ListenerFrames
<1>1. ASSUME NEW t \in Tasks, Accept(t) PROVE FreshInv' /\ HeldUntilExecuted'
  <2> DEFINE new == [task |-> t, copy |-> 1, sent |-> FALSE]
  <2>1. session' = session \cup {new}
    <3>1. PICK n \in 1..MaxCopies :
            session' = session \cup {[task |-> t, copy |-> i, sent |-> FALSE] : i \in 1..n}
        BY <1>1 DEF Accept
    <3>2. 1..n = {1}
        OBVIOUS
    <3>3. QED
        BY <3>1, <3>2
  <2>2. t \notin accepted /\ accepted' = accepted \cup {t} /\ UNCHANGED <<seen, lis, executed>>
      BY <1>1 DEF Accept, procVars
  <2>3. new.task = t /\ ~new.sent
      OBVIOUS
  <2> HIDE DEF new
  <2>4. \A m, n \in session' : m.task = n.task => m = n
      BY <2>1, <2>2, <2>3
  <2>5. FreshInv'
      BY <2>1, <2>2, <2>3, <2>4
  <2>6. HeldUntilExecuted'
      BY <2>1, <2>2, <2>3
  <2>7. QED
      BY <2>5, <2>6
<1>2. ASSUME NEW m \in session, Deliver(m) PROVE FreshInv' /\ HeldUntilExecuted'
  <2> DEFINE n == [m EXCEPT !.sent = TRUE]
  <2>1. /\ ~m.sent /\ session' = (session \ {m}) \cup {n}
        /\ lis'.pc = "recall" /\ lis'.task = m.task
        /\ UNCHANGED <<seen, accepted, executed>>
      BY <1>2 DEF Deliver, histVars
  <2>2. n.task = m.task /\ n.sent
      BY <1>0 DEF Messages
  <2> HIDE DEF n
  <2>3. \A k \in session \ {m} : k.task # m.task
      OBVIOUS
  <2>4. FreshInv'
      BY <2>1, <2>2, <2>3
  <2>5. HeldUntilExecuted'
      BY <2>1, <2>2
  <2>6. QED
      BY <2>4, <2>5
<1>3. CASE RecallNew
  <2>1. /\ DOMAIN seen' \subseteq DOMAIN seen \cup {lis.task}
        /\ UNCHANGED <<session, accepted, executed>>
      BY <1>3 DEF RecallNew, linkVars, histVars
  <2>2. /\ lis.pc = "recall" /\ lis'.task = lis.task
        /\ lis'.pc = IF lis.task \in Known THEN "start" ELSE "ack"
      BY <1>0, <1>3 DEF RecallNew, ListenerFrames, Frames
  <2>3. QED
      BY <2>1, <2>2
<1>4. CASE RecallSeen
    BY <1>4 DEF RecallSeen
<1>5. ASSUME NEW ok \in BOOLEAN, Republish(ok) PROVE FreshInv' /\ HeldUntilExecuted'
    BY <1>5 DEF Republish
<1>6. CASE ListenerAck
  <2>1. /\ session' \subseteq session /\ \A m \in session : m \in session' \/ m.task = lis.task
        /\ lis.task \notin Known /\ lis'.pc = "idle"
        /\ UNCHANGED <<seen, accepted, executed>>
      BY <1>6, AckRemoves DEF ListenerAck, Frame, histVars
  <2>2. QED
      BY <2>1
<1>7. ASSUME NEW w \in Workers, WorkerAck(w) PROVE FreshInv' /\ HeldUntilExecuted'
  <2>1. /\ session' \subseteq session
        /\ \A m \in session : m \in session' \/ m.task = run[w].task
        /\ UNCHANGED <<seen, lis, accepted, executed>>
      BY <1>7, AckRemoves DEF WorkerAck, histVars
  <2>2. run[w].task \in executed
      BY <1>7 DEF WorkerAck, OutcomeInv
  <2>3. QED
      BY <2>1, <2>2
<1>8. ASSUME NEW w \in Workers, NEW ok \in BOOLEAN, StartTask(w, ok)
      PROVE  FreshInv' /\ HeldUntilExecuted'
    BY <1>8 DEF StartTask, linkVars, Frame
<1>9. ASSUME NEW w \in Workers, NEW final \in Final, ExecuteReturns(w, final)
      PROVE  FreshInv' /\ HeldUntilExecuted'
    BY <1>9 DEF ExecuteReturns, linkVars
<1>10. ASSUME NEW w \in Workers, RememberFinal(w) PROVE FreshInv' /\ HeldUntilExecuted'
  <2>1. DOMAIN seen' = DOMAIN seen /\ UNCHANGED <<session, lis, accepted, executed>>
      BY <1>10 DEF RememberFinal, linkVars, histVars
  <2>2. QED
      BY <2>1
<1>11. CASE Reconnect
    BY <1>0, <1>11, ManagerAssumption DEF Reconnect, Gens
<1>12. CASE Crash
  <2>1. /\ session' = Unsent /\ DOMAIN seen' = {} /\ lis'.pc = "idle"
        /\ UNCHANGED <<accepted, executed>>
      BY <1>12 DEF Crash, NothingSeen, Frame, histVars
  <2>2. \A m, n \in session' : m.task = n.task => m = n
    <3> SUFFICES ASSUME NEW m \in session', NEW n \in session', m.task = n.task
                 PROVE  m = n
        OBVIOUS
    <3>1. PICK k \in session : m = [k EXCEPT !.sent = FALSE] /\ m.task = k.task
        BY <1>0, <2>1, UnsentTasks
    <3>2. PICK l \in session : n = [l EXCEPT !.sent = FALSE] /\ n.task = l.task
        BY <1>0, <2>1, UnsentTasks
    <3>3. k = l
        BY <3>1, <3>2
    <3>4. QED
        BY <3>1, <3>2, <3>3
  <2>3. QED
      BY <1>0, <2>1, <2>2, UnsentTasks
<1>13. CASE UNCHANGED <<session, seen, lis, accepted, executed>>
    BY <1>13
<1>14. QED
    BY <1>1, <1>2, <1>3, <1>4, <1>5, <1>6, <1>7, <1>8, <1>9, <1>10, <1>11, <1>12, <1>13
    DEF Next, Listener, Worker, PublishFinal, AttachClient, vars, procVars, linkVars, histVars

-----------------------------------------------------------------------------
(* A reconnect loses no task *)

Running(t) == \E w \in Workers : run[w].pc = "execute" /\ run[w].task = t

\* A task this process has seen was executed, is running or is about to start.
StartedInv ==
  /\ \A t \in DOMAIN seen \cap Known :
       t \in executed \/ Running(t) \/ (lis.pc = "start" /\ lis.task = t)
  /\ lis.pc \in {"republish", "ack"} /\ lis.task \in Known =>
       lis.task \in executed \/ Running(lis.task)

LEMMA HoldStep ==
  ASSUME gen'.crashes = 0, TypeInv, OutcomeInv, StartedInv, HeldOrRunning, [Next]_vars
  PROVE  StartedInv' /\ HeldOrRunning'
<1> USE DEF StartedInv, HeldOrRunning, Running
<1>0. /\ session \subseteq Messages /\ gen \in Gens
      /\ run \in [Workers -> WorkerFrames] /\ lis \in ListenerFrames
    BY DEF TypeInv, TypeOK, WorkerFrames, ListenerFrames
<1>1. ASSUME NEW t \in Tasks, Accept(t) PROVE StartedInv' /\ HeldOrRunning'
  <2>1. \E m \in session' : m.task = t
    <3>1. PICK n \in 1..MaxCopies :
            session' = session \cup {[task |-> t, copy |-> i, sent |-> FALSE] : i \in 1..n}
        BY <1>1 DEF Accept
    <3>2. 1 \in 1..n
        BY ManagerAssumption
    <3>3. [task |-> t, copy |-> 1, sent |-> FALSE] \in session'
        BY <3>1, <3>2
    <3>4. QED
        BY <3>3
  <2>2. session \subseteq session' /\ accepted' = accepted \cup {t}
          /\ UNCHANGED <<seen, lis, run, executed>>
      BY <1>1 DEF Accept, procVars
  <2>3. QED
      BY <2>1, <2>2
<1>2. ASSUME NEW m \in session, Deliver(m) PROVE StartedInv' /\ HeldOrRunning'
  <2>1. /\ [m EXCEPT !.sent = TRUE] \in session' /\ session \ {m} \subseteq session'
        /\ lis.pc = "idle" /\ lis'.pc = "recall" /\ UNCHANGED <<seen, run, accepted, executed>>
      BY <1>2 DEF Deliver, histVars
  <2>2. [m EXCEPT !.sent = TRUE].task = m.task
      BY <1>0 DEF Messages
  <2>3. \A n \in session : \E k \in session' : k.task = n.task
      BY <2>1, <2>2
  <2>4. QED
      BY <2>1, <2>3
<1>3. CASE RecallNew
  <2>1. /\ DOMAIN seen' \subseteq DOMAIN seen \cup {lis.task}
        /\ UNCHANGED <<session, run, accepted, executed>>
      BY <1>3 DEF RecallNew, linkVars, histVars
  <2>2. /\ lis.pc = "recall" /\ lis'.task = lis.task
        /\ lis'.pc = IF lis.task \in Known THEN "start" ELSE "ack"
      BY <1>0, <1>3 DEF RecallNew, ListenerFrames, Frames
  <2>3. QED
      BY <2>1, <2>2
<1>4. CASE RecallSeen
  <2>1. /\ lis.pc = "recall" /\ lis.task \in DOMAIN seen /\ lis'.task = lis.task
        /\ lis'.pc = "republish"
        /\ UNCHANGED <<session, run, seen, accepted, executed>>
      BY <1>0, <1>4 DEF RecallSeen, linkVars, histVars, ListenerFrames, Frames
  <2>2. QED
      BY <2>1
<1>5. ASSUME NEW ok \in BOOLEAN, Republish(ok) PROVE StartedInv' /\ HeldOrRunning'
  <2>1. /\ lis.pc = "republish" /\ lis'.task = lis.task /\ lis'.pc = "ack"
        /\ UNCHANGED <<session, run, seen, accepted, executed>>
      BY <1>0, <1>5 DEF Republish, linkVars, ListenerFrames, Frames
  <2>2. QED
      BY <2>1
<1>6. CASE ListenerAck
  <2>1. /\ \A m \in session : m \in session' \/ m.task = lis.task
        /\ lis.pc = "ack" /\ lis'.pc = "idle"
        /\ UNCHANGED <<run, seen, accepted, executed>>
      BY <1>6, AckRemoves DEF ListenerAck, Frame, histVars
  <2>2. QED
      BY <2>1
<1>7. ASSUME NEW w \in Workers, WorkerAck(w) PROVE StartedInv' /\ HeldOrRunning'
  <2>1. /\ \A m \in session : m \in session' \/ m.task = run[w].task
        /\ run[w].pc = "ack" /\ \A v \in Workers \ {w} : run'[v] = run[v]
        /\ UNCHANGED <<seen, lis, accepted, executed>>
      BY <1>0, <1>7, AckRemoves DEF WorkerAck, histVars
  <2>2. run[w].task \in executed
      BY <1>7 DEF WorkerAck, OutcomeInv
  <2>3. \A t : Running(t) => Running(t)'
      BY <2>1
  <2>4. QED
      BY <2>1, <2>2, <2>3
<1>8. ASSUME NEW w \in Workers, NEW ok \in BOOLEAN, StartTask(w, ok)
      PROVE  StartedInv' /\ HeldOrRunning'
  <2>1. /\ lis.pc = "start" /\ run[w].pc = "idle" /\ lis'.pc = "idle"
        /\ run'[w].pc = "execute" /\ run'[w].task = lis.task
        /\ \A v \in Workers \ {w} : run'[v] = run[v]
        /\ UNCHANGED <<seen, session, accepted, executed>>
      BY <1>0, <1>8 DEF StartTask, linkVars, Frame, ListenerFrames, Frames
  <2>2. \A t : Running(t) => Running(t)'
      BY <2>1
  <2>3. \E v \in Workers : run'[v].pc = "execute" /\ run'[v].task = lis.task
      BY <2>1
  <2>4. QED
      BY <2>1, <2>2, <2>3
<1>9. ASSUME NEW w \in Workers, NEW final \in Final, ExecuteReturns(w, final)
      PROVE  StartedInv' /\ HeldOrRunning'
  <2>1. /\ executed' = executed \cup {run[w].task}
        /\ \A v \in Workers \ {w} : run'[v] = run[v]
        /\ UNCHANGED <<seen, lis, session, accepted>>
      BY <1>0, <1>9 DEF ExecuteReturns, linkVars
  <2>2. \A t : Running(t) => Running(t)' \/ t \in executed'
      BY <2>1
  <2>3. QED
      BY <2>1, <2>2
<1>10. ASSUME NEW w \in Workers, RememberFinal(w) \/ \E ok \in BOOLEAN : PublishFinal(w, ok)
       PROVE  StartedInv' /\ HeldOrRunning'
  <2>1. /\ run[w].pc # "execute" /\ \A v \in Workers \ {w} : run'[v] = run[v]
        /\ DOMAIN seen' = DOMAIN seen /\ UNCHANGED <<lis, session, accepted, executed>>
      BY <1>0, <1>10 DEF RememberFinal, PublishFinal, linkVars, histVars
  <2>2. \A t : Running(t) => Running(t)'
      BY <2>1
  <2>3. QED
      BY <2>1, <2>2
<1>11. CASE Reconnect
  <2>1. session' = Unsent /\ UNCHANGED <<seen, lis, run, accepted, executed>>
      BY <1>11 DEF Reconnect, procVars, histVars
  <2>2. \A n \in session : \E k \in session' : k.task = n.task
      BY <1>0, <2>1, UnsentTasks
  <2>3. QED
      BY <2>1, <2>2
<1>12. CASE Crash
    BY <1>0, <1>12, ManagerAssumption DEF Crash, Gens
<1>13. CASE UNCHANGED <<session, seen, lis, run, accepted, executed>>
    BY <1>13
<1>14. QED
    BY <1>1, <1>2, <1>3, <1>4, <1>5, <1>6, <1>7, <1>8, <1>9, <1>10, <1>11, <1>12, <1>13
    DEF Next, Listener, Worker, AttachClient, vars, procVars, linkVars, histVars

-----------------------------------------------------------------------------
(* Both, for as long as the fault that breaks each has not come *)

HeldInv ==
  /\ (MaxCopies = 1 /\ gen.reconnects = 0) => FreshInv /\ HeldUntilExecuted
  /\ gen.crashes = 0 => StartedInv /\ HeldOrRunning

LEMMA FaultsAreCounted ==
  ASSUME TypeInv, [Next]_vars
  PROVE  /\ gen'.reconnects = 0 => gen.reconnects = 0
         /\ gen'.crashes = 0 => gen.crashes = 0
<1>1. gen \in Gens
    BY DEF TypeInv, TypeOK
<1>2. CASE Reconnect
    BY <1>1, <1>2, ManagerAssumption DEF Reconnect, Gens
<1>3. CASE Crash
    BY <1>1, <1>3, ManagerAssumption DEF Crash, Gens
<1>4. CASE gen' = gen
    BY <1>4
<1>5. QED
    BY <1>2, <1>3, <1>4
    DEF Next, Listener, Worker, Accept, Deliver, RecallNew, RecallSeen, Republish, StartTask,
        ListenerAck, ExecuteReturns, RememberFinal, PublishFinal, WorkerAck, AttachClient,
        vars, linkVars

\* Whatever is duplicated or evicted and however often the process dies, the broker holds
\* the message of every task that can run until Execute has returned, if it was queued once
\* and no connection was resumed; and however often connections are resumed, such a task
\* is executed, running or still with the broker as long as the process lives.
THEOREM TasksStayHeld == Spec => []TasksAreHeld
<1>1. Init => OutcomeInv /\ HeldInv
    BY DEF Init, OutcomeInv, OutcomeOnlyIfExecuted, HeldInv, FreshInv, HeldUntilExecuted,
           StartedInv, HeldOrRunning, Frame, NothingSeen
<1>2. ASSUME TypeInv, OutcomeInv, HeldInv, [Next]_vars
      PROVE  OutcomeInv' /\ HeldInv'
  <2>1. OutcomeInv'
      BY <1>2, OutcomeStep
  <2>2. ASSUME MaxCopies = 1, gen'.reconnects = 0 PROVE FreshInv' /\ HeldUntilExecuted'
      BY <1>2, <2>2, FaultsAreCounted, FreshStep DEF HeldInv
  <2>3. ASSUME gen'.crashes = 0 PROVE StartedInv' /\ HeldOrRunning'
      BY <1>2, <2>3, FaultsAreCounted, HoldStep DEF HeldInv
  <2>4. QED
      BY <2>1, <2>2, <2>3 DEF HeldInv
<1>3. HeldInv => TasksAreHeld
    BY DEF HeldInv, TasksAreHeld
<1>4. QED
    BY <1>1, <1>2, <1>3, TypeInvariant, PTL DEF Spec

\* If the connection only drops with the process, a message queued once survives any
\* number of restarts until Execute has returned.
THEOREM SurvivesRestart ==
  ASSUME MaxCopies = 1, MaxReconnects = 0
  PROVE  Spec => []HeldUntilExecuted
<1>1. TypeInv /\ TasksAreHeld => HeldUntilExecuted
    BY DEF TypeInv, TypeOK, Gens, TasksAreHeld
<1>2. QED
    BY <1>1, TypeInvariant, TasksStayHeld, PTL
=============================================================================
