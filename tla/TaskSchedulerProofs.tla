------------------------- MODULE TaskSchedulerProofs -------------------------
(***************************************************************************)
(* Proofs about TaskScheduler, for any number of tasks, workers, messages  *)
(* and generations.                                                        *)
(***************************************************************************)
EXTENDS TaskScheduler, FiniteSetTheorems, SequenceTheorems, TLAPS

(* While a callback runs, its message is the head of the batch; a message  *)
(* that is about to be put has its stamp.                                  *)
PhasesOK ==
  /\ ui = "callback" => batch # << >>
  /\ \A j \in Jobs : jobs[j] = "put" => stamp[j] \in Gens

LEMMA MonusType == \A a, b \in Nat : Monus(a, b) \in Nat
  BY DEF Monus

LEMMA OneType == \A id : One(id) \in [Tasks -> Nat]
  BY DEF One

LEMMA WakeType ==
  ASSUME NEW js \in [Jobs -> JobStates]
  PROVE  /\ WakeSlotWaiters(js) \in [Jobs -> JobStates]
         /\ WakePauseWaiters(js) \in [Jobs -> JobStates]
  BY DEF WakeSlotWaiters, WakePauseWaiters, JobStates, Executing

LEMMA BoundTypes == MaxGen \in Nat /\ 0 \in 0 .. MaxGen /\ 0 \in 0 .. MaxSends
  BY TaskSchedulerAssumption DEF TaskSchedulerAssumption

LEMMA JobParts == \A j \in Jobs : j[1] \in Tasks /\ j[2] \in Gens
  BY DEF Jobs

LEMMA CancelType ==
  ASSUME TypeOK, NEW C \in SUBSET Jobs
  PROVE  /\ CancelJobs(C) \in [Jobs -> JobStates]
         /\ CancelCompletions(C) \in SUBSET Completion
  <1>1. CancelJobs(C) \in [Jobs -> JobStates]
    BY DEF CancelJobs, TypeOK, JobStates
  <1>2. ASSUME NEW j \in C
        PROVE  [id |-> j[1], gen |-> j[2], ok |-> FALSE] \in Completion
    BY JobParts DEF Completion
  <1> QED BY <1>1, <1>2 DEF CancelCompletions

LEMMA CancelledJobs ==
  /\ \A S : Cancelled(S) \in SUBSET Jobs
  /\ QueuedJobs \in SUBSET Jobs
  BY DEF Cancelled, QueuedJobs

LEMMA RemoveInternalType ==
  ASSUME TypeOK, NEW S, NEW g \in [Tasks -> 0 .. MaxGen], RemoveInternal(S, g)
  PROVE  /\ generation' \in [Tasks -> 0 .. MaxGen]
         /\ suspended' \in SUBSET Tasks
         /\ running' \in SUBSET Tasks
         /\ counts' \in [Tasks -> Nat]
         /\ results' \in [Tasks -> 0 .. MaxGen]
         /\ jobs' \in [Jobs -> JobStates]
         /\ completions' \in SUBSET Completion
  <1>1. /\ jobs' \in [Jobs -> JobStates]
        /\ completions' \in SUBSET Completion
    BY WakeType, CancelType, CancelledJobs DEF RemoveInternal, TypeOK
  <1> QED BY <1>1, BoundTypes DEF RemoveInternal, TypeOK

LEMMA EnqueueType ==
  ASSUME NEW q \in Seq(Message), NEW m \in Message
  PROVE  Enqueue(q, m) \in Seq(Message)
  BY DEF Enqueue

LEMMA DecrementType ==
  ASSUME TypeOK, NEW d \in [Tasks -> Nat], DecrementCounts(d)
  PROVE  /\ counts' \in [Tasks -> Nat]
         /\ jobs' \in [Jobs -> JobStates]
  <1>1. counts' \in [Tasks -> Nat]
    BY MonusType DEF DecrementCounts, TypeOK
  <1>2. jobs' \in [Jobs -> JobStates]
    BY WakeType DEF DecrementCounts, TypeOK
  <1> QED BY <1>1, <1>2

LEMMA TypeInit == Init => TypeOK
  <1> SUFFICES ASSUME Init PROVE TypeOK OBVIOUS
  <1>1. << >> \in Seq(Message)
    OBVIOUS
  <1>2. "none" \in JobStates /\ "idle" \in UiStates
    BY DEF JobStates, UiStates
  <1> QED BY <1>1, <1>2, BoundTypes DEF Init, TypeOK

LEMMA TypeNext == TypeOK /\ PhasesOK /\ [Next]_vars => TypeOK'
  <1> SUFFICES ASSUME TypeOK, PhasesOK, [Next]_vars PROVE TypeOK' OBVIOUS
  <1>1. ASSUME NEW t \in Tasks, NEW h \in Handlers, AddTask(t, h) PROVE TypeOK'
    <2> DEFINE g == generation[t] + (IF Placed(t) THEN 2 ELSE 1)
               newGeneration == [generation EXCEPT ![t] = g]
    <2>1. g \in Gens /\ newGeneration \in [Tasks -> 0 .. MaxGen]
      BY <1>1 DEF AddTask, TypeOK, Gens
    <2>5. /\ tasks' \in [Tasks -> TaskRec \cup {NoTask}]
          /\ finished' \in [Tasks -> 0 .. MaxGen]
          /\ failed' \in [Tasks -> 0 .. MaxGen]
      BY <1>1, <2>1, BoundTypes, TaskSchedulerAssumption
      DEF AddTask, TypeOK, TaskRec, TaskSchedulerAssumption
    <2>2. CASE Placed(t)
      <3>1. RemoveInternal({t}, newGeneration)
        BY <1>1, <2>2 DEF AddTask
      <3>2. /\ generation' \in [Tasks -> 0 .. MaxGen]
            /\ suspended' \in SUBSET Tasks
            /\ running' \in SUBSET Tasks
            /\ counts' \in [Tasks -> Nat]
            /\ results' \in [Tasks -> 0 .. MaxGen]
            /\ jobs' \in [Jobs -> JobStates]
            /\ completions' \in SUBSET Completion
        BY <2>1, <3>1, RemoveInternalType
      <3> QED BY <1>1, <2>5, <3>2
        DEF AddTask, TypeOK, settingVars, uiVars, sendVars, TaskRec
    <2>3. CASE ~Placed(t)
      <3>1. /\ generation' = newGeneration
            /\ UNCHANGED <<suspended, running, counts, results, jobs, completions>>
        BY <1>1, <2>3 DEF AddTask
      <3> QED BY <1>1, <2>1, <2>5, <3>1
        DEF AddTask, TypeOK, settingVars, uiVars, sendVars, TaskRec
    <2> QED BY <2>2, <2>3
  <1>2. ASSUME NEW t \in Tasks, RemoveTask(t) PROVE TypeOK'
    <2>1. /\ RemoveInternal({t}, [generation EXCEPT ![t] = @ + 1])
          /\ [generation EXCEPT ![t] = @ + 1] \in [Tasks -> 0 .. MaxGen]
      BY <1>2, BoundTypes DEF RemoveTask, TypeOK
    <2>2. /\ generation' \in [Tasks -> 0 .. MaxGen]
          /\ suspended' \in SUBSET Tasks
          /\ running' \in SUBSET Tasks
          /\ counts' \in [Tasks -> Nat]
          /\ results' \in [Tasks -> 0 .. MaxGen]
          /\ jobs' \in [Jobs -> JobStates]
          /\ completions' \in SUBSET Completion
      BY <2>1, RemoveInternalType
    <2> QED BY <1>2, <2>2, BoundTypes
      DEF RemoveTask, TypeOK, settingVars, uiVars, sendVars
  <1>3. ASSUME NEW js \in [Jobs -> JobStates], ClearAll(js)
        PROVE  /\ jobs' \in [Jobs -> JobStates]
               /\ generation' \in [Tasks -> 0 .. MaxGen]
               /\ messages' \in Seq(Message)
               /\ tasks' \in [Tasks -> TaskRec \cup {NoTask}]
    BY <1>3, WakeType, BoundTypes DEF ClearAll, TypeOK
  <1>4. CASE RemoveAll \/ Shutdown
    <2>1. PICK js \in [Jobs -> JobStates] : ClearAll(js)
      BY <1>4, WakeType, CancelType, CancelledJobs DEF RemoveAll, Shutdown
    <2>2. completions' \in SUBSET Completion
      BY <1>4, CancelType, CancelledJobs DEF RemoveAll, Shutdown, TypeOK
    <2>3. paused' \in BOOLEAN /\ ui' \in UiStates
      BY <1>4 DEF RemoveAll, Shutdown, TypeOK, UiStates
    <2> QED BY <1>3, <2>1, <2>2, <2>3, BoundTypes DEF ClearAll, TypeOK, sendVars
  <1>5. ASSUME NEW S \in SUBSET Tasks, Suspend(S) \/ Resume(S) PROVE TypeOK'
    BY <1>5
    DEF Suspend, Suspendable, Resume, UnchangedByMoves, TypeOK, settingVars, eventVars, uiVars, sendVars
  <1>6. ASSUME NEW p \in BOOLEAN, SetExecutionPaused(p) PROVE TypeOK'
    BY <1>6, WakeType
    DEF SetExecutionPaused, UnchangedBySettings, TypeOK, eventVars, uiVars, sendVars
  <1>7. ASSUME NEW q \in QueueLimits, SetMaxQueued(q) PROVE TypeOK'
    BY <1>7, WakeType
    DEF SetMaxQueued, UnchangedBySettings, TypeOK, eventVars, uiVars, sendVars
  <1>8. ASSUME NEW l \in UpdateLimits, SetUpdateLimits(l) PROVE TypeOK'
    BY <1>8
    DEF SetUpdateLimits, UnchangedBySettings, TypeOK, eventVars, uiVars, sendVars
  <1>9. ASSUME NEW t \in Tasks, PopResult(t) \/ PopFailedEvent(t) PROVE TypeOK'
    <2>1. CASE PopResult(t)
      BY <2>1, BoundTypes, SMTT(30)
      DEF PopResult, UnchangedByReads, TypeOK, settingVars, uiVars, sendVars
    <2>2. CASE PopFailedEvent(t)
      BY <2>2, BoundTypes, SMTT(30)
      DEF PopFailedEvent, UnchangedByReads, TypeOK, settingVars, uiVars, sendVars
    <2> QED BY <1>9, <2>1, <2>2
  <1>10. CASE ClearFinished \/ ClearFailed
    BY <1>10, BoundTypes
    DEF ClearFinished, ClearFailed, UnchangedByReads, TypeOK, settingVars, uiVars, sendVars
  <1>11. CASE UpdateStart
    BY <1>11 DEF UpdateStart, TypeOK, settingVars, eventVars, sendVars, UiStates
  <1>12. ASSUME NEW t \in Tasks, SubmitReady(t) PROVE TypeOK'
    <2>1. Known(t) => tasks[t] \in TaskRec /\ <<t, tasks[t].gen>> \in Jobs
      BY DEF Known, TypeOK, TaskRec, Jobs
    <2> QED BY <2>1, <1>12
      DEF SubmitReady, TypeOK, settingVars, eventVars, uiVars, sendVars, JobStates, Executing
  <1>13. CASE CollectFinished
    <2> DEFINE done == {c \in Accepted : c.ok}
               raised == {c \in Accepted : ~c.ok}
    <2>1. Accepted \subseteq Completion /\ Gens \subseteq 0 .. MaxGen
      BY DEF Accepted, TypeOK, Gens
    <2>2. \A S \in SUBSET Completion : IdsOf(S) \subseteq Tasks
      BY DEF IdsOf, Completion
    <2>3. \A S \in SUBSET Completion : \A t \in IdsOf(S) : GenIn(S, t) \in Gens
      BY DEF GenIn, IdsOf, Completion
    <2>4. {[id |-> c.id, gen |-> c.gen] : c \in raised} \subseteq Failure
      BY <2>1 DEF Completion, Failure
    <2>5. /\ results' \in [Tasks -> 0 .. MaxGen]
          /\ finished' \in [Tasks -> 0 .. MaxGen]
      BY <1>13, <2>1, <2>2, <2>3 DEF CollectFinished, TypeOK
    <2> QED BY <1>13, <2>1, <2>2, <2>4, <2>5
      DEF CollectFinished, TypeOK, settingVars, sendVars, UiStates
  <1>14. CASE IngestMessage
    <2> DEFINE m == Head(incoming)
    <2>1. m \in Message /\ Tail(incoming) \in Seq(Message)
      BY <1>14 DEF IngestMessage, CanIngest, TypeOK
    <2>2. counts' \in [Tasks -> Nat] /\ jobs' \in [Jobs -> JobStates]
      BY <1>14, OneType, DecrementType DEF IngestMessage, TypeOK
    <2>3. messages' \in Seq(Message)
      BY <1>14, <2>1, EnqueueType DEF IngestMessage, TypeOK
    <2> QED BY <1>14, <2>1, <2>2, <2>3, SMTT(30)
      DEF IngestMessage, TypeOK, settingVars, eventVars, sendVars
  <1>15. CASE IngestEnd
    BY <1>15 DEF IngestEnd, TypeOK, settingVars, eventVars, sendVars, UiStates
  <1>16. CASE DrainFailures
    <2> DEFINE hit == {f \in failures : generation[f.id] = f.gen}
    <2>1. hit \subseteq Failure
      BY DEF TypeOK
    <2>2. \A t \in IdsOf(hit) : GenIn(hit, t) \in 0 .. MaxGen
      BY <2>1 DEF GenIn, IdsOf, Failure, Gens
    <2> QED BY <1>16, <2>2
      DEF DrainFailures, TypeOK, settingVars, sendVars, UiStates
  <1>17. CASE DispatchStart
    <2>1. room' \in Nat
      BY <1>17, TaskSchedulerAssumption
      DEF DispatchStart, CanDispatch, LimitReached, TypeOK, UpdateLimit, TaskSchedulerAssumption
    <2> QED BY <1>17, <2>1
      DEF DispatchStart, TypeOK, settingVars, eventVars, sendVars, UiStates
  <1>18. CASE DispatchEnd
    BY <1>18 DEF DispatchEnd, TypeOK, settingVars, eventVars, sendVars, UiStates
  <1>19. CASE FillBatch
    <2> DEFINE m == Head(messages)
    <2>1. m \in Message /\ Tail(messages) \in Seq(Message)
      BY <1>19 DEF FillBatch, TypeOK
    <2>2. counts' \in [Tasks -> Nat] /\ jobs' \in [Jobs -> JobStates]
      BY <1>19, OneType, DecrementType DEF FillBatch, TypeOK
    <2>3. batch' \in Seq(Message)
      BY <1>19, <2>1, EnqueueType DEF FillBatch, TypeOK
    <2> QED BY <1>19, <2>1, <2>2, <2>3, SMTT(30)
      DEF FillBatch, TypeOK, settingVars, eventVars, sendVars
  <1>20. CASE FillEnd
    BY <1>20 DEF FillEnd, TypeOK, settingVars, eventVars, sendVars, UiStates
  <1>21. ASSUME NEW ok \in BOOLEAN, CallbackReturn(ok) PROVE TypeOK'
    <2> DEFINE m == Head(batch)
    <2>1. m \in Message /\ Tail(batch) \in Seq(Message)
      BY <1>21 DEF CallbackReturn, PhasesOK, TypeOK
    <2>2. [id |-> m.id, gen |-> m.gen] \in Failure /\ m.id \in Tasks
      BY <2>1 DEF Message, Failure
    <2>3. failures' \in SUBSET Failure /\ dec' \in [Tasks -> Nat]
      BY <1>21, <2>2 DEF CallbackReturn, TypeOK
    <2>4. quota' \in Nat /\ ui' \in UiStates /\ batch' \in Seq(Message)
      BY <1>21, <2>1 DEF CallbackReturn, TypeOK, UiStates
    <2> QED BY <1>21, <2>3, <2>4
      DEF CallbackReturn, TypeOK, settingVars, eventVars, sendVars, UiStates
  <1>22. CASE Flush
    <2>1. counts' \in [Tasks -> Nat] /\ jobs' \in [Jobs -> JobStates]
      BY <1>22, DecrementType DEF Flush, TypeOK
    <2> QED BY <1>22, <2>1 DEF Flush, TypeOK, settingVars, eventVars, sendVars, UiStates
  <1>23. ASSUME NEW j \in Jobs, PickUp(j) \/ StartLogic(j) PROVE TypeOK'
    BY <1>23 DEF PickUp, StartLogic, UnchangedByWorker, TypeOK, eventVars,
                 settingVars, uiVars, sendVars, JobStates, Executing
  <1>24. ASSUME NEW j \in Jobs, SendLocked(j) PROVE TypeOK'
    <2>1. j[1] \in Tasks
      BY JobParts
    <2>2. jobs' \in [Jobs -> JobStates]
      BY <1>24 DEF SendLocked, TypeOK, JobStates, Executing
    <2>3. counts' \in [Tasks -> Nat]
      <3>1. counts \in [Tasks -> Nat] /\ counts[j[1]] + 1 \in Nat
        BY <2>1 DEF TypeOK
      <3>2. counts' = counts \/ counts' = [counts EXCEPT ![j[1]] = @ + 1]
        BY <1>24 DEF SendLocked
      <3> QED BY <2>1, <3>1, <3>2
    <2>6. sent' \in [Jobs -> 0 .. MaxSends]
      <3>1. sent[j] \in 0 .. MaxSends /\ sent[j] < MaxSends
        BY <1>24 DEF SendLocked, TypeOK
      <3>2. sent[j] + 1 \in 0 .. MaxSends
        BY <3>1, TaskSchedulerAssumption DEF TaskSchedulerAssumption
      <3>3. sent' = sent \/ sent' = [sent EXCEPT ![j] = @ + 1]
        BY <1>24 DEF SendLocked, sendVars
      <3> QED BY <3>2, <3>3 DEF TypeOK
    <2>4. CanSend(j[1]) => tasks[j[1]].gen \in 0 .. MaxGen
      BY <2>1 DEF CanSend, Known, TypeOK, TaskRec, Gens
    <2>5. stamp' \in [Jobs -> 0 .. MaxGen]
      BY <1>24, <2>4 DEF SendLocked, TypeOK, sendVars
    <2> QED BY <1>24, <2>2, <2>3, <2>5, <2>6
      DEF SendLocked, UnchangedByWorker, TypeOK, eventVars, settingVars, uiVars
  <1>25. ASSUME NEW j \in Jobs, SendPut(j) PROVE TypeOK'
    <2>1. stamp[j] \in Gens /\ j[1] \in Tasks /\ j[2] \in Gens
      BY <1>25, JobParts DEF SendPut, PhasesOK
    <2>2. [id |-> j[1], gen |-> stamp[j], from |-> j[2], n |-> sent[j]] \in Message
      BY <2>1 DEF TypeOK, Message
    <2>3. incoming' \in Seq(Message)
      BY <1>25, <2>2, EnqueueType DEF SendPut, TypeOK
    <2>4. jobs' \in [Jobs -> JobStates] /\ stamp' \in [Jobs -> 0 .. MaxGen]
      BY <1>25, BoundTypes DEF SendPut, TypeOK, JobStates, Executing
    <2> QED BY <1>25, <2>3, <2>4
      DEF SendPut, UnchangedByWorker, TypeOK, eventVars, settingVars, uiVars
  <1>26. ASSUME NEW j \in Jobs, NEW ok \in BOOLEAN, EndLogic(j, ok) PROVE TypeOK'
    <2>1. [id |-> j[1], gen |-> j[2], ok |-> ok] \in Completion
      BY JobParts DEF Completion
    <2> QED BY <1>26, <2>1
      DEF EndLogic, UnchangedByWorker, TypeOK, eventVars, settingVars, uiVars,
          sendVars, JobStates
  <1>27. CASE UNCHANGED vars
    BY <1>27 DEF vars, TypeOK, eventVars, settingVars, uiVars, sendVars
  <1>28. CASE Api
    BY <1>28, <1>1, <1>2, <1>4, <1>5, <1>6, <1>7, <1>8, <1>9, <1>10
    DEF Api, SuspendAll, SuspendTask, ResumeAll, ResumeTask
  <1>29. CASE UpdateStep
    BY <1>29, <1>12, <1>13, <1>14, <1>15, <1>16, <1>17, <1>18, <1>19, <1>20,
       <1>21, <1>22 DEF UpdateStep
  <1>30. ASSUME NEW j \in Jobs, Worker(j) PROVE TypeOK'
    BY <1>30, <1>23, <1>24, <1>25, <1>26 DEF Worker
  <1> QED BY <1>11, <1>27, <1>28, <1>29, <1>30 DEF Next

-----------------------------------------------------------------------------
(* The actions that touch neither the placement of tasks nor generations.  *)

Placement == <<tasks, pending, suspended, running, generation>>

SettingOrRead ==
  \/ \E p \in BOOLEAN : SetExecutionPaused(p)
  \/ \E q \in QueueLimits : SetMaxQueued(q)
  \/ \E l \in UpdateLimits : SetUpdateLimits(l)
  \/ \E t \in Tasks : PopResult(t) \/ PopFailedEvent(t)
  \/ ClearFinished \/ ClearFailed

MessageStep ==
  \/ UpdateStart \/ IngestMessage \/ IngestEnd \/ DispatchStart \/ DispatchEnd
  \/ FillBatch \/ FillEnd \/ Flush
  \/ \E ok \in BOOLEAN : CallbackReturn(ok)

WorkerStep == \E j \in Jobs : Worker(j)

LEMMA PlacementUnchanged ==
  SettingOrRead \/ MessageStep \/ WorkerStep \/ UNCHANGED vars => UNCHANGED Placement
  <1>1. SettingOrRead => UNCHANGED Placement
    BY DEF SettingOrRead, SetExecutionPaused, SetMaxQueued, SetUpdateLimits,
           PopResult, PopFailedEvent, ClearFinished, ClearFailed,
           UnchangedBySettings, UnchangedByReads, Placement
  <1>2. MessageStep => UNCHANGED Placement
    BY DEF MessageStep, UpdateStart, IngestMessage, IngestEnd, DispatchStart,
           DispatchEnd, FillBatch, FillEnd, Flush, CallbackReturn, Placement
  <1>3. WorkerStep => UNCHANGED Placement
    BY DEF WorkerStep, Worker, PickUp, StartLogic, SendLocked, SendPut, EndLogic,
           UnchangedByWorker, Placement
  <1> QED BY <1>1, <1>2, <1>3 DEF vars, Placement

(* What a step of Next is, for the proofs below.                           *)
PlacingStep ==
  \/ \E t \in Tasks, h \in Handlers : AddTask(t, h)
  \/ \E t \in Tasks : RemoveTask(t)
  \/ \E js : ClearAll(js)
  \/ \E S \in SUBSET Tasks : Suspend(S) \/ Resume(S)
  \/ \E t \in Tasks : SubmitReady(t)
  \/ CollectFinished
  \/ DrainFailures

LEMMA StepKinds ==
  [Next]_vars => PlacingStep \/ UNCHANGED Placement
  <1>1. Api => PlacingStep \/ SettingOrRead
    <2>1. RemoveAll \/ Shutdown => \E js : ClearAll(js)
      BY DEF RemoveAll, Shutdown
    <2>2. SuspendAll \/ (\E t \in Tasks : SuspendTask(t))
            => \E S \in SUBSET Tasks : Suspend(S)
      BY DEF SuspendAll, SuspendTask
    <2>3. ResumeAll \/ (\E t \in Tasks : ResumeTask(t))
            => \E S \in SUBSET Tasks : Resume(S)
      BY DEF ResumeAll, ResumeTask
    <2> QED BY <2>1, <2>2, <2>3 DEF Api, PlacingStep, SettingOrRead
  <1>2. UpdateStart \/ UpdateStep => PlacingStep \/ MessageStep
    BY DEF UpdateStep, PlacingStep, MessageStep
  <1> QED BY <1>1, <1>2, PlacementUnchanged DEF Next, WorkerStep

(* _submit_ready_tasks, _collect_finished_tasks, the removals and the      *)
(* moves keep every known task in exactly one place.                       *)
LEMMA PlacedNext == TypeOK /\ TasksPlacedOnce /\ [Next]_vars => TasksPlacedOnce'
  <1> SUFFICES ASSUME TypeOK, TasksPlacedOnce, [Next]_vars PROVE TasksPlacedOnce'
    OBVIOUS
  <1> USE DEF TasksPlacedOnce, Known
  <1>1. ASSUME NEW t \in Tasks, NEW h \in Handlers, AddTask(t, h) PROVE TasksPlacedOnce'
    <2> DEFINE g == generation[t] + (IF Placed(t) THEN 2 ELSE 1)
    <2>1. /\ generation' = [generation EXCEPT ![t] = g]
          /\ suspended' = suspended \ {t}
          /\ running' = running \ {t}
          /\ pending' = pending \cup {t}
          /\ tasks' = [tasks EXCEPT ![t] = [gen |-> g, handler |-> h]]
      <3>1. CASE Placed(t)
        BY <1>1, <3>1 DEF AddTask, RemoveInternal
      <3>2. CASE ~Placed(t)
        BY <1>1, <3>2 DEF AddTask, Placed
      <3> QED BY <3>1, <3>2
    <2> QED BY <2>1 DEF TypeOK
  <1>2. ASSUME NEW t \in Tasks, RemoveTask(t) PROVE TasksPlacedOnce'
    BY <1>2 DEF RemoveTask, RemoveInternal, TypeOK
  <1>3. ASSUME NEW js, ClearAll(js) PROVE TasksPlacedOnce'
    BY <1>3 DEF ClearAll, TypeOK
  <1>4. ASSUME NEW S \in SUBSET Tasks, Suspend(S) \/ Resume(S) PROVE TasksPlacedOnce'
    BY <1>4 DEF Suspend, Suspendable, Resume, UnchangedByMoves, TypeOK
  <1>5. ASSUME NEW t \in Tasks, SubmitReady(t) PROVE TasksPlacedOnce'
    BY <1>5 DEF SubmitReady, TypeOK
  <1>6. CASE CollectFinished
    BY <1>6 DEF CollectFinished, TypeOK
  <1>7. CASE DrainFailures
    BY <1>7 DEF DrainFailures, TypeOK
  <1>8. CASE UNCHANGED Placement
    BY <1>8 DEF Placement
  <1> QED BY <1>1, <1>2, <1>3, <1>4, <1>5, <1>6, <1>7, <1>8, StepKinds DEF PlacingStep

(* _submit_ready_tasks counts the running tasks before each submission.    *)
LEMMA BoundedNext == TypeOK /\ RunningBounded /\ [Next]_vars => RunningBounded'
  <1> SUFFICES ASSUME TypeOK, RunningBounded, [Next]_vars PROVE RunningBounded'
    OBVIOUS
  <1> USE DEF RunningBounded
  <1>1. IsFiniteSet(running) /\ Cardinality(running) \in Nat /\ MaxWorkers \in Nat
    BY TaskSchedulerAssumption, FS_Subset, FS_CardinalityType
    DEF TaskSchedulerAssumption, TypeOK
  <1>2. running' \subseteq running => RunningBounded'
    BY <1>1, FS_Subset, FS_CardinalityType
  <1>3. ASSUME NEW t \in Tasks, SubmitReady(t) PROVE RunningBounded'
    <2>1. CASE running' = running
      BY <1>2, <2>1
    <2>2. CASE running' = running \cup {t}
      <3>1. Cardinality(running) < MaxWorkers
        BY <1>3 DEF SubmitReady, CanSubmit
      <3>2. Cardinality(running') \in {Cardinality(running), Cardinality(running) + 1}
        BY <1>1, <2>2, FS_AddElement
      <3> QED BY <1>1, <3>1, <3>2
    <2> QED BY <1>3, <2>1, <2>2 DEF SubmitReady
  <1>4. ASSUME NEW t \in Tasks, NEW h \in Handlers, AddTask(t, h)
        PROVE running' \subseteq running
    BY <1>4 DEF AddTask, RemoveInternal
  <1>5. ASSUME NEW t \in Tasks, RemoveTask(t) PROVE running' \subseteq running
    BY <1>5 DEF RemoveTask, RemoveInternal
  <1>6. ASSUME NEW js, ClearAll(js) PROVE running' \subseteq running
    BY <1>6 DEF ClearAll
  <1>7. ASSUME NEW S, Suspend(S) \/ Resume(S) PROVE running' \subseteq running
    BY <1>7 DEF Suspend, Resume, UnchangedByMoves
  <1>8. CollectFinished \/ DrainFailures \/ UNCHANGED Placement => running' \subseteq running
    BY DEF CollectFinished, DrainFailures, Placement
  <1> QED BY <1>2, <1>3, <1>4, <1>5, <1>6, <1>7, <1>8, StepKinds DEF PlacingStep

(* Every other step leaves the threads where they are, wakes waiting ones  *)
(* or cancels jobs the pool has not started.                               *)
QuietMove(old, new) ==
  \/ new = old
  \/ old \in {"waitSlot", "waitExec"} /\ new = "retry"
  \/ old = "waitStart" /\ new = "start"
  \/ old = "queued" /\ new = "cancelled"

JobsQuiet == \A j \in Jobs : QuietMove(jobs[j], jobs'[j])

LEMMA WakeQuiet ==
  ASSUME NEW js, \A j \in Jobs : QuietMove(jobs[j], js[j])
  PROVE  /\ \A j \in Jobs : QuietMove(jobs[j], WakeSlotWaiters(js)[j])
         /\ \A j \in Jobs : QuietMove(jobs[j], WakePauseWaiters(js)[j])
  BY DEF QuietMove, WakeSlotWaiters, WakePauseWaiters

LEMMA CancelQuiet ==
  /\ \A S : \A j \in Jobs : QuietMove(jobs[j], CancelJobs(Cancelled(S))[j])
  /\ \A j \in Jobs : QuietMove(jobs[j], CancelJobs(QueuedJobs)[j])
  BY DEF QuietMove, CancelJobs, Cancelled, QueuedJobs

LEMMA RemoveQuiet ==
  ASSUME NEW S, NEW g, RemoveInternal(S, g)
  PROVE  JobsQuiet
  <1> DEFINE js == CancelJobs(Cancelled(S))
  <1>1. \A j \in Jobs : QuietMove(jobs[j], js[j])
    BY CancelQuiet
  <1>2. jobs' = WakeSlotWaiters(js)
    BY DEF RemoveInternal
  <1> QED BY ONLY <1>1, <1>2, WakeQuiet DEF JobsQuiet

LEMMA SameQuiet == UNCHANGED jobs => JobsQuiet
  BY DEF JobsQuiet, QuietMove

LEMMA DecrementQuiet ==
  ASSUME NEW d, DecrementCounts(d)
  PROVE  JobsQuiet
  <1>1. CASE jobs' = WakeSlotWaiters(jobs)
    BY <1>1, WakeQuiet DEF QuietMove, JobsQuiet
  <1>2. CASE jobs' = jobs
    BY <1>2, SameQuiet
  <1> QED BY <1>1, <1>2 DEF DecrementCounts

LEMMA QuietSteps ==
  ASSUME [Next]_vars, \A t \in Tasks : ~SubmitReady(t), ~WorkerStep
  PROVE  JobsQuiet /\ UNCHANGED <<sent, stamp>>
  <1>1. ASSUME NEW t \in Tasks, NEW h \in Handlers, AddTask(t, h) PROVE JobsQuiet
    <2>1. CASE Placed(t)
      BY <1>1, <2>1, RemoveQuiet DEF AddTask
    <2>2. CASE ~Placed(t)
      BY <1>1, <2>2, SameQuiet DEF AddTask
    <2> QED BY <2>1, <2>2
  <1>2. ASSUME NEW t \in Tasks, RemoveTask(t) PROVE JobsQuiet
    BY <1>2, RemoveQuiet DEF RemoveTask
  <1>3. ASSUME RemoveAll PROVE JobsQuiet
    <2> DEFINE js == CancelJobs(Cancelled(Tasks))
    <2>1. \A j \in Jobs : QuietMove(jobs[j], js[j])
      BY CancelQuiet
    <2>2. jobs' = WakeSlotWaiters(js)
      BY <1>3 DEF RemoveAll, ClearAll
    <2> QED BY ONLY <2>1, <2>2, WakeQuiet DEF JobsQuiet
  <1>4. ASSUME Shutdown PROVE JobsQuiet
    <2> DEFINE ks == CancelJobs(QueuedJobs)
               js == WakePauseWaiters(ks)
    <2>1. \A j \in Jobs : QuietMove(jobs[j], ks[j])
      BY CancelQuiet
    <2>2. \A j \in Jobs : QuietMove(jobs[j], js[j])
      BY ONLY <2>1, WakeQuiet
    <2>3. jobs' = WakeSlotWaiters(js)
      BY <1>4 DEF Shutdown, ClearAll
    <2> QED BY ONLY <2>2, <2>3, WakeQuiet DEF JobsQuiet
  <1>5. ASSUME NEW p \in BOOLEAN, SetExecutionPaused(p) PROVE JobsQuiet
    BY <1>5, WakeQuiet DEF SetExecutionPaused, JobsQuiet, QuietMove
  <1>6. ASSUME NEW q \in QueueLimits, SetMaxQueued(q) PROVE JobsQuiet
    BY <1>6, WakeQuiet DEF SetMaxQueued, JobsQuiet, QuietMove
  <1>7. IngestMessage \/ FillBatch => JobsQuiet
    BY DecrementQuiet, SameQuiet DEF IngestMessage, FillBatch
  <1>8. Flush => JobsQuiet
    BY DecrementQuiet DEF Flush
  <1>9. ASSUME NEW S, Suspend(S) \/ Resume(S) PROVE UNCHANGED <<jobs, sendVars>>
    BY <1>9 DEF Suspend, Resume, UnchangedByMoves
  <1>10. ASSUME NEW l \in UpdateLimits, SetUpdateLimits(l) PROVE UNCHANGED jobs
    BY <1>10 DEF SetUpdateLimits
  <1>11. ASSUME NEW t \in Tasks, PopResult(t) \/ PopFailedEvent(t)
         PROVE UNCHANGED <<jobs, sendVars>>
    BY <1>11 DEF PopResult, PopFailedEvent, UnchangedByReads
  <1>12. ClearFinished \/ ClearFailed => UNCHANGED <<jobs, sendVars>>
    BY DEF ClearFinished, ClearFailed, UnchangedByReads
  <1>13. Api => JobsQuiet
    BY <1>1, <1>2, <1>3, <1>4, <1>5, <1>6, <1>9, <1>10, <1>11, <1>12, SameQuiet
    DEF Api, SuspendAll, SuspendTask, ResumeAll, ResumeTask
  <1>14. Api => UNCHANGED sendVars
    BY <1>9, <1>11, <1>12
    DEF Api, AddTask, RemoveTask, RemoveAll, Shutdown, ClearAll, SuspendAll, SuspendTask,
        ResumeAll, ResumeTask, SetExecutionPaused, SetMaxQueued, SetUpdateLimits,
        UnchangedBySettings
  <1>15. UpdateStart \/ CollectFinished \/ IngestEnd \/ DrainFailures \/ DispatchStart
           \/ DispatchEnd \/ FillEnd => UNCHANGED jobs
    BY DEF UpdateStart, CollectFinished, IngestEnd, DrainFailures, DispatchStart,
           DispatchEnd, FillEnd
  <1>16. ASSUME NEW ok \in BOOLEAN, CallbackReturn(ok) PROVE UNCHANGED jobs
    BY <1>16 DEF CallbackReturn
  <1>17. UpdateStart \/ UpdateStep => JobsQuiet
    BY <1>7, <1>8, <1>15, <1>16, SameQuiet DEF UpdateStep
  <1>18. UpdateStart \/ UpdateStep => UNCHANGED sendVars
    BY DEF UpdateStart, UpdateStep, SubmitReady, CollectFinished, IngestMessage, IngestEnd,
           DrainFailures, DispatchStart, DispatchEnd, FillBatch, FillEnd, CallbackReturn, Flush
  <1>19. UNCHANGED vars => UNCHANGED <<jobs, sendVars>>
    BY DEF vars, sendVars
  <1>20. JobsQuiet
    BY <1>13, <1>17, <1>19, SameQuiet DEF Next, WorkerStep
  <1>21. UNCHANGED sendVars
    BY <1>14, <1>18, <1>19 DEF Next, WorkerStep
  <1> QED BY <1>20, <1>21 DEF sendVars

(* Only FillEnd starts a batch and only CallbackReturn shortens it; only   *)
(* SendLocked takes a job to "put".                                        *)
LEMMA PhasesNext == TypeOK /\ PhasesOK /\ [Next]_vars => PhasesOK'
  <1> SUFFICES ASSUME TypeOK, PhasesOK, [Next]_vars PROVE PhasesOK' OBVIOUS
  <1>2. ui' = "callback" => batch' # << >>
    <2>1. FillEnd => (ui' = "callback" => batch' # << >>)
      BY DEF FillEnd
    <2>2. ASSUME NEW ok \in BOOLEAN, CallbackReturn(ok) PROVE ui' = "callback" => batch' # << >>
      BY <2>2 DEF CallbackReturn
    <2>3. UpdateStart \/ CollectFinished \/ IngestEnd \/ DrainFailures \/ DispatchStart
            \/ DispatchEnd \/ Flush => ui' # "callback"
      BY DEF UpdateStart, CollectFinished, IngestEnd, DrainFailures, DispatchStart,
             DispatchEnd, Flush
    <2>4. FillBatch \/ IngestMessage => ui' # "callback"
      BY DEF FillBatch, IngestMessage
    <2>5. Api => (ui' # "callback" \/ UNCHANGED <<ui, batch>>)
      BY DEF Api, AddTask, RemoveTask, RemoveAll, ClearAll, Shutdown, SuspendAll,
             SuspendTask, Suspend, ResumeAll, ResumeTask, Resume, SetExecutionPaused,
             SetMaxQueued, SetUpdateLimits, PopResult, PopFailedEvent, ClearFinished,
             ClearFailed, UnchangedByMoves, UnchangedBySettings, UnchangedByReads, uiVars
    <2>6. ASSUME NEW t \in Tasks, SubmitReady(t) PROVE UNCHANGED <<ui, batch>>
      BY <2>6 DEF SubmitReady, uiVars
    <2>7. WorkerStep => UNCHANGED <<ui, batch>>
      BY DEF WorkerStep, Worker, PickUp, StartLogic, SendLocked, SendPut, EndLogic,
             UnchangedByWorker, uiVars
    <2>8. UNCHANGED vars => UNCHANGED <<ui, batch>>
      BY DEF vars, uiVars
    <2> QED BY <2>1, <2>2, <2>3, <2>4, <2>5, <2>6, <2>7, <2>8
      DEF Next, UpdateStep, WorkerStep, PhasesOK
  <1>3. ASSUME NEW j \in Jobs, jobs'[j] = "put" PROVE stamp'[j] \in Gens
    <2>1. CASE (\A t \in Tasks : ~SubmitReady(t)) /\ ~WorkerStep
      BY <1>3, <2>1, QuietSteps DEF JobsQuiet, QuietMove, PhasesOK
    <2>2. ASSUME NEW t \in Tasks, SubmitReady(t) PROVE stamp'[j] \in Gens
      <3>1. jobs'[j] = jobs[j] \/ jobs'[j] = "queued"
        BY <2>2 DEF SubmitReady, TypeOK
      <3> QED BY <1>3, <2>2, <3>1 DEF SubmitReady, sendVars, PhasesOK
    <2>3. ASSUME NEW k \in Jobs, Worker(k) PROVE stamp'[j] \in Gens
      <3>1. CASE PickUp(k) \/ StartLogic(k) \/ (\E ok \in BOOLEAN : EndLogic(k, ok))
        BY <1>3, <3>1 DEF PickUp, StartLogic, EndLogic, sendVars, PhasesOK, TypeOK
      <3>2. CASE SendPut(k)
        BY <1>3, <3>2 DEF SendPut, PhasesOK, TypeOK
      <3>3. CASE SendLocked(k)
        <4>1. CanSend(k[1]) => tasks[k[1]].gen \in Gens
          BY JobParts DEF CanSend, Known, TypeOK, TaskRec
        <4> QED BY <1>3, <3>3, <4>1 DEF SendLocked, sendVars, PhasesOK, TypeOK
      <3> QED BY <2>3, <3>1, <3>2, <3>3 DEF Worker
    <2> QED BY <2>1, <2>2, <2>3 DEF WorkerStep
  <1> QED BY <1>2, <1>3 DEF PhasesOK

(* Settings, reads and the handling of messages only ever wake threads.    *)
LEMMA WakingSteps ==
  ASSUME SettingOrRead \/ MessageStep
  PROVE  /\ jobs' \in {jobs, WakeSlotWaiters(jobs), WakePauseWaiters(jobs)}
         /\ UNCHANGED <<completions, running, generation>>
  <1>1. ASSUME NEW d, DecrementCounts(d) PROVE jobs' \in {jobs, WakeSlotWaiters(jobs)}
    BY <1>1 DEF DecrementCounts
  <1>2. IngestMessage \/ FillBatch \/ Flush
          => jobs' \in {jobs, WakeSlotWaiters(jobs), WakePauseWaiters(jobs)}
    BY <1>1 DEF IngestMessage, FillBatch, Flush
  <1>3. MessageStep => jobs' \in {jobs, WakeSlotWaiters(jobs), WakePauseWaiters(jobs)}
    BY <1>2 DEF MessageStep, UpdateStart, IngestEnd, DispatchStart, DispatchEnd, FillEnd,
                CallbackReturn
  <1>4. SettingOrRead => jobs' \in {jobs, WakeSlotWaiters(jobs), WakePauseWaiters(jobs)}
    BY DEF SettingOrRead, SetExecutionPaused, SetMaxQueued, SetUpdateLimits, PopResult,
           PopFailedEvent, ClearFinished, ClearFailed, UnchangedByReads
  <1>5. SettingOrRead => UNCHANGED completions
    BY DEF SettingOrRead, SetExecutionPaused, SetMaxQueued, SetUpdateLimits, PopResult,
           PopFailedEvent, ClearFinished, ClearFailed, UnchangedByReads, UnchangedBySettings
  <1>6. MessageStep => UNCHANGED completions
    BY DEF MessageStep, UpdateStart, IngestMessage, IngestEnd, DispatchStart, DispatchEnd,
           FillBatch, FillEnd, CallbackReturn, Flush
  <1> QED BY <1>3, <1>4, <1>5, <1>6, PlacementUnchanged DEF Placement

Alive(s) == s \in Executing \cup {"queued"}

LEMMA WakeAlive ==
  ASSUME NEW js, NEW j \in Jobs, Alive(js[j])
  PROVE  Alive(WakeSlotWaiters(js)[j]) /\ Alive(WakePauseWaiters(js)[j])
  BY DEF Alive, Executing, WakeSlotWaiters, WakePauseWaiters

(* Removing the ids S leaves the jobs of the other ids alive.              *)
LEMMA RemoveAlive ==
  ASSUME NEW S, NEW g, RemoveInternal(S, g), NEW j \in Jobs, j[1] \notin S, Alive(jobs[j])
  PROVE  Alive(jobs'[j])
  <1> DEFINE js == CancelJobs(Cancelled(S))
  <1>1. Alive(js[j])
    BY DEF CancelJobs, Cancelled
  <1>2. jobs' = WakeSlotWaiters(js)
    BY DEF RemoveInternal
  <1> QED BY ONLY <1>1, <1>2, WakeAlive, j \in Jobs

(* The next lemma needs that a running task has the generation its id has, *)
(* hence TasksPlacedOnce: that is what _collect_finished_tasks compares.   *)
LEMMA SlotNext ==
  TypeOK /\ TasksPlacedOnce /\ NoSlotLeak /\ [Next]_vars => NoSlotLeak'
  <1> SUFFICES ASSUME TypeOK, TasksPlacedOnce, NoSlotLeak, [Next]_vars,
                      NEW t \in running'
               PROVE  \/ Alive(jobs'[Job(t)'])
                      \/ \E c \in completions' : c.id = t /\ c.gen = generation'[t]
    BY DEF NoSlotLeak, Alive
  <1> DEFINE Reported == \E c \in completions : c.id = t /\ c.gen = generation[t]
  <1>1. t \in running => t \in Tasks /\ (Alive(jobs[Job(t)]) \/ Reported)
    BY DEF NoSlotLeak, Alive, TypeOK
  <1>2. t \in Tasks /\ generation[t] \in Gens => Job(t) \in Jobs /\ Job(t)[1] = t
    BY DEF Job, Jobs
  <1>3. t \in running => Job(t) \in Jobs
    BY <1>1, <1>2 DEF TasksPlacedOnce, Known, TypeOK, TaskRec
  <1>4. CASE t \in running /\ generation'[t] = generation[t] /\ completions \subseteq completions'
             /\ (Alive(jobs[Job(t)]) => Alive(jobs'[Job(t)]))
    BY <1>1, <1>4 DEF Job
  <1>5. CASE SettingOrRead \/ MessageStep
    <2>1. Alive(jobs[Job(t)]) => Alive(jobs'[Job(t)])
      BY <1>3, <1>5, WakingSteps, WakeAlive
    <2> QED BY <1>4, <1>5, <2>1, WakingSteps
  <1>6. ASSUME NEW s \in Tasks, NEW g, RemoveInternal({s}, g), g[t] = generation[t] \/ t = s
        PROVE  \/ Alive(jobs'[Job(t)'])
               \/ \E c \in completions' : c.id = t /\ c.gen = generation'[t]
    <2>1. t \in running /\ t # s /\ generation'[t] = generation[t]
          /\ completions \subseteq completions'
      BY <1>6 DEF RemoveInternal
    <2>2. Alive(jobs[Job(t)]) => Alive(jobs'[Job(t)])
      BY <1>2, <1>3, <1>6, <2>1, RemoveAlive DEF Job
    <2> QED BY <1>4, <2>1, <2>2
  <1>7. CASE \E s \in Tasks, h \in Handlers : AddTask(s, h)
    <2> PICK s \in Tasks, h \in Handlers : AddTask(s, h)
      BY <1>7
    <2> DEFINE g == generation[s] + (IF Placed(s) THEN 2 ELSE 1)
               newGeneration == [generation EXCEPT ![s] = g]
    <2>1. newGeneration[t] = generation[t] \/ t = s
      BY DEF TypeOK
    <2>2. CASE Placed(s)
      <3>1. RemoveInternal({s}, newGeneration)
        BY <2>2 DEF AddTask
      <3> HIDE DEF newGeneration
      <3> QED BY <1>6, <2>1, <3>1
    <2>3. CASE ~Placed(s)
      <3>1. UNCHANGED <<running, jobs, completions>> /\ generation' = newGeneration
        BY <2>3 DEF AddTask
      <3>2. t # s
        BY <2>3, <3>1 DEF Placed
      <3> QED BY <1>4, <2>1, <3>1, <3>2
    <2> QED BY <2>2, <2>3
  <1>8. CASE \E s \in Tasks : RemoveTask(s)
    <2> PICK s \in Tasks : RemoveTask(s)
      BY <1>8
    <2> DEFINE newGeneration == [generation EXCEPT ![s] = @ + 1]
    <2>1. newGeneration[t] = generation[t] \/ t = s
      BY DEF TypeOK
    <2>2. RemoveInternal({s}, newGeneration)
      BY DEF RemoveTask
    <2> HIDE DEF newGeneration
    <2> QED BY <1>6, <2>1, <2>2
  <1>9. ASSUME NEW js, ClearAll(js) PROVE FALSE
    BY <1>9 DEF ClearAll
  <1>10. CASE \E S \in SUBSET Tasks : Suspend(S) \/ Resume(S)
    BY <1>4, <1>10 DEF Suspend, Resume, UnchangedByMoves
  <1>11. CASE \E s \in Tasks : SubmitReady(s)
    <2> PICK s \in Tasks : SubmitReady(s)
      BY <1>11
    <2>1. CASE t = s /\ t \notin running
      <3>1. Known(s) /\ jobs' = [jobs EXCEPT ![<<s, tasks[s].gen>>] = "queued"]
        BY <2>1 DEF SubmitReady
      <3>2. tasks[s].gen = generation[s] /\ tasks[s].gen \in Gens
        BY <3>1 DEF TasksPlacedOnce, TypeOK, Known, TaskRec
      <3>3. Job(t)' = <<s, tasks[s].gen>> /\ Job(t)' \in Jobs
        BY <2>1, <3>2 DEF Job, Jobs, SubmitReady
      <3> QED BY <3>1, <3>3 DEF TypeOK, Alive
    <2>2. CASE t \in running
      <3>1. Alive(jobs[Job(t)]) => Alive(jobs'[Job(t)])
        BY <1>3, <2>2 DEF SubmitReady, TypeOK, Alive
      <3> QED BY <1>4, <2>2, <3>1 DEF SubmitReady
    <2> QED BY <2>1, <2>2 DEF SubmitReady
  <1>12. CASE CollectFinished
    <2>1. t \in running /\ t \notin IdsOf(Accepted)
      BY <1>12 DEF CollectFinished
    <2>2. Known(t) /\ tasks[t].gen = generation[t]
      BY <1>1, <2>1 DEF TasksPlacedOnce
    <2>3. ~Reported
      BY <2>1, <2>2 DEF IdsOf, Accepted
    <2> QED BY <1>1, <1>12, <2>1, <2>3 DEF CollectFinished, Job
  <1>13. CASE DrainFailures
    BY <1>4, <1>13 DEF DrainFailures
  <1>14. CASE WorkerStep
    <2> PICK j \in Jobs : Worker(j)
      BY <1>14 DEF WorkerStep
    <2>1. UNCHANGED <<running, generation>> /\ completions \subseteq completions'
      BY DEF Worker, PickUp, StartLogic, SendLocked, SendPut, EndLogic, UnchangedByWorker
    <2>2. CASE PickUp(j) \/ StartLogic(j) \/ SendLocked(j) \/ SendPut(j)
      <3>1. \A k \in Jobs : Alive(jobs[k]) => Alive(jobs'[k])
        BY <2>2 DEF PickUp, StartLogic, SendLocked, SendPut, TypeOK, Alive, Executing
      <3> QED BY <1>3, <1>4, <2>1, <3>1
    <2>3. ASSUME NEW ok \in BOOLEAN, EndLogic(j, ok)
          PROVE  \/ Alive(jobs'[Job(t)'])
                 \/ \E c \in completions' : c.id = t /\ c.gen = generation'[t]
      <3>1. CASE j = Job(t)
        <4> DEFINE c == [id |-> j[1], gen |-> j[2], ok |-> ok]
        <4>1. c \in completions'
          BY <2>3 DEF EndLogic
        <4>2. c.id = t /\ c.gen = generation'[t]
          BY <2>1, <3>1 DEF Job
        <4> QED BY <4>1, <4>2
      <3>2. CASE j # Job(t)
        <4>1. Alive(jobs[Job(t)]) => Alive(jobs'[Job(t)])
          BY <2>3, <3>2 DEF EndLogic, TypeOK
        <4> QED BY <1>4, <2>1, <4>1
      <3> QED BY <3>1, <3>2
    <2> QED BY <2>2, <2>3 DEF Worker
  <1>15. CASE UNCHANGED vars
    BY <1>4, <1>15 DEF vars
  <1>16. CASE Api
    <2>1. RemoveAll \/ Shutdown => \E js : ClearAll(js)
      BY DEF RemoveAll, Shutdown
    <2>2. SuspendAll \/ (\E s \in Tasks : SuspendTask(s)) \/ ResumeAll
            \/ (\E s \in Tasks : ResumeTask(s))
            => \E S \in SUBSET Tasks : Suspend(S) \/ Resume(S)
      BY DEF SuspendAll, SuspendTask, ResumeAll, ResumeTask
    <2> QED BY <1>5, <1>7, <1>8, <1>9, <1>10, <1>16, <2>1, <2>2 DEF Api, SettingOrRead
  <1>17. CASE UpdateStart \/ UpdateStep
    BY <1>5, <1>11, <1>12, <1>13, <1>17 DEF UpdateStep, MessageStep
  <1> QED BY <1>14, <1>15, <1>16, <1>17 DEF Next, WorkerStep

(* No lost wakeup: whoever makes the reason of a wait go away notifies the *)
(* waiters in the same locked region.                                      *)
LEMMA WakeClears ==
  ASSUME NEW js, NEW j \in Jobs
  PROVE  /\ WakeSlotWaiters(js)[j] # "waitSlot"
         /\ WakeSlotWaiters(js)[j] \in {"waitStart", "waitExec"} => WakeSlotWaiters(js)[j] = js[j]
         /\ WakePauseWaiters(js)[j] \notin {"waitStart", "waitExec"}
         /\ WakePauseWaiters(js)[j] = "waitSlot" => js[j] = "waitSlot"
  BY DEF WakeSlotWaiters, WakePauseWaiters

LEMMA CancelWaits ==
  ASSUME NEW C, NEW j \in Jobs, CancelJobs(C)[j] \in {"waitStart", "waitExec", "waitSlot"}
  PROVE  CancelJobs(C)[j] = jobs[j]
  BY DEF CancelJobs

LEMMA WaitsOnlyMove ==
  ASSUME NEW j \in Jobs, QuietMove(jobs[j], jobs'[j]),
         jobs'[j] \in {"waitSlot", "waitStart", "waitExec"}
  PROVE  jobs'[j] = jobs[j]
  BY DEF QuietMove

LEMMA WakeupNext == TypeOK /\ NoLostWakeup /\ [Next]_vars => NoLostWakeup'
  <1> SUFFICES ASSUME TypeOK, NoLostWakeup, [Next]_vars, NEW j \in Jobs
               PROVE  /\ jobs'[j] = "waitSlot" => maxQueued' # 0 /\ counts'[j[1]] >= maxQueued'
                      /\ jobs'[j] \in {"waitStart", "waitExec"} => paused'
    BY DEF NoLostWakeup
  <1> DEFINE Goal == /\ jobs'[j] = "waitSlot" => maxQueued' # 0 /\ counts'[j[1]] >= maxQueued'
                     /\ jobs'[j] \in {"waitStart", "waitExec"} => paused'
  <1>1. /\ jobs[j] = "waitSlot" => maxQueued # 0 /\ counts[j[1]] >= maxQueued
        /\ jobs[j] \in {"waitStart", "waitExec"} => paused
    BY DEF NoLostWakeup
  <1>2. JobsQuiet /\ UNCHANGED <<counts, maxQueued, paused>> => Goal
    BY <1>1, WaitsOnlyMove DEF JobsQuiet
  <1>3. ASSUME JobsQuiet, jobs'[j] # "waitSlot", UNCHANGED paused PROVE Goal
    BY <1>1, <1>3, WaitsOnlyMove DEF JobsQuiet
  <1>4. ASSUME NEW S, NEW g, RemoveInternal(S, g), UNCHANGED paused PROVE Goal
    <2>1. jobs'[j] # "waitSlot"
      BY <1>4, WakeClears DEF RemoveInternal
    <2> QED BY <1>3, <1>4, <2>1, RemoveQuiet
  <1>5. ASSUME NEW d, DecrementCounts(d), d \in [Tasks -> Nat], UNCHANGED <<maxQueued, paused>>
        PROVE  Goal
    <2>1. CASE jobs' = WakeSlotWaiters(jobs)
      BY <1>3, <1>5, <2>1, WakeClears, DecrementQuiet
    <2>2. CASE \A t \in Tasks : ~(d[t] > 0 /\ counts[t] > 0)
      <3>1. counts' = counts
        <4>1. \A t \in Tasks : Monus(counts[t], d[t]) = counts[t]
          <5>1. \A t \in Tasks : counts[t] \in Nat /\ d[t] \in Nat
            BY <1>5 DEF TypeOK
          <5> QED BY <2>2, <5>1 DEF Monus
        <4> QED BY <1>5, <4>1 DEF DecrementCounts, TypeOK
      <3> QED BY <1>2, <1>5, <3>1, DecrementQuiet
    <2> QED BY <1>5, <2>1, <2>2 DEF DecrementCounts
  <1>6. CASE \E t \in Tasks, h \in Handlers : AddTask(t, h)
    <2> PICK t \in Tasks, h \in Handlers : AddTask(t, h)
      BY <1>6
    <2>1. CASE Placed(t)
      BY <1>4, <2>1 DEF AddTask, settingVars
    <2>2. CASE ~Placed(t)
      BY <1>2, <2>2, SameQuiet DEF AddTask, settingVars
    <2> QED BY <2>1, <2>2
  <1>7. CASE \E t \in Tasks : RemoveTask(t)
    BY <1>4, <1>7 DEF RemoveTask, settingVars
  <1>8. CASE RemoveAll
    <2>1. JobsQuiet
      <3> DEFINE js == CancelJobs(Cancelled(Tasks))
      <3>1. \A k \in Jobs : QuietMove(jobs[k], js[k])
        BY CancelQuiet
      <3>2. jobs' = WakeSlotWaiters(js)
        BY <1>8 DEF RemoveAll, ClearAll
      <3> QED BY ONLY <3>1, <3>2, WakeQuiet DEF JobsQuiet
    <2>2. jobs'[j] # "waitSlot" /\ UNCHANGED paused
      BY <1>8, WakeClears DEF RemoveAll, ClearAll
    <2> QED BY <1>3, <2>1, <2>2
  <1>9. CASE Shutdown
    <2> DEFINE ks == CancelJobs(QueuedJobs)
               js == WakePauseWaiters(ks)
    <2>1. jobs' = WakeSlotWaiters(js)
      BY <1>9 DEF Shutdown, ClearAll
    <2>2. jobs'[j] \notin {"waitSlot", "waitStart", "waitExec"}
      BY ONLY <2>1, WakeClears, j \in Jobs
    <2> QED BY <2>2
  <1>10. CASE \E S \in SUBSET Tasks : Suspend(S) \/ Resume(S)
    BY <1>2, <1>10, SameQuiet DEF Suspend, Resume, UnchangedByMoves, settingVars
  <1>11. CASE \E p \in BOOLEAN : SetExecutionPaused(p)
    BY <1>1, <1>11, WakeClears DEF SetExecutionPaused, UnchangedBySettings
  <1>12. CASE \E q \in QueueLimits : SetMaxQueued(q)
    BY <1>1, <1>12, WakeClears DEF SetMaxQueued, UnchangedBySettings
  <1>13. CASE \E l \in UpdateLimits : SetUpdateLimits(l)
    BY <1>2, <1>13, SameQuiet DEF SetUpdateLimits, UnchangedBySettings
  <1>14. CASE (\E t \in Tasks : PopResult(t) \/ PopFailedEvent(t)) \/ ClearFinished \/ ClearFailed
    BY <1>2, <1>14, SameQuiet
    DEF PopResult, PopFailedEvent, ClearFinished, ClearFailed, UnchangedByReads, settingVars
  <1>15. CASE Api
    BY <1>6, <1>7, <1>8, <1>9, <1>10, <1>11, <1>12, <1>13, <1>14, <1>15
    DEF Api, SuspendAll, SuspendTask, ResumeAll, ResumeTask
  <1>16. CASE \E t \in Tasks : SubmitReady(t)
    <2>1. jobs'[j] = jobs[j] \/ jobs'[j] = "queued"
      BY <1>16 DEF SubmitReady, TypeOK
    <2> QED BY <1>1, <1>16, <2>1 DEF SubmitReady, settingVars
  <1>17. CASE IngestMessage
    <2>1. CASE jobs' = jobs /\ counts' = counts
      BY <1>2, <1>17, <2>1, SameQuiet DEF IngestMessage, settingVars
    <2>2. CASE DecrementCounts(One(Head(incoming).id))
      BY <1>5, <1>17, <2>2, OneType DEF IngestMessage, settingVars
    <2> QED BY <1>17, <2>1, <2>2 DEF IngestMessage
  <1>18. CASE FillBatch
    <2>1. CASE jobs' = jobs /\ counts' = counts
      BY <1>2, <1>18, <2>1, SameQuiet DEF FillBatch, settingVars
    <2>2. CASE DecrementCounts(One(Head(messages).id))
      BY <1>5, <1>18, <2>2, OneType DEF FillBatch, settingVars
    <2> QED BY <1>18, <2>1, <2>2 DEF FillBatch
  <1>19. CASE Flush
    BY <1>5, <1>19 DEF Flush, TypeOK, settingVars
  <1>20. CASE UpdateStart \/ CollectFinished \/ IngestEnd \/ DrainFailures \/ DispatchStart
              \/ DispatchEnd \/ FillEnd \/ (\E ok \in BOOLEAN : CallbackReturn(ok))
    BY <1>2, <1>20, SameQuiet
    DEF UpdateStart, CollectFinished, IngestEnd, DrainFailures, DispatchStart, DispatchEnd,
        FillEnd, CallbackReturn, settingVars
  <1>21. ASSUME NEW k \in Jobs, Worker(k) PROVE Goal
    <2>1. UNCHANGED <<paused, maxQueued>>
      BY <1>21 DEF Worker, PickUp, StartLogic, SendLocked, SendPut, EndLogic,
                   UnchangedByWorker, settingVars
    <2>2. CASE PickUp(k) \/ SendPut(k) \/ (\E ok \in BOOLEAN : EndLogic(k, ok))
      BY <1>1, <2>1, <2>2 DEF PickUp, SendPut, EndLogic, TypeOK
    <2>3. CASE StartLogic(k)
      BY <1>1, <2>1, <2>3 DEF StartLogic, TypeOK
    <2>4. CASE SendLocked(k)
      <3>1. k[1] \in Tasks /\ j[1] \in Tasks
        BY JobParts
      <3>2. counts'[j[1]] >= counts[j[1]] /\ counts[j[1]] \in Nat /\ counts'[j[1]] \in Nat
        <4>1. counts \in [Tasks -> Nat]
          BY DEF TypeOK
        <4>2. counts' = counts \/ counts' = [counts EXCEPT ![k[1]] = @ + 1]
          BY <2>4 DEF SendLocked
        <4> QED BY <3>1, <4>1, <4>2
      <3>3. maxQueued \in Nat
        BY TaskSchedulerAssumption DEF TypeOK, TaskSchedulerAssumption
      <3>4. CASE j # k
        <4>1. jobs'[j] = jobs[j]
          BY <2>4, <3>4 DEF SendLocked, TypeOK
        <4> QED BY <1>1, <2>1, <3>2, <3>3, <4>1
      <3>5. CASE j = k
        <4>1. jobs'[j] = "waitSlot" => maxQueued # 0 /\ counts[j[1]] >= maxQueued
          BY <2>4, <3>5 DEF SendLocked, TypeOK
        <4>2. jobs'[j] \in {"waitStart", "waitExec"} => paused
          BY <2>4, <3>5 DEF SendLocked, TypeOK
        <4> QED BY <2>1, <3>2, <3>3, <4>1, <4>2
      <3> QED BY <3>4, <3>5
    <2> QED BY <1>21, <2>2, <2>3, <2>4 DEF Worker
  <1>22. CASE UNCHANGED vars
    BY <1>2, <1>22, SameQuiet DEF vars, settingVars
  <1> QED BY <1>15, <1>16, <1>17, <1>18, <1>19, <1>20, <1>21, <1>22 DEF Next, UpdateStep

-----------------------------------------------------------------------------
(* One message per batch, the case of every scheduler that has a dispatch  *)
(* time budget: what is delivered was current when it was taken from the   *)
(* queue, and nothing runs between the two.                                *)
OneMessageBatches == \A l \in UpdateLimits : l.size = 1

BatchFresh ==
  /\ ui = "fill" => /\ Len(batch) + room <= 1
                    /\ \A i \in DOMAIN batch : ~Stale(batch[i])
  /\ ui = "callback" => Len(batch) = 1
  /\ ui \notin {"fill", "callback"} => batch = << >>

LEMMA OneMessageTail ==
  ASSUME NEW q \in Seq(Message), Len(q) = 1
  PROVE  Tail(q) = << >>
  <1>1. q # << >>
    BY EmptySeq
  <1>2. Tail(q) \in Seq(Message) /\ Len(Tail(q)) = 0
    BY <1>1, HeadTailProperties
  <1> QED BY <1>2, EmptySeq

LEMMA FreshUnchanged ==
  ASSUME BatchFresh, UNCHANGED <<ui, batch, room>>, ui # "fill" \/ UNCHANGED generation
  PROVE  BatchFresh'
  BY DEF BatchFresh, Stale

LEMMA FreshApi == InApp /\ BatchFresh /\ UNCHANGED uiVars => BatchFresh'
  BY FreshUnchanged DEF InApp, uiVars

LEMMA FreshNext ==
  ASSUME OneMessageBatches, TypeOK, BatchFresh, [Next]_vars
  PROVE  BatchFresh'
  <1>1. CASE Api
    <2>1. Api => (InApp /\ UNCHANGED uiVars) \/ (ui = "idle" /\ ui' \in {"idle", "down"} /\ UNCHANGED batch)
               \/ (InApp /\ UNCHANGED <<ui, batch, room>>)
      BY DEF Api, AddTask, RemoveTask, RemoveAll, ClearAll, Shutdown, SuspendAll,
             SuspendTask, Suspend, ResumeAll, ResumeTask, Resume, SetExecutionPaused,
             SetMaxQueued, SetUpdateLimits, PopResult, PopFailedEvent, ClearFinished,
             ClearFailed, UnchangedByMoves, UnchangedBySettings, UnchangedByReads
    <2>2. ui = "idle" /\ ui' \in {"idle", "down"} /\ UNCHANGED batch => BatchFresh'
      BY DEF BatchFresh
    <2>3. InApp /\ UNCHANGED <<ui, batch, room>> => BatchFresh'
      BY FreshUnchanged DEF InApp
    <2> QED BY <1>1, <2>1, <2>2, <2>3, FreshApi
  <1>2. CASE UpdateStart \/ CollectFinished \/ IngestEnd \/ DrainFailures \/ DispatchEnd \/ Flush
    <2>1. ui \notin {"fill", "callback"} /\ ui' \notin {"fill", "callback"} /\ UNCHANGED batch
      BY <1>2 DEF UpdateStart, CollectFinished, IngestEnd, DrainFailures, DispatchEnd, Flush
    <2> QED BY <2>1 DEF BatchFresh
  <1>3. CASE IngestMessage \/ (\E t \in Tasks : SubmitReady(t)) \/ WorkerStep \/ UNCHANGED vars
    <2>1. UNCHANGED <<ui, batch, room, generation>>
      BY <1>3 DEF IngestMessage, SubmitReady, WorkerStep, Worker, PickUp, StartLogic,
                  SendLocked, SendPut, EndLogic, UnchangedByWorker, uiVars, vars
    <2> QED BY <2>1, FreshUnchanged
  <1>4. CASE DispatchStart
    <2>1. limits.size = 1 /\ limits.dispatch \in Nat /\ quota \in Nat
      BY TaskSchedulerAssumption DEF OneMessageBatches, TypeOK, TaskSchedulerAssumption, UpdateLimit
    <2>2. room' <= 1 /\ room' \in Nat
      BY <1>4, <2>1 DEF DispatchStart, CanDispatch, LimitReached
    <2>3. batch' = << >> /\ ui' = "fill"
      BY <1>4 DEF DispatchStart, BatchFresh
    <2>4. \A n \in Nat : 0 + n = n
      OBVIOUS
    <2>5. Len(batch') + room' <= 1
      <3>1. Len(batch') = 0
        BY <2>3, EmptySeq
      <3>2. Len(batch') + room' = room'
        BY <2>2, <2>4, <3>1, Zenon
      <3> QED BY <2>2, <3>2
    <2>6. \A i \in DOMAIN batch' : FALSE
      BY <2>3
    <2> QED BY <2>3, <2>5, <2>6 DEF BatchFresh
  <1>5. CASE FillBatch
    <2> DEFINE m == Head(messages)
    <2>1. batch = << >> /\ room = 1
      BY <1>5 DEF FillBatch, BatchFresh, TypeOK
    <2>2. room' = 0 /\ ui' = "fill" /\ UNCHANGED generation
      BY <1>5, <2>1 DEF FillBatch, TypeOK
    <2>3. CASE Stale(m)
      BY <1>5, <2>1, <2>2, <2>3 DEF FillBatch, BatchFresh
    <2>4. CASE ~Stale(m)
      <3>1. batch' = <<m>>
        BY <1>5, <2>1, <2>4 DEF FillBatch, Enqueue
      <3>3. \A i \in DOMAIN batch' : generation'[batch'[i].id] = batch'[i].gen
        <4>1. DOMAIN batch' = {1} /\ batch'[1] = m
          BY <3>1
        <4> QED BY <2>2, <2>4, <4>1 DEF Stale
      <3>4. Len(batch') = 1
        BY <3>1
      <3> QED BY <2>2, <3>3, <3>4 DEF BatchFresh, Stale
    <2> QED BY <2>3, <2>4
  <1>6. CASE FillEnd
    <2>1. Len(batch) <= 1 /\ batch \in Seq(Message)
      BY <1>6 DEF FillEnd, BatchFresh, TypeOK
    <2>2. batch # << >> => Len(batch) = 1
      BY <2>1, EmptySeq
    <2> QED BY <1>6, <2>2 DEF FillEnd, BatchFresh
  <1>7. CASE \E ok \in BOOLEAN : CallbackReturn(ok)
    <2>1. Tail(batch) = << >>
      BY <1>7, OneMessageTail DEF CallbackReturn, BatchFresh, TypeOK
    <2> QED BY <1>7, <2>1 DEF CallbackReturn, BatchFresh
  <1> QED BY <1>1, <1>2, <1>3, <1>4, <1>5, <1>6, <1>7 DEF Next, UpdateStep, WorkerStep

StartsStep ==
  (ui' = "callback" /\ (ui # "callback" \/ batch' # batch))
    => generation'[Head(batch').id] = Head(batch').gen

LEMMA StartsNext ==
  ASSUME OneMessageBatches, TypeOK, BatchFresh, [Next]_vars
  PROVE  StartsStep
  <1> SUFFICES ASSUME ui' = "callback", ui # "callback" \/ batch' # batch
               PROVE  generation'[Head(batch').id] = Head(batch').gen
    BY DEF StartsStep
  <1>1. CASE FillEnd
    <2>1. batch # << >> /\ UNCHANGED <<batch, generation>> /\ ui = "fill"
      BY <1>1 DEF FillEnd
    <2>2. 1 \in DOMAIN batch /\ Head(batch) = batch[1]
      BY <2>1 DEF TypeOK
    <2>3. ~Stale(batch[1])
      BY <2>1, <2>2 DEF BatchFresh
    <2> QED BY <2>1, <2>2, <2>3 DEF Stale
  <1>2. CASE \E ok \in BOOLEAN : CallbackReturn(ok)
    BY <1>2, OneMessageTail DEF CallbackReturn, BatchFresh, TypeOK
  <1>3. CASE UpdateStart \/ CollectFinished \/ IngestMessage \/ IngestEnd \/ DrainFailures
             \/ DispatchStart \/ DispatchEnd \/ FillBatch \/ Flush
    BY <1>3 DEF UpdateStart, CollectFinished, IngestMessage, IngestEnd, DrainFailures,
                DispatchStart, DispatchEnd, FillBatch, Flush
  <1>4. CASE (\E t \in Tasks : SubmitReady(t)) \/ WorkerStep \/ UNCHANGED vars
    BY <1>4 DEF SubmitReady, WorkerStep, Worker, PickUp, StartLogic, SendLocked, SendPut,
                EndLogic, UnchangedByWorker, uiVars, vars
  <1>5. CASE Api
    BY <1>5 DEF Api, AddTask, RemoveTask, RemoveAll, ClearAll, Shutdown, SuspendAll,
             SuspendTask, Suspend, ResumeAll, ResumeTask, Resume, SetExecutionPaused,
             SetMaxQueued, SetUpdateLimits, PopResult, PopFailedEvent, ClearFinished,
             ClearFailed, UnchangedByMoves, UnchangedBySettings, UnchangedByReads, uiVars
  <1> QED BY <1>1, <1>2, <1>3, <1>4, <1>5 DEF Next, UpdateStep, WorkerStep

-----------------------------------------------------------------------------
(* The inductive invariant: the types and phases, and the four invariants, *)
(* of which NoSlotLeak needs TasksPlacedOnce.                              *)
IInv ==
  /\ TypeOK
  /\ PhasesOK
  /\ TasksPlacedOnce
  /\ RunningBounded
  /\ NoSlotLeak
  /\ NoLostWakeup

LEMMA InitIInv == Init => IInv
  <1> SUFFICES ASSUME Init PROVE IInv OBVIOUS
  <1>1. TypeOK
    BY TypeInit
  <1>2. PhasesOK /\ TasksPlacedOnce /\ NoSlotLeak /\ NoLostWakeup
    BY DEF Init, PhasesOK, TasksPlacedOnce, NoSlotLeak, NoLostWakeup, Known, Jobs
  <1>3. RunningBounded
    BY FS_EmptySet, TaskSchedulerAssumption DEF Init, RunningBounded, TaskSchedulerAssumption
  <1> QED BY <1>1, <1>2, <1>3 DEF IInv

LEMMA NextIInv == IInv /\ [Next]_vars => IInv'
  BY TypeNext, PhasesNext, PlacedNext, BoundedNext, SlotNext, WakeupNext DEF IInv

LEMMA SpecIInv == Spec => []IInv
  BY InitIInv, NextIInv, PTL DEF Spec

(* Every variable keeps its type, whatever the interleaving of the UI      *)
(* thread, the callbacks and the workers.                                  *)
THEOREM TypeCorrect == Spec => []TypeOK
  <1>1. IInv => TypeOK
    BY DEF IInv
  <1> QED BY SpecIInv, <1>1, PTL

(* Every known task is in exactly one of _pending, _suspended and _running.*)
THEOREM PlacedOnce == Spec => []TasksPlacedOnce
  <1>1. IInv => TasksPlacedOnce
    BY DEF IInv
  <1> QED BY SpecIInv, <1>1, PTL

(* Never more running tasks than workers.                                  *)
THEOREM Bounded == Spec => []RunningBounded
  <1>1. IInv => RunningBounded
    BY DEF IInv
  <1> QED BY SpecIInv, <1>1, PTL

(* A running task always has a completion to come: no worker slot is lost. *)
THEOREM SlotsReturn == Spec => []NoSlotLeak
  <1>1. IInv => NoSlotLeak
    BY DEF IInv
  <1> QED BY SpecIInv, <1>1, PTL

(* Neither condition variable ever loses a wakeup.                         *)
THEOREM WakeupsKept == Spec => []NoLostWakeup
  <1>1. IInv => NoLostWakeup
    BY DEF IInv
  <1> QED BY SpecIInv, <1>1, PTL

(* With one message per batch a callback is only ever started for the      *)
(* present generation of its task, whatever callbacks do.                  *)
THEOREM StartsOnlyCurrent ==
  ASSUME OneMessageBatches
  PROVE  Spec => StartsCurrent
  <1>1. Init => BatchFresh
    BY DEF Init, BatchFresh
  <1>2. IInv /\ BatchFresh /\ [Next]_vars => BatchFresh'
    BY FreshNext DEF IInv
  <1>3. IInv /\ BatchFresh /\ [Next]_vars => [StartsStep]_vars
    BY StartsNext DEF IInv
  <1> QED BY SpecIInv, <1>1, <1>2, <1>3, PTL DEF Spec, StartsCurrent, StartsStep

(* What a step of an update may record.                                    *)
ReportsStep ==
  \A t \in Tasks :
    /\ results'[t] \notin {0, results[t]} => results'[t] = generation'[t]
    /\ finished'[t] \notin {0, finished[t]} => finished'[t] = generation'[t]
    /\ failed'[t] \notin {0, failed[t]} => failed'[t] = generation'[t]

LEMMA ReportsNext == TypeOK /\ [Next]_vars => ReportsStep
  <1> SUFFICES ASSUME TypeOK, [Next]_vars, NEW t \in Tasks
               PROVE  /\ results'[t] \notin {0, results[t]} => results'[t] = generation'[t]
                      /\ finished'[t] \notin {0, finished[t]} => finished'[t] = generation'[t]
                      /\ failed'[t] \notin {0, failed[t]} => failed'[t] = generation'[t]
    BY DEF ReportsStep
  <1> DEFINE Quiet == /\ results'[t] \in {0, results[t]}
                      /\ finished'[t] \in {0, finished[t]}
                      /\ failed'[t] \in {0, failed[t]}
  <1>1. CASE Api
    <2>1. ASSUME NEW S, NEW g, RemoveInternal(S, g) PROVE results'[t] \in {0, results[t]}
      BY <2>1 DEF RemoveInternal
    <2>2. ASSUME NEW s \in Tasks, NEW h \in Handlers, AddTask(s, h) PROVE Quiet
      <3>1. results'[t] \in {0, results[t]}
        BY <2>1, <2>2 DEF AddTask
      <3> QED BY <2>2, <3>1 DEF AddTask, TypeOK
    <2>3. ASSUME NEW s \in Tasks, RemoveTask(s) PROVE Quiet
      <3>1. results'[t] \in {0, results[t]}
        BY <2>1, <2>3 DEF RemoveTask
      <3> QED BY <2>3, <3>1 DEF RemoveTask, TypeOK
    <2>4. RemoveAll \/ Shutdown => Quiet
      BY DEF RemoveAll, Shutdown, ClearAll
    <2>5. ASSUME NEW S, Suspend(S) \/ Resume(S) PROVE Quiet
      BY <2>5 DEF Suspend, Resume, UnchangedByMoves, eventVars
    <2>6. SettingOrRead => Quiet
      BY DEF SettingOrRead, SetExecutionPaused, SetMaxQueued, SetUpdateLimits, PopResult,
             PopFailedEvent, ClearFinished, ClearFailed, UnchangedBySettings, eventVars, TypeOK
    <2> QED BY <1>1, <2>2, <2>3, <2>4, <2>5, <2>6
      DEF Api, SettingOrRead, SuspendAll, SuspendTask, ResumeAll, ResumeTask
  <1>2. CASE CollectFinished
    <2> DEFINE done == {c \in Accepted : c.ok}
    <2>1. \A S \in SUBSET Accepted : t \in IdsOf(S) => GenIn(S, t) = generation[t]
      BY DEF IdsOf, GenIn, Accepted
    <2>2. t \in IdsOf(done) => GenIn(done, t) = generation[t]
      BY <2>1
    <2> QED BY <1>2, <2>2 DEF CollectFinished
  <1>3. CASE DrainFailures
    <2> DEFINE hit == {f \in failures : generation[f.id] = f.gen}
    <2>1. t \in IdsOf(hit) => GenIn(hit, t) = generation[t]
      BY DEF IdsOf, GenIn
    <2> QED BY <1>3, <2>1 DEF DrainFailures
  <1>4. CASE MessageStep \/ (\E s \in Tasks : SubmitReady(s)) \/ WorkerStep \/ UNCHANGED vars
    <2>1. UNCHANGED eventVars
      BY <1>4 DEF MessageStep, UpdateStart, IngestMessage, IngestEnd, DispatchStart,
                  DispatchEnd, FillBatch, FillEnd, CallbackReturn, Flush, SubmitReady,
                  WorkerStep, Worker, PickUp, StartLogic, SendLocked, SendPut, EndLogic,
                  UnchangedByWorker, vars
    <2> QED BY <2>1 DEF eventVars
  <1> QED BY <1>1, <1>2, <1>3, <1>4 DEF Next, UpdateStep, MessageStep, WorkerStep

(* A removed or replaced task leaves no result and no event behind: what   *)
(* is recorded is recorded for the generation the id has at that moment.   *)
THEOREM ReportsCurrent == Spec => OnlyCurrentReports
  <1>1. IInv /\ [Next]_vars => [ReportsStep]_vars
    BY ReportsNext DEF IInv
  <1> QED BY SpecIInv, <1>1, PTL DEF Spec, OnlyCurrentReports, ReportsStep

-----------------------------------------------------------------------------
(* The order of messages.  A job's messages are numbered as it sends them; *)
(* what is in front, in a queue or in the queue before it, has a smaller   *)
(* number, and a number that is about to be put is larger than all.        *)

SameJob(m, l) == m.id = l.id /\ m.from = l.from
Ordered(s) == \A i, k \in DOMAIN s : i < k /\ SameJob(s[i], s[k]) => s[i].n < s[k].n
Precedes(s, u) ==
  \A i \in DOMAIN s, k \in DOMAIN u : SameJob(s[i], u[k]) => s[i].n < u[k].n
WasSent(s, num, js) ==
  \A i \in DOMAIN s : LET j == <<s[i].id, s[i].from>> IN
    s[i].n <= num[j] /\ (js[j] = "put" => s[i].n < num[j])

InOrder(s, u, v) ==
  /\ Ordered(s) /\ Ordered(u) /\ Ordered(v)
  /\ Precedes(s, u) /\ Precedes(s, v) /\ Precedes(u, v)
AllSent(s, u, v, num, js) ==
  WasSent(s, num, js) /\ WasSent(u, num, js) /\ WasSent(v, num, js)

OrderInv ==
  InOrder(batch, messages, incoming) /\ AllSent(batch, messages, incoming, sent, jobs)

LEMMA TailParts ==
  ASSUME NEW X, NEW s \in Seq(X), s # << >>
  PROVE  /\ Tail(s) \in Seq(X) /\ Head(s) = s[1] /\ Head(s) \in X /\ 1 \in DOMAIN s
         /\ \A i \in DOMAIN Tail(s) : i + 1 \in DOMAIN s /\ Tail(s)[i] = s[i + 1] /\ i \in Nat
  OBVIOUS

LEMMA AppendParts ==
  ASSUME NEW X, NEW s \in Seq(X), NEW m \in X
  PROVE  /\ Append(s, m) \in Seq(X) /\ Len(s) + 1 \in DOMAIN Append(s, m)
         /\ Append(s, m)[Len(s) + 1] = m
         /\ \A i \in DOMAIN Append(s, m) : IF i \in DOMAIN s THEN Append(s, m)[i] = s[i]
                                           ELSE Append(s, m)[i] = m /\ i = Len(s) + 1
         /\ \A i \in DOMAIN s : i < Len(s) + 1
  OBVIOUS

(* The head of s goes away, or to the end of the queue before it.          *)
LEMMA HeadMoves ==
  ASSUME NEW s \in Seq(Message), s # << >>, Ordered(s)
  PROVE  /\ Ordered(Tail(s)) /\ Precedes(<<Head(s)>>, Tail(s))
         /\ \A u : Precedes(u, s) => Precedes(u, Tail(s)) /\ Precedes(u, <<Head(s)>>)
         /\ \A u : Precedes(s, u) => Precedes(Tail(s), u) /\ Precedes(<<Head(s)>>, u)
         /\ \A num, js : WasSent(s, num, js)
                 => WasSent(Tail(s), num, js) /\ WasSent(<<Head(s)>>, num, js)
<1> DEFINE w == Tail(s)
           m == Head(s)
<1>1. /\ m = s[1] /\ 1 \in DOMAIN s
      /\ \A i \in DOMAIN w : i + 1 \in DOMAIN s /\ w[i] = s[i + 1] /\ i \in Nat /\ 1 < i + 1
  BY TailParts
<1>2. DOMAIN <<m>> = {1} /\ <<m>>[1] = m
  OBVIOUS
<1> HIDE DEF w, m
<1>3. \A i, k \in DOMAIN w : i < k => i + 1 < k + 1
  BY <1>1
<1>4. Ordered(w)
  BY <1>1, <1>3 DEF Ordered
<1>5. Precedes(<<m>>, w)
  BY <1>1, <1>2 DEF Ordered, Precedes
<1>6. ASSUME NEW u, Precedes(u, s) PROVE Precedes(u, w) /\ Precedes(u, <<m>>)
  BY <1>1, <1>2, <1>6 DEF Precedes
<1>7. ASSUME NEW u, Precedes(s, u) PROVE Precedes(w, u) /\ Precedes(<<m>>, u)
  BY <1>1, <1>2, <1>7 DEF Precedes
<1>8. ASSUME NEW num, NEW js, WasSent(s, num, js)
      PROVE  WasSent(w, num, js) /\ WasSent(<<m>>, num, js)
  BY <1>1, <1>2, <1>8 DEF WasSent
<1> QED BY <1>4, <1>5, <1>6, <1>7, <1>8 DEF w, m

LEMMA Joined ==
  ASSUME NEW s \in Seq(Message), NEW m \in Message
  PROVE  /\ Ordered(s) /\ Precedes(s, <<m>>) => Ordered(Append(s, m))
         /\ \A u : Precedes(u, s) /\ Precedes(u, <<m>>) => Precedes(u, Append(s, m))
         /\ \A u : Precedes(s, u) /\ Precedes(<<m>>, u) => Precedes(Append(s, m), u)
         /\ \A num, js : WasSent(s, num, js) /\ WasSent(<<m>>, num, js)
                 => WasSent(Append(s, m), num, js)
<1> DEFINE w == Append(s, m)
           n == Len(s) + 1
<1>1. /\ \A i \in DOMAIN w : IF i \in DOMAIN s THEN w[i] = s[i] ELSE w[i] = m /\ i = n
      /\ \A i \in DOMAIN s : i < n /\ i \in Nat
      /\ n \in Nat
  BY AppendParts
<1>2. DOMAIN <<m>> = {1} /\ <<m>>[1] = m
  OBVIOUS
<1> HIDE DEF w, n
<1>3. ASSUME Ordered(s), Precedes(s, <<m>>) PROVE Ordered(w)
  <2> SUFFICES ASSUME NEW i \in DOMAIN w, NEW k \in DOMAIN w, i < k, SameJob(w[i], w[k])
               PROVE  w[i].n < w[k].n
    BY DEF Ordered
  <2>1. i \in DOMAIN s
    BY <1>1
  <2> QED BY <1>1, <1>2, <1>3, <2>1 DEF Ordered, Precedes
<1>4. ASSUME NEW u, Precedes(u, s), Precedes(u, <<m>>) PROVE Precedes(u, w)
  BY <1>1, <1>2, <1>4 DEF Precedes
<1>5. ASSUME NEW u, Precedes(s, u), Precedes(<<m>>, u) PROVE Precedes(w, u)
  BY <1>1, <1>2, <1>5 DEF Precedes
<1>6. ASSUME NEW num, NEW js, WasSent(s, num, js), WasSent(<<m>>, num, js)
      PROVE  WasSent(w, num, js)
  BY <1>1, <1>2, <1>6 DEF WasSent
<1> QED BY <1>3, <1>4, <1>5, <1>6 DEF w

LEMMA EmptyOrder ==
  /\ Ordered(<< >>)
  /\ \A u : Precedes(<< >>, u) /\ Precedes(u, << >>)
  /\ \A num, js : WasSent(<< >>, num, js)
  BY DEF Ordered, WasSent, Precedes

(* Nobody sends in this step.                                              *)
PutStays == sent' = sent /\ \A j \in Jobs : jobs'[j] = "put" => jobs[j] = "put"

LEMMA SentStays ==
  ASSUME NEW s \in Seq(Message), PutStays, WasSent(s, sent, jobs)
  PROVE  WasSent(s, sent', jobs')
<1> SUFFICES ASSUME NEW i \in DOMAIN s
             PROVE  LET j == <<s[i].id, s[i].from>> IN
                    s[i].n <= sent'[j] /\ (jobs'[j] = "put" => s[i].n < sent'[j])
  BY DEF WasSent
<1>1. s[i] \in Message
  OBVIOUS
<1>2. <<s[i].id, s[i].from>> \in Jobs
  BY <1>1 DEF Message, Jobs
<1> QED BY <1>2 DEF PutStays, WasSent

LEMMA PutSteps ==
  ASSUME TypeOK, [Next]_vars, \A j \in Jobs : ~SendLocked(j)
  PROVE  PutStays
<1>1. CASE (\A t \in Tasks : ~SubmitReady(t)) /\ ~WorkerStep
  BY <1>1, QuietSteps DEF JobsQuiet, QuietMove, PutStays
<1>2. ASSUME NEW t \in Tasks, SubmitReady(t) PROVE PutStays
  <2>1. \A j \in Jobs : jobs'[j] = jobs[j] \/ jobs'[j] = "queued"
    BY <1>2 DEF SubmitReady, TypeOK
  <2> QED BY <1>2, <2>1 DEF SubmitReady, sendVars, PutStays
<1>3. ASSUME NEW k \in Jobs, Worker(k) PROVE PutStays
  <2>1. CASE PickUp(k) \/ StartLogic(k) \/ SendPut(k) \/ (\E ok \in BOOLEAN : EndLogic(k, ok))
    BY <2>1 DEF PickUp, StartLogic, EndLogic, SendPut, sendVars, PutStays, TypeOK
  <2> QED BY <1>3, <2>1 DEF Worker
<1> QED BY <1>1, <1>2, <1>3 DEF WorkerStep

QueuesSame == UNCHANGED <<batch, messages, incoming>>

LEMMA QueueSteps ==
  ASSUME [Next]_vars, ~IngestMessage, ~FillBatch, \A ok \in BOOLEAN : ~CallbackReturn(ok),
         \A j \in Jobs : ~SendPut(j)
  PROVE  QueuesSame \/ (messages' = << >> /\ UNCHANGED <<batch, incoming>>)
<1>1. ASSUME NEW js, ClearAll(js) PROVE messages' = << >> /\ UNCHANGED <<batch, incoming>>
  BY <1>1 DEF ClearAll
<1>2. ASSUME NEW S, Suspend(S) \/ Resume(S) PROVE QueuesSame
  BY <1>2 DEF Suspend, Resume, UnchangedByMoves, uiVars, QueuesSame
<1>3. (\E t \in Tasks, h \in Handlers : AddTask(t, h)) \/ (\E t \in Tasks : RemoveTask(t)) => QueuesSame
  BY DEF AddTask, RemoveTask, uiVars, QueuesSame
<1>4. SettingOrRead => QueuesSame
  BY DEF SettingOrRead, SetExecutionPaused, SetMaxQueued, SetUpdateLimits, PopResult,
         PopFailedEvent, ClearFinished, ClearFailed, UnchangedByReads, UnchangedBySettings,
         uiVars, QueuesSame
<1>5. UpdateStart \/ CollectFinished \/ IngestEnd \/ DrainFailures \/ DispatchStart \/ DispatchEnd
        \/ FillEnd \/ Flush \/ (\E t \in Tasks : SubmitReady(t)) => QueuesSame
  BY DEF UpdateStart, CollectFinished, IngestEnd, DrainFailures, DispatchStart, DispatchEnd,
         FillEnd, Flush, SubmitReady, uiVars, QueuesSame
<1>6. ASSUME NEW j \in Jobs, Worker(j) PROVE QueuesSame
  BY <1>6 DEF Worker, PickUp, StartLogic, SendLocked, EndLogic, UnchangedByWorker, uiVars, QueuesSame
<1>7. UNCHANGED vars => QueuesSame
  BY DEF vars, uiVars, QueuesSame
<1>8. CASE Api
  <2>1. RemoveAll \/ Shutdown => \E js : ClearAll(js)
    BY DEF RemoveAll, Shutdown
  <2> QED BY <1>1, <1>2, <1>3, <1>4, <1>8, <2>1
    DEF Api, SettingOrRead, SuspendAll, SuspendTask, ResumeAll, ResumeTask
<1> QED BY <1>5, <1>6, <1>7, <1>8 DEF Next, UpdateStep

LEMMA OrderNext == TypeOK /\ PhasesOK /\ OrderInv /\ [Next]_vars => OrderInv'
<1> SUFFICES ASSUME TypeOK, PhasesOK, OrderInv, [Next]_vars PROVE OrderInv'
  OBVIOUS
<1>0. /\ batch \in Seq(Message) /\ messages \in Seq(Message) /\ incoming \in Seq(Message)
      /\ InOrder(batch, messages, incoming)
      /\ WasSent(batch, sent, jobs) /\ WasSent(messages, sent, jobs) /\ WasSent(incoming, sent, jobs)
  BY DEF TypeOK, OrderInv, AllSent
<1>1. ASSUME PutStays
      PROVE  /\ WasSent(batch, sent', jobs') /\ WasSent(messages, sent', jobs')
             /\ WasSent(incoming, sent', jobs')
  BY <1>0, <1>1, SentStays
<1>2. CASE IngestMessage
  <2> DEFINE m == Head(incoming)
             w == Tail(incoming)
  <2>1. incoming # << >> /\ m \in Message /\ w \in Seq(Message)
    BY <1>0, <1>2, TailParts DEF IngestMessage, CanIngest
  <2>2. /\ incoming' = w /\ batch' = batch
        /\ messages' = messages \/ messages' = Append(messages, m)
    BY <1>2 DEF IngestMessage, Enqueue
  <2>3. /\ InOrder(batch, messages, w) /\ Precedes(batch, <<m>>) /\ Precedes(messages, <<m>>)
        /\ Precedes(<<m>>, w)
        /\ \A num, js : WasSent(incoming, num, js) => WasSent(w, num, js) /\ WasSent(<<m>>, num, js)
    BY <1>0, <2>1, HeadMoves DEF InOrder
  <2>4. PutStays
    <3>1. \A j \in Jobs : ~SendLocked(j)
      BY <1>2, <2>1, <2>2 DEF SendLocked, UnchangedByWorker, IngestMessage, UiHoldsLock
    <3> QED BY <3>1, PutSteps
  <2> HIDE DEF m, w
  <2>5. CASE messages' = messages
    BY <1>1, <2>2, <2>3, <2>4, <2>5 DEF OrderInv, AllSent
  <2>6. CASE messages' = Append(messages, m)
    <3>1. InOrder(batch, Append(messages, m), w)
      BY <1>0, <2>1, <2>3, Joined DEF InOrder
    <3>2. WasSent(Append(messages, m), sent', jobs')
      BY <1>0, <1>1, <2>1, <2>3, <2>4, Joined
    <3> QED BY <1>1, <2>2, <2>3, <2>4, <2>6, <3>1, <3>2 DEF OrderInv, AllSent
  <2> QED BY <2>2, <2>5, <2>6
<1>3. CASE FillBatch
  <2> DEFINE m == Head(messages)
             w == Tail(messages)
  <2>1. messages # << >> /\ m \in Message /\ w \in Seq(Message)
    BY <1>0, <1>3, TailParts DEF FillBatch
  <2>2. /\ messages' = w /\ incoming' = incoming
        /\ batch' = batch \/ batch' = Append(batch, m)
    BY <1>3 DEF FillBatch, Enqueue
  <2>3. /\ InOrder(batch, w, incoming) /\ Precedes(batch, <<m>>) /\ Precedes(<<m>>, incoming)
        /\ Precedes(<<m>>, w)
        /\ \A num, js : WasSent(messages, num, js) => WasSent(w, num, js) /\ WasSent(<<m>>, num, js)
    BY <1>0, <2>1, HeadMoves DEF InOrder
  <2>4. PutStays
    <3>1. \A j \in Jobs : ~SendLocked(j)
      BY <1>3 DEF SendLocked, FillBatch, UiHoldsLock
    <3> QED BY <3>1, PutSteps
  <2> HIDE DEF m, w
  <2>5. CASE batch' = batch
    BY <1>1, <2>2, <2>3, <2>4, <2>5 DEF OrderInv, AllSent
  <2>6. CASE batch' = Append(batch, m)
    <3>1. InOrder(Append(batch, m), w, incoming)
      BY <1>0, <2>1, <2>3, Joined DEF InOrder
    <3>2. WasSent(Append(batch, m), sent', jobs')
      BY <1>0, <1>1, <2>1, <2>3, <2>4, Joined
    <3> QED BY <1>1, <2>2, <2>3, <2>4, <2>6, <3>1, <3>2 DEF OrderInv, AllSent
  <2> QED BY <2>2, <2>5, <2>6
<1>4. ASSUME NEW ok \in BOOLEAN, CallbackReturn(ok), batch # << >> PROVE OrderInv'
  <2> DEFINE w == Tail(batch)
  <2>1. batch' = w /\ UNCHANGED <<messages, incoming>>
    BY <1>4 DEF CallbackReturn
  <2>2. /\ InOrder(w, messages, incoming)
        /\ \A num, js : WasSent(batch, num, js) => WasSent(w, num, js)
    BY <1>0, <1>4, HeadMoves DEF InOrder
  <2>3. PutStays
    BY <1>4 DEF CallbackReturn, sendVars, PutStays
  <2> HIDE DEF w
  <2> QED BY <1>1, <2>1, <2>2, <2>3 DEF OrderInv, AllSent
<1>5. ASSUME NEW j \in Jobs, SendPut(j) PROVE OrderInv'
  <2> DEFINE m == [id |-> j[1], gen |-> stamp[j], from |-> j[2], n |-> sent[j]]
  <2>1. /\ incoming' = Append(incoming, m) /\ UNCHANGED <<messages, batch, sent>>
        /\ jobs[j] = "put" /\ jobs' = [jobs EXCEPT ![j] = "logic"]
    BY <1>5 DEF SendPut, Enqueue, UnchangedByWorker, uiVars
  <2>2. m \in Message /\ j = <<m.id, m.from>> /\ sent[j] \in Nat /\ m.n = sent[j]
    BY <2>1, JobParts DEF PhasesOK, Message, TypeOK, Jobs
  <2>3. ASSUME NEW s, WasSent(s, sent, jobs) PROVE Precedes(s, <<m>>)
    <3> SUFFICES ASSUME NEW i \in DOMAIN s, SameJob(s[i], m) PROVE s[i].n < m.n
      BY DEF Precedes
    <3>1. <<s[i].id, s[i].from>> = j
      BY <2>2 DEF SameJob
    <3> QED BY <2>1, <2>2, <2>3, <3>1 DEF WasSent
  <2>4. PutStays
    BY <2>1 DEF PutStays, TypeOK
  <2>5. WasSent(<<m>>, sent', jobs')
    <3>1. DOMAIN <<m>> = {1} /\ <<m>>[1] = m
      OBVIOUS
    <3>2. jobs'[j] = "logic" /\ sent'[j] = sent[j]
      BY <2>1 DEF TypeOK
    <3> HIDE DEF m
    <3> QED BY <2>2, <3>1, <3>2 DEF WasSent
  <2> HIDE DEF m
  <2>6. InOrder(batch, messages, Append(incoming, m))
    BY <1>0, <2>2, <2>3, Joined DEF InOrder
  <2>7. WasSent(Append(incoming, m), sent', jobs')
    BY <1>0, <1>1, <2>2, <2>4, <2>5, Joined
  <2> QED BY <1>1, <2>1, <2>4, <2>6, <2>7 DEF OrderInv, AllSent
<1>6. ASSUME NEW j \in Jobs, SendLocked(j) PROVE OrderInv'
  <2>1. UNCHANGED <<batch, messages, incoming>>
    BY <1>6 DEF SendLocked, UnchangedByWorker, uiVars
  <2>2. /\ sent[j] \in Nat
        /\ sent'[j] = sent[j] + 1 \/ (sent'[j] = sent[j] /\ jobs'[j] # "put")
        /\ \A k \in Jobs : k # j => sent'[k] = sent[k] /\ jobs'[k] = jobs[k]
    BY <1>6 DEF SendLocked, sendVars, TypeOK
  <2>3. ASSUME NEW s \in Seq(Message), WasSent(s, sent, jobs) PROVE WasSent(s, sent', jobs')
    <3> SUFFICES ASSUME NEW i \in DOMAIN s
                 PROVE  LET k == <<s[i].id, s[i].from>> IN
                        s[i].n <= sent'[k] /\ (jobs'[k] = "put" => s[i].n < sent'[k])
      BY DEF WasSent
    <3> DEFINE k == <<s[i].id, s[i].from>>
               n == s[i].n
    <3>1. k \in Jobs /\ n \in Nat
      <4>1. s[i] \in Message
        OBVIOUS
      <4> QED BY <4>1 DEF Message, Jobs
    <3>2. n <= sent[k] /\ (jobs[k] = "put" => n < sent[k])
      BY <2>3 DEF WasSent
    <3> HIDE DEF k, n
    <3>3. n <= sent'[k] /\ (jobs'[k] = "put" => n < sent'[k])
      BY <2>2, <3>1, <3>2
    <3> QED BY <3>3 DEF k, n
  <2> QED BY <1>0, <2>1, <2>3 DEF OrderInv, AllSent
<1>7. ASSUME \A j \in Jobs : ~SendLocked(j), QueuesSame PROVE OrderInv'
  <2>1. PutStays
    BY <1>7, PutSteps
  <2> QED BY <1>0, <1>1, <1>7, <2>1 DEF QueuesSame, OrderInv, AllSent
<1>8. ASSUME \A j \in Jobs : ~SendLocked(j), messages' = << >>, UNCHANGED <<batch, incoming>>
      PROVE  OrderInv'
  <2>1. PutStays
    BY <1>8, PutSteps
  <2>2. WasSent(<< >>, sent', jobs') /\ InOrder(batch, << >>, incoming)
    BY <1>0, EmptyOrder DEF InOrder
  <2> QED BY <1>0, <1>1, <1>8, <2>1, <2>2 DEF OrderInv, AllSent
<1>9. ASSUME NEW ok \in BOOLEAN, CallbackReturn(ok) PROVE batch # << >>
  BY <1>9 DEF CallbackReturn, PhasesOK
<1> QED BY <1>2, <1>3, <1>4, <1>5, <1>6, <1>7, <1>8, <1>9, QueueSteps

LEMMA OrderInit == Init => OrderInv
<1> SUFFICES ASSUME Init PROVE OrderInv
  OBVIOUS
<1>1. batch = << >> /\ messages = << >> /\ incoming = << >>
  BY DEF Init
<1> QED BY <1>1, EmptyOrder DEF OrderInv, InOrder, AllSent

LEMMA OrderMeans == TypeOK /\ OrderInv => SendOrderKept
<1> SUFFICES ASSUME TypeOK, OrderInv PROVE SendOrderKept
  OBVIOUS
<1> DEFINE q == (batch \o messages) \o incoming
           x == Len(batch)
           y == Len(messages)
           z == Len(incoming)
<1>1. /\ batch \in Seq(Message) /\ messages \in Seq(Message) /\ incoming \in Seq(Message)
      /\ InOrder(batch, messages, incoming)
  BY DEF TypeOK, OrderInv
<1>2. /\ x \in Nat /\ y \in Nat /\ z \in Nat
      /\ DOMAIN batch = 1 .. x /\ DOMAIN messages = 1 .. y /\ DOMAIN incoming = 1 .. z
  BY <1>1
<1>3. /\ batch \o messages \in Seq(Message) /\ Len(batch \o messages) = x + y
      /\ \A i \in 1 .. x + y : (batch \o messages)[i] = IF i <= x THEN batch[i] ELSE messages[i - x]
  BY <1>1, ConcatProperties
<1>4. /\ DOMAIN q = 1 .. (x + y) + z
      /\ \A i \in 1 .. (x + y) + z : q[i] = IF i <= x + y THEN (batch \o messages)[i] ELSE incoming[i - (x + y)]
  <2> DEFINE w == batch \o messages
  <2>1. w \in Seq(Message) /\ Len(w) = x + y
    BY <1>3
  <2> HIDE DEF w
  <2>2. /\ w \o incoming \in Seq(Message) /\ Len(w \o incoming) = (x + y) + z
        /\ \A i \in 1 .. (x + y) + z : (w \o incoming)[i] = IF i <= x + y THEN w[i] ELSE incoming[i - (x + y)]
    <3> DEFINE v == incoming
               l == Len(w)
               c == w \o v
    <3>0. w \in Seq(Message) /\ v \in Seq(Message)
      BY <1>1, <2>1
    <3> HIDE DEF v
    <3>1. /\ c \in Seq(Message) /\ Len(c) = l + Len(v)
          /\ \A i \in 1 .. l + Len(v) : c[i] = IF i <= l THEN w[i] ELSE v[i - l]
      BY <3>0, ConcatProperties
    <3> HIDE DEF c, l
    <3>2. l = x + y
      BY <2>1 DEF l
    <3> QED BY <3>1, <3>2 DEF c, v
  <2>3. DOMAIN (w \o incoming) = 1 .. (x + y) + z
    BY <2>2
  <2> QED BY <2>2, <2>3 DEF w
<1> DEFINE InFirst(i)  == i \in 1 .. x /\ q[i] = batch[i]
           InSecond(i) == i > x /\ i - x \in 1 .. y /\ q[i] = messages[i - x]
           InThird(i)  == i > x + y /\ i - (x + y) \in 1 .. z /\ q[i] = incoming[i - (x + y)]
<1>5. \A i \in DOMAIN q : i \in Nat /\ (InFirst(i) \/ InSecond(i) \/ InThird(i))
  <2> HIDE DEF q, x, y, z
  <2>1. ASSUME NEW i \in 1 .. (x + y) + z PROVE InFirst(i) \/ InSecond(i) \/ InThird(i)
    <3>1. CASE i <= x
      <4>1. i <= x + y /\ i \in 1 .. x + y /\ i \in 1 .. x
        BY <1>2, <3>1
      <4> QED BY <1>3, <1>4, <3>1, <4>1
    <3>2. CASE i > x /\ i <= x + y
      <4>1. i \in 1 .. x + y /\ ~(i <= x) /\ i - x \in 1 .. y
        BY <1>2, <3>2
      <4> QED BY <1>3, <1>4, <3>2, <4>1
    <3>3. CASE i > x + y
      <4>1. ~(i <= x + y) /\ i - (x + y) \in 1 .. z
        BY <1>2, <3>3
      <4> QED BY <1>4, <3>3, <4>1
    <3> QED BY <1>2, <3>1, <3>2, <3>3
  <2> QED BY <1>4, <2>1
<1>6. ASSUME NEW i \in DOMAIN q, NEW k \in DOMAIN q, i < k, SameJob(q[i], q[k])
      PROVE  q[i].n < q[k].n
  <2>1. /\ i \in Nat /\ (InFirst(i) \/ InSecond(i) \/ InThird(i))
        /\ k \in Nat /\ (InFirst(k) \/ InSecond(k) \/ InThird(k))
    BY <1>5
  <2> HIDE DEF q, x, y, z
  <2>2. InFirst(i) /\ InFirst(k) => q[i].n < q[k].n
    BY <1>1, <1>2, <1>6 DEF InOrder, Ordered
  <2>3. InSecond(i) /\ InSecond(k) => q[i].n < q[k].n
    <3>1. i - x < k - x
      BY <1>2, <1>6, <2>1
    <3> QED BY <1>1, <1>2, <1>6, <3>1 DEF InOrder, Ordered
  <2>4. InThird(i) /\ InThird(k) => q[i].n < q[k].n
    <3>1. i - (x + y) < k - (x + y)
      BY <1>2, <1>6, <2>1
    <3> QED BY <1>1, <1>2, <1>6, <3>1 DEF InOrder, Ordered
  <2>5. /\ InFirst(i) /\ InSecond(k) => q[i].n < q[k].n
        /\ InFirst(i) /\ InThird(k) => q[i].n < q[k].n
        /\ InSecond(i) /\ InThird(k) => q[i].n < q[k].n
    BY <1>1, <1>2, <1>6 DEF InOrder, Precedes
  <2>6. /\ ~(InSecond(i) /\ InFirst(k)) /\ ~(InThird(i) /\ InFirst(k))
        /\ ~(InThird(i) /\ InSecond(k))
    BY <1>2, <1>6, <2>1
  <2> QED BY <2>1, <2>2, <2>3, <2>4, <2>5, <2>6
<1> QED BY <1>6 DEF SendOrderKept, SameJob

(* The messages of a job are delivered in the order it sent them.          *)
THEOREM OrderKept == Spec => []SendOrderKept
<1>1. IInv => TypeOK /\ PhasesOK
  BY DEF IInv
<1> QED BY SpecIInv, <1>1, OrderInit, OrderNext, OrderMeans, PTL DEF Spec

-----------------------------------------------------------------------------
(* TaskScheduler implements TaskLifecycle; and its slots are released.     *)

(* Nothing carries a generation its id has not reached yet: what an        *)
(* add_task begins is new.                                                 *)
Past(m) == m.gen <= generation[m.id]
QueuePast(q) == \A i \in 1 .. Len(q) : Past(q[i])
JobsPast == \A j \in Jobs : /\ jobs[j] # "none" => j[2] <= generation[j[1]]
                            /\ stamp[j] <= generation[j[1]]
QueuesPast == QueuePast(incoming) /\ QueuePast(messages) /\ QueuePast(batch)
FailuresPast == \A f \in failures : Past(f)

(* A completion is that of a job that has come to its end, and the only    *)
(* one of it; a task that waits has no job.                                *)
OneEnd ==
  /\ \A c \in completions : jobs[<<c.id, c.gen>>] \in {"done", "cancelled"}
  /\ \A c, d \in completions : c.id = d.id /\ c.gen = d.gen => c = d
Unsubmitted ==
  \A t \in pending \cup suspended : Known(t) => jobs[Job(t)] = "none"

LEMMA GenerationGrows ==
  ASSUME TypeOK, [Next]_vars, NEW t \in Tasks
  PROVE  generation[t] <= generation'[t] /\ generation[t] \in Nat /\ generation'[t] \in Nat
  <1>1. generation[t] \in Nat
    BY DEF TypeOK
  <1>2. ASSUME NEW s \in Tasks, NEW h \in Handlers, AddTask(s, h)
        PROVE  generation'[t] \in {generation[t], generation[t] + 1, generation[t] + 2}
    <2> DEFINE g == generation[s] + (IF Placed(s) THEN 2 ELSE 1)
               newGeneration == [generation EXCEPT ![s] = g]
    <2>1. generation' = newGeneration
      <3>1. CASE Placed(s)
        BY <1>2, <3>1 DEF AddTask, RemoveInternal
      <3>2. CASE ~Placed(s)
        BY <1>2, <3>2 DEF AddTask
      <3> QED BY <3>1, <3>2
    <2> QED BY <2>1 DEF TypeOK
  <1>3. ASSUME NEW s \in Tasks, RemoveTask(s)
        PROVE  generation'[t] \in {generation[t], generation[t] + 1}
    BY <1>3 DEF RemoveTask, RemoveInternal, TypeOK
  <1>4. ASSUME NEW js, ClearAll(js)
        PROVE  generation'[t] \in {generation[t], generation[t] + 1}
    BY <1>4 DEF ClearAll
  <1>5. \/ \E S \in SUBSET Tasks : Suspend(S) \/ Resume(S)
        \/ \E s \in Tasks : SubmitReady(s)
        \/ CollectFinished \/ DrainFailures
        => UNCHANGED generation
    BY DEF Suspend, Resume, UnchangedByMoves, SubmitReady, CollectFinished, DrainFailures
  <1>6. generation'[t] \in {generation[t], generation[t] + 1, generation[t] + 2}
    BY <1>2, <1>3, <1>4, <1>5, StepKinds DEF PlacingStep, Placement
  <1> QED BY <1>1, <1>6

LEMMA PastLater ==
  ASSUME TypeOK, [Next]_vars, NEW m, m.id \in Tasks, m.gen \in Nat, Past(m)
  PROVE  Past(m)'
  BY GenerationGrows DEF Past

LEMMA QueueLater ==
  ASSUME TypeOK, [Next]_vars, NEW q \in Seq(Message), QueuePast(q)
  PROVE  \A i \in 1 .. Len(q) : q[i].gen <= generation'[q[i].id]
  <1> SUFFICES ASSUME NEW i \in 1 .. Len(q) PROVE q[i].gen <= generation'[q[i].id]
    OBVIOUS
  <1>1. q[i] \in Message /\ Past(q[i])
    BY DEF QueuePast
  <1>2. q[i].id \in Tasks /\ q[i].gen \in Nat
    BY <1>1 DEF Message, Gens
  <1> QED BY <1>1, <1>2, GenerationGrows DEF Past

LEMMA QueueTail ==
  ASSUME NEW q \in Seq(Message), q # << >>, QueuePast(q)
  PROVE  QueuePast(Tail(q)) /\ Past(Head(q)) /\ Tail(q) \in Seq(Message) /\ Head(q) \in Message
  <1>1. /\ Len(Tail(q)) = Len(q) - 1 /\ Len(q) \in Nat
        /\ \A i \in 1 .. Len(Tail(q)) : Tail(q)[i] = q[i + 1]
    OBVIOUS
  <1> QED BY <1>1 DEF QueuePast

LEMMA QueueAppend ==
  ASSUME NEW q \in Seq(Message), NEW m \in Message, QueuePast(q), Past(m)
  PROVE  QueuePast(Enqueue(q, m)) /\ Enqueue(q, m) \in Seq(Message)
  <1>1. /\ Len(Enqueue(q, m)) = Len(q) + 1 /\ Len(q) \in Nat
        /\ \A i \in 1 .. Len(q) + 1 : Enqueue(q, m)[i] = IF i = Len(q) + 1 THEN m ELSE q[i]
    BY DEF Enqueue
  <1>2. Enqueue(q, m) \in Seq(Message)
    BY EnqueueType
  <1> QED BY <1>1, <1>2 DEF QueuePast

-----------------------------------------------------------------------------
(* The invariants above are inductive.                                     *)

(* What a worker's step does to the jobs: only the job of the worker moves,*)
(* and never one the pool does not have.                                   *)
LEMMA WorkerMoves ==
  ASSUME TypeOK, NEW j \in Jobs, Worker(j), NEW k \in Jobs
  PROVE  /\ k # j => jobs'[k] = jobs[k] /\ stamp'[k] = stamp[k]
         /\ jobs[j] \notin {"none", "done", "cancelled"} /\ jobs'[j] # "none"
  BY DEF Worker, PickUp, StartLogic, SendLocked, SendPut, EndLogic, sendVars, TypeOK

LEMMA SubmitMoves ==
  ASSUME TypeOK, TasksPlacedOnce, NEW t \in Tasks, SubmitReady(t)
  PROVE  /\ UNCHANGED <<generation, stamp, completions>>
         /\ ~Known(t) => UNCHANGED jobs
         /\ Known(t) => Job(t) \in Jobs /\ jobs' = [jobs EXCEPT ![Job(t)] = "queued"]
  <1>1. Known(t) => tasks[t].gen = generation[t] /\ tasks[t].gen \in Gens
    BY DEF TasksPlacedOnce, Known, TypeOK, TaskRec
  <1> QED BY <1>1 DEF SubmitReady, Job, Jobs, sendVars

LEMMA JobsPastNext ==
  ASSUME TypeOK, TasksPlacedOnce, JobsPast, [Next]_vars
  PROVE  JobsPast'
  <1> SUFFICES ASSUME NEW j \in Jobs
               PROVE  /\ jobs'[j] # "none" => j[2] <= generation'[j[1]]
                      /\ stamp'[j] <= generation'[j[1]]
    BY DEF JobsPast
  <1>1. /\ j[1] \in Tasks /\ j[2] \in Nat /\ stamp[j] \in Nat
        /\ generation[j[1]] <= generation'[j[1]]
        /\ generation[j[1]] \in Nat /\ generation'[j[1]] \in Nat
    <2>1. j[1] \in Tasks /\ j[2] \in Nat
      BY JobParts DEF Gens
    <2>2. stamp[j] \in Nat
      BY BoundTypes DEF TypeOK
    <2> QED BY <2>1, <2>2, GenerationGrows
  <1>2. /\ jobs[j] # "none" => j[2] <= generation[j[1]]
        /\ stamp[j] <= generation[j[1]]
    BY DEF JobsPast
  <1>3. CASE (jobs'[j] # "none" => jobs[j] # "none") /\ stamp'[j] = stamp[j]
    BY <1>1, <1>2, <1>3
  <1>4. CASE \E t \in Tasks : SubmitReady(t)
    <2> PICK t \in Tasks : SubmitReady(t)
      BY <1>4
    <2>1. CASE Known(t) /\ j = Job(t)
      <3>1. j[1] = t /\ j[2] = generation[t]
        BY <2>1 DEF Job
      <3> QED BY <1>1, <1>2, <3>1, SubmitMoves
    <2>2. CASE ~(Known(t) /\ j = Job(t))
      <3>1. jobs'[j] = jobs[j] /\ stamp'[j] = stamp[j]
        BY <2>2, SubmitMoves DEF TypeOK
      <3> QED BY <1>3, <3>1
    <2> QED BY <2>1, <2>2
  <1>5. CASE WorkerStep
    <2> PICK k \in Jobs : Worker(k)
      BY <1>5 DEF WorkerStep
    <2>1. CASE j # k
      BY <1>3, <2>1, WorkerMoves
    <2>2. CASE j = k /\ stamp'[j] = stamp[j]
      BY <1>3, <2>2, WorkerMoves
    <2>3. CASE SendPut(k) /\ j = k
      <3>1. stamp'[j] = 0
        BY <2>3 DEF SendPut, TypeOK
      <3> QED BY <1>1, <1>2, <2>3, <3>1, WorkerMoves
    <2>4. CASE SendLocked(k) /\ j = k
      <3>1. stamp'[j] = stamp[j] \/ (Known(j[1]) /\ stamp'[j] = tasks[j[1]].gen)
        <4>1. \/ stamp' = stamp
              \/ CanSend(j[1]) /\ stamp' = [stamp EXCEPT ![j] = tasks[j[1]].gen]
          BY <2>4 DEF SendLocked, sendVars
        <4> QED BY <4>1 DEF CanSend, TypeOK
      <3>2. stamp'[j] <= generation[j[1]]
        BY <1>1, <1>2, <3>1 DEF TasksPlacedOnce
      <3>3. UNCHANGED generation
        BY <1>5, PlacementUnchanged DEF Placement
      <3> QED BY <1>1, <1>2, <2>4, <3>2, <3>3, WorkerMoves
    <2> QED BY <2>1, <2>2, <2>3, <2>4
      DEF Worker, PickUp, StartLogic, EndLogic, sendVars
  <1>6. CASE (\A t \in Tasks : ~SubmitReady(t)) /\ ~WorkerStep
    <2>1. QuietMove(jobs[j], jobs'[j]) /\ stamp' = stamp
      BY <1>6, QuietSteps DEF JobsQuiet
    <2> QED BY <1>3, <2>1 DEF QuietMove
  <1> QED BY <1>4, <1>5, <1>6

LEMMA QueuesPastNext ==
  ASSUME TypeOK, PhasesOK, JobsPast, QueuesPast, [Next]_vars
  PROVE  QueuesPast'
  <1>1. CASE UNCHANGED <<incoming, batch>> /\ messages' \in {messages, << >>}
    <2>1. /\ QueuePast(incoming)' /\ QueuePast(batch)'
          /\ messages' = messages => QueuePast(messages)'
      BY <1>1, QueueLater DEF QueuesPast, QueuePast, Past, TypeOK
    <2>2. messages' = << >> => QueuePast(messages)'
      BY DEF QueuePast
    <2> QED BY <1>1, <2>1, <2>2 DEF QueuesPast
  <1>2. CASE IngestMessage
    <2>1. /\ QueuePast(Tail(incoming)) /\ Past(Head(incoming)) /\ Head(incoming) \in Message
          /\ QueuePast(messages) /\ QueuePast(batch)
      BY <1>2, QueueTail DEF IngestMessage, CanIngest, QueuesPast, TypeOK
    <2>2. QueuePast(Enqueue(messages, Head(incoming)))
      BY <2>1, QueueAppend DEF TypeOK
    <2>3. /\ messages' \in {messages, Enqueue(messages, Head(incoming))}
          /\ incoming' = Tail(incoming) /\ UNCHANGED <<batch, generation>>
      BY <1>2 DEF IngestMessage, uiVars
    <2> QED BY <2>1, <2>2, <2>3 DEF QueuesPast, QueuePast, Past
  <1>3. CASE FillBatch
    <2>1. /\ QueuePast(Tail(messages)) /\ Past(Head(messages)) /\ Head(messages) \in Message
          /\ QueuePast(incoming) /\ QueuePast(batch)
      BY <1>3, QueueTail DEF FillBatch, QueuesPast, TypeOK
    <2>2. QueuePast(Enqueue(batch, Head(messages)))
      BY <2>1, QueueAppend DEF TypeOK
    <2>3. /\ batch' \in {batch, Enqueue(batch, Head(messages))}
          /\ messages' = Tail(messages) /\ UNCHANGED <<incoming, generation>>
      BY <1>3 DEF FillBatch
    <2> QED BY <2>1, <2>2, <2>3 DEF QueuesPast, QueuePast, Past
  <1>4. ASSUME NEW ok \in BOOLEAN, CallbackReturn(ok) PROVE QueuesPast'
    <2>1. QueuePast(Tail(batch)) /\ QueuePast(incoming) /\ QueuePast(messages)
      BY <1>4, QueueTail DEF CallbackReturn, PhasesOK, QueuesPast, TypeOK
    <2>2. batch' = Tail(batch) /\ UNCHANGED <<incoming, messages, generation>>
      BY <1>4 DEF CallbackReturn
    <2> QED BY <2>1, <2>2 DEF QueuesPast, QueuePast, Past
  <1>5. ASSUME NEW j \in Jobs, Worker(j) PROVE QueuesPast'
    <2>1. UNCHANGED <<messages, batch, generation>>
      BY <1>5 DEF Worker, PickUp, StartLogic, SendLocked, SendPut, EndLogic,
                  UnchangedByWorker, uiVars
    <2>2. CASE UNCHANGED incoming
      BY <1>1, <2>1, <2>2
    <2>3. CASE SendPut(j)
      <3> DEFINE m == [id |-> j[1], gen |-> stamp[j], from |-> j[2], n |-> sent[j]]
      <3>1. m \in Message /\ Past(m)
        BY <2>3, JobParts DEF SendPut, PhasesOK, JobsPast, Message, Past, TypeOK
      <3>2. QueuePast(Enqueue(incoming, m))
        BY <3>1, QueueAppend DEF QueuesPast, TypeOK
      <3>3. incoming' = Enqueue(incoming, m)
        BY <2>3 DEF SendPut
      <3> HIDE DEF m
      <3> QED BY <2>1, <3>2, <3>3 DEF QueuesPast, QueuePast, Past
    <2> QED BY <1>5, <2>2, <2>3 DEF Worker, PickUp, StartLogic, SendLocked, EndLogic
  <1>6. Api => UNCHANGED <<incoming, batch>> /\ messages' \in {messages, << >>}
    <2>1. \A S : Suspend(S) \/ Resume(S) => UNCHANGED <<incoming, batch, messages>>
      BY DEF Suspend, Resume, UnchangedByMoves, uiVars
    <2>2. SettingOrRead => UNCHANGED <<incoming, batch, messages>>
      BY DEF SettingOrRead, SetExecutionPaused, SetMaxQueued, SetUpdateLimits, PopResult,
             PopFailedEvent, ClearFinished, ClearFailed, UnchangedBySettings,
             UnchangedByReads, uiVars
    <2>3. \A t, h : AddTask(t, h) \/ RemoveTask(t) => UNCHANGED <<incoming, batch, messages>>
      BY DEF AddTask, RemoveTask, uiVars
    <2>4. RemoveAll \/ Shutdown => UNCHANGED <<incoming, batch>> /\ messages' = << >>
      BY DEF RemoveAll, Shutdown, ClearAll
    <2> QED BY <2>1, <2>2, <2>3, <2>4
      DEF Api, SettingOrRead, SuspendAll, SuspendTask, ResumeAll, ResumeTask
  <1>7. \/ UpdateStart \/ CollectFinished \/ IngestEnd \/ DrainFailures \/ DispatchStart
        \/ DispatchEnd \/ FillEnd \/ Flush \/ (\E t \in Tasks : SubmitReady(t))
        \/ UNCHANGED vars
        => UNCHANGED <<incoming, batch, messages>>
    BY DEF UpdateStart, CollectFinished, IngestEnd, DrainFailures, DispatchStart,
           DispatchEnd, FillEnd, Flush, SubmitReady, uiVars, vars
  <1> QED BY <1>1, <1>2, <1>3, <1>4, <1>5, <1>6, <1>7 DEF Next, UpdateStep

LEMMA FailuresPastNext ==
  ASSUME TypeOK, PhasesOK, QueuesPast, FailuresPast, [Next]_vars
  PROVE  FailuresPast'
  <1> SUFFICES ASSUME NEW f \in failures'
               PROVE  Past(f)'
    BY DEF FailuresPast
  <1>1. f \in failures => Past(f)'
    <2>1. f \in failures => Past(f) /\ f.id \in Tasks /\ f.gen \in Nat
      BY DEF FailuresPast, Failure, Gens, TypeOK
    <2> QED BY <2>1, PastLater
  <1>2. CASE CollectFinished
    <2>1. f \in failures \/ (\E c \in Accepted : f.id = c.id /\ f.gen = c.gen)
      BY <1>2 DEF CollectFinished
    <2>2. \A c \in Accepted : c.id \in Tasks /\ generation'[c.id] = c.gen /\ c.gen \in Nat
      BY <1>2 DEF Accepted, CollectFinished, TypeOK, Completion, Gens
    <2> QED BY <1>1, <2>1, <2>2 DEF Past
  <1>3. ASSUME NEW ok \in BOOLEAN, CallbackReturn(ok) PROVE Past(f)'
    <2>1. Past(Head(batch)) /\ UNCHANGED generation
      BY <1>3, QueueTail DEF CallbackReturn, PhasesOK, QueuesPast, TypeOK
    <2>2. f \in failures \/ (f.id = Head(batch).id /\ f.gen = Head(batch).gen)
      BY <1>3 DEF CallbackReturn
    <2> QED BY <1>1, <2>1, <2>2 DEF Past
  <1>4. CASE failures' \subseteq failures
    BY <1>1, <1>4
  <1>5. Api \/ WorkerStep => UNCHANGED failures
    BY DEF Api, AddTask, RemoveTask, RemoveAll, Shutdown, ClearAll, SuspendAll, SuspendTask,
           ResumeAll, ResumeTask, Suspend, Resume, UnchangedByMoves, SetExecutionPaused,
           SetMaxQueued, SetUpdateLimits, UnchangedBySettings, PopResult, PopFailedEvent,
           ClearFinished, ClearFailed, UnchangedByReads, WorkerStep, Worker, PickUp,
           StartLogic, SendLocked, SendPut, EndLogic, UnchangedByWorker
  <1>6. \/ UpdateStart \/ IngestMessage \/ IngestEnd \/ DrainFailures \/ DispatchStart
        \/ DispatchEnd \/ FillBatch \/ FillEnd \/ Flush \/ (\E t \in Tasks : SubmitReady(t))
        \/ UNCHANGED vars
        => failures' \subseteq failures
    BY DEF UpdateStart, IngestMessage, IngestEnd, DrainFailures, DispatchStart, DispatchEnd,
           FillBatch, FillEnd, Flush, SubmitReady, vars
  <1> QED BY <1>2, <1>3, <1>4, <1>5, <1>6 DEF Next, UpdateStep, WorkerStep

(* The jobs of the pool that a step of the UI thread cancels report their  *)
(* completions in the same step.                                           *)
EndedKept == \A j \in Jobs : jobs[j] \in {"done", "cancelled"} => jobs'[j] = jobs[j]

LEMMA QuietEnded ==
  ASSUME JobsQuiet
  PROVE  EndedKept
  BY DEF JobsQuiet, QuietMove, EndedKept

LEMMA OneEndCancel ==
  ASSUME TypeOK, OneEnd, EndedKept, NEW C \in SUBSET QueuedJobs,
         \A j \in C : jobs'[j] = "cancelled",
         completions' = completions \cup CancelCompletions(C)
  PROVE  OneEnd'
  <1>1. \A c \in completions : <<c.id, c.gen>> \in Jobs
    BY DEF TypeOK, Completion, Jobs
  <1>2. ASSUME NEW c \in CancelCompletions(C)
        PROVE  <<c.id, c.gen>> \in C /\ c.ok = FALSE
               /\ c = [id |-> c.id, gen |-> c.gen, ok |-> FALSE]
    BY <1>2, JobParts DEF CancelCompletions, QueuedJobs, Jobs
  <1>3. \A c \in CancelCompletions(C) : jobs[<<c.id, c.gen>>] = "queued"
    BY <1>2 DEF QueuedJobs
  <1>4. \A c \in completions' : jobs'[<<c.id, c.gen>>] \in {"done", "cancelled"}
    BY <1>1, <1>2 DEF OneEnd, EndedKept
  <1>5. ASSUME NEW c \in completions', NEW d \in completions', c.id = d.id, c.gen = d.gen
        PROVE  c = d
    <2>1. CASE c \in completions /\ d \in completions
      BY <1>5, <2>1 DEF OneEnd
    <2>2. CASE c \in CancelCompletions(C) /\ d \in CancelCompletions(C)
      BY <1>2, <1>5, <2>2
    <2> QED BY <1>3, <1>5, <2>1, <2>2 DEF OneEnd
  <1> QED BY <1>4, <1>5 DEF OneEnd

LEMMA OneEndSame ==
  ASSUME TypeOK, OneEnd, EndedKept, completions' \subseteq completions
  PROVE  OneEnd'
  BY SMTT(30) DEF OneEnd, EndedKept, TypeOK, Completion, Jobs

(* What a removal, a remove_all and a shutdown do to the jobs.             *)
LEMMA CancelSteps ==
  ASSUME TypeOK
  PROVE  /\ \A S, g : RemoveInternal(S, g) =>
              /\ \A j \in Cancelled(S) : jobs'[j] = "cancelled"
              /\ completions' = completions \cup CancelCompletions(Cancelled(S))
         /\ RemoveAll =>
              /\ \A j \in Cancelled(Tasks) : jobs'[j] = "cancelled"
              /\ completions' = completions \cup CancelCompletions(Cancelled(Tasks))
         /\ Shutdown =>
              /\ \A j \in QueuedJobs : jobs'[j] = "cancelled"
              /\ completions' = completions \cup CancelCompletions(QueuedJobs)
         /\ \A S : Cancelled(S) \subseteq QueuedJobs
  <1>1. ASSUME NEW C \in SUBSET Jobs, NEW j \in C
        PROVE  /\ WakeSlotWaiters(CancelJobs(C))[j] = "cancelled"
               /\ WakeSlotWaiters(WakePauseWaiters(CancelJobs(C)))[j] = "cancelled"
    BY <1>1 DEF CancelJobs, WakeSlotWaiters, WakePauseWaiters
  <1>2. \A S, g : RemoveInternal(S, g) =>
          /\ jobs' = WakeSlotWaiters(CancelJobs(Cancelled(S)))
          /\ completions' = completions \cup CancelCompletions(Cancelled(S))
    BY DEF RemoveInternal
  <1>3. RemoveAll =>
          /\ jobs' = WakeSlotWaiters(CancelJobs(Cancelled(Tasks)))
          /\ completions' = completions \cup CancelCompletions(Cancelled(Tasks))
    BY DEF RemoveAll, ClearAll
  <1>4. Shutdown =>
          /\ jobs' = WakeSlotWaiters(WakePauseWaiters(CancelJobs(QueuedJobs)))
          /\ completions' = completions \cup CancelCompletions(QueuedJobs)
    BY DEF Shutdown, ClearAll
  <1>5. \A S : Cancelled(S) \subseteq QueuedJobs
    BY DEF Cancelled, QueuedJobs
  <1> QED BY <1>1, <1>2, <1>3, <1>4, <1>5, CancelledJobs

LEMMA OneEndNext ==
  ASSUME TypeOK, TasksPlacedOnce, OneEnd, Unsubmitted, [Next]_vars
  PROVE  OneEnd'
  <1>1. (\A t \in Tasks : ~SubmitReady(t)) /\ ~WorkerStep => EndedKept
    BY QuietSteps, QuietEnded
  <1>2. ASSUME NEW S, NEW g, RemoveInternal(S, g), EndedKept PROVE OneEnd'
    BY <1>2, CancelSteps, OneEndCancel
  <1>3. CASE \E t \in Tasks : SubmitReady(t)
    <2> PICK t \in Tasks : SubmitReady(t)
      BY <1>3
    <2>1. Known(t) => jobs[Job(t)] = "none"
      BY DEF SubmitReady, Unsubmitted
    <2>2. EndedKept
      BY <2>1, SubmitMoves DEF EndedKept, TypeOK
    <2> QED BY <2>2, OneEndSame, SubmitMoves
  <1>4. CASE WorkerStep
    <2> PICK j \in Jobs : Worker(j)
      BY <1>4 DEF WorkerStep
    <2>1. EndedKept
      BY WorkerMoves DEF EndedKept
    <2>2. ASSUME NEW ok \in BOOLEAN, EndLogic(j, ok) PROVE OneEnd'
      <3> DEFINE e == [id |-> j[1], gen |-> j[2], ok |-> ok]
      <3>1. completions' = completions \cup {e} /\ jobs'[j] = "done" /\ jobs[j] = "logic"
        BY <2>2 DEF EndLogic, TypeOK
      <3>2. j = <<j[1], j[2]>>
        BY DEF Jobs
      <3>3. \A c \in completions :
              /\ jobs[<<c.id, c.gen>>] # "logic"
              /\ jobs'[<<c.id, c.gen>>] \in {"done", "cancelled"}
        <4>1. \A c \in completions : <<c.id, c.gen>> \in Jobs
          BY DEF Jobs, TypeOK, Completion
        <4> QED BY <2>1, <4>1 DEF OneEnd, EndedKept
      <3>4. \A c \in completions' : jobs'[<<c.id, c.gen>>] \in {"done", "cancelled"}
        <4>1. jobs'[<<e.id, e.gen>>] = "done"
          BY <3>1, <3>2
        <4>2. ASSUME NEW c \in completions'
              PROVE  jobs'[<<c.id, c.gen>>] \in {"done", "cancelled"}
          <5> HIDE DEF e
          <5>1. CASE c = e
            BY <4>1, <5>1
          <5>2. CASE c \in completions
            BY <3>3, <5>2
          <5> QED BY <3>1, <5>1, <5>2
        <4> QED BY <4>2
      <3>5. \A c \in completions : ~(c.id = e.id /\ c.gen = e.gen)
        BY <3>1, <3>2, <3>3
      <3> QED BY <3>1, <3>4, <3>5 DEF OneEnd
    <2>3. CASE UNCHANGED completions
      BY <2>1, <2>3, OneEndSame
    <2> QED BY <2>2, <2>3 DEF Worker, PickUp, StartLogic, SendLocked, SendPut
  <1>5. CASE EndedKept /\ completions' \subseteq completions
    BY <1>5, OneEndSame
  <1>6. ASSUME NEW t \in Tasks, NEW h \in Handlers, AddTask(t, h), EndedKept PROVE OneEnd'
    <2>1. CASE Placed(t)
      BY <1>2, <1>6, <2>1 DEF AddTask
    <2>2. CASE ~Placed(t)
      BY <1>5, <1>6, <2>2 DEF AddTask
    <2> QED BY <2>1, <2>2
  <1>7. ASSUME NEW t \in Tasks, RemoveTask(t), EndedKept PROVE OneEnd'
    BY <1>2, <1>7 DEF RemoveTask
  <1>8. CASE RemoveAll /\ EndedKept
    BY <1>8, CancelSteps, OneEndCancel
  <1>9. CASE Shutdown /\ EndedKept
    BY <1>9, CancelSteps, OneEndCancel
  <1>10. SettingOrRead \/ MessageStep => UNCHANGED completions
    BY WakingSteps
  <1>11. \/ \E S \in SUBSET Tasks : Suspend(S) \/ Resume(S)
         \/ CollectFinished \/ DrainFailures \/ UNCHANGED vars
         => completions' \subseteq completions
    BY DEF Suspend, Resume, UnchangedByMoves, CollectFinished, DrainFailures, vars
  <1>12. CASE Api /\ EndedKept
    BY <1>5, <1>6, <1>7, <1>8, <1>9, <1>10, <1>11, <1>12
    DEF Api, SettingOrRead, SuspendAll, SuspendTask, ResumeAll, ResumeTask
  <1> QED BY <1>1, <1>3, <1>4, <1>5, <1>10, <1>11, <1>12
    DEF Next, UpdateStep, MessageStep, WorkerStep

(* A new task has a generation no job has had; the pool takes a task out   *)
(* of _pending as it gets its job.                                         *)
LEMMA UnsubmittedNext ==
  ASSUME TypeOK, TypeOK', TasksPlacedOnce, JobsPast, Unsubmitted, [Next]_vars
  PROVE  Unsubmitted'
  <1> SUFFICES ASSUME NEW t \in (pending \cup suspended)', Known(t)'
               PROVE  jobs'[Job(t)'] = "none"
    BY DEF Unsubmitted
  <1>1. t \in Tasks /\ generation[t] \in Nat
    BY DEF TypeOK
  <1> DEFINE NoneKept(j) == jobs[j] = "none" => jobs'[j] = "none"
             Stays == /\ t \in pending \cup suspended /\ Known(t)
                      /\ generation'[t] = generation[t]
  <1>2. Stays => Job(t)' = Job(t) /\ jobs[Job(t)] = "none" /\ Job(t) \in Jobs
    BY <1>1 DEF Job, Unsubmitted, Known, TasksPlacedOnce, TypeOK, TaskRec, Jobs
  <1>3. (\A s \in Tasks : ~SubmitReady(s)) /\ ~WorkerStep => \A j \in Jobs : NoneKept(j)
    BY QuietSteps DEF JobsQuiet, QuietMove
  <1>4. WorkerStep => \A j \in Jobs : NoneKept(j)
    BY WorkerMoves DEF WorkerStep
  <1>5. CASE \E s \in Tasks : SubmitReady(s)
    <2> PICK s \in Tasks : SubmitReady(s)
      BY <1>5
    <2>1. Stays /\ t # s
      BY <1>1 DEF SubmitReady, TasksPlacedOnce, Known
    <2>2. Job(t) # Job(s)
      BY <2>1 DEF Job
    <2> QED BY <1>2, <2>1, <2>2, SubmitMoves DEF TypeOK
  <1>6. ASSUME NEW s \in Tasks, NEW h \in Handlers, AddTask(s, h), \A j \in Jobs : NoneKept(j)
        PROVE  jobs'[Job(t)'] = "none"
    <2> DEFINE g == generation[s] + (IF Placed(s) THEN 2 ELSE 1)
               newGeneration == [generation EXCEPT ![s] = g]
    <2>1. /\ generation' = newGeneration /\ pending' = pending \cup {s}
          /\ suspended' \subseteq suspended /\ g <= MaxGen
          /\ tasks' = [tasks EXCEPT ![s] = [gen |-> g, handler |-> h]]
      <3>1. CASE Placed(s)
        BY <1>6, <3>1 DEF AddTask, RemoveInternal
      <3>2. CASE ~Placed(s)
        BY <1>6, <3>2 DEF AddTask
      <3> QED BY <3>1, <3>2
    <2>2. CASE t = s
      <3>1. g \in Gens /\ ~(g <= generation[t])
        BY <1>1, <2>1, <2>2, BoundTypes DEF Gens
      <3>2. Job(t)' = <<t, g>>
        BY <1>1, <2>1, <2>2 DEF Job, TypeOK
      <3>3. <<t, g>> \in Jobs
        BY <1>1, <3>1 DEF Jobs
      <3>4. jobs[<<t, g>>] = "none"
        BY <3>1, <3>3 DEF JobsPast
      <3> QED BY <1>6, <3>2, <3>3, <3>4
    <2>3. CASE t # s
      <3>1. Stays
        BY <1>1, <2>1, <2>3 DEF Known, TypeOK
      <3> QED BY <1>2, <1>6, <3>1
    <2> QED BY <2>2, <2>3
  <1>7. ASSUME NEW s \in Tasks, RemoveTask(s) PROVE Stays
    BY <1>1, <1>7 DEF RemoveTask, RemoveInternal, Known, TypeOK
  <1>8. ASSUME NEW js, ClearAll(js) PROVE Stays
    BY <1>8 DEF ClearAll
  <1>9. ASSUME NEW S \in SUBSET Tasks, Suspend(S) \/ Resume(S) PROVE Stays
    BY <1>1, <1>9 DEF Suspend, Suspendable, Resume, UnchangedByMoves, Known
  <1>10. CollectFinished \/ DrainFailures => Stays
    BY <1>1 DEF CollectFinished, DrainFailures, Known
  <1>11. UNCHANGED Placement => Stays
    BY <1>1 DEF Placement, Known
  <1>12. CASE ~(\E s \in Tasks : SubmitReady(s))
    <2>1. \A j \in Jobs : NoneKept(j)
      BY <1>3, <1>4, <1>12
    <2>2. CASE Stays
      BY <1>2, <2>1, <2>2
    <2> QED BY <1>6, <1>7, <1>8, <1>9, <1>10, <1>11, <1>12, <2>1, <2>2, StepKinds
      DEF PlacingStep
  <1> QED BY <1>5, <1>12

-----------------------------------------------------------------------------
LifeInv ==
  /\ IInv
  /\ JobsPast
  /\ QueuesPast
  /\ FailuresPast
  /\ OneEnd
  /\ Unsubmitted

LEMMA LifeInvInit == Init => LifeInv
  <1> SUFFICES ASSUME Init PROVE LifeInv
    OBVIOUS
  <1>1. JobsPast
    <2>1. \A j \in Jobs : generation[j[1]] = 0 /\ stamp[j] = 0 /\ jobs[j] = "none"
      BY JobParts DEF Init
    <2> QED BY <2>1 DEF JobsPast
  <1> QED BY <1>1, InitIInv
    DEF Init, LifeInv, QueuesPast, QueuePast, FailuresPast, OneEnd, Unsubmitted

LEMMA LifeInvNext == LifeInv /\ [Next]_vars => LifeInv'
  <1> SUFFICES ASSUME LifeInv, [Next]_vars PROVE LifeInv'
    OBVIOUS
  <1>1. IInv' /\ TypeOK' /\ TypeOK /\ PhasesOK /\ TasksPlacedOnce
    BY NextIInv DEF LifeInv, IInv
  <1> QED BY <1>1, JobsPastNext, QueuesPastNext, FailuresPastNext, OneEndNext, UnsubmittedNext
    DEF LifeInv

LEMMA SpecLifeInv == Spec => []LifeInv
  BY LifeInvInit, LifeInvNext, PTL DEF Spec

-----------------------------------------------------------------------------
(* The stage of a life, read off the scheduler's state.                    *)

SameClass(a, b) == /\ a = "queued" <=> b = "queued"
                   /\ a \in Executing <=> b \in Executing

LEMMA RunningKnown ==
  ASSUME LifeInv, NEW t \in running
  PROVE  t \in Tasks /\ Known(t) /\ Job(t) \in Jobs /\ Job(t) = <<t, generation[t]>>
  BY DEF LifeInv, IInv, TasksPlacedOnce, TypeOK, TaskRec, Known, Job, Jobs

(* A running task is in the pool, or has exactly one completion.           *)
LEMMA RunningEnd ==
  ASSUME LifeInv, NEW t \in running
  PROVE  /\ jobs[Job(t)] \in Executing \cup {"queued"} =>
              \A c \in completions : ~(c.id = t /\ c.gen = generation[t])
         /\ ~(HasEnded(t, TRUE) /\ HasEnded(t, FALSE))
         /\ jobs[Job(t)] \notin Executing \cup {"queued"} =>
              HasEnded(t, TRUE) \/ HasEnded(t, FALSE)
  <1>1. jobs[Job(t)] \in Executing \cup {"queued"} =>
          \A c \in completions : ~(c.id = t /\ c.gen = generation[t])
    BY RunningKnown DEF LifeInv, OneEnd, Executing
  <1>2. ~(HasEnded(t, TRUE) /\ HasEnded(t, FALSE))
    <2> DEFINE c == [id |-> t, gen |-> generation[t], ok |-> TRUE]
               d == [id |-> t, gen |-> generation[t], ok |-> FALSE]
    <2>1. c.id = d.id /\ c.gen = d.gen /\ c.ok # d.ok
      OBVIOUS
    <2> HIDE DEF c, d
    <2>2. ~(c \in completions /\ d \in completions)
      BY <2>1 DEF LifeInv, OneEnd
    <2> QED BY <2>2 DEF HasEnded, c, d
  <1>3. ASSUME jobs[Job(t)] \notin Executing \cup {"queued"}
        PROVE  HasEnded(t, TRUE) \/ HasEnded(t, FALSE)
    <2>1. PICK c \in completions : c.id = t /\ c.gen = generation[t]
      BY <1>3 DEF LifeInv, IInv, NoSlotLeak
    <2>2. c = [id |-> t, gen |-> generation[t], ok |-> c.ok] /\ c.ok \in BOOLEAN
      BY <2>1 DEF LifeInv, IInv, TypeOK, Completion
    <2> QED BY <2>1, <2>2 DEF HasEnded
  <1> QED BY <1>1, <1>2, <1>3

LEMMA StageKept ==
  ASSUME NEW t \in Tasks, Known(t)' <=> Known(t), t \in running' <=> t \in running,
         t \in suspended' <=> t \in suspended,
         t \in running => PoolStage(t)' = PoolStage(t)
  PROVE  LifeStage'[t] = LifeStage[t]
  BY DEF LifeStage

LEMMA PoolKept ==
  ASSUME NEW t, generation'[t] = generation[t], SameClass(jobs[Job(t)], jobs'[Job(t)]),
         HasEnded(t, TRUE)' <=> HasEnded(t, TRUE)
  PROVE  PoolStage(t)' = PoolStage(t)
  BY DEF PoolStage, SameClass, Job

LEMMA StageAbsent ==
  \A t \in Tasks : LifeStage[t] = "absent" <=> ~Known(t)
  BY DEF LifeStage, PoolStage

LEMMA StageOccupied ==
  ASSUME LifeInv
  PROVE  Life!At(Life!Occupied) = running
  BY RunningKnown DEF LifeInv, IInv, TypeOK, Life!At, Life!Occupied, LifeStage, PoolStage

LEMMA LifeInit == Init => Life!Init
  BY DEF Init, Life!Init, LifeStage, Known, OwedFailures, IdsIn

LEMMA WakeClass ==
  ASSUME NEW js, NEW j \in Jobs
  PROVE  /\ SameClass(js[j], WakeSlotWaiters(js)[j])
         /\ SameClass(js[j], WakePauseWaiters(js)[j])
  BY DEF SameClass, WakeSlotWaiters, WakePauseWaiters, Executing

(* Settings, reads and messages leave every stage as it is.                *)
LEMMA WakingKeepsStages ==
  ASSUME LifeInv, SettingOrRead \/ MessageStep
  PROVE  LifeStage' = LifeStage
  <1>1. UNCHANGED <<Placement, completions>>
    BY WakingSteps, PlacementUnchanged
  <1>2. \A j \in Jobs : SameClass(jobs[j], jobs'[j])
    BY WakingSteps, WakeClass DEF SameClass
  <1>3. ASSUME NEW t \in Tasks PROVE LifeStage'[t] = LifeStage[t]
    <2>1. t \in running => PoolStage(t)' = PoolStage(t)
      BY <1>1, <1>2, RunningKnown, PoolKept DEF Placement, HasEnded
    <2> QED BY <1>1, <2>1, StageKept DEF Placement, Known
  <1> QED BY <1>3 DEF LifeStage

-----------------------------------------------------------------------------
(* Every step of the scheduler is a step of the life of a task, or none.   *)

LifeState == <<LifeStage, OwedFailures, IdsIn(results), IdsIn(finished), IdsIn(failed)>>

LEMMA Stutter == UNCHANGED LifeState => UNCHANGED Life!vars
  BY DEF LifeState, Life!vars, Life!told

LEMMA EventsKept == UNCHANGED eventVars
                    => UNCHANGED <<IdsIn(results), IdsIn(finished), IdsIn(failed)>>
  BY DEF eventVars, IdsIn

LEMMA OwedKept == UNCHANGED <<failures, generation>> => UNCHANGED OwedFailures
  BY DEF OwedFailures

LEMMA LifeReads ==
  ASSUME LifeInv, SettingOrRead
  PROVE  Life!Read
  <1>1. UNCHANGED <<failures, generation>>
    BY PlacementUnchanged DEF SettingOrRead, SetExecutionPaused, SetMaxQueued,
       SetUpdateLimits, PopResult, PopFailedEvent, ClearFinished, ClearFailed,
       UnchangedBySettings, UnchangedByReads, Placement
  <1>2. \A t \in Tasks : /\ results'[t] \in {0, results[t]}
                         /\ finished'[t] \in {0, finished[t]}
                         /\ failed'[t] \in {0, failed[t]}
    BY DEF SettingOrRead, SetExecutionPaused, SetMaxQueued, SetUpdateLimits, PopResult,
           PopFailedEvent, ClearFinished, ClearFailed, UnchangedBySettings, eventVars,
           LifeInv, IInv, TypeOK
  <1>3. /\ IdsIn(results)' \subseteq IdsIn(results)
        /\ IdsIn(finished)' \subseteq IdsIn(finished)
        /\ IdsIn(failed)' \subseteq IdsIn(failed)
    BY <1>2 DEF IdsIn
  <1> QED BY <1>1, <1>3, WakingKeepsStages, OwedKept DEF Life!Read

LEMMA LifeMessages ==
  ASSUME LifeInv, MessageStep
  PROVE  (\E t \in Tasks : Life!CallbackRaises(t)) \/ UNCHANGED LifeState
  <1>1. UNCHANGED <<generation, LifeStage>> /\ UNCHANGED eventVars
    BY PlacementUnchanged, WakingKeepsStages
    DEF MessageStep, UpdateStart, IngestMessage, IngestEnd, DispatchStart, DispatchEnd,
        FillBatch, FillEnd, CallbackReturn, Flush, Placement
  <1>2. CASE UNCHANGED failures
    BY <1>1, <1>2, EventsKept, OwedKept DEF LifeState
  <1>3. ASSUME CallbackReturn(FALSE)
        PROVE  (\E t \in Tasks : Life!CallbackRaises(t)) \/ UNCHANGED LifeState
    <2> DEFINE m == Head(batch)
    <2>1. /\ failures' = failures \cup {[id |-> m.id, gen |-> m.gen]}
          /\ m \in Message
      BY <1>3, QueueTail DEF CallbackReturn, LifeInv, IInv, PhasesOK, QueuesPast, TypeOK
    <2> HIDE DEF m
    <2>2. CASE m.gen = generation[m.id]
      <3>1. OwedFailures' = OwedFailures \cup {m.id} /\ m.id \in Tasks
        BY <1>1, <2>1, <2>2 DEF OwedFailures, Message
      <3> QED BY <1>1, <3>1, EventsKept DEF Life!CallbackRaises, Life!told
    <2>3. CASE m.gen # generation[m.id]
      <3>1. OwedFailures' = OwedFailures
        BY <1>1, <2>1, <2>3 DEF OwedFailures
      <3> QED BY <1>1, <3>1, EventsKept DEF LifeState
    <2> QED BY <2>2, <2>3
  <1>4. MessageStep => CallbackReturn(FALSE) \/ UNCHANGED failures
    BY DEF MessageStep, UpdateStart, IngestMessage, IngestEnd, DispatchStart, DispatchEnd,
           FillBatch, FillEnd, CallbackReturn, Flush
  <1> QED BY <1>2, <1>3, <1>4

(* A suspension moves exactly the tasks that are pending.                  *)
LEMMA LifeMoves ==
  ASSUME LifeInv, NEW S \in SUBSET Tasks
  PROVE  /\ Suspend(S) => Life!Suspend(S)
         /\ Resume(S) => Life!Resume(S)
  <1>1. \A t \in Tasks :
          /\ LifeStage[t] = "pending" <=> Known(t) /\ t \in pending
          /\ LifeStage[t] = "suspended" <=> Known(t) /\ t \in suspended
    BY DEF LifeInv, IInv, TasksPlacedOnce, LifeStage, PoolStage
  <1>2. Suspend(S) \/ Resume(S)
          => /\ UNCHANGED <<OwedFailures, IdsIn(results), IdsIn(finished), IdsIn(failed)>>
             /\ UNCHANGED <<tasks, running, jobs, generation, completions>>
    BY EventsKept, OwedKept DEF Suspend, Resume, UnchangedByMoves
  <1>3. Suspend(S) \/ Resume(S) => \A t \in running : PoolStage(t)' = PoolStage(t)
    BY <1>2 DEF PoolStage, Job, HasEnded
  <1>4. ASSUME Suspend(S), NEW t \in Tasks
        PROVE  LifeStage'[t] = IF t \in S \cap Life!At({"pending"}) THEN "suspended"
                               ELSE LifeStage[t]
    BY <1>1, <1>2, <1>3, <1>4
    DEF LifeInv, IInv, TasksPlacedOnce, Suspend, Suspendable, LifeStage, Known, Life!At
  <1>5. ASSUME Resume(S), NEW t \in Tasks
        PROVE  LifeStage'[t] = IF t \in S \cap Life!At({"suspended"}) THEN "pending"
                               ELSE LifeStage[t]
    BY <1>1, <1>2, <1>3, <1>5
    DEF LifeInv, IInv, TasksPlacedOnce, Resume, LifeStage, Known, Life!At
  <1> QED BY <1>2, <1>4, <1>5 DEF LifeStage, Life!Suspend, Life!Resume, Life!Move, Life!told

(* The removal of an id leaves the lives of the others as they are.        *)
LEMMA RemoveOthers ==
  ASSUME LifeInv, NEW s \in Tasks, NEW g, RemoveInternal({s}, g), NEW t \in Tasks, t # s,
         g[t] = generation[t], Known(t)' <=> Known(t)
  PROVE  LifeStage'[t] = LifeStage[t]
  <1> DEFINE js == CancelJobs(Cancelled({s}))
  <1>1. ASSUME t \in running PROVE PoolStage(t)' = PoolStage(t)
    <2>1. Job(t) \in Jobs /\ Job(t) = <<t, generation[t]>> /\ Job(t) \notin Cancelled({s})
      BY <1>1, RunningKnown DEF Cancelled
    <2>2. js[Job(t)] = jobs[Job(t)] /\ jobs' = WakeSlotWaiters(js) /\ generation' = g
      BY <2>1 DEF CancelJobs, RemoveInternal
    <2>3. SameClass(js[Job(t)], WakeSlotWaiters(js)[Job(t)])
      BY <2>1, WakeClass
    <2>4. HasEnded(t, TRUE)' <=> HasEnded(t, TRUE)
      BY <2>2 DEF HasEnded, RemoveInternal, CancelCompletions, Cancelled
    <2> QED BY <2>2, <2>3, <2>4, PoolKept
  <1>2. t \in running' <=> t \in running
    BY DEF RemoveInternal
  <1>3. t \in suspended' <=> t \in suspended
    BY DEF RemoveInternal
  <1> QED BY <1>1, <1>2, <1>3, StageKept

(* A generation the id has not had yet is owed nothing.                    *)
LEMMA NotOwed ==
  ASSUME LifeInv, NEW t \in Tasks, generation'[t] > generation[t], UNCHANGED failures,
         generation'[t] \in Nat
  PROVE  t \notin OwedFailures'
  BY DEF OwedFailures, LifeInv, FailuresPast, Past, IInv, TypeOK

LEMMA LifeAdds ==
  ASSUME LifeInv, NEW t \in Tasks, NEW h \in Handlers, AddTask(t, h)
  PROVE  Life!Add(t)
  <1> DEFINE g == generation[t] + (IF Placed(t) THEN 2 ELSE 1)
             newGeneration == [generation EXCEPT ![t] = g]
  <1>1. /\ TypeOK /\ newGeneration[t] = g /\ generation[t] \in Nat
        /\ g > generation[t] /\ g \in Nat
        /\ \A s \in Tasks : s # t => newGeneration[s] = generation[s]
    <2>1. TypeOK /\ generation \in [Tasks -> 0 .. MaxGen] /\ generation[t] \in Nat
      BY DEF LifeInv, IInv, TypeOK
    <2>2. g > generation[t] /\ g \in Nat
      BY <2>1
    <2> HIDE DEF g
    <2> QED BY <2>1, <2>2
  <1>2. /\ generation' = newGeneration /\ UNCHANGED failures
        /\ tasks' = [tasks EXCEPT ![t] = [gen |-> g, handler |-> h]]
        /\ t \notin running' /\ t \notin suspended'
        /\ results' \in {results, [s \in Tasks |-> IF s = t THEN 0 ELSE results[s]]}
        /\ finished' = [finished EXCEPT ![t] = 0]
        /\ failed' = [failed EXCEPT ![t] = 0]
    <2>1. CASE Placed(t)
      BY <2>1 DEF AddTask, RemoveInternal
    <2>2. CASE ~Placed(t)
      BY <2>2 DEF AddTask, Placed
    <2> QED BY <2>1, <2>2
  <1>3. LifeStage'[t] = "pending"
    <2>1. Known(t)'
      BY <1>1, <1>2, TaskSchedulerAssumption
      DEF Known, AddTask, TaskRec, Gens, TypeOK, TaskSchedulerAssumption
    <2> QED BY <1>2, <2>1 DEF LifeStage
  <1>4. ASSUME NEW s \in Tasks, s # t PROVE LifeStage'[s] = LifeStage[s]
    <2>1. Known(s)' <=> Known(s)
      BY <1>1, <1>2, <1>4 DEF Known, TypeOK
    <2>2. CASE Placed(t)
      <3>1. RemoveInternal({t}, newGeneration)
        BY <2>2 DEF AddTask
      <3>2. newGeneration[s] = generation[s]
        BY <1>1, <1>4
      <3> HIDE DEF newGeneration
      <3> QED BY <1>4, <2>1, <3>1, <3>2, RemoveOthers
    <2>3. CASE ~Placed(t)
      <3>1. UNCHANGED <<suspended, running, jobs, completions>> /\ generation'[s] = generation[s]
        BY <1>1, <1>2, <1>4, <2>3 DEF AddTask
      <3> QED BY <2>1, <3>1, StageKept DEF PoolStage, Job, HasEnded
    <2> QED BY <2>2, <2>3
  <1>5. OwedFailures' = OwedFailures \ {t}
    <2>1. t \notin OwedFailures'
      BY <1>1, <1>2, NotOwed
    <2> QED BY <1>1, <1>2, <2>1 DEF OwedFailures
  <1>6. /\ IdsIn(results)' \in {IdsIn(results), IdsIn(results) \ {t}}
        /\ IdsIn(finished)' = IdsIn(finished) \ {t}
        /\ IdsIn(failed)' = IdsIn(failed) \ {t}
    <2>1. /\ IdsIn(finished)' = IdsIn(finished) \ {t}
          /\ IdsIn(failed)' = IdsIn(failed) \ {t}
      BY <1>1, <1>2 DEF IdsIn, TypeOK
    <2>2. CASE results' = results
      BY <2>1, <2>2 DEF IdsIn
    <2>3. CASE results' = [s \in Tasks |-> IF s = t THEN 0 ELSE results[s]]
      <3>1. IdsIn(results)' = IdsIn(results) \ {t}
        BY <2>3 DEF IdsIn
      <3> QED BY <2>1, <3>1
    <2> QED BY <1>2, <2>2, <2>3
  <1>7. Life!Move({t}, "pending")
    BY <1>3, <1>4 DEF Life!Move, LifeStage
  <1> QED BY <1>5, <1>6, <1>7 DEF Life!Add

LEMMA LifeRemoves ==
  ASSUME LifeInv, NEW t \in Tasks, RemoveTask(t)
  PROVE  Life!Remove(t)
  <1> DEFINE newGeneration == [generation EXCEPT ![t] = @ + 1]
  <1>1. /\ TypeOK /\ generation[t] \in Nat /\ newGeneration[t] = generation[t] + 1
        /\ \A s \in Tasks : s # t => newGeneration[s] = generation[s]
        /\ RemoveInternal({t}, newGeneration) /\ generation' = newGeneration
    <2>1. RemoveInternal({t}, newGeneration)
      BY DEF RemoveTask
    <2>2. generation' = newGeneration
      BY <2>1 DEF RemoveInternal
    <2> QED BY <2>1, <2>2 DEF LifeInv, IInv, TypeOK
  <1> HIDE DEF newGeneration
  <1>2. LifeStage'[t] = "absent"
    BY DEF LifeStage, Known, RemoveTask, LifeInv, IInv, TypeOK
  <1>3. ASSUME NEW s \in Tasks, s # t PROVE LifeStage'[s] = LifeStage[s]
    <2>1. Known(s)' <=> Known(s)
      BY <1>1, <1>3 DEF Known, RemoveTask, TypeOK
    <2> QED BY <1>1, <1>3, <2>1, RemoveOthers
  <1>4. OwedFailures' = OwedFailures \ {t}
    <2>1. t \notin OwedFailures' /\ UNCHANGED failures
      BY <1>1, NotOwed DEF RemoveTask
    <2> QED BY <1>1, <2>1 DEF OwedFailures
  <1>5. /\ IdsIn(results)' = IdsIn(results) \ {t}
        /\ IdsIn(finished)' = IdsIn(finished) \ {t}
        /\ IdsIn(failed)' = IdsIn(failed) \ {t}
    BY <1>1 DEF IdsIn, RemoveTask, RemoveInternal, TypeOK
  <1>6. Life!Move({t}, "absent")
    BY <1>2, <1>3 DEF Life!Move, LifeStage
  <1> QED BY <1>4, <1>5, <1>6 DEF Life!Remove

LEMMA LifeClears ==
  ASSUME LifeInv, NEW js, ClearAll(js)
  PROVE  Life!RemoveAll
  <1>1. Life!Move(Tasks, "absent")
    BY DEF Life!Move, LifeStage, Known, ClearAll
  <1>2. OwedFailures' = OwedFailures \cap Life!At({"absent"})
    <2>1. ASSUME NEW t \in Tasks
          PROVE  t \in OwedFailures' <=> t \in OwedFailures /\ ~Known(t)
      <3>1. CASE Known(t)
        <4>1. generation'[t] = generation[t] + 1 /\ generation[t] \in Nat /\ UNCHANGED failures
          BY <3>1 DEF ClearAll, LifeInv, IInv, TypeOK
        <4> QED BY <3>1, <4>1, NotOwed
      <3>2. CASE ~Known(t)
        BY <3>2 DEF ClearAll, OwedFailures
      <3> QED BY <3>1, <3>2
    <2> QED BY <2>1, StageAbsent DEF OwedFailures, Life!At
  <1>3. /\ IdsIn(results)' = {}
        /\ UNCHANGED <<IdsIn(finished), IdsIn(failed)>>
    BY DEF ClearAll, IdsIn
  <1> QED BY <1>1, <1>2, <1>3 DEF Life!RemoveAll

LEMMA LifeSubmits ==
  ASSUME LifeInv, NEW t \in Tasks, SubmitReady(t)
  PROVE  Life!Submit(t) \/ UNCHANGED LifeState
  <1>1. /\ TypeOK /\ TasksPlacedOnce /\ t \in pending /\ t \notin running /\ t \notin suspended
        /\ Cardinality(running) < MaxWorkers
        /\ UNCHANGED <<tasks, suspended, generation, completions, failures>>
        /\ UNCHANGED eventVars
    BY DEF LifeInv, IInv, TasksPlacedOnce, SubmitReady, CanSubmit
  <1>2. UNCHANGED <<OwedFailures, IdsIn(results), IdsIn(finished), IdsIn(failed)>>
    BY <1>1, EventsKept, OwedKept
  <1>3. CASE ~Known(t)
    <2>1. UNCHANGED <<jobs, running>>
      BY <1>3 DEF SubmitReady
    <2>2. UNCHANGED LifeStage
      BY <1>1, <2>1 DEF LifeStage, Known, PoolStage, Job, HasEnded
    <2> QED BY <1>2, <2>2 DEF LifeState
  <1>4. CASE Known(t)
    <2>1. /\ running' = running \cup {t} /\ Job(t) \in Jobs
          /\ jobs' = [jobs EXCEPT ![Job(t)] = "queued"]
      BY <1>1, <1>4, SubmitMoves DEF SubmitReady
    <2>2. LifeStage[t] = "pending"
      BY <1>1, <1>4 DEF LifeStage
    <2>3. LifeStage'[t] = "queued"
      <3>1. jobs'[Job(t)'] = "queued"
        BY <1>1, <2>1 DEF TypeOK, Job
      <3> QED BY <1>1, <1>4, <2>1, <3>1 DEF LifeStage, PoolStage, Known
    <2>4. ASSUME NEW s \in Tasks, s # t PROVE LifeStage'[s] = LifeStage[s]
      <3>1. Job(s) # Job(t) /\ (s \in running => Job(s) \in Jobs)
        BY <2>4, RunningKnown DEF Job
      <3>2. s \in running => jobs'[Job(s)] = jobs[Job(s)]
        BY <2>1, <3>1 DEF LifeInv, IInv, TypeOK
      <3>3. s \in running => PoolStage(s)' = PoolStage(s)
        BY <1>1, <3>2, PoolKept DEF SameClass, HasEnded
      <3> QED BY <1>1, <2>1, <2>4, <3>3, StageKept DEF Known
    <2>5. Life!Move({t}, "queued")
      BY <2>3, <2>4 DEF Life!Move, LifeStage
    <2>6. Cardinality(Life!At(Life!Occupied)) < MaxWorkers
      BY <1>1, StageOccupied
    <2>7. UNCHANGED <<OwedFailures, Life!told>>
      BY <1>2 DEF Life!told
    <2> QED BY <2>2, <2>5, <2>6, <2>7 DEF Life!Submit, Life!Cardinality, Cardinality
  <1> QED BY <1>3, <1>4

(* The completions _collect_finished_tasks accepts are those of the        *)
(* running tasks whose job has ended, one for each.                        *)
LEMMA AcceptedEnds ==
  ASSUME LifeInv
  PROVE  /\ IdsOf({c \in Accepted : c.ok}) = Life!At({"succeeded"})
         /\ IdsOf({c \in Accepted : ~c.ok}) = Life!At({"raised"})
         /\ \A t \in Tasks : \A ok \in BOOLEAN :
              [id |-> t, gen |-> generation[t], ok |-> ok] \in Accepted
              <=> HasEnded(t, ok) /\ Known(t)
  <1>1. ASSUME NEW t \in Tasks, NEW ok \in BOOLEAN
        PROVE  [id |-> t, gen |-> generation[t], ok |-> ok] \in Accepted
               <=> HasEnded(t, ok) /\ Known(t)
    BY DEF Accepted, HasEnded, LifeInv, IInv, TasksPlacedOnce
  <1>2. ASSUME NEW c \in Accepted
        PROVE  /\ c.id \in Tasks /\ c.ok \in BOOLEAN /\ Known(c.id)
               /\ HasEnded(c.id, c.ok)
    BY DEF Accepted, HasEnded, Completion, LifeInv, IInv, TypeOK
  <1>3. ASSUME NEW t \in Tasks, NEW ok \in BOOLEAN, HasEnded(t, ok), Known(t)
        PROVE  t \in running /\ jobs[Job(t)] \notin Executing \cup {"queued"}
    <2>1. jobs[Job(t)] \in {"done", "cancelled"}
      BY <1>3 DEF HasEnded, LifeInv, OneEnd, Job
    <2>2. t \notin pending \cup suspended
      BY <1>3, <2>1 DEF LifeInv, Unsubmitted
    <2> QED BY <1>3, <2>1, <2>2 DEF LifeInv, IInv, TasksPlacedOnce, Executing
  <1>4. \A t \in Tasks : LifeStage[t] = "succeeded" <=> HasEnded(t, TRUE) /\ Known(t)
    BY <1>3, RunningEnd, RunningKnown DEF LifeStage, PoolStage
  <1>5. \A t \in Tasks : LifeStage[t] = "raised" <=> HasEnded(t, FALSE) /\ Known(t)
    BY <1>3, RunningEnd, RunningKnown DEF LifeStage, PoolStage
  <1>6. ASSUME NEW ok \in BOOLEAN
        PROVE  IdsOf({c \in Accepted : c.ok = ok})
               = {t \in Tasks : HasEnded(t, ok) /\ Known(t)}
    <2>1. ASSUME NEW t \in Tasks, HasEnded(t, ok), Known(t)
          PROVE  \E c \in Accepted : c.ok = ok /\ c.id = t
      <3> DEFINE c == [id |-> t, gen |-> generation[t], ok |-> ok]
      <3>1. c \in Accepted
        BY <2>1 DEF Accepted, HasEnded, LifeInv, IInv, TasksPlacedOnce
      <3>2. c.ok = ok /\ c.id = t
        OBVIOUS
      <3> HIDE DEF c
      <3> QED BY <3>1, <3>2
    <2> QED BY <1>2, <2>1 DEF IdsOf
  <1>7. /\ {c \in Accepted : c.ok} = {c \in Accepted : c.ok = TRUE}
        /\ {c \in Accepted : ~c.ok} = {c \in Accepted : c.ok = FALSE}
    BY <1>2
  <1> QED BY <1>1, <1>4, <1>5, <1>6, <1>7 DEF Life!At

LEMMA LifeCollects ==
  ASSUME LifeInv, CollectFinished
  PROVE  Life!Collect
  <1> DEFINE done == {c \in Accepted : c.ok}
             raised == {c \in Accepted : ~c.ok}
             Ended == Life!At({"succeeded", "raised"})
  <1>1. /\ IdsOf(done) = Life!At({"succeeded"}) /\ IdsOf(raised) = Life!At({"raised"})
        /\ IdsOf(Accepted) = Ended
    <2>1. IdsOf(Accepted) = IdsOf(done) \cup IdsOf(raised)
      BY DEF IdsOf
    <2> QED BY <2>1, AcceptedEnds DEF Life!At
  <1>2. /\ completions' = {} /\ running' = running \ Ended
        /\ tasks' = [t \in Tasks |-> IF t \in Ended THEN NoTask ELSE tasks[t]]
        /\ UNCHANGED <<suspended, generation, jobs, failed>>
        /\ failures' = failures \cup {[id |-> c.id, gen |-> c.gen] : c \in raised}
    BY <1>1 DEF CollectFinished
  <1>3. ASSUME NEW t \in Tasks, t \in Ended PROVE LifeStage'[t] = "absent"
    BY <1>2, <1>3 DEF LifeStage, Known
  <1>4. ASSUME NEW t \in Tasks, t \notin Ended PROVE LifeStage'[t] = LifeStage[t]
    <2>1. t \in running => jobs[Job(t)] \in Executing \cup {"queued"}
      BY <1>4, RunningKnown, RunningEnd DEF Life!At, LifeStage, PoolStage
    <2>2. t \in running => PoolStage(t)' = PoolStage(t)
      BY <1>2, <2>1 DEF PoolStage, Job
    <2> QED BY <1>2, <1>4, <2>2, StageKept DEF Known
  <1>5. Life!Move(Ended, "absent")
    BY <1>3, <1>4 DEF Life!Move, LifeStage
  <1>6. OwedFailures' = OwedFailures \cup Life!At({"raised"})
    <2>1. \A c \in raised : c.gen = generation[c.id] /\ c.id \in IdsOf(raised)
      BY DEF Accepted, IdsOf
    <2>2. ASSUME NEW t \in IdsOf(raised)
          PROVE  [id |-> t, gen |-> generation[t]] \in failures'
      <3> PICK c \in raised : c.id = t
        BY DEF IdsOf
      <3> QED BY <1>2, <2>1
    <2>3. ASSUME NEW t \in Tasks, [id |-> t, gen |-> generation[t]] \in failures' \ failures
          PROVE  t \in IdsOf(raised)
      <3>1. PICK c \in raised :
              [id |-> t, gen |-> generation[t]] = [id |-> c.id, gen |-> c.gen]
        BY <1>2, <2>3
      <3> QED BY <2>1, <3>1
    <2> QED BY <1>1, <1>2, <2>2, <2>3 DEF OwedFailures, Life!At
  <1>7. /\ IdsIn(results)' = IdsIn(results) \cup Life!At({"succeeded"})
        /\ IdsIn(finished)' = IdsIn(finished) \cup Life!At({"succeeded"})
        /\ UNCHANGED IdsIn(failed)
    <2>1. \A t \in IdsOf(done) : GenIn(done, t) # 0
      BY DEF IdsOf, GenIn, Accepted, LifeInv, IInv, TypeOK, Completion, Gens
    <2>2. /\ results' = [t \in Tasks |-> IF t \in IdsOf(done) THEN GenIn(done, t)
                                                              ELSE results[t]]
          /\ finished' = [t \in Tasks |-> IF t \in IdsOf(done) THEN GenIn(done, t)
                                                               ELSE finished[t]]
      BY DEF CollectFinished
    <2>3. IdsOf(done) \subseteq Tasks
      BY <1>1 DEF Life!At
    <2> HIDE DEF done
    <2> QED BY <1>1, <1>2, <2>1, <2>2, <2>3 DEF IdsIn
  <1> QED BY <1>5, <1>6, <1>7 DEF Life!Collect

LEMMA LifeTells ==
  ASSUME LifeInv, DrainFailures
  PROVE  Life!TellFailures
  <1> DEFINE hit == {f \in failures : generation[f.id] = f.gen}
  <1>1. IdsOf(hit) = OwedFailures
    <2>1. \A f \in hit : f = [id |-> f.id, gen |-> generation[f.id]] /\ f.id \in Tasks
      BY DEF LifeInv, IInv, TypeOK, Failure
    <2>2. ASSUME NEW t \in OwedFailures PROVE t \in IdsOf(hit)
      <3> DEFINE f == [id |-> t, gen |-> generation[t]]
      <3>1. f \in hit /\ f.id = t
        BY DEF OwedFailures
      <3> QED BY <3>1 DEF IdsOf
    <2> QED BY <2>1, <2>2 DEF IdsOf, OwedFailures
  <1>2. \A t \in IdsOf(hit) : GenIn(hit, t) # 0
    BY DEF IdsOf, GenIn, LifeInv, IInv, TypeOK, Failure, Gens
  <1>3. /\ failures' = {} /\ running' = running \ IdsOf(hit)
        /\ tasks' = [t \in Tasks |-> IF t \in IdsOf(hit) THEN NoTask ELSE tasks[t]]
        /\ failed' = [t \in Tasks |-> IF t \in IdsOf(hit) THEN GenIn(hit, t) ELSE failed[t]]
        /\ UNCHANGED <<suspended, generation, jobs, completions, results, finished>>
    BY DEF DrainFailures
  <1> HIDE DEF hit
  <1>4. ASSUME NEW t \in Tasks
        PROVE  LifeStage'[t] = IF t \in OwedFailures THEN "absent" ELSE LifeStage[t]
    <2>1. CASE t \in OwedFailures
      BY <1>1, <1>3, <2>1 DEF LifeStage, Known
    <2>2. CASE t \notin OwedFailures
      <3>1. PoolStage(t)' = PoolStage(t)
        BY <1>3 DEF PoolStage, Job, HasEnded
      <3> QED BY <1>1, <1>3, <2>2, <3>1, StageKept DEF Known
    <2> QED BY <2>1, <2>2
  <1>5. Life!Move(OwedFailures, "absent")
    BY <1>4 DEF Life!Move, LifeStage
  <1>6. /\ OwedFailures' = {} /\ UNCHANGED <<IdsIn(results), IdsIn(finished)>>
        /\ IdsIn(failed)' = IdsIn(failed) \cup OwedFailures
    BY <1>1, <1>2, <1>3 DEF OwedFailures, IdsIn
  <1> QED BY <1>5, <1>6 DEF Life!TellFailures

(* The step of a worker's thread matters if its job is that of the life    *)
(* the id has now: the threads of removed tasks do nothing to it.          *)
LEMMA LifeWorks ==
  ASSUME LifeInv, NEW j \in Jobs, Worker(j)
  PROVE  \/ \E t \in Tasks : \/ Life!Execute(t)
                            \/ \E s \in {"succeeded", "raised"} : Life!End(t, s)
         \/ UNCHANGED LifeState
  <1> DEFINE t == j[1]
             Current == t \in running /\ j = Job(t)
  <1>1. /\ UNCHANGED <<Placement, failures>> /\ UNCHANGED eventVars
        /\ t \in Tasks /\ j = <<j[1], j[2]>>
    BY JobParts, PlacementUnchanged
    DEF WorkerStep, Worker, PickUp, StartLogic, SendLocked, SendPut, EndLogic,
        UnchangedByWorker, Placement, Jobs
  <1>2. UNCHANGED <<OwedFailures, IdsIn(results), IdsIn(finished), IdsIn(failed)>>
    BY <1>1, EventsKept, OwedKept DEF Placement
  <1>3. completions' = completions
        \/ \E ok \in BOOLEAN : EndLogic(j, ok) /\ completions'
             = completions \cup {[id |-> j[1], gen |-> j[2], ok |-> ok]}
    BY DEF Worker, PickUp, StartLogic, SendLocked, SendPut, EndLogic
  <1>4. ASSUME NEW s \in Tasks, ~(Current /\ s = t) PROVE LifeStage'[s] = LifeStage[s]
    <2>1. ASSUME s \in running PROVE PoolStage(s)' = PoolStage(s)
      <3>1. Job(s) \in Jobs /\ Job(s) = <<s, generation[s]>> /\ Job(s) # j
        BY <1>1, <1>4, <2>1, RunningKnown
      <3>2. jobs'[Job(s)] = jobs[Job(s)]
        BY <3>1, WorkerMoves DEF LifeInv, IInv
      <3>3. \A ok \in BOOLEAN : [id |-> s, gen |-> generation[s], ok |-> TRUE]
                                # [id |-> j[1], gen |-> j[2], ok |-> ok]
        BY <1>1, <3>1
      <3>4. HasEnded(s, TRUE)' <=> HasEnded(s, TRUE)
        BY <1>1, <1>3, <3>3 DEF HasEnded, Placement
      <3> QED BY <1>1, <3>2, <3>4, PoolKept DEF SameClass, Placement
    <2> QED BY <1>1, <2>1, StageKept DEF Placement, Known
  <1>5. CASE ~Current
    BY <1>2, <1>4, <1>5 DEF LifeState, LifeStage
  <1>6. CASE Current
    <2>1. /\ Job(t)' = j /\ Known(t) /\ Known(t)' /\ t \in running /\ t \in running'
          /\ jobs \in [Jobs -> JobStates]
      BY <1>1, <1>6, RunningKnown DEF Placement, Job, Known, LifeInv, IInv, TypeOK
    <2>2. LifeStage[t] = PoolStage(t) /\ LifeStage'[t] = PoolStage(t)'
      BY <1>1, <2>1 DEF LifeStage
    <2>3. ASSUME NEW s, LifeStage'[t] = s PROVE Life!Move({t}, s)
      BY <1>4, <2>3 DEF Life!Move, LifeStage
    <2>4. UNCHANGED <<OwedFailures, Life!told>>
      BY <1>2 DEF Life!told
    <2>5. CASE PickUp(j)
      <3>1. LifeStage[t] = "queued" /\ LifeStage'[t] = "executing"
        BY <1>6, <2>1, <2>2, <2>5 DEF PickUp, PoolStage, Executing
      <3> QED BY <1>1, <2>3, <2>4, <3>1 DEF Life!Execute
    <2>6. CASE StartLogic(j) \/ SendLocked(j) \/ SendPut(j)
      <3>1. jobs[j] \in Executing /\ jobs'[j] \in Executing
        BY <2>1, <2>6 DEF StartLogic, SendLocked, SendPut, Executing
      <3>2. LifeStage[t] = "executing" /\ LifeStage'[t] = "executing"
        BY <1>6, <2>1, <2>2, <3>1 DEF PoolStage, Executing
      <3> QED BY <1>2, <1>4, <3>2 DEF LifeState, LifeStage
    <2>7. ASSUME NEW ok \in BOOLEAN, EndLogic(j, ok)
          PROVE  \E s \in {"succeeded", "raised"} : Life!End(t, s)
      <3> DEFINE e == [id |-> t, gen |-> generation'[t], ok |-> ok]
      <3>1. jobs[j] = "logic" /\ jobs'[j] = "done"
        BY <2>1, <2>7 DEF EndLogic
      <3>2. LifeStage[t] = "executing"
        BY <1>6, <2>2, <3>1 DEF PoolStage, Executing
      <3>3. /\ completions' = completions \cup {e} /\ e.ok = ok
            /\ \A c \in completions : ~(c.id = t /\ c.gen = generation[t])
        <4>1. j[2] = generation[t] /\ generation'[t] = generation[t]
          BY <1>1, <1>6 DEF Job, Placement
        <4>2. \A c \in completions : ~(c.id = t /\ c.gen = generation[t])
          BY <1>6, <3>1, RunningEnd DEF Executing
        <4> QED BY <2>7, <4>1, <4>2 DEF EndLogic
      <3>4. HasEnded(t, TRUE)' <=> ok
        BY <1>1, <3>3 DEF HasEnded, Placement
      <3>5. LifeStage'[t] = IF ok THEN "succeeded" ELSE "raised"
        BY <2>1, <2>2, <3>1, <3>4 DEF PoolStage, Executing
      <3> QED BY <2>3, <2>4, <3>2, <3>5 DEF Life!End
    <2> QED BY <1>1, <2>5, <2>6, <2>7 DEF Worker
  <1> QED BY <1>5, <1>6

LEMMA LifeNext ==
  LifeInv /\ [Next]_vars => [Life!Next]_(Life!vars)
  <1> SUFFICES ASSUME LifeInv, [Next]_vars PROVE Life!Next \/ UNCHANGED Life!vars
    OBVIOUS
  <1>1. CASE Api
    <2>1. RemoveAll \/ Shutdown => Life!RemoveAll
      BY LifeClears DEF RemoveAll, Shutdown
    <2>2. SuspendAll \/ (\E t \in Tasks : SuspendTask(t)) \/ ResumeAll
            \/ (\E t \in Tasks : ResumeTask(t))
            => \E S \in SUBSET Tasks : Life!Suspend(S) \/ Life!Resume(S)
      BY LifeMoves DEF SuspendAll, SuspendTask, ResumeAll, ResumeTask
    <2>3. SettingOrRead => Life!Read
      BY LifeReads
    <2> QED BY <1>1, <2>1, <2>2, <2>3, LifeAdds, LifeRemoves DEF Api, SettingOrRead, Life!Next
  <1>2. CASE UpdateStart \/ UpdateStep
    <2>1. MessageStep => Life!Next \/ UNCHANGED Life!vars
      BY LifeMessages, Stutter DEF Life!Next
    <2>2. \A t \in Tasks : SubmitReady(t) => Life!Next \/ UNCHANGED Life!vars
      BY LifeSubmits, Stutter DEF Life!Next
    <2>3. CollectFinished \/ DrainFailures => Life!Next
      BY LifeCollects, LifeTells DEF Life!Next
    <2> QED BY <1>2, <2>1, <2>2, <2>3 DEF UpdateStep, MessageStep
  <1>3. CASE \E j \in Jobs : Worker(j)
    BY <1>3, LifeWorks, Stutter DEF Life!Next
  <1>4. CASE UNCHANGED vars
    BY <1>4 DEF vars, eventVars, Life!vars, Life!told, LifeStage, OwedFailures, IdsIn, Known,
                PoolStage, Job, HasEnded
  <1> QED BY <1>1, <1>2, <1>3, <1>4 DEF Next

(* The scheduler, with its threads, queues, messages and generations,      *)
(* implements the life of a task that TaskLifecycle describes.             *)
THEOREM LifecycleImplemented == Spec => ImplementsLifecycle
  <1>1. Init => Life!Init
    BY LifeInit
  <1>2. LifeInv /\ [Next]_vars => [Life!Next]_(Life!vars)
    BY LifeNext
  <1> QED BY SpecLifeInv, <1>1, <1>2, PTL DEF Spec, ImplementsLifecycle, Life!Spec

-----------------------------------------------------------------------------
(* A slot is released for every one that is counted: each count is at most *)
(* the number of messages of the id that are on their way.  The messages   *)
(* of an id, counted queue by queue:                                       *)

PlacesOf(q, t) == {i \in DOMAIN q : q[i].id = t}
Mine(m, t) == IF m.id = t THEN 1 ELSE 0

LEMMA CountType ==
  ASSUME NEW q \in Seq(Message), NEW t
  PROVE  /\ IsFiniteSet(PlacesOf(q, t)) /\ MessagesOf(q, t) = Cardinality(PlacesOf(q, t))
         /\ MessagesOf(q, t) \in Nat
<1>1. Len(q) \in Nat /\ DOMAIN q = 1 .. Len(q)
  OBVIOUS
<1>2. IsFiniteSet(1 .. Len(q))
  BY <1>1, FS_Interval
<1>3. IsFiniteSet(PlacesOf(q, t))
  BY <1>1, <1>2, FS_Subset DEF PlacesOf
<1> QED BY <1>3, FS_CardinalityType DEF MessagesOf, PlacesOf

LEMMA CountEmpty == \A t : MessagesOf(<< >>, t) = 0
<1> SUFFICES ASSUME NEW t PROVE MessagesOf(<< >>, t) = 0
  OBVIOUS
<1>1. {i \in DOMAIN << >> : << >>[i].id = t} = {}
  OBVIOUS
<1> QED BY <1>1, FS_EmptySet DEF MessagesOf

LEMMA CountAppend ==
  ASSUME NEW q \in Seq(Message), NEW m \in Message, NEW t
  PROVE  MessagesOf(Append(q, m), t) = MessagesOf(q, t) + Mine(m, t)
<1> DEFINE w == Append(q, m)
           n == Len(q) + 1
<1>1. /\ w \in Seq(Message) /\ DOMAIN w = 1 .. n /\ DOMAIN q = 1 .. Len(q) /\ n \in Nat /\ n - 1 = Len(q)
      /\ w[n] = m /\ \A i \in 1 .. n - 1 : w[i] = q[i]
  BY AppendProperties
<1>2. /\ IsFiniteSet(PlacesOf(q, t)) /\ MessagesOf(q, t) = Cardinality(PlacesOf(q, t))
      /\ MessagesOf(q, t) \in Nat
      /\ MessagesOf(w, t) = Cardinality(PlacesOf(w, t))
  BY <1>1, CountType
<1> HIDE DEF w
<1>3. n \notin PlacesOf(q, t)
  BY <1>1 DEF PlacesOf
<1>4. CASE m.id = t
  <2>1. PlacesOf(w, t) = PlacesOf(q, t) \cup {n}
    BY <1>1, <1>4 DEF PlacesOf
  <2>2. Cardinality(PlacesOf(q, t) \cup {n}) = Cardinality(PlacesOf(q, t)) + 1
    BY <1>2, <1>3, FS_AddElement
  <2> QED BY <1>2, <1>4, <2>1, <2>2 DEF Mine, w
<1>5. CASE m.id # t
  <2>1. PlacesOf(w, t) = PlacesOf(q, t)
    BY <1>1, <1>5 DEF PlacesOf
  <2> QED BY <1>2, <1>5, <2>1 DEF Mine, w
<1> QED BY <1>4, <1>5

LEMMA CountTail ==
  ASSUME NEW q \in Seq(Message), NEW t, q # << >>
  PROVE  MessagesOf(q, t) = MessagesOf(Tail(q), t) + Mine(Head(q), t)
<1> DEFINE w == Tail(q)
           m == Head(q)
           P == PlacesOf(w, t)
           Up == {i + 1 : i \in P}
           shift == [i \in P |-> i + 1]
<1>1. /\ w \in Seq(Message) /\ m = q[1] /\ DOMAIN q = 1 .. Len(q) /\ Len(q) \in Nat /\ 1 \in DOMAIN q
      /\ DOMAIN w = 1 .. Len(q) - 1 /\ \A i \in 1 .. Len(q) - 1 : w[i] = q[i + 1]
  OBVIOUS
<1>2. /\ IsFiniteSet(P) /\ MessagesOf(w, t) = Cardinality(P) /\ MessagesOf(w, t) \in Nat
      /\ MessagesOf(q, t) = Cardinality(PlacesOf(q, t))
  BY <1>1, CountType
<1> HIDE DEF w, m
<1>3. /\ P \subseteq Nat \ {0} /\ 1 \notin Up
      /\ \A i \in PlacesOf(q, t) : i # 1 => i - 1 \in P /\ i = (i - 1) + 1
      /\ \A i \in P : i + 1 \in PlacesOf(q, t)
      /\ 1 \in PlacesOf(q, t) <=> m.id = t
  BY <1>1 DEF PlacesOf, m
<1>4. PlacesOf(q, t) = IF m.id = t THEN Up \cup {1} ELSE Up
  <2> HIDE DEF P
  <2>1. \A i \in PlacesOf(q, t) : i # 1 => i \in Up
    BY <1>3
  <2>2. \A i \in Up : i \in PlacesOf(q, t)
    BY <1>3
  <2>3. 1 \notin Up
    BY <1>3
  <2> DEFINE Q == PlacesOf(q, t)
  <2>4. /\ \A i \in Q : i # 1 => i \in Up
        /\ \A i \in Up : i \in Q
        /\ 1 \in Q <=> m.id = t
    BY <1>3, <2>1, <2>2
  <2> HIDE DEF Up, Q
  <2>5. m.id = t => Q = Up \cup {1}
    BY <2>4
  <2>6. m.id # t => Q = Up
    BY <2>3, <2>4
  <2>7. Q = IF m.id = t THEN Up \cup {1} ELSE Up
    BY <2>5, <2>6
  <2> QED BY <2>7 DEF Q
<1>5. IsFiniteSet(Up) /\ Cardinality(Up) = Cardinality(P)
  <2> HIDE DEF P
  <2>1. shift \in Bijection(P, Up)
    BY <1>3 DEF Bijection, Injection, Surjection, IsInjective
  <2>2. ExistsBijection(P, Up)
    BY <2>1 DEF ExistsBijection
  <2> HIDE DEF Up, shift
  <2> QED BY <1>2, <2>2, FS_Bijection
<1>6. CASE m.id = t
  <2>1. Cardinality(Up \cup {1}) = Cardinality(Up) + 1
    BY <1>3, <1>5, FS_AddElement
  <2> QED BY <1>2, <1>4, <1>5, <1>6, <2>1 DEF Mine, w, m
<1>7. CASE m.id # t
  BY <1>2, <1>4, <1>5, <1>7 DEF Mine, w, m
<1> QED BY <1>6, <1>7

(* The threads between send_message's two halves.                          *)
PutJobs(js, t) == {j \in Jobs : j[1] = t /\ js[j] = "put"}

LEMMA PutJobsFinite ==
  \A js, t : IsFiniteSet(PutJobs(js, t)) /\ Cardinality(PutJobs(js, t)) \in Nat
<1> SUFFICES ASSUME NEW js, NEW t
             PROVE  IsFiniteSet(PutJobs(js, t)) /\ Cardinality(PutJobs(js, t)) \in Nat
  OBVIOUS
<1>1. MaxGen \in Nat /\ 1 \in Nat
  BY TaskSchedulerAssumption
<1>2. IsFiniteSet(1 .. MaxGen)
  BY <1>1, FS_Interval
<1>3. IsFiniteSet(Jobs)
  BY <1>2, TaskSchedulerAssumption, FS_Product DEF Jobs, Gens
<1>4. IsFiniteSet(PutJobs(js, t))
  BY <1>3, FS_Subset DEF PutJobs
<1> QED BY <1>4, FS_CardinalityType

LEMMA PutType == \A t : Putting(t) \in Nat /\ Putting(t) = Cardinality(PutJobs(jobs, t))
BY PutJobsFinite DEF Putting, PutJobs

(* One message of the id more or less between its two halves.              *)
LEMMA PutOnce ==
  ASSUME NEW j \in Jobs, NEW js, NEW ks,
         \A k \in Jobs : k # j => ks[k] = js[k],
         js[j] # "put", ks[j] = "put", NEW t
  PROVE  Cardinality(PutJobs(ks, t)) = Cardinality(PutJobs(js, t)) + (IF j[1] = t THEN 1 ELSE 0)
<1>1. j \notin PutJobs(js, t) /\ IsFiniteSet(PutJobs(js, t))
  BY PutJobsFinite DEF PutJobs
<1>2. CASE j[1] = t
  <2>1. PutJobs(ks, t) = PutJobs(js, t) \cup {j}
    BY <1>2 DEF PutJobs
  <2> QED BY <1>1, <1>2, <2>1, FS_AddElement
<1>3. CASE j[1] # t
  <2>1. PutJobs(ks, t) = PutJobs(js, t)
    BY <1>3 DEF PutJobs
  <2> QED BY <1>3, <2>1, PutJobsFinite
<1> QED BY <1>2, <1>3

PutSame == \A j \in Jobs : jobs'[j] = "put" <=> jobs[j] = "put"

LEMMA PuttingSame ==
  ASSUME PutSame
  PROVE  \A t : Cardinality(PutJobs(jobs', t)) = Cardinality(PutJobs(jobs, t))
<1> SUFFICES ASSUME NEW t PROVE PutJobs(jobs', t) = PutJobs(jobs, t)
  OBVIOUS
<1> QED BY DEF PutSame, PutJobs

LEMMA DecrementPuts ==
  ASSUME NEW d, DecrementCounts(d)
  PROVE  PutSame
BY DEF DecrementCounts, WakeSlotWaiters, PutSame

LEMMA PutSameSteps ==
  ASSUME LifeInv, [Next]_vars, \A j \in Jobs : ~SendPut(j) /\ ~SendLocked(j)
  PROVE  PutSame
<1>0. TypeOK /\ TasksPlacedOnce /\ Unsubmitted
  BY DEF LifeInv, IInv
<1>1. CASE (\A t \in Tasks : ~SubmitReady(t)) /\ ~WorkerStep
  BY <1>1, QuietSteps DEF JobsQuiet, QuietMove, PutSame
<1>2. ASSUME NEW t \in Tasks, SubmitReady(t) PROVE PutSame
  <2>1. CASE ~Known(t)
    BY <1>0, <1>2, <2>1, SubmitMoves DEF PutSame
  <2>2. CASE Known(t)
    <3>1. /\ jobs \in [Jobs -> JobStates] /\ Job(t) \in Jobs
          /\ jobs' = [jobs EXCEPT ![Job(t)] = "queued"]
      BY <1>0, <1>2, <2>2, SubmitMoves DEF TypeOK
    <3>2. jobs[Job(t)] = "none"
      BY <1>0, <1>2, <2>2 DEF Unsubmitted, SubmitReady
    <3> QED BY <3>1, <3>2 DEF PutSame
  <2> QED BY <2>1, <2>2
<1>3. ASSUME NEW k \in Jobs, Worker(k) PROVE PutSame
  <2>1. CASE PickUp(k) \/ StartLogic(k) \/ (\E ok \in BOOLEAN : EndLogic(k, ok))
    BY <1>0, <2>1 DEF PickUp, StartLogic, EndLogic, PutSame, TypeOK
  <2> QED BY <1>3, <2>1 DEF Worker
<1> QED BY <1>1, <1>2, <1>3 DEF WorkerStep

CountsSink == /\ counts' \in [Tasks -> Nat] /\ \A t \in Tasks : counts'[t] <= counts[t]
              /\ QueuesSame \/ \A t \in Tasks : counts'[t] = 0
              /\ dec' = dec

(* The steps that leave the messages where they are, or forget them all    *)
(* with their counts.                                                      *)
LEMMA SinkSteps ==
  ASSUME TypeOK, [Next]_vars, ~IngestMessage, ~FillBatch, ~Flush,
         \A ok \in BOOLEAN : ~CallbackReturn(ok),
         \A j \in Jobs : ~SendPut(j) /\ ~SendLocked(j)
  PROVE  CountsSink
<1>0. /\ counts \in [Tasks -> Nat]
      /\ QueuesSame \/ (messages' = << >> /\ UNCHANGED <<batch, incoming>>)
  BY QueueSteps DEF TypeOK
<1>1. ASSUME NEW js, ClearAll(js) PROVE CountsSink
  BY <1>0, <1>1 DEF ClearAll, CountsSink
<1>2. ASSUME NEW S, NEW g, RemoveInternal(S, g), UNCHANGED <<incoming, messages, batch, dec>>
      PROVE  CountsSink
  BY <1>0, <1>2 DEF RemoveInternal, CountsSink, QueuesSame
<1>3. ASSUME UNCHANGED <<counts, dec>>, QueuesSame PROVE CountsSink
  BY <1>0, <1>3 DEF CountsSink
<1>4. ASSUME NEW t \in Tasks, NEW h \in Handlers, AddTask(t, h) PROVE CountsSink
  BY <1>2, <1>3, <1>4 DEF AddTask, uiVars, QueuesSame
<1>5. ASSUME NEW t \in Tasks, RemoveTask(t) PROVE CountsSink
  BY <1>2, <1>5 DEF RemoveTask, uiVars
<1>6. ASSUME NEW S, Suspend(S) \/ Resume(S) PROVE CountsSink
  BY <1>3, <1>6 DEF Suspend, Resume, UnchangedByMoves, uiVars, QueuesSame
<1>7. SettingOrRead => UNCHANGED <<counts, dec>> /\ QueuesSame
  BY DEF SettingOrRead, SetExecutionPaused, SetMaxQueued, SetUpdateLimits, PopResult,
         PopFailedEvent, ClearFinished, ClearFailed, UnchangedByReads, UnchangedBySettings,
         uiVars, QueuesSame
<1>8. UpdateStart \/ CollectFinished \/ IngestEnd \/ DrainFailures \/ DispatchStart \/ DispatchEnd
        \/ FillEnd \/ (\E t \in Tasks : SubmitReady(t))
        => UNCHANGED <<counts, dec>> /\ QueuesSame
  BY DEF UpdateStart, CollectFinished, IngestEnd, DrainFailures, DispatchStart, DispatchEnd,
         FillEnd, SubmitReady, uiVars, QueuesSame
<1>9. ASSUME NEW j \in Jobs, Worker(j) PROVE UNCHANGED <<counts, dec>> /\ QueuesSame
  BY <1>9 DEF Worker, PickUp, StartLogic, EndLogic, UnchangedByWorker, uiVars, QueuesSame
<1>10. UNCHANGED vars => UNCHANGED <<counts, dec>> /\ QueuesSame
  BY DEF vars, uiVars, QueuesSame
<1>11. CASE Api
  <2>1. RemoveAll \/ Shutdown => \E js : ClearAll(js)
    BY DEF RemoveAll, Shutdown
  <2> QED BY <1>1, <1>3, <1>4, <1>5, <1>6, <1>7, <1>11, <2>1
    DEF Api, SettingOrRead, SuspendAll, SuspendTask, ResumeAll, ResumeTask
<1> QED BY <1>3, <1>8, <1>9, <1>10, <1>11 DEF Next, UpdateStep

(* The slots that will be released for an id.                              *)
Due(x, y, z, d, js, t) ==
  MessagesOf(x, t) + MessagesOf(y, t) + MessagesOf(z, t) + d[t] + Cardinality(PutJobs(js, t))

LEMMA HeldNext == LifeInv /\ SlotsAreHeld /\ [Next]_vars => SlotsAreHeld'
<1> SUFFICES ASSUME LifeInv, SlotsAreHeld, [Next]_vars, NEW t \in Tasks
             PROVE  counts'[t] <= Due(incoming', messages', batch', dec', jobs', t)
  BY DEF SlotsAreHeld, Outstanding, Putting, PutJobs, Due
<1>0. TypeOK /\ PhasesOK /\ TypeOK'
  BY TypeNext DEF LifeInv, IInv
<1> DEFINE c == counts[t]      c1 == counts'[t]
           i == MessagesOf(incoming, t)   i1 == MessagesOf(incoming', t)
           m == MessagesOf(messages, t)   m1 == MessagesOf(messages', t)
           b == MessagesOf(batch, t)      b1 == MessagesOf(batch', t)
           d == dec[t]         d1 == dec'[t]
           p == Cardinality(PutJobs(jobs, t))
           p1 == Cardinality(PutJobs(jobs', t))
<1>1. /\ c \in Nat /\ i \in Nat /\ m \in Nat /\ b \in Nat /\ d \in Nat /\ p \in Nat
      /\ c <= i + m + b + d + p
  <2>1. /\ c \in Nat /\ d \in Nat /\ p \in Nat
        /\ incoming \in Seq(Message) /\ messages \in Seq(Message) /\ batch \in Seq(Message)
    BY <1>0, PutJobsFinite DEF TypeOK
  <2>2. i \in Nat /\ m \in Nat /\ b \in Nat
    BY <2>1, CountType
  <2>3. c <= i + m + b + d + p
    BY DEF SlotsAreHeld, Outstanding, Putting, PutJobs
  <2> QED BY <2>1, <2>2, <2>3
<1>2. /\ c1 \in Nat /\ i1 \in Nat /\ m1 \in Nat /\ b1 \in Nat /\ d1 \in Nat /\ p1 \in Nat
  BY <1>0, CountType, PutJobsFinite DEF TypeOK
<1>3. c1 <= i1 + m1 + b1 + d1 + p1 => counts'[t] <= Due(incoming', messages', batch', dec', jobs', t)
  BY DEF Due
<1> DEFINE Goal == c1 <= i1 + m1 + b1 + d1 + p1
<1> SUFFICES Goal
  BY <1>3
<1>4. ASSUME CountsSink, PutSame PROVE Goal
  <2>1. c1 <= c /\ d1 = d /\ p1 = p
    BY <1>4, PuttingSame DEF CountsSink
  <2>2. c1 = 0 \/ (i1 = i /\ m1 = m /\ b1 = b)
    BY <1>4 DEF CountsSink, QueuesSame
  <2> HIDE DEF c, i, m, b, d, p, c1, i1, m1, b1, d1, p1
  <2> QED BY <1>1, <1>2, <2>1, <2>2
<1>5. ASSUME NEW l \in Message, DecrementCounts(One(l.id)) PROVE c1 = Monus(c, Mine(l, t))
  BY <1>5 DEF DecrementCounts, One, Mine
<1>6. CASE IngestMessage
  <2> DEFINE l == Head(incoming)
             k == Mine(l, t)
  <2>1. l \in Message /\ incoming # << >> /\ incoming \in Seq(Message) /\ messages \in Seq(Message)
    BY <1>0, <1>6, TailParts DEF IngestMessage, CanIngest, TypeOK
  <2>2. k \in {0, 1} /\ d1 = d /\ b1 = b /\ i = i1 + k
    <3>1. incoming' = Tail(incoming) /\ UNCHANGED <<batch, dec>>
      BY <1>6 DEF IngestMessage
    <3>2. i = MessagesOf(Tail(incoming), t) + k
      BY <2>1, CountTail
    <3> QED BY <3>1, <3>2 DEF Mine
  <2>3. p1 = p
    BY <1>6, PuttingSame, DecrementPuts DEF IngestMessage, PutSame
  <2>4. (c1 = Monus(c, k) /\ m1 = m) \/ (c1 = c /\ m1 = m + k)
    <3>1. CASE Stale(l)
      BY <1>5, <1>6, <2>1, <3>1 DEF IngestMessage
    <3>2. CASE ~Stale(l)
      <4>1. messages' = Append(messages, l) /\ counts' = counts
        BY <1>6, <3>2 DEF IngestMessage, Enqueue
      <4> QED BY <2>1, <4>1, CountAppend
    <3> QED BY <3>1, <3>2
  <2> HIDE DEF c, i, m, b, d, p, c1, i1, m1, b1, d1, p1, l, k
  <2> QED BY <1>1, <1>2, <2>2, <2>3, <2>4 DEF Monus
<1>7. CASE FillBatch
  <2> DEFINE l == Head(messages)
             k == Mine(l, t)
  <2>1. l \in Message /\ messages # << >> /\ messages \in Seq(Message) /\ batch \in Seq(Message)
    BY <1>0, <1>7, TailParts DEF FillBatch, TypeOK
  <2>2. k \in {0, 1} /\ d1 = d /\ i1 = i /\ m = m1 + k
    <3>1. messages' = Tail(messages) /\ UNCHANGED <<incoming, dec>>
      BY <1>7 DEF FillBatch
    <3>2. m = MessagesOf(Tail(messages), t) + k
      BY <2>1, CountTail
    <3> QED BY <3>1, <3>2 DEF Mine
  <2>3. p1 = p
    BY <1>7, PuttingSame, DecrementPuts DEF FillBatch, PutSame
  <2>4. (c1 = Monus(c, k) /\ b1 = b) \/ (c1 = c /\ b1 = b + k)
    <3>1. CASE Stale(l)
      BY <1>5, <1>7, <2>1, <3>1 DEF FillBatch
    <3>2. CASE ~Stale(l)
      <4>1. batch' = Append(batch, l) /\ counts' = counts
        BY <1>7, <3>2 DEF FillBatch, Enqueue
      <4> QED BY <2>1, <4>1, CountAppend
    <3> QED BY <3>1, <3>2
  <2> HIDE DEF c, i, m, b, d, p, c1, i1, m1, b1, d1, p1, l, k
  <2> QED BY <1>1, <1>2, <2>2, <2>3, <2>4 DEF Monus
<1>8. ASSUME NEW ok \in BOOLEAN, CallbackReturn(ok) PROVE Goal
  <2> DEFINE l == Head(batch)
             k == Mine(l, t)
  <2>1. l \in Message /\ batch # << >> /\ batch \in Seq(Message)
    BY <1>0, <1>8, TailParts DEF CallbackReturn, PhasesOK, TypeOK
  <2>2. k \in {0, 1} /\ c1 = c /\ i1 = i /\ m1 = m /\ p1 = p
    BY <1>8, PuttingSame DEF CallbackReturn, PutSame, Mine
  <2>3. b = b1 + k
    BY <1>8, <2>1, CountTail DEF CallbackReturn
  <2>4. d1 = d + k
    <3>1. dec' = [dec EXCEPT ![l.id] = @ + 1] /\ dec \in [Tasks -> Nat]
      BY <1>0, <1>8 DEF CallbackReturn, TypeOK
    <3> HIDE DEF l
    <3>2. CASE l.id = t
      BY <3>1, <3>2 DEF Mine
    <3>3. CASE l.id # t
      BY <3>1, <3>3 DEF Mine
    <3> QED BY <3>2, <3>3
  <2> HIDE DEF c, i, m, b, d, p, c1, i1, m1, b1, d1, p1, l, k
  <2> QED BY <1>1, <1>2, <2>2, <2>3, <2>4
<1>9. CASE Flush
  <2>1. c1 = Monus(c, d) /\ d1 = 0 /\ i1 = i /\ m1 = m /\ b1 = b
    BY <1>9 DEF Flush, DecrementCounts
  <2>2. p1 = p
    BY <1>9, PuttingSame, DecrementPuts DEF Flush
  <2> HIDE DEF c, i, m, b, d, p, c1, i1, m1, b1, d1, p1
  <2> QED BY <1>1, <1>2, <2>1, <2>2 DEF Monus
<1>10. ASSUME NEW j \in Jobs, SendPut(j) PROVE Goal
  <2> DEFINE l == [id |-> j[1], gen |-> stamp[j], from |-> j[2], n |-> sent[j]]
             k == Mine(l, t)
  <2>1. l \in Message /\ incoming \in Seq(Message)
    BY <1>0, <1>10, JobParts DEF SendPut, PhasesOK, Message, TypeOK
  <2>2. k \in {0, 1} /\ c1 = c /\ m1 = m /\ b1 = b /\ d1 = d
    BY <1>10 DEF SendPut, UnchangedByWorker, uiVars, Mine
  <2>3. i1 = i + k
    <3>1. incoming' = Append(incoming, l)
      BY <1>10 DEF SendPut, Enqueue
    <3> HIDE DEF l
    <3> QED BY <2>1, <3>1, CountAppend
  <2>4. p = p1 + k
    <3>1. /\ \A q \in Jobs : q # j => jobs[q] = jobs'[q]
          /\ jobs'[j] # "put" /\ jobs[j] = "put"
      BY <1>0, <1>10 DEF SendPut, TypeOK
    <3>2. p = p1 + (IF j[1] = t THEN 1 ELSE 0)
      BY <3>1, PutOnce
    <3> QED BY <3>2 DEF Mine
  <2> HIDE DEF c, i, m, b, d, p, c1, i1, m1, b1, d1, p1, l, k
  <2> QED BY <1>1, <1>2, <2>2, <2>3, <2>4
<1>11. ASSUME NEW j \in Jobs, SendLocked(j) PROVE Goal
  <2>1. i1 = i /\ m1 = m /\ b1 = b /\ d1 = d
    BY <1>11 DEF SendLocked, UnchangedByWorker, uiVars
  <2>2. ASSUME NEW s \in {"logic", "waitExec", "waitSlot"}, jobs' = [jobs EXCEPT ![j] = s],
               UNCHANGED counts
        PROVE  Goal
    <3>1. PutSame
      BY <1>0, <1>11, <2>2 DEF SendLocked, PutSame, TypeOK
    <3>2. c1 = c /\ p1 = p
      BY <2>2, <3>1, PuttingSame
    <3> HIDE DEF c, i, m, b, d, p, c1, i1, m1, b1, d1, p1
    <3> QED BY <1>1, <1>2, <2>1, <3>2
  <2>3. CASE jobs' = [jobs EXCEPT ![j] = "put"] /\ counts' = [counts EXCEPT ![j[1]] = @ + 1]
    <3> DEFINE k == IF j[1] = t THEN 1 ELSE 0
    <3>1. /\ \A q \in Jobs : q # j => jobs'[q] = jobs[q]
          /\ jobs[j] # "put" /\ jobs'[j] = "put"
      BY <1>0, <1>11, <2>3 DEF SendLocked, TypeOK
    <3>2. p1 = p + k
      BY <3>1, PutOnce
    <3>3. c1 = c + k
      <4>1. counts \in [Tasks -> Nat]
        BY <1>0 DEF TypeOK
      <4>2. CASE j[1] = t
        BY <2>3, <4>1, <4>2
      <4>3. CASE j[1] # t
        BY <2>3, <4>1, <4>3
      <4> QED BY <4>2, <4>3
    <3>4. k \in {0, 1}
      OBVIOUS
    <3> HIDE DEF c, i, m, b, d, p, c1, i1, m1, b1, d1, p1, k
    <3> QED BY <1>1, <1>2, <2>1, <3>2, <3>3, <3>4
  <2> QED BY <1>11, <2>2, <2>3 DEF SendLocked
<1>12. CASE /\ ~IngestMessage /\ ~FillBatch /\ ~Flush
            /\ \A ok \in BOOLEAN : ~CallbackReturn(ok)
            /\ \A j \in Jobs : ~SendPut(j) /\ ~SendLocked(j)
  BY <1>0, <1>4, <1>12, SinkSteps, PutSameSteps
<1> QED BY <1>6, <1>7, <1>8, <1>9, <1>10, <1>11, <1>12

(* No slot is counted without a message that will release it.              *)
THEOREM SlotsHeld == Spec => []SlotsAreHeld
<1>1. Init => SlotsAreHeld
  <2> SUFFICES ASSUME Init, NEW t \in Tasks PROVE counts[t] <= Outstanding(t)
    BY DEF SlotsAreHeld
  <2> DEFINE n == Outstanding(t)
  <2>1. /\ MessagesOf(incoming, t) = 0 /\ MessagesOf(messages, t) = 0
        /\ MessagesOf(batch, t) = 0 /\ dec[t] = 0 /\ counts[t] = 0
    BY CountEmpty DEF Init
  <2> QED BY <2>1, PutType DEF Outstanding
<1> QED BY SpecLifeInv, <1>1, HeldNext, PTL DEF Spec
=============================================================================
