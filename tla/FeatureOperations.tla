-------------------------- MODULE FeatureOperations --------------------------
(***************************************************************************)
(* The operations of a feature (gui_do/features/runtime_facilities.py) and *)
(* the two runtimes that call them (features/runtime_systems.py): sagas    *)
(* and workflows, whose steps may wait for an operation, and the durable   *)
(* queue, whose records are operations to be made.                         *)
(*                                                                         *)
(* All of it runs on the frame thread.  A frame runs the timers that are   *)
(* due, then pumps the runs and the queue; between frames, and in deferred *)
(* handlers, the program completes, fails or cancels operations.  What a   *)
(* handler does is one step.  opNext is the dispatch that call() or a      *)
(* retry has begun: nothing else happens before it has ended.              *)
(***************************************************************************)
EXTENDS Integers, FiniteSets, SequencesExt, SequenceFilter

CONSTANTS
    Runs,           \* the workflow and saga runs the program starts
    StepCount,          \* number of steps of each
    Keys,           \* idempotency keys of durable records
    MaxCalls,       \* bound: operations called
    MaxRetries,     \* bound: retries of the failure policy
    MaxEnqueued,    \* bound: records enqueued
    MaxRestarts,    \* bound: restarts of the program
    RecordLimit,    \* max_records of the queue
    InflightLimit   \* max_inflight of the queue

ASSUME OperationAssumption ==
    /\ {StepCount, RecordLimit, InflightLimit} \subseteq Nat \ {0}
    /\ {MaxCalls, MaxRetries, MaxEnqueued, MaxRestarts} \subseteq Nat

VARIABLES
    policy,      \* the operation's failure policy
    opStatus,    \* status of each handle, "unused" before call()
    opTimers,    \* its timers, in the order in which they were added
    opBatch,     \* callbacks that Timers.update() has still to run
    opNext,      \* <<>>, or the handle and attempt being dispatched
    runs,        \* the runs: SagaRun and WorkflowRun
    records,     \* _records of the durable queue
    counter,     \* _counter of the durable queue
    inflight,    \* _inflight_pending
    stored,      \* the records in the storage
    enqueued,    \* history: records enqueued so far
    ended,       \* history: those that have ended
    at,          \* what the frame is doing
    unpumped,    \* the runs it has still to pump
    index,       \* the place of the record it looks at
    processed,   \* whether pump() has counted a record
    restarts     \* restarts so far

operationVars   == <<policy, opStatus, opTimers, opBatch, opNext>>
queueVars == <<records, counter, inflight, stored, enqueued, ended>>
frameVars == <<at, unpumped, index, processed>>
opVars    == <<operationVars, runs, queueVars, frameVars, restarts>>

Handles   == 1 .. MaxCalls
NoHandle  == 0
Settled   == {"completed", "failed", "cancelled", "timeout"}
Ended     == {"completed", "failed", "cancelled"}

TimeoutOf(h) == [kind |-> "timeout", h |-> h, attempt |-> 0]

OpTimer  == [kind : {"timeout", "retry"}, h : Handles, attempt : 0 .. MaxRetries]
Run    == [kind : {"workflow", "saga"},
           status : {"none", "running"} \cup Ended,
           step : 1 .. StepCount + 1, handle : Handles \cup {NoHandle},
           done : Seq(1 .. StepCount), undone : Seq(1 .. StepCount)]
\* `uid` is history: it tells records apart whose record_id is the same.
Record == [id : Nat, uid : 1 .. MaxEnqueued, key : Keys,
           status : {"pending", "running"} \cup Ended,
           handle : Handles \cup {NoHandle}]

Used == Cardinality({h \in Handles : opStatus[h] # "unused"})

-----------------------------------------------------------------------------
(* FeatureOperationBus.                                                    *)

(* What is left of the timers when those of a handle are cleared: timers   *)
(* that update() has collected already run all the same.                   *)
WithoutTimers(h) == SelectSeq(opTimers, LAMBDA t : t.h # h)

(* Mutant: an operation that is over is settled again.                     *)
SettlesAgain(h) == opStatus[h] # "unused"

Settles(h) == opStatus[h] = "pending"

(* complete(), fail(), cancel() and _timeout().                            *)
Settle(h, status) ==
    IF Settles(h)
    THEN /\ opStatus' = [opStatus EXCEPT ![h] = status]
         /\ opTimers' = WithoutTimers(h)
    ELSE UNCHANGED <<opStatus, opTimers>>

(* call(): the handle, its timeout, and the first dispatch to come.        *)
Called(h) ==
    /\ opStatus' = [opStatus EXCEPT ![h] = "pending"]
    /\ opTimers' = IF policy.timeout
                   THEN Append(opTimers, TimeoutOf(h))
                   ELSE opTimers
    /\ opNext' = <<h, 0>>
    /\ UNCHANGED <<policy, opBatch>>

Retries(attempt) == attempt < policy.retries

(* _dispatch(): the handler runs.  It may settle its own operation (`own`) *)
(* before it returns, defers or raises.  The operation is not looked at    *)
(* before the handler is called, nor before a retry is arranged.           *)
Dispatch ==
    /\ opNext # <<>>
    /\ LET h == opNext[1]
           attempt == opNext[2]
       IN \E own \in {"pending", "completed", "failed", "cancelled"},
             out \in {"return", "defer", "raise"} :
          LET retry  == out = "raise" /\ Retries(attempt)
              now    == IF Settles(h) THEN own ELSE opStatus[h]
              final  == IF now # "pending" \/ retry \/ out = "defer" THEN now
                        ELSE IF out = "return" THEN "completed" ELSE "failed"
              left   == IF final = "pending" THEN opTimers ELSE WithoutTimers(h)
          IN
          /\ opStatus' = [opStatus EXCEPT ![h] = final]
          /\ opTimers' = IF retry /\ policy.delayed
                         THEN Append(left, [kind |-> "retry", h |-> h,
                                            attempt |-> attempt + 1])
                         ELSE left
          /\ opNext' = IF retry /\ ~policy.delayed THEN <<h, attempt + 1>> ELSE <<>>
    /\ UNCHANGED <<policy, opBatch, runs, queueVars, frameVars, restarts>>

(* Whoever holds the handle or the context ends or cancels the operation.  *)
SettleLater(h, status) ==
    /\ opNext = <<>>
    /\ at \in {"idle", "timers"}
    /\ opStatus[h] # "unused"
    /\ Settle(h, status)
    /\ UNCHANGED <<policy, opBatch, opNext,
                   runs, queueVars, frameVars, restarts>>

(* Timers.update(): the callbacks of the timers that are due are collected *)
(* before the first of them runs.  Any of the timers may be due.           *)
BeginFrame(due) ==
    /\ at = "idle"
    /\ opNext = <<>>
    /\ opBatch' = SelectSeq(opTimers, LAMBDA t : t \in due)
    /\ opTimers' = SelectSeq(opTimers, LAMBDA t : t \notin due)
    /\ at' = "timers"
    /\ UNCHANGED <<policy, opStatus, opNext, runs, queueVars,
                   unpumped, index, processed, restarts>>

RunTimer ==
    /\ at = "timers"
    /\ opNext = <<>>
    /\ opBatch # <<>>
    /\ opBatch' = Tail(opBatch)
    /\ IF Head(opBatch).kind = "timeout"
       THEN /\ Settle(Head(opBatch).h, "timeout")
            /\ UNCHANGED opNext
       ELSE /\ opNext' = <<Head(opBatch).h, Head(opBatch).attempt>>
            /\ UNCHANGED <<opStatus, opTimers>>
    /\ UNCHANGED <<policy, runs, queueVars, frameVars, restarts>>

-----------------------------------------------------------------------------
(* SagaCompensationRuntime and WorkflowCoordinator.                        *)

StartRun(r, kind) ==
    /\ at = "idle"
    /\ opNext = <<>>
    /\ runs[r].status = "none"
    /\ runs' = [runs EXCEPT ![r].status = "running", ![r].kind = kind]
    /\ UNCHANGED <<operationVars, queueVars, frameVars, restarts>>

(* on_update(): budgets and policies may let the pumps do nothing.         *)
BeginRuns(admitted) ==
    /\ at = "timers"
    /\ opBatch = <<>>
    /\ opNext = <<>>
    /\ at' = "runs"
    /\ unpumped' = {r \in Runs : runs[r].kind \in admitted /\ runs[r].status = "running"}
    /\ UNCHANGED <<operationVars, runs, queueVars, index, processed, restarts>>

(* Mutant: compensation in the order in which the steps were done.         *)
UndoneForward(run) == run.done

Undone(run) == Reverse(run.done)

(* _compensate(): what is done is undone, whatever the compensators do.    *)
Failed(run) ==
    [run EXCEPT !.status = "failed",
                !.undone = IF run.kind = "saga" THEN Undone(run) ELSE @]

(* The run once the operation it waited for is over.                       *)
Answered(run) ==
    IF run.handle = NoHandle THEN run
    ELSE LET free == [run EXCEPT !.handle = NoHandle] IN
         CASE opStatus[run.handle] = "completed" -> [free EXCEPT !.step = @ + 1]
           [] opStatus[run.handle] = "cancelled" /\ run.kind = "workflow" ->
                [free EXCEPT !.status = "cancelled"]
           [] OTHER -> Failed(free)

(* _pump_one(): the answer waited for, then the next step.  A step counts  *)
(* as done when its handler has returned, also while its operation runs.   *)
PumpRun(r) ==
    /\ at = "runs"
    /\ opNext = <<>>
    /\ r \in unpumped
    /\ unpumped' = unpumped \ {r}
    /\ LET run  == Answered(runs[r])
           next == [run EXCEPT !.done = Append(@, run.step)]
       IN
       \/ /\ opStatus[runs[r].handle] = "pending"
          /\ UNCHANGED <<runs, operationVars>>
       \/ /\ opStatus[runs[r].handle] # "pending"
          /\ run.status # "running" \/ run.step > StepCount
          /\ runs' = [runs EXCEPT ![r] =
                 IF run.status = "running" THEN [run EXCEPT !.status = "completed"]
                 ELSE run]
          /\ UNCHANGED operationVars
       \/ /\ opStatus[runs[r].handle] # "pending"
          /\ run.status = "running" /\ run.step <= StepCount
          /\ \/ /\ runs' = [runs EXCEPT ![r] = [next EXCEPT !.step = @ + 1]]
                /\ UNCHANGED operationVars
             \/ /\ runs' = [runs EXCEPT ![r] = Failed(run)]
                /\ UNCHANGED operationVars
             \/ /\ Used < MaxCalls
                /\ Called(Used + 1)
                /\ runs' = [runs EXCEPT ![r] = [next EXCEPT !.handle = Used + 1]]
    /\ UNCHANGED <<queueVars, at, index, processed, restarts>>

-----------------------------------------------------------------------------
(* DurableOperationQueueRuntime.                                           *)

Saved(recs) == [i \in DOMAIN recs |-> [recs[i] EXCEPT !.handle = NoHandle]]

(* _find_record_by_idempotency().                                          *)
Known(key) ==
    \E i \in DOMAIN records : records[i].key = key /\ records[i].status # "failed"

(* Mutant: the oldest records are removed, also those that have not ended. *)
TrimmedOldest(recs) ==
    IF Len(recs) <= RecordLimit THEN recs
    ELSE SubSeq(recs, Len(recs) - RecordLimit + 1, Len(recs))

(* _trim_to_budget(): the oldest of those that have ended.                 *)
Trimmed(recs) ==
    LET over == Len(recs) - RecordLimit
        Rank(i) == Cardinality({j \in 1 .. i : recs[j].status \in Ended})
        oldest == {i \in DOMAIN recs : recs[i].status \in Ended /\ Rank(i) <= over}
    IN  Excluding(recs, {recs[i] : i \in oldest})

Enqueue(key) ==
    /\ at \in {"idle", "timers"}
    /\ opNext = <<>>
    /\ ~Known(key)
    /\ enqueued < MaxEnqueued
    /\ LET rec == [id |-> counter + 1, uid |-> enqueued + 1, key |-> key,
                   status |-> "pending", handle |-> NoHandle]
       IN  records' = Trimmed(Append(records, rec))
    /\ stored' = Saved(records')
    /\ counter' = counter + 1
    /\ enqueued' = enqueued + 1
    /\ UNCHANGED <<operationVars, runs, inflight, ended, frameVars, restarts>>

BeginQueue(admitted) ==
    /\ at = "runs"
    /\ opNext = <<>>
    /\ unpumped = {}
    /\ at' = "queue"
    /\ index' = IF admitted THEN 1 ELSE Len(records) + 1
    /\ processed' = FALSE
    /\ UNCHANGED <<operationVars, runs, queueVars, unpumped, restarts>>

(* _commit_handle(): reached when the handle is no longer pending, so that *)
(* _inflight_pending is never counted down here.                           *)
Commit(i) ==
    LET s == opStatus[records[i].handle] IN
    /\ records' = [records EXCEPT ![i].handle = NoHandle,
                      ![i].status = IF s = "timeout" THEN "failed" ELSE s]
    /\ ended' = ended \cup {records[i].uid}

(* pump(), at the record `index`.  A record whose operation is over when   *)
(* call() returns is not counted, and alone leaves the storage as it is.   *)
PumpRecord ==
    /\ at = "queue"
    /\ opNext = <<>>
    /\ index <= Len(records)
    /\ LET rec == records[index] IN
       \/ /\ rec.status \in Ended \/ opStatus[rec.handle] = "pending"
          /\ index' = index + 1
          /\ UNCHANGED <<operationVars, records, ended, at, processed>>
       \/ /\ rec.handle # NoHandle /\ opStatus[rec.handle] # "pending"
          /\ Commit(index)
          /\ index' = index + 1
          /\ processed' = TRUE
          /\ UNCHANGED <<operationVars, at>>
       \/ /\ rec.status \notin Ended /\ rec.handle = NoHandle
          /\ inflight >= InflightLimit \/ Used = MaxCalls
          /\ index' = Len(records) + 1
          /\ UNCHANGED <<operationVars, records, ended, at, processed>>
       \/ /\ rec.status \notin Ended /\ rec.handle = NoHandle
          /\ inflight < InflightLimit /\ Used < MaxCalls
          /\ Called(Used + 1)
          /\ records' = [records EXCEPT ![index].handle = Used + 1,
                                        ![index].status = "running"]
          /\ at' = "called"
          /\ UNCHANGED <<ended, index, processed>>
    /\ UNCHANGED <<runs, counter, inflight, stored, enqueued, unpumped, restarts>>

(* Back from call().                                                       *)
PumpCalled ==
    /\ at = "called"
    /\ opNext = <<>>
    /\ at' = "queue"
    /\ index' = index + 1
    /\ IF opStatus[records[index].handle] = "pending"
       THEN /\ inflight' = inflight + 1
            /\ processed' = TRUE
            /\ UNCHANGED <<records, ended>>
       ELSE /\ Commit(index)
            /\ UNCHANGED <<inflight, processed>>
    /\ UNCHANGED <<operationVars, runs, counter, stored, enqueued, unpumped, restarts>>

EndFrame ==
    /\ at = "queue"
    /\ opNext = <<>>
    /\ index > Len(records)
    /\ stored' = IF processed THEN Saved(records) ELSE stored
    /\ at' = "idle"
    /\ UNCHANGED <<operationVars, runs, records, counter, inflight, enqueued, ended,
                   unpumped, index, processed, restarts>>

-----------------------------------------------------------------------------
(* The end of the runtime, and the next one.                               *)

(* _restore_records() from what the storage has, with a new bus.           *)
Restart(storage) ==
    /\ restarts < MaxRestarts
    /\ restarts' = restarts + 1
    /\ stored' = storage
    /\ records' = storage
    /\ counter' = Len(storage)
    /\ inflight' = 0
    /\ opStatus' = [h \in DOMAIN opStatus |->
          IF opStatus[h] = "pending" THEN "cancelled" ELSE opStatus[h]]
    /\ opTimers' = <<>>
    /\ opBatch' = <<>>
    /\ opNext' = <<>>
    /\ runs' = [r \in Runs |->
          IF runs[r].status = "running"
          THEN [runs[r] EXCEPT !.status = "cancelled", !.handle = NoHandle]
          ELSE runs[r]]
    /\ at' = "idle"
    /\ unpumped' = {}
    /\ UNCHANGED <<policy, enqueued, index, processed>>

(* dispose(): operations that run are cancelled for good, in the storage   *)
(* too; then bind_runtime() again.                                         *)
Dispose ==
    /\ at = "idle"
    /\ opNext = <<>>
    /\ LET Running(i) == opStatus[records[i].handle] = "pending" IN
       /\ Restart(Saved([i \in DOMAIN records |->
             IF Running(i) THEN [records[i] EXCEPT !.status = "cancelled"]
             ELSE records[i]]))
       /\ ended' = ended \cup {records[i].uid : i \in {j \in DOMAIN records : Running(j)}}

(* The process ends anywhere.                                              *)
Crash ==
    /\ Restart(stored)
    /\ ended' = {u \in ended :
          \A i \in DOMAIN stored : stored[i].uid = u => stored[i].status \in Ended}

-----------------------------------------------------------------------------
OpsInit ==
    /\ policy \in [retries : 0 .. MaxRetries, delayed : BOOLEAN, timeout : BOOLEAN]
    /\ opStatus = [h \in Handles \cup {NoHandle} |-> "unused"]
    /\ opTimers = <<>> /\ opBatch = <<>> /\ opNext = <<>>
    /\ runs = [r \in Runs |-> [kind |-> "workflow", status |-> "none", step |-> 1,
                               handle |-> NoHandle, done |-> <<>>, undone |-> <<>>]]
    /\ records = <<>> /\ stored = <<>>
    /\ counter = 0 /\ inflight = 0 /\ enqueued = 0 /\ restarts = 0
    /\ ended = {}
    /\ at = "idle" /\ unpumped = {} /\ index = 1 /\ processed = FALSE

RunFrame ==
    \/ \E due \in SUBSET ToSet(opTimers) : BeginFrame(due)
    \/ RunTimer
    \/ \E admitted \in SUBSET {"workflow", "saga"} : BeginRuns(admitted)
    \/ \E admitted \in BOOLEAN : BeginQueue(admitted)
    \/ \E r \in Runs : PumpRun(r)
    \/ PumpRecord
    \/ PumpCalled
    \/ EndFrame

OpsNext ==
    \/ Dispatch
    \/ RunFrame
    \/ \E h \in Handles, s \in Ended : SettleLater(h, s)
    \/ \E r \in Runs, kind \in {"workflow", "saga"} : StartRun(r, kind)
    \/ \E k \in Keys : Enqueue(k)
    \/ Dispose
    \/ Crash

TimeoutDue(h) ==
    \E due \in SUBSET ToSet(opTimers) : TimeoutOf(h) \in due /\ BeginFrame(due)

(* Frames go on and end, and each timeout is due in some frame.            *)
OpsFairness ==
    /\ WF_opVars(Dispatch)
    /\ WF_opVars(RunFrame)
    /\ \A h \in Handles : SF_opVars(TimeoutDue(h))

OpsSpec == OpsInit /\ [][OpsNext]_opVars /\ OpsFairness

-----------------------------------------------------------------------------
OpsTypeOK ==
    /\ policy \in [retries : 0 .. MaxRetries, delayed : BOOLEAN, timeout : BOOLEAN]
    /\ opStatus \in [Handles \cup {NoHandle} -> {"unused", "pending"} \cup Settled]
    /\ {opTimers, opBatch} \subseteq Seq(OpTimer)
    /\ opNext = <<>> \/ opNext \in Handles \X (0 .. MaxRetries)
    /\ processed \in BOOLEAN
    /\ runs \in [Runs -> Run]
    /\ {records, stored} \subseteq Seq(Record)
    /\ {counter, inflight, enqueued, restarts, index} \subseteq Nat
    /\ ended \subseteq 1 .. MaxEnqueued
    /\ at \in {"idle", "timers", "runs", "queue", "called"}
    /\ unpumped \subseteq Runs

(* A run does its steps once each and in their order; a saga that has      *)
(* failed has undone exactly those it did, the last one first, and no      *)
(* other run has undone anything.  It has completed only with all of them. *)
RunsDoAndUndo ==
    \A r \in Runs :
        LET run == runs[r] IN
        /\ run.done = [i \in 1 .. Len(run.done) |-> i]
        /\ run.undone = IF run.kind = "saga" /\ run.status = "failed"
                        THEN Reverse(run.done) ELSE <<>>
        /\ run.status = "completed" => Len(run.done) = StepCount
        /\ run.status = "running" =>
              Len(run.done) = run.step - IF run.handle = NoHandle THEN 1 ELSE 0

(* What was enqueued and has not ended is in the queue and in the storage, *)
(* whatever is trimmed and whenever the process ends, and a key has one    *)
(* record that has not failed.                                             *)
DurableKept ==
    /\ \A u \in 1 .. enqueued \ ended :
          \E i \in DOMAIN records, j \in DOMAIN stored :
              /\ records[i].uid = u /\ stored[j].uid = u
              /\ {records[i].status, stored[j].status} \cap Ended = {}
    /\ \A i, j \in DOMAIN records :
          /\ records[i].key = records[j].key
          /\ "failed" \notin {records[i].status, records[j].status}
          => i = j

(* An operation is settled once: a late completion, the timeout or a       *)
(* cancellation of one that is over changes nothing.                       *)
SettledOnce ==
    [][\A h \in Handles : opStatus[h] \in Settled => opStatus'[h] = opStatus[h]]_opVars

(* An operation with a timeout ends, deferred, retried or neither.         *)
OperationsEnd ==
    \A h \in Handles :
        (opStatus[h] = "pending" /\ policy.timeout) ~> (opStatus[h] \in Settled)

OperationsSettle == SettledOnce /\ OperationsEnd
=============================================================================
