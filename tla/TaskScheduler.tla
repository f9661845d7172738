---------------------------- MODULE TaskScheduler ----------------------------
(***************************************************************************)
(* gui_do/scheduling/task_scheduler.py: a thread pool whose tasks report   *)
(* to the UI thread through messages, completions and failures.            *)
(*                                                                         *)
(* Three kinds of actors take steps: the UI thread, which calls the API    *)
(* and runs update(); the pool's worker threads, each running one job; and *)
(* the callbacks of the messages, which the UI thread runs with no lock    *)
(* held and which may call the API.  One RLock protects the dictionaries;  *)
(* its two Conditions, _message_slots_changed and                          *)
(* _execution_state_changed, are where a worker blocks.                    *)
(*                                                                         *)
(* A job is one submission: the pair of a task id and the generation it    *)
(* was added with.  A generation is submitted at most once, so the pair    *)
(* also identifies the Future (`task.future is not completion.future`).    *)
(*                                                                         *)
(* Data left out: payloads, results, error texts, telemetry, and the order *)
(* of _pending and _suspended (sets here: any pending task may be          *)
(* submitted next) and of the completion and failure queues (sets too:     *)
(* each is emptied before anything else looks at it).                      *)
(***************************************************************************)
EXTENDS Integers, Sequences, FiniteSets

CONSTANTS
  Tasks,        \* the task ids the program uses
  MaxWorkers,   \* max_workers, normalised to at least 1 by __init__
  Handlers,     \* whether tasks are added with a message_method
  QueueLimits,  \* the values of max_queued_messages_per_task, 0 for None
  UpdateLimits, \* the limits of one update, see UpdateLimit
  NoTask,       \* the value of _tasks.get(id) for an unknown id
  MaxGen,       \* bound of the model: largest generation of a task
  MaxSends      \* bound of the model: messages one job sends

(* ingest and dispatch are message limits, 0 for None; `budget` says that  *)
(* a dispatch time budget is set; `size` is the batch size, 1 under a      *)
(* budget and otherwise the 32 of _dispatch_messages.                      *)
UpdateLimit == [ingest : Nat, dispatch : Nat, budget : BOOLEAN, size : Nat]

Gens == 1 .. MaxGen
TaskRec == [gen : Gens, handler : BOOLEAN]
Jobs == Tasks \X Gens

ASSUME TaskSchedulerAssumption ==
  /\ IsFiniteSet(Tasks)
  /\ MaxWorkers \in Nat \ {0}
  /\ Handlers \subseteq BOOLEAN
  /\ QueueLimits \subseteq Nat
  /\ UpdateLimits \subseteq UpdateLimit
  /\ NoTask \notin TaskRec
  /\ MaxGen \in Nat
  /\ MaxSends \in Nat

VARIABLES
  tasks,       \* _tasks: the record of each known task
  pending,     \* _pending
  suspended,   \* _suspended
  running,     \* _running
  generation,  \* _task_generation (0: no entry)
  counts,      \* _task_message_counts (0: no entry)
  results,     \* _results: generation whose result is stored, 0 for none
  finished,    \* _finished_events: generation that finished, 0 for none
  failed,      \* _failed_events: generation that failed, 0 for none
  paused,      \* _execution_paused
  maxQueued,   \* _max_queued_messages_per_task
  limits,      \* _message_ingest_limit and the two dispatch limits
  incoming,    \* _incoming_messages
  messages,    \* _task_messages
  failures,    \* _incoming_failures
  completions, \* _incoming_completions
  ui,          \* where the UI thread is
  quota,       \* messages ingested or dispatched so far in this phase
  room,        \* iterations left in the loop that fills a batch
  batch,       \* _dispatch_batch_buffer, the undelivered part
  dec,         \* _dispatch_decrement_buffer
  jobs,        \* where the worker thread of each job is
  sent,        \* messages each job has counted in
  stamp        \* generation of the message a job is about to put, or 0

eventVars == <<results, finished, failed>>
settingVars == <<paused, maxQueued, limits>>
sendVars == <<sent, stamp>>
uiVars == <<ui, quota, room, batch, dec>>
vars == <<tasks, pending, suspended, running, generation, counts, eventVars,
          settingVars, incoming, messages, failures, completions, uiVars,
          jobs, sent, stamp>>

(* gen is the generation send_message stamps; from (the generation of the  *)
(* job that sends) and n (its number among the job's messages) are labels  *)
(* of the model that let properties speak about the origin of a message.   *)
Message == [id : Tasks, gen : Gens, from : Gens, n : Nat]
Failure == [id : Tasks, gen : Gens]
Completion == [id : Tasks, gen : Gens, ok : BOOLEAN]

UiStates == {"idle", "submit", "drain", "fail1", "dispatch", "fill",
             "callback", "flush", "fail2", "down"}

(* start: about to evaluate _wait_if_execution_paused; logic: in the       *)
(* task's logic; retry: woken inside send_message; put: the message is     *)
(* counted but not yet in _incoming_messages.                              *)
Executing == {"start", "waitStart", "logic", "retry", "waitExec", "waitSlot",
              "put"}
JobStates == Executing \cup {"none", "queued", "done", "cancelled"}

TypeOK ==
  /\ tasks \in [Tasks -> TaskRec \cup {NoTask}]
  /\ pending \in SUBSET Tasks
  /\ suspended \in SUBSET Tasks
  /\ running \in SUBSET Tasks
  /\ generation \in [Tasks -> 0 .. MaxGen]
  /\ counts \in [Tasks -> Nat]
  /\ results \in [Tasks -> 0 .. MaxGen]
  /\ finished \in [Tasks -> 0 .. MaxGen]
  /\ failed \in [Tasks -> 0 .. MaxGen]
  /\ paused \in BOOLEAN
  /\ maxQueued \in QueueLimits
  /\ limits \in UpdateLimits
  /\ incoming \in Seq(Message)
  /\ messages \in Seq(Message)
  /\ failures \in SUBSET Failure
  /\ completions \in SUBSET Completion
  /\ ui \in UiStates
  /\ quota \in Nat
  /\ room \in Nat
  /\ batch \in Seq(Message)
  /\ dec \in [Tasks -> Nat]
  /\ jobs \in [Jobs -> JobStates]
  /\ sent \in [Jobs -> 0 .. MaxSends]
  /\ stamp \in [Jobs -> 0 .. MaxGen]

Init ==
  /\ tasks = [t \in Tasks |-> NoTask]
  /\ pending = {}
  /\ suspended = {}
  /\ running = {}
  /\ generation = [t \in Tasks |-> 0]
  /\ counts = [t \in Tasks |-> 0]
  /\ results = [t \in Tasks |-> 0]
  /\ finished = [t \in Tasks |-> 0]
  /\ failed = [t \in Tasks |-> 0]
  /\ paused = FALSE
  /\ maxQueued \in QueueLimits
  /\ limits \in UpdateLimits
  /\ incoming = << >>
  /\ messages = << >>
  /\ failures = {}
  /\ completions = {}
  /\ ui = "idle"
  /\ quota = 0
  /\ room = 0
  /\ batch = << >>
  /\ dec = [t \in Tasks |-> 0]
  /\ jobs = [j \in Jobs |-> "none"]
  /\ sent = [j \in Jobs |-> 0]
  /\ stamp = [j \in Jobs |-> 0]

Known(t) == tasks[t] # NoTask
Job(t) == <<t, generation[t]>>
NeverStale(m) == FALSE
Stale(m) == generation[m.id] # m.gen

(* The UI thread holds the lock from submitting to the end of the ingest   *)
(* and while it fills a batch; an API call takes and releases the lock in  *)
(* one step.  (Between the two locked regions of an ingest only workers    *)
(* act, and they only append to _incoming_messages.)                       *)
UiHoldsLock == ui \in {"submit", "drain", "fill"}

(* Where the UI thread may call the API: between updates, and from the     *)
(* callback of the message at the head of the batch.                       *)
InApp == ui \in {"idle", "callback"}

(* The append of a Queue and of a deque.                                   *)
AppendLeft(q, m) == <<m>> \o q
Enqueue(q, m) == Append(q, m)

(* notify_all() on _message_slots_changed and _execution_state_changed.    *)
NoWakeup(js) == js
WakeSlotWaiters(js) ==
  [j \in Jobs |-> IF js[j] = "waitSlot" THEN "retry" ELSE js[j]]
WakePauseWaiters(js) ==
  [j \in Jobs |-> IF js[j] = "waitStart" THEN "start"
                  ELSE IF js[j] = "waitExec" THEN "retry" ELSE js[j]]

PlainMinus(a, b) == a - b
Monus(a, b) == IF a > b THEN a - b ELSE 0

(* _decrement_message_count_locked for the amounts in d: an id with no     *)
(* count is left alone, and the waiters are notified if any id had one.    *)
DecrementCounts(d) ==
  /\ counts' = [t \in Tasks |-> Monus(counts[t], d[t])]
  /\ jobs' = IF \E t \in Tasks : d[t] > 0 /\ counts[t] > 0
               THEN WakeSlotWaiters(jobs) ELSE jobs

NotReleased(id) == [t \in Tasks |-> 0]
One(id) == [t \in Tasks |-> IF t = id THEN 1 ELSE 0]

-----------------------------------------------------------------------------
(* The API.                                                                *)

(* The Futures _remove_task_internal cancels when the ids S are removed:   *)
(* those of the running tasks, where the pool has not started the job.     *)
Cancelled(S) ==
  {j \in Jobs : /\ j[1] \in S \cap running
                /\ Known(j[1]) /\ j[2] = generation[j[1]]
                /\ jobs[j] = "queued"}
CancelJobs(C) == [j \in Jobs |-> IF j \in C THEN "cancelled" ELSE jobs[j]]

(* A cancelled Future runs its done callback, which enqueues a completion. *)
CancelCompletions(C) == {[id |-> j[1], gen |-> j[2], ok |-> FALSE] : j \in C}

(* _remove_task_internal for each id in S, with the new generations g.     *)
RemoveInternal(S, g) ==
  /\ generation' = g
  /\ suspended' = suspended \ S
  /\ running' = running \ S
  /\ counts' = [t \in Tasks |-> IF t \in S THEN 0 ELSE counts[t]]
  /\ results' = [t \in Tasks |-> IF t \in S THEN 0 ELSE results[t]]
  /\ jobs' = WakeSlotWaiters(CancelJobs(Cancelled(S)))
  /\ completions' = completions \cup CancelCompletions(Cancelled(S))

Placed(t) == Known(t) \/ t \in running \cup pending \cup suspended

(* add_task: a task already known under the id is removed first, and the   *)
(* new one takes the next generation.  The id's events are dropped; its    *)
(* stored result goes only with a removal.                                 *)
AddTask(t, h) ==
  LET g == generation[t] + (IF Placed(t) THEN 2 ELSE 1)
      newGeneration == [generation EXCEPT ![t] = g]
  IN
  /\ InApp
  /\ g <= MaxGen
  /\ failed' = [failed EXCEPT ![t] = 0]
  /\ finished' = [finished EXCEPT ![t] = 0]
  /\ IF Placed(t)
       THEN RemoveInternal({t}, newGeneration)
       ELSE /\ generation' = newGeneration
            /\ UNCHANGED <<suspended, running, counts, results, jobs,
                           completions>>
  /\ tasks' = [tasks EXCEPT ![t] = [gen |-> g, handler |-> h]]
  /\ pending' = pending \cup {t}
  /\ UNCHANGED <<settingVars, incoming, messages, failures, uiVars, sendVars>>

(* remove_tasks for one id; several ids are several such calls, with no    *)
(* step of another thread that could tell the difference.                  *)
RemoveTask(t) ==
  /\ InApp
  /\ generation[t] < MaxGen
  /\ RemoveInternal({t}, [generation EXCEPT ![t] = @ + 1])
  /\ tasks' = [tasks EXCEPT ![t] = NoTask]
  /\ pending' = pending \ {t}
  /\ finished' = [finished EXCEPT ![t] = 0]
  /\ failed' = [failed EXCEPT ![t] = 0]
  /\ UNCHANGED <<settingVars, incoming, messages, failures, uiVars, sendVars>>

(* remove_all as a part of an action: every known task is removed, then    *)
(* the dictionaries are cleared whatever they hold.  Events stay.          *)
ClearAll(js) ==
  /\ \A t \in Tasks : Known(t) => generation[t] < MaxGen
  /\ generation' = [t \in Tasks |-> IF Known(t) THEN generation[t] + 1
                                                ELSE generation[t]]
  /\ tasks' = [t \in Tasks |-> NoTask]
  /\ pending' = {}
  /\ suspended' = {}
  /\ running' = {}
  /\ counts' = [t \in Tasks |-> 0]
  /\ results' = [t \in Tasks |-> 0]
  /\ messages' = << >>
  /\ jobs' = WakeSlotWaiters(js)
  /\ UNCHANGED <<finished, failed, maxQueued, limits, incoming, failures,
                 quota, room, batch, dec, sendVars>>

RemoveAll ==
  /\ InApp
  /\ ClearAll(CancelJobs(Cancelled(Tasks)))
  /\ completions' = completions \cup CancelCompletions(Cancelled(Tasks))
  /\ UNCHANGED <<paused, ui>>

(* shutdown: a paused scheduler is released, everything is removed, and    *)
(* the pool cancels what it has not started.  No call follows.             *)
QueuedJobs == {j \in Jobs : jobs[j] = "queued"}
Shutdown ==
  /\ ui = "idle"
  /\ paused' = FALSE
  /\ ClearAll(WakePauseWaiters(CancelJobs(QueuedJobs)))
  /\ completions' = completions \cup CancelCompletions(QueuedJobs)
  /\ ui' = "down"

UnchangedByMoves ==
  UNCHANGED <<tasks, running, generation, counts, eventVars, settingVars,
              incoming, messages, failures, completions, uiVars, jobs, sendVars>>

(* suspend_all and suspend_tasks move pending tasks only: a running one is *)
(* not affected.                                                           *)
SuspendableOrRunning(S) == S \cap (pending \cup running)
Suspendable(S) == S \cap pending
Suspend(S) ==
  /\ InApp
  /\ suspended' = suspended \cup Suspendable(S)
  /\ pending' = pending \ S
  /\ UnchangedByMoves
SuspendAll == Suspend(Tasks)
SuspendTask(t) == Suspend({t})

(* resume_all and resume_tasks.                                            *)
Resume(S) ==
  /\ InApp
  /\ pending' = pending \cup {t \in S \cap suspended : Known(t)}
  /\ suspended' = suspended \ S
  /\ UnchangedByMoves
ResumeAll == Resume(Tasks)
ResumeTask(t) == Resume({t})

UnchangedBySettings ==
  UNCHANGED <<tasks, pending, suspended, running, generation, counts,
              eventVars, incoming, messages, failures, completions, uiVars,
              sendVars>>

SetExecutionPaused(p) ==
  /\ InApp
  /\ paused' = p
  /\ jobs' = WakePauseWaiters(jobs)
  /\ UNCHANGED <<maxQueued, limits>>
  /\ UnchangedBySettings

SetMaxQueued(q) ==
  /\ InApp
  /\ maxQueued' = q
  /\ jobs' = WakeSlotWaiters(jobs)
  /\ UNCHANGED <<paused, limits>>
  /\ UnchangedBySettings

(* set_message_dispatch_limit, set_message_dispatch_time_budget_ms and     *)
(* set_message_ingest_limit.                                               *)
SetUpdateLimits(l) ==
  /\ InApp
  /\ limits' = l
  /\ UNCHANGED <<paused, maxQueued, jobs>>
  /\ UnchangedBySettings

UnchangedByReads ==
  UNCHANGED <<tasks, pending, suspended, running, generation, counts,
              settingVars, incoming, messages, failures, completions, uiVars,
              jobs, sendVars>>

PopResult(t) ==
  /\ InApp
  /\ results' = [results EXCEPT ![t] = 0]
  /\ UNCHANGED <<finished, failed>>
  /\ UnchangedByReads

PopFailedEvent(t) ==
  /\ InApp
  /\ failed' = [failed EXCEPT ![t] = 0]
  /\ UNCHANGED <<results, finished>>
  /\ UnchangedByReads

(* clear_finished_tasks and clear_failed_tasks; clear_events is both.      *)
ClearFinished ==
  /\ InApp
  /\ finished' = [t \in Tasks |-> 0]
  /\ UNCHANGED <<results, failed>>
  /\ UnchangedByReads
ClearFailed ==
  /\ InApp
  /\ failed' = [t \in Tasks |-> 0]
  /\ UNCHANGED <<results, finished>>
  /\ UnchangedByReads

-----------------------------------------------------------------------------
(* update(), on the UI thread.                                             *)

UpdateStart ==
  /\ ui = "idle"
  /\ ui' = "submit"
  /\ UNCHANGED <<tasks, pending, suspended, running, generation, counts,
                 eventVars, settingVars, incoming, messages, failures,
                 completions, quota, room, batch, dec, jobs, sendVars>>

CanSubmitOneMore == pending # {} /\ Cardinality(running) <= MaxWorkers
CanSubmit == pending # {} /\ Cardinality(running) < MaxWorkers

(* One iteration of _submit_ready_tasks.                                   *)
SubmitReady(t) ==
  /\ ui = "submit"
  /\ CanSubmit
  /\ t \in pending
  /\ pending' = pending \ {t}
  /\ IF Known(t)
       THEN /\ jobs' = [jobs EXCEPT ![<<t, tasks[t].gen>>] = "queued"]
            /\ running' = running \cup {t}
       ELSE UNCHANGED <<jobs, running>>
  /\ UNCHANGED <<tasks, suspended, generation, counts, eventVars, settingVars,
                 incoming, messages, failures, completions, uiVars, sendVars>>

(* The completions _collect_finished_tasks does not skip.                  *)
AcceptedFailuresIgnored ==
  {c \in completions : c.ok /\ generation[c.id] = c.gen /\ Known(c.id)}
AcceptedOfUnknown == {c \in completions : generation[c.id] = c.gen}
AcceptedOfAnyGeneration == {c \in completions : Known(c.id)}
Accepted == {c \in completions : /\ generation[c.id] = c.gen
                                 /\ Known(c.id) /\ tasks[c.id].gen = c.gen}

IdsOf(S) == {e.id : e \in S}
GenIn(S, t) == (CHOOSE e \in S : e.id = t).gen

CollectFinished ==
  LET done == {c \in Accepted : c.ok}
      raised == {c \in Accepted : ~c.ok}
  IN
  /\ ui = "submit"
  /\ ~CanSubmit
  /\ completions' = {}
  /\ running' = running \ IdsOf(Accepted)
  /\ results' = [t \in Tasks |-> IF t \in IdsOf(done) THEN GenIn(done, t)
                                                      ELSE results[t]]
  /\ finished' = [t \in Tasks |-> IF t \in IdsOf(done) THEN GenIn(done, t)
                                                       ELSE finished[t]]
  /\ failures' = failures \cup {[id |-> c.id, gen |-> c.gen] : c \in raised}
  /\ tasks' = [t \in Tasks |-> IF t \in IdsOf(Accepted) THEN NoTask
                                                         ELSE tasks[t]]
  /\ ui' = "drain"
  /\ quota' = 0
  /\ UNCHANGED <<pending, suspended, generation, counts, failed, settingVars,
                 incoming, messages, room, batch, dec, jobs, sendVars>>

CanIngest == /\ incoming # << >>
             /\ limits.ingest = 0 \/ quota < limits.ingest

(* One message of _drain_messages: a message of a past generation is       *)
(* dropped and its slot released.                                          *)
IngestMessage ==
  LET m == Head(incoming) IN
  /\ ui = "drain"
  /\ CanIngest
  /\ incoming' = Tail(incoming)
  /\ IF Stale(m)
       THEN DecrementCounts(One(m.id)) /\ UNCHANGED messages
       ELSE messages' = Enqueue(messages, m) /\ UNCHANGED <<counts, jobs>>
  /\ quota' = quota + 1
  /\ UNCHANGED <<tasks, pending, suspended, running, generation, eventVars,
                 settingVars, failures, completions, ui, room, batch, dec, sendVars>>

IngestEnd ==
  /\ ui = "drain"
  /\ ~CanIngest
  /\ ui' = "fail1"
  /\ quota' = 0
  /\ UNCHANGED <<tasks, pending, suspended, running, generation, counts,
                 eventVars, settingVars, incoming, messages, failures,
                 completions, room, batch, dec, jobs, sendVars>>

(* _drain_failures, called before and after the dispatch.                  *)
DrainFailures ==
  LET hit == {f \in failures : generation[f.id] = f.gen} IN
  /\ ui \in {"fail1", "fail2"}
  /\ ui' = IF ui = "fail1" THEN "dispatch" ELSE "idle"
  /\ failures' = {}
  /\ failed' = [t \in Tasks |-> IF t \in IdsOf(hit) THEN GenIn(hit, t)
                                                   ELSE failed[t]]
  /\ tasks' = [t \in Tasks |-> IF t \in IdsOf(hit) THEN NoTask ELSE tasks[t]]
  /\ running' = running \ IdsOf(hit)
  /\ UNCHANGED <<pending, suspended, generation, counts, results, finished,
                 settingVars, incoming, messages, completions, quota, room,
                 batch, dec, jobs, sendVars>>

(* The tests at the top of the loop of _dispatch_messages.  Under a budget *)
(* the loop may stop after any message: the elapsed time is not modelled.  *)
LimitReached == limits.dispatch # 0 /\ quota >= limits.dispatch
CanDispatch == messages # << >> /\ ~LimitReached
MayStopDispatch == ~CanDispatch \/ (limits.budget /\ quota > 0)

DispatchStart ==
  /\ ui = "dispatch"
  /\ CanDispatch
  /\ ui' = "fill"
  /\ room' = IF limits.dispatch # 0 /\ limits.dispatch - quota < limits.size
               THEN limits.dispatch - quota ELSE limits.size
  /\ UNCHANGED <<tasks, pending, suspended, running, generation, counts,
                 eventVars, settingVars, incoming, messages, failures,
                 completions, quota, batch, dec, jobs, sendVars>>

DispatchEnd ==
  /\ ui = "dispatch"
  /\ MayStopDispatch
  /\ ui' = "fail2"
  /\ quota' = 0
  /\ UNCHANGED <<tasks, pending, suspended, running, generation, counts,
                 eventVars, settingVars, incoming, messages, failures,
                 completions, room, batch, dec, jobs, sendVars>>

(* One iteration of the loop that fills the batch, under the lock.         *)
FillBatch ==
  LET m == Head(messages) IN
  /\ ui = "fill"
  /\ room > 0 /\ messages # << >>
  /\ messages' = Tail(messages)
  /\ room' = room - 1
  /\ IF Stale(m)
       THEN DecrementCounts(One(m.id)) /\ UNCHANGED batch
       ELSE batch' = Enqueue(batch, m) /\ UNCHANGED <<counts, jobs>>
  /\ UNCHANGED <<tasks, pending, suspended, running, generation, eventVars,
                 settingVars, incoming, failures, completions, ui, quota, dec,
                 sendVars>>

FillEnd ==
  /\ ui = "fill"
  /\ room = 0 \/ messages = << >>
  /\ ui' = IF batch = << >> THEN "dispatch" ELSE "callback"
  /\ room' = 0
  /\ UNCHANGED <<tasks, pending, suspended, running, generation, counts,
                 eventVars, settingVars, incoming, messages, failures,
                 completions, quota, batch, dec, jobs, sendVars>>

(* The callback of the head of the batch returns or raises.                *)
CallbackReturn(ok) ==
  LET m == Head(batch) IN
  /\ ui = "callback"
  /\ failures' = IF ok THEN failures
                 ELSE failures \cup {[id |-> m.id, gen |-> m.gen]}
  /\ dec' = [dec EXCEPT ![m.id] = @ + 1]
  /\ batch' = Tail(batch)
  /\ quota' = quota + 1
  /\ ui' = IF Tail(batch) = << >> THEN "flush" ELSE "callback"
  /\ UNCHANGED <<tasks, pending, suspended, running, generation, counts,
                 eventVars, settingVars, incoming, messages, completions, room,
                 jobs, sendVars>>

(* The slots of the delivered batch are released together.                 *)
Flush ==
  /\ ui = "flush"
  /\ DecrementCounts(dec)
  /\ dec' = [t \in Tasks |-> 0]
  /\ ui' = "dispatch"
  /\ UNCHANGED <<tasks, pending, suspended, running, generation, eventVars,
                 settingVars, incoming, messages, failures, completions, quota,
                 room, batch, sendVars>>

-----------------------------------------------------------------------------
(* The worker threads.                                                     *)

UnchangedByWorker ==
  UNCHANGED <<tasks, pending, suspended, running, generation, eventVars,
              settingVars, messages, failures, uiVars>>

(* ThreadPoolExecutor: one of at most MaxWorkers threads takes a queued    *)
(* job.                                                                    *)
PickUp(j) ==
  /\ jobs[j] = "queued"
  /\ Cardinality({k \in Jobs : jobs[k] \in Executing}) < MaxWorkers
  /\ jobs' = [jobs EXCEPT ![j] = "start"]
  /\ UNCHANGED <<counts, incoming, completions, sendVars>>
  /\ UnchangedByWorker

(* _wait_if_execution_paused.                                              *)
StartLogic(j) ==
  /\ jobs[j] = "start"
  /\ ~UiHoldsLock
  /\ jobs' = [jobs EXCEPT ![j] = IF paused THEN "waitStart" ELSE "logic"]
  /\ UNCHANGED <<counts, incoming, completions, sendVars>>
  /\ UnchangedByWorker

CanSend(t) == Known(t) /\ tasks[t].handler

(* send_message under the lock, entered or re-entered after a wait: an     *)
(* unknown id or a missing handler raises ValueError into the logic.       *)
SendLocked(j) ==
  LET t == j[1] IN
  /\ jobs[j] \in {"logic", "retry"}
  /\ ~UiHoldsLock
  /\ sent[j] < MaxSends
  /\ \/ /\ ~CanSend(t)
        /\ jobs' = [jobs EXCEPT ![j] = "logic"]
        /\ UNCHANGED <<counts, sendVars>>
     \/ /\ CanSend(t) /\ paused
        /\ jobs' = [jobs EXCEPT ![j] = "waitExec"]
        /\ UNCHANGED <<counts, sendVars>>
     \/ /\ CanSend(t) /\ ~paused
        /\ maxQueued # 0 /\ counts[t] >= maxQueued
        /\ jobs' = [jobs EXCEPT ![j] = "waitSlot"]
        /\ UNCHANGED <<counts, sendVars>>
     \/ /\ CanSend(t) /\ ~paused
        /\ maxQueued = 0 \/ counts[t] < maxQueued
        /\ jobs' = [jobs EXCEPT ![j] = "put"]
        /\ counts' = [counts EXCEPT ![t] = @ + 1]
        /\ sent' = [sent EXCEPT ![j] = @ + 1]
        /\ stamp' = [stamp EXCEPT ![j] = tasks[t].gen]
  /\ UNCHANGED <<incoming, completions>>
  /\ UnchangedByWorker

(* The put on _incoming_messages, after the lock is released.              *)
SendPut(j) ==
  /\ jobs[j] = "put"
  /\ incoming' = Enqueue(incoming, [id |-> j[1], gen |-> stamp[j],
                                    from |-> j[2], n |-> sent[j]])
  /\ jobs' = [jobs EXCEPT ![j] = "logic"]
  /\ stamp' = [stamp EXCEPT ![j] = 0]
  /\ UNCHANGED <<counts, completions, sent>>
  /\ UnchangedByWorker

(* The logic returns or raises, and the Future's done callback runs.       *)
EndLogic(j, ok) ==
  /\ jobs[j] = "logic"
  /\ jobs' = [jobs EXCEPT ![j] = "done"]
  /\ completions' = completions \cup {[id |-> j[1], gen |-> j[2], ok |-> ok]}
  /\ UNCHANGED <<counts, incoming, sendVars>>
  /\ UnchangedByWorker

-----------------------------------------------------------------------------
Api ==
  \/ \E t \in Tasks, h \in Handlers : AddTask(t, h)
  \/ \E t \in Tasks : RemoveTask(t)
  \/ RemoveAll
  \/ Shutdown
  \/ SuspendAll
  \/ \E t \in Tasks : SuspendTask(t)
  \/ ResumeAll
  \/ \E t \in Tasks : ResumeTask(t)
  \/ \E p \in BOOLEAN : SetExecutionPaused(p)
  \/ \E q \in QueueLimits : SetMaxQueued(q)
  \/ \E l \in UpdateLimits : SetUpdateLimits(l)
  \/ \E t \in Tasks : PopResult(t)
  \/ \E t \in Tasks : PopFailedEvent(t)
  \/ ClearFinished
  \/ ClearFailed

(* What the UI thread does once update() is called, callbacks included.    *)
UpdateStep ==
  \/ \E t \in Tasks : SubmitReady(t)
  \/ CollectFinished
  \/ IngestMessage
  \/ IngestEnd
  \/ DrainFailures
  \/ DispatchStart
  \/ DispatchEnd
  \/ FillBatch
  \/ FillEnd
  \/ \E ok \in BOOLEAN : CallbackReturn(ok)
  \/ Flush

Worker(j) ==
  \/ PickUp(j)
  \/ StartLogic(j)
  \/ SendLocked(j)
  \/ SendPut(j)
  \/ \E ok \in BOOLEAN : EndLogic(j, ok)

Next ==
  \/ Api
  \/ UpdateStart
  \/ UpdateStep
  \/ \E j \in Jobs : Worker(j)

Spec == Init /\ [][Next]_vars

(* The frame loop of gui_application.py calls update() on the scheduler of *)
(* the active scene, which is never paused; update() runs to its end if    *)
(* the callbacks return; the pool's threads are scheduled; a logic that is *)
(* not blocked ends.  A thread that needs the lock gets it if the UI       *)
(* thread keeps releasing it: between two frames it sleeps in clock.tick.  *)
Fairness ==
  /\ WF_vars(UpdateStart /\ ~paused)
  /\ WF_vars(UpdateStep)
  /\ \A j \in Jobs :
       /\ WF_vars(PickUp(j))
       /\ SF_vars(StartLogic(j))
       /\ SF_vars(SendLocked(j) /\ jobs[j] = "retry")
       /\ WF_vars(SendPut(j))
       /\ WF_vars(\E ok \in BOOLEAN : EndLogic(j, ok))

FairSpec == Spec /\ Fairness

-----------------------------------------------------------------------------
(* Properties.                                                             *)

(* A known task is in exactly one of _pending, _suspended and _running,    *)
(* under the generation the id has now; a running id is known.  (The id    *)
(* of a failed task may stay pending or suspended after it is gone.)       *)
TasksPlacedOnce ==
  \A t \in Tasks :
    /\ Known(t) => /\ t \in pending \cup suspended \cup running
                   /\ tasks[t].gen = generation[t]
    /\ ~(t \in pending /\ t \in suspended)
    /\ ~(t \in running /\ t \in pending \cup suspended)
    /\ t \in running => Known(t)

(* _submit_ready_tasks never exceeds the workers.                          *)
RunningBounded == Cardinality(running) <= MaxWorkers

(* A running id always has a completion to come, in the pool or queued:    *)
(* otherwise its worker slot would be lost for ever.                       *)
NoSlotLeak ==
  \A t \in running :
    \/ jobs[Job(t)] \in Executing \cup {"queued"}
    \/ \E c \in completions : c.id = t /\ c.gen = generation[t]

MessagesOf(q, t) == Cardinality({i \in DOMAIN q : q[i].id = t})
Putting(t) == Cardinality({j \in Jobs : j[1] = t /\ jobs[j] = "put"})
Outstanding(t) ==
  MessagesOf(incoming, t) + MessagesOf(messages, t) + MessagesOf(batch, t)
    + dec[t] + Putting(t)

(* A slot is never counted without a message that will release it, so that *)
(* a blocked send_message cannot wait for a slot nobody holds.             *)
SlotsAreHeld == \A t \in Tasks : counts[t] <= Outstanding(t)

(* No lost wakeup: a thread waits on a condition only while the reason it  *)
(* began to wait for still holds.                                          *)
NoLostWakeup ==
  \A j \in Jobs :
    /\ jobs[j] = "waitSlot" => maxQueued # 0 /\ counts[j[1]] >= maxQueued
    /\ jobs[j] \in {"waitStart", "waitExec"} => paused

(* The messages of a job are ingested, dispatched and delivered in the     *)
(* order the job sent them.                                                *)
SendOrderKept ==
  LET q == batch \o messages \o incoming IN
  \A i, k \in DOMAIN q :
    i < k /\ q[i].id = q[k].id /\ q[i].from = q[k].from => q[i].n < q[k].n

(* Results and events are only ever recorded for the generation the id has *)
(* at that moment: a task that was removed or replaced reports nothing.    *)
OnlyCurrentReports ==
  [][\A t \in Tasks :
       /\ results'[t] \notin {0, results[t]} => results'[t] = generation'[t]
       /\ finished'[t] \notin {0, finished[t]} => finished'[t] = generation'[t]
       /\ failed'[t] \notin {0, failed[t]} => failed'[t] = generation'[t]]_vars

(* A callback starts only for a message of the task's present generation.  *)
(* Under a time budget, the setting of every scene's scheduler, a batch is *)
(* one message and this holds whatever the callbacks do.                   *)
StartsCurrent ==
  [][(ui' = "callback" /\ (ui # "callback" \/ batch' # batch))
        => generation'[Head(batch').id] = Head(batch').gen]_vars

(* What the docstring of TaskScheduler promises, "queue limits": the       *)
(* messages queued for a task are never more than the limit in force when  *)
(* they were accepted.                                                     *)
LargestLimit == CHOOSE q \in QueueLimits : \A r \in QueueLimits : r <= q
QueueLimitKept ==
  0 \notin QueueLimits =>
    \A t \in Tasks :
      Cardinality({i \in DOMAIN incoming : incoming[i].id = t /\ ~Stale(incoming[i])})
        + Cardinality({i \in DOMAIN messages : messages[i].id = t /\ ~Stale(messages[i])})
      <= LargestLimit

(* A blocked sender is released, unless the scheduler stays paused.        *)
SendersReleased ==
  \A j \in Jobs : (jobs[j] = "waitSlot") ~> (jobs[j] # "waitSlot" \/ paused)

(* A running task leaves _running: it ends, fails, or is removed.          *)
RunningEnds ==
  \A t \in Tasks : (<>[]~paused) => ((t \in running) ~> (t \notin running))

(* After shutdown() every worker thread comes to its end, so that nothing  *)
(* keeps the process alive.                                                *)
ShutdownEndsThreads ==
  (ui = "down") ~> (\A j \in Jobs : jobs[j] \in {"none", "done", "cancelled"})

-----------------------------------------------------------------------------
(* What the dictionaries, the pool and the queues mean for a task's life.  *)

HasEnded(t, ok) == [id |-> t, gen |-> generation[t], ok |-> ok] \in completions
PoolStage(t) ==
  IF jobs[Job(t)] = "queued" THEN "queued"
  ELSE IF jobs[Job(t)] \in Executing THEN "executing"
  ELSE IF HasEnded(t, TRUE) THEN "succeeded" ELSE "raised"
LifeStage ==
  [t \in Tasks |-> IF ~Known(t) THEN "absent"
                   ELSE IF t \in running THEN PoolStage(t)
                   ELSE IF t \in suspended THEN "suspended" ELSE "pending"]
OwedFailures == {t \in Tasks : [id |-> t, gen |-> generation[t]] \in failures}
IdsIn(f) == {t \in Tasks : f[t] # 0}

Life == INSTANCE TaskLifecycle WITH
          stage <- LifeStage, owed <- OwedFailures, stored <- IdsIn(results),
          finishedIds <- IdsIn(finished), failedIds <- IdsIn(failed)

(* The scheduler implements the life of a task: it runs once, ends once,   *)
(* is told to have finished only after it ran to its end, never exceeds    *)
(* the pool, and inherits nothing from an earlier task of the same id.     *)
ImplementsLifecycle == Life!Spec
==============================================================================
