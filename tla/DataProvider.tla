----------------------------- MODULE DataProvider -----------------------------
(***************************************************************************)
(* AsyncDataProvider (gui_do/data/async_data_provider.py) on top of what   *)
(* TaskScheduler promises (TaskLifecycle): a load is a task with the       *)
(* provider's id, whose outcome update() fetches.                          *)
(*                                                                         *)
(* The listeners that are told of a state may load, cancel and reset       *)
(* again.  Meanwhile the program may suspend and remove tasks.             *)
(***************************************************************************)
EXTENDS Integers, Sequences

CONSTANTS
    Job,           \* the provider's task id
    ListenerCount, \* listeners of the provider
    MaxLoads       \* bound: calls of load()

ASSUME ProviderAssumption == {ListenerCount, MaxLoads} \subseteq Nat

VARIABLES
    jobStage, jobOwed, jobStored, jobFinished, jobFailed,  \* the scheduler
    loadState,   \* kind of _state
    data,        \* its data: the load it came from
    holds,       \* whether _task_id is set
    loadCalls,   \* calls of load(), _set_state() and listeners, innermost first
    loads,       \* tasks added so far
    storedLoad,  \* the load whose result is stored
    strayed      \* history: update() gave up a task that was suspended

Life == INSTANCE TaskLifecycle WITH
    Tasks <- {Job}, MaxWorkers <- 1, stage <- jobStage, owed <- jobOwed,
    stored <- jobStored, finishedIds <- jobFinished, failedIds <- jobFailed

jobVars      == <<jobStage, jobOwed, jobStored, jobFinished, jobFailed, storedLoad>>
ownVars      == <<loadState, data, holds, loadCalls, loads, strayed>>
providerVars == <<jobVars, ownVars>>

(* The program calls between frames, and in a listener.                    *)
Calling == IF loadCalls = <<>> THEN TRUE ELSE loadCalls[1].kind = "listener"

(* _set_state(): the listeners are told one after the other.               *)
SetState(kind, from, under) ==
    /\ loadState' = kind /\ data' = from
    /\ loadCalls' = <<[kind |-> "tell", left |-> ListenerCount]>> \o under

-----------------------------------------------------------------------------
(* The task that is held is removed.                                       *)
(* Mutant: it is only forgotten.                                           *)
Forgotten == UNCHANGED <<jobStage, jobOwed, jobStored, jobFinished, jobFailed>>
LetGo == IF holds THEN Life!Remove(Job)
         ELSE UNCHANGED <<jobStage, jobOwed, jobStored, jobFinished, jobFailed>>

(* cancel(), and load(), which goes on when cancel() has told everybody.   *)
CancelLoad(reload) ==
    LET under == IF reload THEN <<[kind |-> "load", left |-> 0]>> \o loadCalls ELSE loadCalls IN
    /\ Calling
    /\ reload => loads + Len(SelectSeq(loadCalls, LAMBDA c : c.kind = "load")) < MaxLoads
    /\ LetGo
    /\ holds' = FALSE
    /\ IF loadState = "idle" THEN loadCalls' = under /\ UNCHANGED <<loadState, data>>
       ELSE SetState("idle", 0, under)
    /\ UNCHANGED <<loads, storedLoad, strayed>>

AddLoad ==
    /\ loadCalls # <<>> /\ loadCalls[1].kind = "load"
    /\ loads' = loads + 1
    /\ Life!Add(Job)
    /\ holds' = TRUE
    /\ SetState("loading", 0, Tail(loadCalls))
    /\ UNCHANGED <<storedLoad, strayed>>

(* reset() tells nobody.                                                   *)
ResetLoad ==
    /\ Calling
    /\ holds \/ loadState # "idle"
    /\ LetGo
    /\ holds' = FALSE /\ loadState' = "idle" /\ data' = 0
    /\ UNCHANGED <<loadCalls, loads, storedLoad, strayed>>

(* update(): a task that is suspended is not active either, and counts as  *)
(* removed.                                                                *)
PollLoad ==
    /\ loadCalls = <<>>
    /\ holds /\ loadState = "loading"
    /\ jobStage[Job] \in {"absent", "suspended"}
    /\ holds' = FALSE
    /\ jobStored' = {} /\ jobFinished' = jobFinished
    /\ jobFailed' = IF jobStored # {} THEN jobFailed ELSE {}
    /\ Life!Read
    /\ IF jobStored # {} THEN SetState("loaded", storedLoad, <<>>)
       ELSE SetState(IF jobFailed # {} THEN "failed" ELSE "idle", 0, <<>>)
    /\ strayed' = (strayed \/ jobStage[Job] = "suspended")
    /\ UNCHANGED <<loads, storedLoad>>

TellListener ==
    /\ loadCalls # <<>> /\ loadCalls[1].kind = "tell"
    /\ loadCalls' = IF loadCalls[1].left = 0 THEN Tail(loadCalls)
                 ELSE <<[kind |-> "listener", left |-> 0],
                        [loadCalls[1] EXCEPT !.left = @ - 1]>> \o Tail(loadCalls)
    /\ UNCHANGED <<jobVars, loadState, data, holds, loads, strayed>>

ListenerReturns ==
    /\ loadCalls # <<>> /\ loadCalls[1].kind = "listener"
    /\ loadCalls' = Tail(loadCalls)
    /\ UNCHANGED <<jobVars, loadState, data, holds, loads, strayed>>

-----------------------------------------------------------------------------
(* The scheduler: its workers at any time, its update() and the program's  *)
(* other calls between those of the provider.                              *)
Works ==
    /\ \/ Life!Execute(Job)
       \/ \E s \in {"succeeded", "raised"} : Life!End(Job, s)
    /\ UNCHANGED <<ownVars, storedLoad>>

CollectLoad ==
    /\ loadCalls = <<>> /\ jobOwed = {}
    /\ Life!Collect
    /\ storedLoad' = IF jobStage[Job] = "succeeded" THEN loads ELSE storedLoad
    /\ UNCHANGED ownVars

TellLoad ==
    /\ jobOwed # {}
    /\ Life!TellFailures
    /\ UNCHANGED <<ownVars, storedLoad>>

Schedules ==
    /\ loadCalls = <<>> /\ jobOwed = {}
    /\ \/ Life!Submit(Job)
       \/ Life!Suspend({Job})
       \/ Life!Resume({Job})
       \/ Life!RemoveAll
    /\ UNCHANGED <<ownVars, storedLoad>>

ProviderInit ==
    /\ Life!Init
    /\ loadState = "idle" /\ data = 0 /\ holds = FALSE
    /\ loadCalls = <<>> /\ loads = 0 /\ storedLoad = 0 /\ strayed = FALSE

ProviderNext ==
    \/ jobOwed = {} /\ \/ \E reload \in BOOLEAN : CancelLoad(reload)
                       \/ AddLoad
                       \/ ResetLoad
                       \/ PollLoad
                       \/ TellListener
                       \/ ListenerReturns
    \/ Works
    \/ CollectLoad
    \/ TellLoad
    \/ Schedules

ProviderSpec == ProviderInit /\ [][ProviderNext]_providerVars

-----------------------------------------------------------------------------
ProviderTypeOK ==
    /\ jobStage \in [{Job} -> Life!Stages]
    /\ {jobOwed, jobStored, jobFinished, jobFailed} \subseteq SUBSET {Job}
    /\ loadState \in {"idle", "loading", "loaded", "failed"}
    /\ {data, loads, storedLoad} \subseteq 0 .. MaxLoads
    /\ {holds, strayed} \subseteq BOOLEAN

(* Data is that of the newest load; and a provider that is not loading has *)
(* left nothing in the scheduler, neither a task nor an outcome that a     *)
(* later load could take for its own -- whatever listeners did when they   *)
(* were told, and whatever was removed meanwhile; but not when update()    *)
(* ran while the task was suspended.                                       *)
ProviderSafe ==
    ~strayed =>
        /\ loadState = "loaded" => data = loads
        /\ loadState # "loading" =>
              jobStage[Job] = "absent" /\ jobOwed \cup jobStored \cup jobFailed = {}
=============================================================================
