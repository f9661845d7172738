--------------------------- MODULE TaskLifecycle ---------------------------
(***************************************************************************)
(* What TaskScheduler promises the program that adds tasks, without        *)
(* threads, queues, generations or messages: the life of a task from       *)
(* add_task to its outcome, and what is told about it.                     *)
(*                                                                         *)
(* A life goes absent -> pending <-> suspended, pending -> queued ->       *)
(* executing -> succeeded or raised -> absent, one stage after the other,  *)
(* unless the task is removed or one of its callbacks raises.  An id that  *)
(* is added again starts a life of its own: nothing of the one before      *)
(* ends it or is reported as its outcome.                                  *)
(***************************************************************************)
EXTENDS Integers, FiniteSets

CONSTANTS
  Tasks,       \* the task ids
  MaxWorkers   \* how many tasks may occupy the pool

VARIABLES
  stage,       \* how far the life of each id has come
  owed,        \* ids whose logic or callback raised, not reported yet
  stored,      \* ids with a result to read
  finishedIds, \* ids with a finished event
  failedIds    \* ids with a failed event

told == <<stored, finishedIds, failedIds>>
vars == <<stage, owed, told>>

Occupied == {"queued", "executing", "succeeded", "raised"}
Stages == {"absent", "pending", "suspended"} \cup Occupied
At(S) == {t \in Tasks : stage[t] \in S}
Move(S, s) == stage' = [t \in Tasks |-> IF t \in S THEN s ELSE stage[t]]

Init ==
  /\ stage = [t \in Tasks |-> "absent"]
  /\ owed = {}
  /\ stored = {}
  /\ finishedIds = {}
  /\ failedIds = {}

(* A new life, whatever stage the id's last one is at.  The result of a    *)
(* life that has ended may stay readable.                                  *)
Add(t) ==
  /\ Move({t}, "pending")
  /\ owed' = owed \ {t}
  /\ stored' \in {stored, stored \ {t}}
  /\ finishedIds' = finishedIds \ {t}
  /\ failedIds' = failedIds \ {t}

Remove(t) ==
  /\ Move({t}, "absent")
  /\ owed' = owed \ {t}
  /\ stored' = stored \ {t}
  /\ finishedIds' = finishedIds \ {t}
  /\ failedIds' = failedIds \ {t}

(* The ids of lives that ended by themselves keep the failure they are     *)
(* owed.                                                                   *)
RemoveAll ==
  /\ Move(Tasks, "absent")
  /\ owed' = owed \cap At({"absent"})
  /\ stored' = {}
  /\ UNCHANGED <<finishedIds, failedIds>>

Suspend(S) == Move(S \cap At({"pending"}), "suspended") /\ UNCHANGED <<owed, told>>
Resume(S) == Move(S \cap At({"suspended"}), "pending") /\ UNCHANGED <<owed, told>>

(* The pool: at most MaxWorkers lives are in it.                           *)
Submit(t) ==
  /\ stage[t] = "pending"
  /\ Cardinality(At(Occupied)) < MaxWorkers
  /\ Move({t}, "queued")
  /\ UNCHANGED <<owed, told>>
Execute(t) ==
  /\ stage[t] = "queued"
  /\ Move({t}, "executing")
  /\ UNCHANGED <<owed, told>>
End(t, s) ==
  /\ stage[t] = "executing"
  /\ Move({t}, s)
  /\ UNCHANGED <<owed, told>>

(* Every life that has ended is collected: a success is told at once, a    *)
(* failure is owed.                                                        *)
Collect ==
  /\ Move(At({"succeeded", "raised"}), "absent")
  /\ owed' = owed \cup At({"raised"})
  /\ stored' = stored \cup At({"succeeded"})
  /\ finishedIds' = finishedIds \cup At({"succeeded"})
  /\ UNCHANGED failedIds

(* A callback raises: it may be that of a life that has ended.             *)
CallbackRaises(t) == owed' = owed \cup {t} /\ UNCHANGED <<stage, told>>

(* Every failure that is owed is told, and ends the life of its id.        *)
TellFailures ==
  /\ Move(owed, "absent")
  /\ owed' = {}
  /\ failedIds' = failedIds \cup owed
  /\ UNCHANGED <<stored, finishedIds>>

(* Results and events are read and cleared.                                *)
Read ==
  /\ stored' \subseteq stored
  /\ finishedIds' \subseteq finishedIds
  /\ failedIds' \subseteq failedIds
  /\ UNCHANGED <<stage, owed>>

Next ==
  \/ \E t \in Tasks : \/ Add(t) \/ Remove(t) \/ Submit(t) \/ Execute(t)
                      \/ CallbackRaises(t)
                      \/ \E s \in {"succeeded", "raised"} : End(t, s)
  \/ \E S \in SUBSET Tasks : Suspend(S) \/ Resume(S)
  \/ RemoveAll \/ Collect \/ TellFailures \/ Read

Spec == Init /\ [][Next]_vars
=============================================================================
