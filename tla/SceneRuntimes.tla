---------------------------- MODULE SceneRuntimes ----------------------------
(***************************************************************************)
(* The scenes of GuiApplication (gui_do/app/gui_application.py): each has  *)
(* a runtime with its own TaskScheduler, of which only the active scene's  *)
(* is updated; the others are paused and their tasks suspended until the   *)
(* scene is active again.  The toasts belong to the application and are    *)
(* put aside with the scene they were shown in.                            *)
(*                                                                         *)
(* Everything happens on the frame thread, between frames or in a callback *)
(* of update().  Of a scheduler only the place of each task is kept (see   *)
(* TaskScheduler for the rest).                                            *)
(***************************************************************************)
EXTENDS Naturals, Sequences

CONSTANTS
    Scenes,        \* scene names
    Default,       \* "default", the scene the application starts in
    Tasks,         \* task ids
    Toasts,        \* the toasts the program shows, each once
    MaxVisible,    \* toasts visible at once
    NoScene        \* no scene

ASSUME SceneAssumption == Default \in Scenes /\ NoScene \notin Scenes
ASSUME VisibleAssumption == MaxVisible \in Nat \ {0}

VARIABLES
    registered,    \* the keys of _scenes
    active,        \* _active_scene_name
    paused,        \* _execution_paused of each scene's scheduler
    place,         \* where each scene's scheduler has each task
    auto,          \* scene_auto_suspended
    shown,         \* _toasts
    aside,         \* _suspended_toasts; <<>> when the key is missing
    unshown,       \* the toasts not shown yet
    by,            \* history: who suspended each task, "program" or "switch"
    meddled,       \* history: tasks of auto the program moved since
    fresh,         \* history: scenes registered since the last switch
    home           \* history: the scene a toast was shown in, while it lives

taskVars  == <<place, auto, by, meddled>>
toastVars == <<shown, aside, unshown, home>>
vars == <<registered, active, paused, fresh, taskVars, toastVars>>

Places == {"none", "pending", "suspended", "running"}
In(s, p) == {t \in Tasks : place[s][t] = p}

-----------------------------------------------------------------------------
(* Scenes.                                                                 *)

(* _scene_runtime(s), under create_scene(), get_scene_scheduler() and the  *)
(* other accessors: the runtime of an unknown name is made, not paused.    *)
CreateScene(s) ==
    /\ s \notin registered
    /\ registered' = registered \cup {s}
    /\ fresh' = fresh \cup {s}
    /\ paused' = [paused EXCEPT ![s] = FALSE]
    /\ UNCHANGED <<active, taskVars, toastVars>>

Removable(s)    == s \in registered /\ s # active

(* discard_scene_state(s).                                                 *)
(* Mutant: nothing is discarded.                                           *)
AsideKept(s)    == aside
AsideWithout(s) == [aside EXCEPT ![s] = <<>>]

(* remove_scene(): the scheduler is shut down and forgotten.               *)
RemoveScene(s) ==
    /\ Removable(s)
    /\ registered' = registered \ {s}
    /\ place' = [place EXCEPT ![s] = [t \in Tasks |-> "none"]]
    /\ auto' = [auto EXCEPT ![s] = {}]
    /\ paused' = [paused EXCEPT ![s] = FALSE]
    /\ aside' = AsideWithout(s)
    /\ fresh' = fresh \ {s}
    /\ meddled' = [meddled EXCEPT ![s] = {}]
    /\ home' = [x \in Toasts |-> IF home[x] = s THEN NoScene ELSE home[x]]
    /\ UNCHANGED <<active, shown, unshown, by>>

(* _sync_scene_scheduler_activity(), for a scene that is not active:       *)
(* suspend_all(), and note which tasks that suspended.                     *)
(* Mutants: only the latest are noted; the program's are noted as well;    *)
(* the scheduler is not paused.                                            *)
NotedLatest(s)    == In(s, "pending")
NotedSuspended(s) == auto[s] \cup In(s, "pending") \cup In(s, "suspended")
Noted(s)          == auto[s] \cup In(s, "pending")
PausedNever(s, name) == FALSE
PausedNow(s, name)   == s # name

(* ... and for the active one: resume_tasks() of those.                    *)
PlaceSynced(s, t, name) ==
    IF s = name
    THEN IF t \in auto[s] /\ place[s][t] = "suspended" THEN "pending" ELSE place[s][t]
    ELSE IF place[s][t] = "pending" THEN "suspended" ELSE place[s][t]

SyncSchedulerActivity(name) ==
    /\ paused' = [s \in Scenes |-> IF s \in registered THEN PausedNow(s, name) ELSE paused[s]]
    /\ place' = [s \in Scenes |-> [t \in Tasks |->
                   IF s \in registered THEN PlaceSynced(s, t, name) ELSE place[s][t]]]
    /\ auto' = [s \in Scenes |-> IF s \notin registered THEN auto[s]
                                 ELSE IF s = name THEN {} ELSE Noted(s)]
    /\ by' = [s \in Scenes |-> [t \in Tasks |->
                IF s \in registered /\ s # name /\ place[s][t] = "pending"
                THEN "switch" ELSE by[s][t]]]
    /\ meddled' = [meddled EXCEPT ![name] = {}]
    /\ fresh' = {}

(* switch_scene(): suspend_for_scene() of the old scene's toasts,          *)
(* restore_for_scene() of the new one's.  It may be the same scene.        *)
SwitchScene(s) ==
    /\ s \in registered
    /\ active' = s
    /\ SyncSchedulerActivity(s)
    /\ LET left == [aside EXCEPT ![active] = shown] IN
         /\ shown' = left[s]
         /\ aside' = [left EXCEPT ![s] = <<>>]
    /\ UNCHANGED <<registered, unshown, home>>

-----------------------------------------------------------------------------
(* Tasks: what the program asks of the scheduler of a scene, the active    *)
(* one or another.                                                         *)

Meddle(s, t) == meddled' = [meddled EXCEPT ![s] = IF t \in auto[s] THEN @ \cup {t} ELSE @]
PutTask(s, t, p) ==
    /\ place' = [place EXCEPT ![s][t] = p]
    /\ Meddle(s, t)
    /\ UNCHANGED <<registered, active, paused, fresh, auto, toastVars>>

AddTask(s, t)    == s \in registered /\ PutTask(s, t, "pending") /\ UNCHANGED by
RemoveTask(s, t) == s \in registered /\ PutTask(s, t, "none") /\ UNCHANGED by
ResumeTask(s, t) == /\ s \in registered /\ t \in In(s, "suspended")
                    /\ PutTask(s, t, "pending") /\ UNCHANGED by
SuspendTask(s, t) == /\ s \in registered /\ t \in In(s, "pending")
                     /\ PutTask(s, t, "suspended")
                     /\ by' = [by EXCEPT ![s][t] = "program"]

(* update() submits the pending tasks of the active scene's scheduler; a   *)
(* task that runs ends, fails or not, in whatever scene.                   *)
MoveTask(s, t, p) ==
    /\ place' = [place EXCEPT ![s][t] = p]
    /\ UNCHANGED <<registered, active, paused, fresh, auto, by, meddled, toastVars>>
Submit == \E t \in In(active, "pending") : MoveTask(active, t, "running")
TaskEnds == \E s \in registered : \E t \in In(s, "running") : MoveTask(s, t, "none")

-----------------------------------------------------------------------------
(* Toasts.                                                                 *)

(* The list without toast x, which is in it at most once.                  *)
Without(q, x) == IF \E i \in 1 .. Len(q) : q[i] = x
                 THEN LET i == CHOOSE j \in 1 .. Len(q) : q[j] = x
                      IN  SubSeq(q, 1, i - 1) \o SubSeq(q, i + 1, Len(q))
                 ELSE q

(* show(): a full deque drops its oldest entry.                            *)
ShowToast(x) ==
    /\ x \in unshown
    /\ shown' = Append(IF Len(shown) < MaxVisible THEN shown ELSE Tail(shown), x)
    /\ unshown' = unshown \ {x}
    /\ home' = [home EXCEPT ![x] = active]
    /\ UNCHANGED <<registered, active, paused, fresh, taskVars, aside>>

(* dismiss() of a toast wherever it is.                                    *)
DismissToast(x) ==
    /\ x \notin unshown
    /\ shown' = Without(shown, x)
    /\ aside' = [s \in Scenes |-> Without(aside[s], x)]
    /\ UNCHANGED <<registered, active, paused, fresh, taskVars, unshown, home>>

(* dismiss_all(), which leaves the toasts put aside alone.                 *)
DismissAll ==
    /\ shown # <<>>
    /\ shown' = <<>>
    /\ UNCHANGED <<registered, active, paused, fresh, taskVars, aside, unshown, home>>

(* update(): toasts whose time is up.  Those put aside do not age.         *)
ExpireToasts ==
    /\ \E x \in Toasts : shown' = Without(shown, x) /\ shown' # shown
    /\ UNCHANGED <<registered, active, paused, fresh, taskVars, aside, unshown, home>>

-----------------------------------------------------------------------------

Init ==
    /\ registered = {Default} /\ active = Default
    /\ paused = [s \in Scenes |-> FALSE]
    /\ place = [s \in Scenes |-> [t \in Tasks |-> "none"]]
    /\ auto = [s \in Scenes |-> {}]
    /\ shown = <<>>
    /\ aside = [s \in Scenes |-> <<>>]
    /\ unshown = Toasts
    /\ by = [s \in Scenes |-> [t \in Tasks |-> "program"]]
    /\ meddled = [s \in Scenes |-> {}]
    /\ fresh = {}
    /\ home = [x \in Toasts |-> NoScene]

SceneStep == \E s \in Scenes : CreateScene(s) \/ RemoveScene(s) \/ SwitchScene(s)
TaskStep ==
    \/ \E s \in Scenes, t \in Tasks :
         AddTask(s, t) \/ RemoveTask(s, t) \/ ResumeTask(s, t) \/ SuspendTask(s, t)
    \/ Submit \/ TaskEnds
ToastStep ==
    \/ \E x \in Toasts : ShowToast(x) \/ DismissToast(x)
    \/ DismissAll \/ ExpireToasts

Next == SceneStep \/ TaskStep \/ ToastStep

Spec == Init /\ [][Next]_vars

-----------------------------------------------------------------------------
(* Properties.                                                             *)

(* The variables keep their types, and the active scene is a registered    *)
(* one, as update() relies on.                                             *)
TypeOK ==
    /\ registered \subseteq Scenes /\ active \in registered
    /\ paused \in [Scenes -> BOOLEAN]
    /\ place \in [Scenes -> [Tasks -> Places]]
    /\ auto \in [Scenes -> SUBSET Tasks]
    /\ shown \in Seq(Toasts) /\ aside \in [Scenes -> Seq(Toasts)]
    /\ unshown \subseteq Toasts
    /\ by \in [Scenes -> [Tasks -> {"program", "switch"}]]
    /\ meddled \in [Scenes -> SUBSET Tasks]
    /\ fresh \subseteq registered
    /\ home \in [Toasts -> Scenes \cup {NoScene}]

(* Only the active scene's scheduler executes: every other one is paused,  *)
(* unless its scene was registered after the last switch.                  *)
OnlyActiveExecutes ==
    /\ ~paused[active]
    /\ \A s \in registered \ (fresh \cup {active}) : paused[s]

(* No task is stranded: one that a scene switch suspended, and that is     *)
(* still suspended, belongs to a scene that is not active and is among     *)
(* those its activation resumes -- however many switches, suspensions,     *)
(* resumptions and replacements of the task lie between.                   *)
SwitchedTasksReturn ==
    \A s \in registered : \A t \in In(s, "suspended") :
        by[s][t] = "switch" => s # active /\ t \in auto[s]

(* A task the program suspended stays suspended when its scene is entered, *)
(* unless a switch had suspended it before and the program moved it since. *)
ProgramTasksStay ==
    \A s \in registered : \A t \in In(s, "suspended") :
        by[s][t] = "program" => t \notin auto[s] \/ t \in meddled[s]

(* The toasts on screen were shown in the active scene, those put aside in *)
(* the scene they are kept for; a scene that is removed and made again     *)
(* under its name does not get its predecessor's.                          *)
Listed(q) == {q[i] : i \in 1 .. Len(q)}
ToastsStayHome ==
    /\ \A x \in Listed(shown) : home[x] = active
    /\ \A s \in Scenes : \A x \in Listed(aside[s]) : home[x] = s
=============================================================================
