--------------------------- MODULE InterfaceProofs ---------------------------
(***************************************************************************)
(* What is on the screen.  SceneRuntimes: its invariants, for any scenes,  *)
(* tasks and toasts.  Overlays: the managers' tables, the dismissals, the  *)
(* menus and the palette's focus, for any scenes and owners of overlays,   *)
(* and any number of overlays and calls under way.                         *)
(***************************************************************************)
EXTENDS SceneRuntimes, Overlays, SequenceLemmas

-----------------------------------------------------------------------------
(* Scene runtimes.                                                         *)

(* A list loses entries and gains none.                                    *)
LEMMA WithoutKeeps ==
    ASSUME NEW q \in Seq(Toasts), NEW x
    PROVE  /\ Without(q, x) \in Seq(Toasts)
           /\ Listed(Without(q, x)) \subseteq Listed(q)
<1>1. CASE ~\E i \in 1 .. Len(q) : q[i] = x
  BY <1>1 DEF Without
<1>2. CASE \E i \in 1 .. Len(q) : q[i] = x
  <2> DEFINE i == CHOOSE j \in 1 .. Len(q) : q[j] = x
             front == SubSeq(q, 1, i - 1)
             rest  == SubSeq(q, i + 1, Len(q))
  <2>1. i \in 1 .. Len(q) /\ Len(q) \in Nat
    BY <1>2
  <2>2. Without(q, x) = front \o rest
    BY <1>2 DEF Without
  <2> HIDE DEF i
  <2>3. \A k \in 1 .. Len(q) : q[k] \in Toasts
    BY ElementOfSeq
  <2>4. /\ front \in Seq(Toasts) /\ Len(front) = i - 1
        /\ \A k \in 1 .. Len(front) : front[k] = q[k]
    <3>1. \A k \in 1 .. i - 1 : q[k] \in Toasts
      BY <2>1, <2>3
    <3>2. /\ front \in Seq(Toasts)
          /\ Len(front) = IF 1 <= i - 1 THEN (i - 1) - 1 + 1 ELSE 0
          /\ \A k \in 1 .. (i - 1) - 1 + 1 : front[k] = q[1 + k - 1]
      BY <2>1, <3>1, SubSeqProperties
    <3> HIDE DEF front
    <3> QED
      BY <2>1, <3>2
  <2>5. /\ rest \in Seq(Toasts) /\ Len(rest) = Len(q) - i
        /\ \A k \in 1 .. Len(rest) : rest[k] = q[i + k]
    <3>1. \A k \in i + 1 .. Len(q) : q[k] \in Toasts
      BY <2>1, <2>3
    <3>2. /\ rest \in Seq(Toasts)
          /\ Len(rest) = IF i + 1 <= Len(q) THEN Len(q) - (i + 1) + 1 ELSE 0
          /\ \A k \in 1 .. Len(q) - (i + 1) + 1 : rest[k] = q[(i + 1) + k - 1]
      BY <2>1, <3>1, SubSeqProperties
    <3> HIDE DEF rest
    <3> QED
      BY <2>1, <3>2
  <2> HIDE DEF front, rest
  <2>6. /\ front \o rest \in Seq(Toasts)
        /\ Len(front \o rest) = Len(front) + Len(rest)
        /\ \A k \in 1 .. Len(front) + Len(rest) :
             (front \o rest)[k] = IF k <= Len(front) THEN front[k] ELSE rest[k - Len(front)]
    BY <2>4, <2>5, ConcatProperties
  <2> DEFINE w == front \o rest
  <2>7. /\ w \in Seq(Toasts) /\ Len(w) = Len(q) - 1
        /\ \A k \in 1 .. Len(w) : w[k] = IF k < i THEN q[k] ELSE q[k + 1]
    <3> HIDE DEF w
    <3>1. w = front \o rest
      BY DEF w
    <3>2. Len(front) + Len(rest) = Len(q) - 1
      BY <2>1, <2>4, <2>5
    <3>3. w \in Seq(Toasts) /\ Len(w) = Len(q) - 1
      BY <2>6, <3>1, <3>2
    <3>4. ASSUME NEW k \in 1 .. Len(w)
          PROVE  w[k] = IF k < i THEN q[k] ELSE q[k + 1]
      <4>1. w[k] = IF k <= i - 1 THEN front[k] ELSE rest[k - (i - 1)]
        BY <2>4, <2>6, <3>1, <3>2, <3>3
      <4>2. CASE k < i
        BY <2>1, <2>4, <4>1, <4>2
      <4>3. CASE ~(k < i)
        <5>1. k - (i - 1) \in 1 .. Len(rest) /\ i + (k - (i - 1)) = k + 1
          BY <2>1, <2>5, <3>3, <4>3
        <5>2. w[k] = q[i + (k - (i - 1))]
          BY <2>1, <2>5, <4>1, <4>3, <5>1
        <5> QED
          BY <4>3, <5>1, <5>2
      <4> QED
        BY <4>2, <4>3
    <3> QED
      BY <3>3, <3>4
  <2> HIDE DEF w
  <2>8. Listed(w) \subseteq Listed(q)
    <3>1. ASSUME NEW k \in 1 .. Len(w)
          PROVE  \E j \in 1 .. Len(q) : w[k] = q[j]
      <4>1. k \in 1 .. Len(q) /\ k + 1 \in 1 .. Len(q)
        BY <2>1, <2>7
      <4> QED
        BY <2>7, <4>1
    <3> QED
      BY <3>1 DEF Listed
  <2> QED
    BY <2>2, <2>7, <2>8 DEF w
<1> QED
  BY <1>1, <1>2

(* So does one that drops its oldest entry; one that is appended to gains  *)
(* just the new entry.                                                     *)
LEMMA TailKeeps ==
    ASSUME NEW q \in Seq(Toasts), q # <<>>
    PROVE  Tail(q) \in Seq(Toasts) /\ Listed(Tail(q)) \subseteq Listed(q)
<1>1. /\ Tail(q) \in Seq(Toasts)
      /\ Len(Tail(q)) = Len(q) - 1
      /\ \A i \in 1 .. Len(Tail(q)) : Tail(q)[i] = q[i + 1]
  BY HeadTailProperties
<1> QED
  BY <1>1 DEF Listed

LEMMA AppendAdds ==
    ASSUME NEW q \in Seq(Toasts), NEW x \in Toasts
    PROVE  /\ Append(q, x) \in Seq(Toasts)
           /\ Listed(Append(q, x)) \subseteq Listed(q) \cup {x}
<1>1. /\ Append(q, x) \in Seq(Toasts)
      /\ Len(Append(q, x)) = Len(q) + 1
      /\ \A i \in 1 .. Len(q) : Append(q, x)[i] = q[i]
      /\ Append(q, x)[Len(q) + 1] = x
  BY AppendProperties
<1> QED
  BY <1>1 DEF Listed

LEMMA EmptyLists == Listed(<<>>) = {}
BY DEF Listed

-----------------------------------------------------------------------------
(* What an invariant needs of each kind of step.                           *)

USE SceneAssumption, VisibleAssumption

(* TypeOK, in the parts that the kinds of step change.                     *)
SceneTypes == /\ registered \subseteq Scenes /\ active \in registered
              /\ paused \in [Scenes -> BOOLEAN]
              /\ fresh \subseteq registered
TaskTypes  == /\ place \in [Scenes -> [Tasks -> Places]]
              /\ auto \in [Scenes -> SUBSET Tasks]
              /\ by \in [Scenes -> [Tasks -> {"program", "switch"}]]
              /\ meddled \in [Scenes -> SUBSET Tasks]
ToastTypes == /\ shown \in Seq(Toasts) /\ aside \in [Scenes -> Seq(Toasts)]
              /\ unshown \subseteq Toasts
              /\ home \in [Toasts -> Scenes \cup {NoScene}]

LEMMA TypeParts == TypeOK <=> SceneTypes /\ TaskTypes /\ ToastTypes
BY DEF TypeOK, SceneTypes, TaskTypes, ToastTypes

(* A scheduler that no scene has is empty.                                 *)
Forgotten == \A s \in Scenes \ registered : \A t \in Tasks : place[s][t] = "none"

TaskInv == Forgotten /\ SwitchedTasksReturn /\ ProgramTasksStay

(* A toast not shown yet is in no list.                                    *)
Unseen == \A x \in unshown : /\ x \notin Listed(shown)
                             /\ \A s \in Scenes : x \notin Listed(aside[s])

ToastInv == Unseen /\ ToastsStayHome

IndInv == /\ SceneTypes /\ TaskTypes /\ ToastTypes
          /\ OnlyActiveExecutes /\ TaskInv /\ ToastInv

LEMMA InitIndInv == Init => IndInv
<1> SUFFICES ASSUME Init PROVE IndInv
  OBVIOUS
<1>1. SceneTypes /\ TaskTypes /\ OnlyActiveExecutes
  BY DEF Init, SceneTypes, TaskTypes, Places, OnlyActiveExecutes
<1>2. TaskInv
  BY DEF Init, TaskInv, Forgotten, SwitchedTasksReturn, ProgramTasksStay, In
<1>3. ToastTypes
  BY EmptySeq DEF Init, ToastTypes
<1>4. ToastInv
  BY EmptyLists DEF Init, ToastInv, Unseen, ToastsStayHome
<1> QED
  BY <1>1, <1>2, <1>3, <1>4 DEF IndInv

-----------------------------------------------------------------------------
(* The scenes come and go.                                                 *)

LEMMA CreateSceneStep ==
    ASSUME IndInv, NEW s \in Scenes, CreateScene(s)
    PROVE  IndInv'
<1>1. SceneTypes' /\ OnlyActiveExecutes'
  BY DEF IndInv, SceneTypes, OnlyActiveExecutes, CreateScene
<1>2. TaskTypes' /\ TaskInv'
  BY DEF IndInv, SceneTypes, TaskTypes, TaskInv, Forgotten, SwitchedTasksReturn,
         ProgramTasksStay, In, CreateScene, taskVars
<1>3. ToastTypes' /\ ToastInv'
  BY DEF IndInv, ToastTypes, ToastInv, Unseen, ToastsStayHome, CreateScene, toastVars
<1> QED
  BY <1>1, <1>2, <1>3 DEF IndInv

LEMMA RemoveSceneStep ==
    ASSUME IndInv, NEW s \in Scenes, RemoveScene(s)
    PROVE  IndInv'
<1>1. SceneTypes' /\ OnlyActiveExecutes'
  BY DEF IndInv, SceneTypes, OnlyActiveExecutes, RemoveScene, Removable
<1>2. TaskTypes'
  BY DEF IndInv, TaskTypes, RemoveScene, Places
<1>3. TaskInv'
  BY DEF IndInv, SceneTypes, TaskTypes, TaskInv, Forgotten, SwitchedTasksReturn,
         ProgramTasksStay, In, RemoveScene
<1>4. ToastTypes'
  BY EmptySeq DEF IndInv, SceneTypes, ToastTypes, RemoveScene, AsideWithout
<1>5. /\ shown' = shown /\ unshown' = unshown /\ active' = active /\ s # active
      /\ \A r \in Scenes : aside'[r] = IF r = s THEN <<>> ELSE aside[r]
      /\ \A x \in Toasts : home[x] # s => home'[x] = home[x]
  BY DEF IndInv, ToastTypes, RemoveScene, Removable, AsideWithout
<1>6. /\ Listed(shown) \subseteq Toasts
      /\ \A r \in Scenes : Listed(aside[r]) \subseteq Toasts
  BY DEF IndInv, ToastTypes, Listed
<1>7. ToastInv'
  BY <1>5, <1>6, EmptyLists DEF IndInv, ToastInv, Unseen, ToastsStayHome
<1> QED
  BY <1>1, <1>2, <1>3, <1>4, <1>7 DEF IndInv

LEMMA SwitchSceneStep ==
    ASSUME IndInv, NEW n \in Scenes, SwitchScene(n)
    PROVE  IndInv'
<1> USE DEF SwitchScene, SyncSchedulerActivity
<1>1. SceneTypes' /\ OnlyActiveExecutes'
  BY DEF IndInv, SceneTypes, OnlyActiveExecutes, PausedNow
<1>2. TaskTypes'
  BY DEF IndInv, TaskTypes, Places, PlaceSynced, Noted, In
<1>3. Forgotten'
  BY DEF IndInv, TaskInv, Forgotten
<1>4. ASSUME NEW s \in registered, NEW t \in Tasks, place'[s][t] = "suspended"
      PROVE  /\ s # n => /\ by'[s][t] = "switch" => t \in auto'[s]
                         /\ by'[s][t] = "program" => t \notin auto'[s] \/ t \in meddled'[s]
             /\ s = n => by'[s][t] # "switch" /\ t \notin auto'[s]
  <2>1. s \in Scenes /\ (active \in Scenes)
    BY DEF IndInv, SceneTypes
  <2>2. /\ place[s][t] = "suspended" /\ by[s][t] = "switch" => s # active /\ t \in auto[s]
        /\ place[s][t] = "suspended" /\ by[s][t] = "program"
             => t \notin auto[s] \/ t \in meddled[s]
    BY DEF IndInv, TaskInv, SwitchedTasksReturn, ProgramTasksStay, In
  <2>3. place'[s][t] = PlaceSynced(s, t, n)
    BY <2>1
  <2>4. CASE s = n
    BY <2>1, <2>2, <2>3, <2>4, <1>4 DEF PlaceSynced, IndInv, TaskTypes, Places
  <2>5. CASE s # n
    <3>1. /\ auto'[s] = auto[s] \cup In(s, "pending")
          /\ meddled'[s] = meddled[s]
          /\ by'[s][t] = IF place[s][t] = "pending" THEN "switch" ELSE by[s][t]
      BY <2>1, <2>5 DEF Noted, IndInv, TaskTypes
    <3>2. place[s][t] \in {"pending", "suspended"}
      BY <2>3, <2>5, <1>4 DEF PlaceSynced
    <3>3. CASE place[s][t] = "pending"
      <4>1. t \in In(s, "pending")
        BY <3>3 DEF In
      <4> QED
        BY <2>5, <3>1, <3>3, <4>1
    <3>4. CASE place[s][t] = "suspended"
      <4>1. t \notin In(s, "pending")
        BY <3>4 DEF In
      <4> QED
        BY <2>2, <2>5, <3>1, <3>4, <4>1
    <3> QED
      BY <3>2, <3>3, <3>4
  <2> QED
    BY <2>4, <2>5
<1>5. TaskInv'
  BY <1>3, <1>4 DEF TaskInv, SwitchedTasksReturn, ProgramTasksStay, In
<1>6. /\ active \in Scenes /\ active' = n /\ home' = home /\ unshown' = unshown
      /\ shown' = IF n = active THEN shown ELSE aside[n]
      /\ aside' \in [Scenes -> Seq(Toasts)]
      /\ \A s \in Scenes : aside'[s] = IF s = n THEN <<>>
                                       ELSE IF s = active THEN shown ELSE aside[s]
  BY EmptySeq DEF IndInv, SceneTypes, ToastTypes
<1>7. ToastTypes'
  BY <1>6 DEF IndInv, ToastTypes
<1>8. ToastInv'
  <2>1. Unseen'
    BY <1>6, EmptyLists DEF IndInv, ToastInv, Unseen
  <2>2. \A x \in Listed(shown') : home'[x] = active'
    BY <1>6 DEF IndInv, ToastInv, ToastsStayHome
  <2>3. \A s \in Scenes : \A x \in Listed(aside'[s]) : home'[x] = s
    BY <1>6, EmptyLists DEF IndInv, ToastInv, ToastsStayHome
  <2> QED
    BY <2>1, <2>2, <2>3 DEF ToastInv, ToastsStayHome
<1> QED
  BY <1>1, <1>2, <1>5, <1>7, <1>8 DEF IndInv

-----------------------------------------------------------------------------
(* Tasks move in one scheduler.                                            *)

(* The steps that leave scenes and toasts alone and keep TaskInv.          *)
LEMMA OnlyTasksChange ==
    ASSUME IndInv, UNCHANGED <<registered, active, paused, fresh, toastVars>>,
           TaskTypes', TaskInv'
    PROVE  IndInv'
BY DEF IndInv, SceneTypes, OnlyActiveExecutes, ToastTypes, ToastInv, Unseen,
       ToastsStayHome, toastVars

LEMMA PutTaskStep ==
    ASSUME IndInv, NEW s \in registered, NEW t \in Tasks, NEW p \in Places,
           PutTask(s, t, p),
           \/ p # "suspended" /\ UNCHANGED by
           \/ by' = [by EXCEPT ![s][t] = "program"]
    PROVE  IndInv'
<1>1. s \in Scenes
  BY DEF IndInv, SceneTypes
<1>2. TaskTypes'
  <2>1. place' \in [Scenes -> [Tasks -> Places]]
    BY <1>1 DEF IndInv, TaskTypes, PutTask
  <2>2. by' \in [Scenes -> [Tasks -> {"program", "switch"}]]
    <3>1. by \in [Scenes -> [Tasks -> {"program", "switch"}]]
      BY DEF IndInv, TaskTypes
    <3>2. by' = by \/ by' = [by EXCEPT ![s][t] = "program"]
      OBVIOUS
    <3>3. CASE by' = by
      BY <3>1, <3>3
    <3>4. CASE by' = [by EXCEPT ![s][t] = "program"]
      BY ONLY <1>1, <3>1, <3>4, t \in Tasks
    <3> QED
      BY <3>2, <3>3, <3>4
  <2>3. meddled' \in [Scenes -> SUBSET Tasks] /\ auto' = auto
    <3>1. meddled' = [meddled EXCEPT ![s] = IF t \in auto[s] THEN meddled[s] \cup {t}
                                                            ELSE meddled[s]]
      BY <1>1 DEF IndInv, TaskTypes, PutTask, Meddle
    <3>2. meddled \in [Scenes -> SUBSET Tasks] /\ auto' = auto
      BY DEF IndInv, TaskTypes, PutTask
    <3> QED
      BY <1>1, <3>1, <3>2
  <2> QED
    BY <2>1, <2>2, <2>3 DEF IndInv, TaskTypes
<1>3. /\ registered' = registered /\ active' = active /\ auto' = auto
      /\ \A r \in Scenes, u \in Tasks :
            ~(r = s /\ u = t) => place'[r][u] = place[r][u] /\ by'[r][u] = by[r][u]
      /\ place'[s][t] = p
      /\ p = "suspended" => by'[s][t] = "program"
      /\ \A r \in Scenes : meddled[r] \subseteq meddled'[r]
      /\ t \in auto[s] => t \in meddled'[s]
  BY <1>1 DEF IndInv, TaskTypes, PutTask, Meddle
<1>4. TaskInv'
  <2>1. Forgotten'
    BY <1>1, <1>3 DEF IndInv, TaskInv, Forgotten
  <2>2. SwitchedTasksReturn'
    BY <1>1, <1>3 DEF IndInv, SceneTypes, TaskInv, SwitchedTasksReturn, In
  <2>3. ProgramTasksStay'
    BY <1>1, <1>3 DEF IndInv, SceneTypes, TaskInv, ProgramTasksStay, In
  <2> QED
    BY <2>1, <2>2, <2>3 DEF TaskInv
<1> QED
  BY <1>2, <1>4, OnlyTasksChange DEF PutTask

LEMMA MoveTaskStep ==
    ASSUME IndInv, NEW s \in registered, NEW t \in Tasks, NEW p \in {"running", "none"},
           MoveTask(s, t, p)
    PROVE  IndInv'
<1>1. s \in Scenes
  BY DEF IndInv, SceneTypes
<1>2. TaskTypes'
  BY <1>1 DEF IndInv, TaskTypes, Places, MoveTask
<1>3. /\ registered' = registered /\ active' = active
      /\ auto' = auto /\ by' = by /\ meddled' = meddled
      /\ \A r \in Scenes, u \in Tasks :
            place'[r][u] = IF r = s /\ u = t THEN p ELSE place[r][u]
  BY <1>1 DEF IndInv, TaskTypes, MoveTask
<1>4. TaskInv'
  BY <1>1, <1>3 DEF IndInv, SceneTypes, TaskInv, Forgotten, SwitchedTasksReturn,
                    ProgramTasksStay, In
<1> QED
  BY <1>2, <1>4, OnlyTasksChange DEF MoveTask

LEMMA TaskSteps == IndInv /\ TaskStep => IndInv'
<1> SUFFICES ASSUME IndInv, TaskStep PROVE IndInv'
  OBVIOUS
<1>1. CASE \E s \in Scenes, t \in Tasks :
             AddTask(s, t) \/ RemoveTask(s, t) \/ ResumeTask(s, t) \/ SuspendTask(s, t)
  <2> PICK s \in Scenes, t \in Tasks :
             AddTask(s, t) \/ RemoveTask(s, t) \/ ResumeTask(s, t) \/ SuspendTask(s, t)
    BY <1>1
  <2>1. s \in registered
    BY DEF AddTask, RemoveTask, ResumeTask, SuspendTask
  <2>2. CASE AddTask(s, t) \/ RemoveTask(s, t) \/ ResumeTask(s, t)
    <3>1. PICK p \in {"pending", "none"} : PutTask(s, t, p) /\ UNCHANGED by
      BY <2>2 DEF AddTask, RemoveTask, ResumeTask
    <3>2. p \in Places /\ p # "suspended"
      BY DEF Places
    <3> QED
      BY <2>1, <3>1, <3>2, PutTaskStep
  <2>3. CASE SuspendTask(s, t)
    <3>1. PutTask(s, t, "suspended") /\ by' = [by EXCEPT ![s][t] = "program"]
      BY <2>3 DEF SuspendTask
    <3>2. "suspended" \in Places
      BY DEF Places
    <3> QED
      BY <2>1, <3>1, <3>2, PutTaskStep
  <2> QED
    BY <2>2, <2>3
<1>2. CASE Submit
  <2>1. PICK t \in Tasks : MoveTask(active, t, "running")
    BY <1>2 DEF Submit, In
  <2>2. active \in registered
    BY DEF IndInv, SceneTypes
  <2> QED
    BY <2>1, <2>2, MoveTaskStep
<1>3. CASE TaskEnds
  <2>1. PICK s \in registered, t \in Tasks : MoveTask(s, t, "none")
    BY <1>3 DEF TaskEnds, In
  <2> QED
    BY <2>1, MoveTaskStep
<1> QED
  BY <1>1, <1>2, <1>3 DEF TaskStep

-----------------------------------------------------------------------------
(* Toasts come and go.                                                     *)

LEMMA OnlyToastsChange ==
    ASSUME IndInv, UNCHANGED <<registered, active, paused, fresh, taskVars>>,
           ToastTypes', ToastInv'
    PROVE  IndInv'
BY DEF IndInv, SceneTypes, OnlyActiveExecutes, TaskTypes, TaskInv, Forgotten,
       SwitchedTasksReturn, ProgramTasksStay, In, taskVars

(* A step after which every list has entries it had before.                *)
LEMMA ToastsLeave ==
    ASSUME IndInv, UNCHANGED <<active, unshown, home>>, ToastTypes',
           Listed(shown') \subseteq Listed(shown),
           \A s \in Scenes : Listed(aside'[s]) \subseteq Listed(aside[s])
    PROVE  ToastInv'
BY DEF IndInv, ToastInv, Unseen, ToastsStayHome

LEMMA ShowToastStep ==
    ASSUME IndInv, NEW x \in Toasts, ShowToast(x)
    PROVE  IndInv'
<1> DEFINE q == IF Len(shown) < MaxVisible THEN shown ELSE Tail(shown)
<1>1. q \in Seq(Toasts) /\ Listed(q) \subseteq Listed(shown)
  <2>1. shown \in Seq(Toasts)
    BY DEF IndInv, ToastTypes
  <2>2. CASE Len(shown) < MaxVisible
    BY <2>1, <2>2
  <2>3. CASE ~(Len(shown) < MaxVisible)
    <3>1. shown # <<>>
      BY <2>1, <2>3
    <3> QED
      BY <2>1, <2>3, <3>1, TailKeeps
  <2> QED
    BY <2>2, <2>3
<1>2. shown' = Append(q, x)
  BY DEF ShowToast
<1> HIDE DEF q
<1>3. shown' \in Seq(Toasts) /\ Listed(shown') \subseteq Listed(shown) \cup {x}
  BY <1>1, <1>2, AppendAdds
<1>4. /\ x \in unshown /\ unshown' = unshown \ {x}
      /\ active' = active /\ aside' = aside /\ active \in Scenes
      /\ home' = [home EXCEPT ![x] = active]
  BY DEF ShowToast, IndInv, SceneTypes
<1>5. ToastTypes'
  BY <1>3, <1>4 DEF IndInv, ToastTypes
<1>6. \A y \in Toasts : home'[y] = IF y = x THEN active ELSE home[y]
  BY <1>4 DEF IndInv, ToastTypes
<1>7. \A s \in Scenes : Listed(aside[s]) \subseteq Toasts /\ x \notin Listed(aside[s])
  BY <1>4 DEF IndInv, ToastTypes, ToastInv, Unseen, Listed
<1>8. Listed(shown) \subseteq Toasts
  BY DEF IndInv, ToastTypes, Listed
<1>9. ToastInv'
  BY <1>3, <1>4, <1>6, <1>7, <1>8 DEF IndInv, ToastInv, Unseen, ToastsStayHome
<1> QED
  BY <1>5, <1>9, OnlyToastsChange DEF ShowToast

LEMMA DismissToastStep ==
    ASSUME IndInv, NEW x \in Toasts, DismissToast(x)
    PROVE  IndInv'
<1>1. shown \in Seq(Toasts) /\ aside \in [Scenes -> Seq(Toasts)]
  BY DEF IndInv, ToastTypes
<1>2. shown' \in Seq(Toasts) /\ Listed(shown') \subseteq Listed(shown)
  BY <1>1, WithoutKeeps DEF DismissToast
<1>3. ASSUME NEW s \in Scenes
      PROVE  aside'[s] \in Seq(Toasts) /\ Listed(aside'[s]) \subseteq Listed(aside[s])
  <2>1. aside[s] \in Seq(Toasts) /\ aside'[s] = Without(aside[s], x)
    BY <1>1 DEF DismissToast
  <2> QED
    BY <2>1, WithoutKeeps
<1>4. ToastTypes'
  BY <1>2, <1>3 DEF IndInv, ToastTypes, DismissToast
<1>5. ToastInv'
  BY <1>2, <1>3, <1>4, ToastsLeave DEF DismissToast
<1> QED
  BY <1>4, <1>5, OnlyToastsChange DEF DismissToast

LEMMA VisibleLeaveStep ==
    ASSUME IndInv, DismissAll \/ ExpireToasts
    PROVE  IndInv'
<1>1. shown \in Seq(Toasts)
  BY DEF IndInv, ToastTypes
<1>2. shown' \in Seq(Toasts) /\ Listed(shown') \subseteq Listed(shown)
  <2>1. CASE DismissAll
    BY <2>1, EmptySeq, EmptyLists DEF DismissAll
  <2>2. CASE ExpireToasts
    BY <1>1, <2>2, WithoutKeeps DEF ExpireToasts
  <2> QED
    BY <2>1, <2>2
<1>3. ToastTypes'
  BY <1>2 DEF IndInv, ToastTypes, DismissAll, ExpireToasts
<1>4. ToastInv'
  BY <1>2, <1>3, ToastsLeave DEF DismissAll, ExpireToasts
<1> QED
  BY <1>3, <1>4, OnlyToastsChange DEF DismissAll, ExpireToasts

-----------------------------------------------------------------------------

LEMMA IndInvStep == IndInv /\ [Next]_vars => IndInv'
<1> SUFFICES ASSUME IndInv, [Next]_vars PROVE IndInv'
  OBVIOUS
<1>1. CASE SceneStep
  BY <1>1, CreateSceneStep, RemoveSceneStep, SwitchSceneStep DEF SceneStep
<1>2. CASE TaskStep
  BY <1>2, TaskSteps
<1>3. CASE ToastStep
  BY <1>3, ShowToastStep, DismissToastStep, VisibleLeaveStep DEF ToastStep
<1>4. CASE UNCHANGED vars
  BY <1>4 DEF vars, taskVars, toastVars, IndInv, SceneTypes, TaskTypes, ToastTypes,
              OnlyActiveExecutes, TaskInv, Forgotten, SwitchedTasksReturn,
              ProgramTasksStay, In, ToastInv, Unseen, ToastsStayHome
<1> QED
  BY <1>1, <1>2, <1>3, <1>4 DEF Next

LEMMA Invariance == Spec => []IndInv
<1> QED
  BY InitIndInv, IndInvStep, PTL DEF Spec

(* The variables keep their types, and a scene that is active is never     *)
(* removed.                                                                *)
THEOREM TypeCorrect == Spec => []TypeOK
<1>1. IndInv => TypeOK
  BY TypeParts DEF IndInv
<1> QED
  BY <1>1, Invariance, PTL

(* Only the active scene's scheduler executes, and any made since the last *)
(* switch.                                                                 *)
THEOREM OneSceneExecutes == Spec => []OnlyActiveExecutes
<1>1. IndInv => OnlyActiveExecutes
  BY DEF IndInv
<1> QED
  BY <1>1, Invariance, PTL

(* What a switch suspended is resumed by the activation of its scene.      *)
THEOREM SuspensionsReturn == Spec => []SwitchedTasksReturn
<1>1. IndInv => SwitchedTasksReturn
  BY DEF IndInv, TaskInv
<1> QED
  BY <1>1, Invariance, PTL

(* What the program suspended is not, unless it interfered.                *)
THEOREM SuspensionsStay == Spec => []ProgramTasksStay
<1>1. IndInv => ProgramTasksStay
  BY DEF IndInv, TaskInv
<1> QED
  BY <1>1, Invariance, PTL

(* Toasts are shown in the scene they were shown in first, or not at all.  *)
THEOREM ToastsAtHome == Spec => []ToastsStayHome
<1>1. IndInv => ToastsStayHome
  BY DEF IndInv, ToastInv
<1> QED
  BY <1>1, Invariance, PTL

-----------------------------------------------------------------------------
(* Overlays: the inductive invariant, of the record u of everything.       *)

RouteFrame ==
    [call : {"route"}, event : {"other", "click"}, sc : OverlayScenes, at : Int,
     live : BOOLEAN, over : Seq(Records), hit : SUBSET Records, then : {NoFocus, Control},
     passed : Seq(Records), seen : Seq(Owners), todo : Seq(Records), inside : BOOLEAN]
Frame ==
    [call : {"callback", "handler"}]
    \cup [call : {"each"}, sc : OverlayScenes, todo : Seq(Owners)]
    \cup [call : {"reset"}, dismissed : BOOLEAN]
    \cup [call : {"show"}, sc : OverlayScenes, record : Records, owner : Owners]
    \cup [call : {"palette"}, record : Records]
    \cup [call : {"reopen"}, sc : OverlayScenes]
    \cup [call : {"leave", "enter"}, to : OverlayScenes]
    \cup [call : {"callbacks"}, todo : Seq(Records)]
    \cup [call : {"clicked"}, hit : SUBSET Records, target : {NoFocus, Control}]
    \cup RouteFrame

Fields == {"lists", "by", "index", "menus", "dialogs", "list", "before", "at", "focus", "front",
           "stack", "shown", "told", "reshown", "forgot"}

Recs(u) == 1 .. Len(u.shown)

UiTypes(u) ==
    /\ DOMAIN u = Fields
    /\ u.lists \in [OverlayScenes -> Seq(Records)]
    /\ u.by \in [OverlayScenes -> [Owners -> Records \cup {NoRecord}]]
    /\ u.index \in [OverlayScenes -> [Owners -> Nat]]
    /\ u.menus \in SUBSET Records /\ u.dialogs \in SUBSET Records
    /\ u.list \in Nat /\ u.before \in Int /\ u.focus \in Int
    /\ u.at \in OverlayScenes /\ u.front \in OverlayScenes
    /\ u.stack \in Seq(Frame)
    /\ u.shown \in Seq([kind : {"panel", "menu", "dialog", "palette"}, owner : Owners])
    /\ Len(u.shown) <= MaxShown
    /\ u.told \in [Records -> Nat]
    /\ u.reshown \in SUBSET Panels
    /\ u.forgot \in BOOLEAN

(* Whose overlay is of which kind; those of menus and dialogs are their    *)
(* own.                                                                    *)
Kinds(u) ==
    \A r \in Recs(u) :
        /\ Kind(u, r) = "palette" <=> Owner(u, r) = Palette
        /\ Kind(u, r) \in {"menu", "dialog"} => Owner(u, r) = r
        /\ Kind(u, r) = "panel" => Owner(u, r) \in Panels

(* The tables by owner are about the last record of an owner in the list,  *)
(* and its only one unless it was shown again while show() hid it.         *)
Tables(u) ==
    \A sc \in OverlayScenes, o \in Owners :
        LET q == u.lists[sc]
            r == u.by[sc][o]
            i == u.index[sc][o]
        IN /\ r # NoRecord => /\ i \in 1 .. Len(q) /\ q[i] = r /\ Owner(u, r) = o
                              /\ \A k \in i + 1 .. Len(q) : Owner(u, q[k]) # o
           /\ o \notin u.reshown =>
                /\ r = NoRecord => i = 0 /\ \A k \in 1 .. Len(q) : Owner(u, q[k]) # o
                /\ r # NoRecord => \A k \in 1 .. Len(q) : Owner(u, q[k]) = o => k = i

(* The records that a frame has still to show or to dismiss.               *)
Owed(f) == IF f.call = "show" THEN {f.record}
           ELSE IF f.call = "callbacks" THEN ToSet(f.todo) ELSE {}

(* Every record is in one place, or its dismissal was told -- but those of *)
(* X, which are on their way.                                              *)
OnceBut(u, X) ==
    /\ X \subseteq Recs(u)
    /\ \A sc \in OverlayScenes : /\ IsInjective(u.lists[sc]) /\ ToSet(u.lists[sc]) \subseteq Recs(u)
                               /\ ToSet(u.lists[sc]) \cap X = {}
    /\ \A sc, sd \in OverlayScenes : sc # sd => ToSet(u.lists[sc]) \cap ToSet(u.lists[sd]) = {}
    /\ \A i \in 1 .. Len(u.stack) :
         /\ Owed(u.stack[i]) \subseteq Recs(u) /\ Owed(u.stack[i]) \cap X = {}
         /\ u.stack[i].call = "callbacks" => IsInjective(u.stack[i].todo)
         /\ \A j \in 1 .. Len(u.stack) : i # j => Owed(u.stack[i]) \cap Owed(u.stack[j]) = {}
         /\ \A sc \in OverlayScenes : Owed(u.stack[i]) \cap ToSet(u.lists[sc]) = {}
    /\ \A r \in Records :
         u.told[r] = IF \/ r \notin Recs(u) \/ r \in X
                        \/ \E sc \in OverlayScenes : r \in ToSet(u.lists[sc])
                        \/ \E i \in 1 .. Len(u.stack) : r \in Owed(u.stack[i])
                     THEN 0 ELSE 1

Menus(u) ==
    /\ u.menus \subseteq Recs(u) /\ u.dialogs \subseteq Recs(u)
    /\ \A r \in Recs(u) : Kind(u, r) = "menu" => (r \in u.menus <=> u.told[r] = 0)

(* An event is routed by the outermost call.  What it has still to reach   *)
(* is in the list it goes through, of the scene in front, or was dismissed.*)
Reaches(f) == ToSet(f.todo) \cup ToSet(f.passed) \cup ToSet(f.over)
Reaching(u, f) ==
    /\ f.live => /\ f.sc = u.front
                 /\ \A j \in 1 .. Len(u.stack) : u.stack[j].call # "enter"
    /\ \A r \in Reaches(f) :
         /\ r \in Recs(u)
         /\ \A sc \in OverlayScenes : r \in ToSet(u.lists[sc]) => f.live /\ sc = f.sc
         /\ \A j \in 1 .. Len(u.stack) : u.stack[j].call = "show" => u.stack[j].record # r
Routes(u) ==
    \A i \in 1 .. Len(u.stack) :
        /\ u.stack[i].call \in {"route", "clicked"} => i = Len(u.stack)
        /\ u.stack[i].call = "show" => Owner(u, u.stack[i].record) = u.stack[i].owner
        /\ u.stack[i].call = "route" => Reaching(u, u.stack[i])
        /\ u.stack[i].call = "handler" => /\ i + 1 \in 1 .. Len(u.stack)
                                         /\ u.stack[i + 1].call = "route"

(* The palette comes to the list before anything else happens, and is gone *)
(* when a scene is left.                                                   *)
ShowsPalette(f) == f.call = "show" /\ f.owner = Palette
Shape(u) ==
    \A i \in 1 .. Len(u.stack) :
        LET f == u.stack[i] IN
        /\ ShowsPalette(f) => /\ i = 1 /\ 2 \in 1 .. Len(u.stack) /\ u.by[f.sc][Palette] = NoRecord
                              /\ u.stack[2] = [call |-> "palette", record |-> f.record]
        /\ f.call = "palette" =>
             /\ u.list = f.record
             /\ \/ i = 1 /\ \E sc \in OverlayScenes : u.by[sc][Palette] = f.record
                \/ i = 2 /\ ShowsPalette(u.stack[1])
        /\ f.call = "leave" => \/ i = 1 /\ (u.forgot \/ u.by[u.front][Palette] = NoRecord)
                               \/ i > 1 /\ u.stack[i - 1] = Reset(TRUE)

(* Where the focus is while no palette was forgotten.                      *)
Open(u, r) == \E sc \in OverlayScenes : u.by[sc][Palette] = r
Two(u) == \E sc, sd \in OverlayScenes :
             sc # sd /\ u.by[sc][Palette] # NoRecord /\ u.by[sd][Palette] # NoRecord
Focus(u) ==
    ~u.forgot =>
      /\ u.focus > 0 => Open(u, u.focus)
      /\ u.focus > 0 => \/ u.list = u.focus \/ Two(u)
                        \/ u.stack # <<>> /\ ShowsPalette(u.stack[1])
      /\ u.before > 0 => Two(u)
      /\ \A i \in 1 .. Len(u.stack) :
           LET f == u.stack[i] IN
           /\ f.call = "palette" => u.focus # f.record
           /\ f.call = "callbacks" => \A r \in ToSet(f.todo) : Kind(u, r) # "palette"

Tidy(u, X) == UiTypes(u) /\ Kinds(u) /\ Tables(u) /\ OnceBut(u, X) /\ Menus(u) /\ Routes(u)
OverlaysInv(u) == Tidy(u, {}) /\ Shape(u) /\ Focus(u)

-----------------------------------------------------------------------------
(* Overlays: fields.                                                       *)

(* All fields but those of X are the same in v.                            *)
Others(X, u, v) == DOMAIN v = Fields /\ \A x \in Fields \ X : v[x] = u[x]

LEMMA OneField ==
    ASSUME NEW u, DOMAIN u = Fields, NEW x \in Fields, NEW e
    PROVE  [u EXCEPT ![x] = e][x] = e /\ Others({x}, u, [u EXCEPT ![x] = e])
BY DEF Others

LEMMA TwoFields ==
    ASSUME NEW u, DOMAIN u = Fields, NEW x \in Fields, NEW y \in Fields, x # y, NEW d, NEW e
    PROVE  LET v == [u EXCEPT ![x] = d, ![y] = e] IN v[x] = d /\ v[y] = e /\ Others({x, y}, u, v)
BY DEF Others

LEMMA ThreeFields ==
    ASSUME NEW u, DOMAIN u = Fields, NEW x \in Fields, NEW y \in Fields, NEW z \in Fields,
           x # y, x # z, y # z, NEW d, NEW e, NEW f
    PROVE  LET v == [u EXCEPT ![x] = d, ![y] = e, ![z] = f] IN
           v[x] = d /\ v[y] = e /\ v[z] = f /\ Others({x, y, z}, u, v)
BY DEF Others

(* A frame is put on the stack.                                            *)
LEMMA PushFields ==
    ASSUME NEW u, UiTypes(u), NEW fs \in Seq(Frame)
    PROVE  LET v == Push(u, fs) IN
           v.stack = fs \o u.stack /\ Others({"stack"}, u, v) /\ UiTypes(v)
<1> DEFINE v == Push(u, fs)
<1>1. v.stack = fs \o u.stack /\ Others({"stack"}, u, v)
  BY OneField DEF UiTypes, Push, Fields
<1> HIDE DEF v
<1>2. UiTypes(v)
  <2>1. fs \o u.stack \in Seq(Frame)
    BY DEF UiTypes
  <2> QED BY <1>1, <2>1 DEF UiTypes, Others, Fields
<1> QED BY <1>1, <1>2 DEF v

LEMMA RestFields ==
    ASSUME NEW u, UiTypes(u), u.stack # <<>>
    PROVE  LET v == Rest(u) IN
           v.stack = Tail(u.stack) /\ Others({"stack"}, u, v) /\ UiTypes(v)
<1> DEFINE v == Rest(u)
<1>1. v.stack = Tail(u.stack) /\ Others({"stack"}, u, v)
  BY OneField DEF UiTypes, Rest, Fields
<1> HIDE DEF v
<1>2. UiTypes(v)
  <2>1. Tail(u.stack) \in Seq(Frame)
    BY DEF UiTypes
  <2> QED BY <1>1, <2>1 DEF UiTypes, Others, Fields
<1> QED BY <1>1, <1>2 DEF v

(* A part of the state is what its fields make it.                         *)
LEMMA SameTidy ==
    ASSUME NEW u, NEW v, NEW X, Tidy(u, X), UiTypes(v),
           Others({"dialogs", "list", "before", "at", "focus", "forgot"}, u, v),
           v.dialogs \subseteq Recs(v)
    PROVE  Tidy(v, X)
<1>1. /\ v.lists = u.lists /\ v.by = u.by /\ v.index = u.index /\ v.menus = u.menus
      /\ v.front = u.front /\ v.stack = u.stack /\ v.shown = u.shown /\ v.told = u.told
      /\ v.reshown = u.reshown
  BY DEF Others, Fields
<1>2. Kinds(v) /\ Tables(v) /\ OnceBut(v, X) /\ Menus(v) /\ Routes(v)
  <2>1. Kinds(v)
    BY <1>1 DEF Tidy, Kinds, Recs, Kind, Owner
  <2>2. Tables(v)
    BY <1>1 DEF Tidy, Tables, Owner
  <2>3. OnceBut(v, X)
    BY <1>1 DEF Tidy, OnceBut, Recs
  <2>4. Menus(v)
    BY <1>1 DEF Tidy, Menus, Recs, Kind
  <2>5. Routes(v)
    <3>1. Recs(v) = Recs(u) /\ \A r : Owner(v, r) = Owner(u, r)
      BY <1>1 DEF Recs, Owner
    <3>2. Routes(u)
      BY DEF Tidy
    <3>3. ASSUME NEW f, Reaching(u, f) PROVE Reaching(v, f)
      BY <1>1, <3>1, <3>3 DEF Reaching
    <3> QED BY <1>1, <3>1, <3>2, <3>3 DEF Routes
  <2> QED BY <2>1, <2>2, <2>3, <2>4, <2>5
<1> QED BY <1>2 DEF Tidy

(* A frame of the routing may only be the outermost call.                  *)
Outermost(f) == f.call \in {"route", "clicked"}
Safe(u, f) ==
    /\ f \in Frame
    /\ Outermost(f) => u.stack = <<>>
    /\ f.call = "callbacks" => IsInjective(f.todo)
    /\ f.call = "show" =>
         /\ Owner(u, f.record) = f.owner
         /\ \A i \in 1 .. Len(u.stack) :
              u.stack[i].call = "route" => f.record \notin Reaches(u.stack[i])
    /\ f.call = "route" =>
         /\ f.live => f.sc = u.front
         /\ \A r \in Reaches(f) :
              /\ r \in Recs(u)
              /\ \A sc \in OverlayScenes : r \in ToSet(u.lists[sc]) => f.live /\ sc = f.sc
    /\ f.call = "handler" => u.stack # <<>> /\ u.stack[1].call = "route"
    /\ f.call = "enter" =>
         \A i \in 1 .. Len(u.stack) : u.stack[i].call = "route" => ~u.stack[i].live

(* A frame is put on the stack: what it owes is no longer on its way.      *)
LEMMA PushTidy ==
    ASSUME NEW u, NEW X, Tidy(u, X), NEW f, Safe(u, f), Owed(f) \subseteq X
    PROVE  Tidy(Push(u, <<f>>), X \ Owed(f))
<1> DEFINE v == Push(u, <<f>>)
<1>1. /\ v.stack = <<f>> \o u.stack /\ UiTypes(v) /\ Others({"stack"}, u, v)
      /\ u.stack \in Seq(Frame) /\ f \in Frame
  <2>1. <<f>> \in Seq(Frame) /\ UiTypes(u)
    BY DEF Safe, Tidy
  <2> QED BY <2>1, PushFields DEF Safe, UiTypes
<1>2. /\ v.lists = u.lists /\ v.by = u.by /\ v.index = u.index /\ v.menus = u.menus
      /\ v.front = u.front /\ v.dialogs = u.dialogs /\ v.shown = u.shown /\ v.told = u.told
      /\ v.reshown = u.reshown
  BY <1>1 DEF Others, Fields
<1>3. /\ Len(v.stack) = Len(u.stack) + 1 /\ v.stack[1] = f /\ Len(u.stack) \in Nat
      /\ \A i \in 1 .. Len(u.stack) : i + 1 \in 1 .. Len(v.stack) /\ v.stack[i + 1] = u.stack[i]
      /\ \A i \in 1 .. Len(v.stack) : i = 1 \/ (i - 1 \in 1 .. Len(u.stack) /\ v.stack[i] = u.stack[i - 1])
      /\ 1 \in 1 .. Len(v.stack)
  BY <1>1, PushPlaces
<1> HIDE DEF v
<1>4. Kinds(v) /\ Tables(v) /\ Menus(v)
  <2>1. Kinds(v)
    BY <1>2 DEF Tidy, Kinds, Recs, Kind, Owner
  <2>2. Tables(v)
    BY <1>2 DEF Tidy, Tables, Owner
  <2>3. Menus(v)
    BY <1>2 DEF Tidy, Menus, Recs, Kind
  <2> QED BY <2>1, <2>2, <2>3
<1>5. OnceBut(v, X \ Owed(f))
  <2>1. OnceBut(u, X) /\ Recs(v) = Recs(u)
    BY <1>2 DEF Tidy, Recs
  <2>2. /\ X \ Owed(f) \subseteq Recs(v)
        /\ \A sc \in OverlayScenes : /\ IsInjective(v.lists[sc]) /\ ToSet(v.lists[sc]) \subseteq Recs(v)
                                   /\ ToSet(v.lists[sc]) \cap (X \ Owed(f)) = {}
        /\ \A sc, sd \in OverlayScenes : sc # sd => ToSet(v.lists[sc]) \cap ToSet(v.lists[sd]) = {}
    BY <1>2, <2>1 DEF OnceBut
  <2>3. ASSUME NEW i \in 1 .. Len(v.stack)
        PROVE  /\ Owed(v.stack[i]) \subseteq Recs(v) /\ Owed(v.stack[i]) \cap (X \ Owed(f)) = {}
               /\ v.stack[i].call = "callbacks" => IsInjective(v.stack[i].todo)
               /\ \A j \in 1 .. Len(v.stack) : i # j => Owed(v.stack[i]) \cap Owed(v.stack[j]) = {}
               /\ \A sc \in OverlayScenes : Owed(v.stack[i]) \cap ToSet(v.lists[sc]) = {}
    <3>1. CASE i = 1
      <4>1. Owed(v.stack[i]) \subseteq X /\ (v.stack[i].call = "callbacks" => IsInjective(v.stack[i].todo))
        BY <1>3, <3>1 DEF Safe
      <4>2. \A j \in 1 .. Len(v.stack) : i # j => Owed(v.stack[i]) \cap Owed(v.stack[j]) = {}
        <5>1. \A j \in 1 .. Len(u.stack) : Owed(u.stack[j]) \cap X = {}
          BY <2>1 DEF OnceBut
        <5> QED BY <1>3, <3>1, <4>1, <5>1
      <4>3. \A sc \in OverlayScenes : Owed(v.stack[i]) \cap ToSet(v.lists[sc]) = {}
        BY <1>2, <2>1, <4>1 DEF OnceBut
      <4> QED BY <1>3, <2>1, <3>1, <4>1, <4>2, <4>3 DEF OnceBut
    <3>2. CASE i # 1
      <4>1. i - 1 \in 1 .. Len(u.stack) /\ v.stack[i] = u.stack[i - 1]
        BY <1>3, <3>2
      <4>2. ASSUME NEW j \in 1 .. Len(v.stack), i # j
            PROVE  Owed(v.stack[i]) \cap Owed(v.stack[j]) = {}
        <5>1. CASE j = 1
          BY <1>3, <2>1, <4>1, <5>1 DEF OnceBut
        <5>2. CASE j # 1
          <6>1. j - 1 \in 1 .. Len(u.stack) /\ v.stack[j] = u.stack[j - 1] /\ i - 1 # j - 1
            BY <1>3, <4>2, <5>2
          <6> QED BY <2>1, <4>1, <6>1 DEF OnceBut
        <5> QED BY <5>1, <5>2
      <4> QED BY <1>2, <2>1, <4>1, <4>2 DEF OnceBut
    <3> QED BY <3>1, <3>2
  <2>4. ASSUME NEW r \in Records
        PROVE  v.told[r] = IF \/ r \notin Recs(v) \/ r \in X \ Owed(f)
                              \/ \E sc \in OverlayScenes : r \in ToSet(v.lists[sc])
                              \/ \E i \in 1 .. Len(v.stack) : r \in Owed(v.stack[i])
                           THEN 0 ELSE 1
    <3>1. (\E i \in 1 .. Len(v.stack) : r \in Owed(v.stack[i]))
              <=> r \in Owed(f) \/ \E i \in 1 .. Len(u.stack) : r \in Owed(u.stack[i])
      BY <1>3
    <3> QED BY <1>2, <2>1, <3>1 DEF OnceBut
  <2> QED BY <2>2, <2>3, <2>4 DEF OnceBut
<1>6. Routes(v)
  <2>1. Routes(u) /\ Recs(v) = Recs(u)
    BY <1>2 DEF Tidy, Recs
  <2>2. Owner(v, f.record) = Owner(u, f.record) /\ \A i \in 1 .. Len(u.stack) :
            Owner(v, u.stack[i].record) = Owner(u, u.stack[i].record)
    BY <1>2 DEF Owner
  <2>3. ASSUME NEW g, Reaching(u, g), f.call = "show" => f.record \notin Reaches(g),
               g.live => f.call # "enter"
        PROVE  Reaching(v, g)
    <3>1. ASSUME g.live PROVE /\ g.sc = v.front
                             /\ \A j \in 1 .. Len(v.stack) : v.stack[j].call # "enter"
      <4>1. /\ g.sc = u.front /\ f.call # "enter"
            /\ \A j \in 1 .. Len(u.stack) : u.stack[j].call # "enter"
        BY <2>3, <3>1 DEF Reaching
      <4>2. g.sc = v.front
        BY <1>2, <4>1
      <4>3. ASSUME NEW j \in 1 .. Len(v.stack) PROVE v.stack[j].call # "enter"
        <5>1. \/ v.stack[j] = f
              \/ j - 1 \in 1 .. Len(u.stack) /\ v.stack[j] = u.stack[j - 1]
          BY <1>3
        <5> QED BY <4>1, <5>1
      <4> QED BY <4>2, <4>3
    <3>2. ASSUME NEW r \in Reaches(g)
          PROVE  \A j \in 1 .. Len(v.stack) : v.stack[j].call = "show" => v.stack[j].record # r
      <4>1. f.call = "show" => f.record # r
        BY <2>3
      <4>2. \A j \in 1 .. Len(u.stack) : u.stack[j].call = "show" => u.stack[j].record # r
        BY <2>3 DEF Reaching
      <4> QED BY <1>3, <4>1, <4>2
    <3>3. \A r \in Reaches(g) :
            /\ r \in Recs(v)
            /\ \A sc \in OverlayScenes : r \in ToSet(v.lists[sc]) => g.live /\ sc = g.sc
      BY <1>2, <2>1, <2>3 DEF Reaching
    <3> QED BY <3>1, <3>2, <3>3 DEF Reaching
  <2>4. ASSUME f.call = "route" PROVE Reaching(v, f)
    <3>1. Len(v.stack) = 1 /\ v.stack[1] = f
      BY <1>1, <1>3, <2>4 DEF Safe, Outermost
    <3>2. \A j \in 1 .. Len(v.stack) : v.stack[j].call = "route"
      BY <2>4, <3>1
    <3>3. /\ f.live => f.sc = v.front
          /\ \A r \in Reaches(f) :
               /\ r \in Recs(v)
               /\ \A sc \in OverlayScenes : r \in ToSet(v.lists[sc]) => f.live /\ sc = f.sc
      BY <1>2, <2>1, <2>4 DEF Safe
    <3> QED BY <3>2, <3>3 DEF Reaching
  <2>5. ASSUME NEW i \in 1 .. Len(v.stack)
        PROVE  /\ v.stack[i].call \in {"route", "clicked"} => i = Len(v.stack)
               /\ v.stack[i].call = "show" => Owner(v, v.stack[i].record) = v.stack[i].owner
               /\ v.stack[i].call = "route" => Reaching(v, v.stack[i])
               /\ v.stack[i].call = "handler" => /\ i + 1 \in 1 .. Len(v.stack)
                                                /\ v.stack[i + 1].call = "route"
    <3>1. CASE i = 1
      <4>1. u.stack = <<>> => Len(v.stack) = 1
        BY <1>1, <1>3
      <4>2. f.call = "handler" => 1 + 1 \in 1 .. Len(v.stack) /\ v.stack[1 + 1].call = "route"
        <5>1. u.stack # <<>> => 1 \in 1 .. Len(u.stack)
          BY <1>1
        <5> QED BY <1>3, <5>1 DEF Safe
      <4>3. f.call = "show" => Owner(v, f.record) = f.owner
        BY <2>2 DEF Safe
      <4>4. f.call \in {"route", "clicked"} => u.stack = <<>>
        BY DEF Safe, Outermost
      <4> QED BY <1>3, <2>4, <3>1, <4>1, <4>2, <4>3, <4>4
    <3>2. CASE i # 1
      <4>1. i - 1 \in 1 .. Len(u.stack) /\ v.stack[i] = u.stack[i - 1]
        BY <1>3, <3>2
      <4>2. /\ v.stack[i].call \in {"route", "clicked"} => i = Len(v.stack)
            /\ v.stack[i].call = "show" => Owner(v, v.stack[i].record) = v.stack[i].owner
        <5>1. /\ v.stack[i].call \in {"route", "clicked"} => i - 1 = Len(u.stack)
              /\ v.stack[i].call = "show" => Owner(u, v.stack[i].record) = v.stack[i].owner
          BY <2>1, <4>1 DEF Routes
        <5>2. Owner(v, v.stack[i].record) = Owner(u, v.stack[i].record)
          BY <1>2 DEF Owner
        <5> QED BY <1>3, <5>1, <5>2
      <4>3. ASSUME v.stack[i].call = "route" PROVE Reaching(v, v.stack[i])
        <5>1. Reaching(u, v.stack[i])
          BY <2>1, <4>1, <4>3 DEF Routes
        <5>2. f.call = "show" => f.record \notin Reaches(v.stack[i])
          BY <4>1, <4>3 DEF Safe
        <5>3. v.stack[i].live => f.call # "enter"
          BY <4>1, <4>3 DEF Safe
        <5> QED BY <2>3, <5>1, <5>2, <5>3
      <4>4. v.stack[i].call = "handler" => i + 1 \in 1 .. Len(v.stack) /\ v.stack[i + 1].call = "route"
        <5>1. v.stack[i].call = "handler" => /\ (i - 1) + 1 \in 1 .. Len(u.stack)
                                            /\ u.stack[(i - 1) + 1].call = "route"
          BY <2>1, <4>1 DEF Routes
        <5>2. (i - 1) + 1 = i
          OBVIOUS
        <5> QED BY <1>3, <5>1, <5>2
      <4> QED BY <4>2, <4>3, <4>4
    <3> QED BY <3>1, <3>2
  <2> QED BY <2>5 DEF Routes
<1> QED BY <1>1, <1>4, <1>5, <1>6 DEF Tidy, v

(* Records and their kinds are typed.                                      *)
LEMMA RecsAre ==
    ASSUME NEW u, UiTypes(u)
    PROVE  Recs(u) \subseteq Records /\ Len(u.shown) \in Nat /\ MaxShown \in Nat
<1>1. Len(u.shown) \in Nat /\ Len(u.shown) <= MaxShown /\ MaxShown \in Nat
  BY OverlaysAssumption DEF UiTypes
<1> QED BY <1>1 DEF Recs, Records

LEMMA KindsAre ==
    ASSUME NEW u, UiTypes(u), NEW r \in Recs(u)
    PROVE  Kind(u, r) \in {"panel", "menu", "dialog", "palette"} /\ Owner(u, r) \in Owners
<1> DEFINE S == [kind : {"panel", "menu", "dialog", "palette"}, owner : Owners]
<1>1. /\ u.shown \in Seq(S)
      /\ \A x \in S : x.kind \in {"panel", "menu", "dialog", "palette"} /\ x.owner \in Owners
  BY DEF UiTypes
<1> HIDE DEF S
<1>2. u.shown[r] \in S
  BY <1>1 DEF Recs
<1> QED BY <1>1, <1>2 DEF Kind, Owner

(* The first frame is taken off.                                           *)
LEMMA RestTidy ==
    ASSUME NEW u, NEW X, Tidy(u, X), u.stack # <<>>
    PROVE  /\ Tidy(Rest(u), X \cup Owed(Head(u.stack))) /\ Owed(Head(u.stack)) \cap X = {}
           /\ Head(u.stack) = u.stack[1] /\ Head(u.stack) \in Frame
           /\ Outermost(Head(u.stack)) => Rest(u).stack = <<>>
           /\ Head(u.stack).call = "handler" =>
                Rest(u).stack # <<>> /\ Head(Rest(u).stack).call = "route"
<1> DEFINE v == Rest(u)
           f == Head(u.stack)
<1>1. /\ v.stack = Tail(u.stack) /\ UiTypes(v) /\ Others({"stack"}, u, v)
      /\ u.stack \in Seq(Frame)
  <2>1. UiTypes(u)
    BY DEF Tidy
  <2> QED BY <2>1, RestFields DEF UiTypes
<1>2. /\ v.lists = u.lists /\ v.by = u.by /\ v.index = u.index /\ v.menus = u.menus
      /\ v.front = u.front /\ v.dialogs = u.dialogs /\ v.shown = u.shown /\ v.told = u.told
      /\ v.reshown = u.reshown
  BY <1>1 DEF Others, Fields
<1>3. /\ Len(v.stack) = Len(u.stack) - 1 /\ u.stack[1] = f /\ f \in Frame
      /\ Len(u.stack) \in Nat \ {0}
      /\ \A i \in 1 .. Len(v.stack) : i + 1 \in 1 .. Len(u.stack) /\ v.stack[i] = u.stack[i + 1]
      /\ \A i \in 1 .. Len(u.stack) : i = 1 \/ (i - 1 \in 1 .. Len(v.stack) /\ u.stack[i] = v.stack[i - 1])
      /\ 1 \in 1 .. Len(u.stack)
  BY <1>1, RestPlaces
<1> HIDE DEF v, f
<1>4. Kinds(v) /\ Tables(v) /\ Menus(v)
  <2>1. Kinds(v)
    BY <1>2 DEF Tidy, Kinds, Recs, Kind, Owner
  <2>2. Tables(v)
    BY <1>2 DEF Tidy, Tables, Owner
  <2>3. Menus(v)
    BY <1>2 DEF Tidy, Menus, Recs, Kind
  <2> QED BY <2>1, <2>2, <2>3
<1>5. OnceBut(v, X \cup Owed(f)) /\ Owed(f) \cap X = {}
  <2>1. OnceBut(u, X) /\ Recs(v) = Recs(u)
    BY <1>2 DEF Tidy, Recs
  <2>2. Owed(f) \cap X = {} /\ Owed(f) \subseteq Recs(u)
        /\ \A sc \in OverlayScenes : Owed(f) \cap ToSet(u.lists[sc]) = {}
    BY <1>3, <2>1 DEF OnceBut
  <2>3. /\ X \cup Owed(f) \subseteq Recs(v)
        /\ \A sc \in OverlayScenes : /\ IsInjective(v.lists[sc]) /\ ToSet(v.lists[sc]) \subseteq Recs(v)
                                   /\ ToSet(v.lists[sc]) \cap (X \cup Owed(f)) = {}
        /\ \A sc, sd \in OverlayScenes : sc # sd => ToSet(v.lists[sc]) \cap ToSet(v.lists[sd]) = {}
    BY <1>2, <2>1, <2>2 DEF OnceBut
  <2>4. ASSUME NEW i \in 1 .. Len(v.stack)
        PROVE  /\ Owed(v.stack[i]) \subseteq Recs(v) /\ Owed(v.stack[i]) \cap (X \cup Owed(f)) = {}
               /\ v.stack[i].call = "callbacks" => IsInjective(v.stack[i].todo)
               /\ \A j \in 1 .. Len(v.stack) : i # j => Owed(v.stack[i]) \cap Owed(v.stack[j]) = {}
               /\ \A sc \in OverlayScenes : Owed(v.stack[i]) \cap ToSet(v.lists[sc]) = {}
    <3>1. i + 1 \in 1 .. Len(u.stack) /\ v.stack[i] = u.stack[i + 1] /\ i + 1 # 1
      BY <1>3
    <3>2. ASSUME NEW j \in 1 .. Len(v.stack), i # j
          PROVE  Owed(v.stack[i]) \cap Owed(v.stack[j]) = {}
      <4>1. j + 1 \in 1 .. Len(u.stack) /\ v.stack[j] = u.stack[j + 1] /\ i + 1 # j + 1
        BY <1>3, <3>2
      <4> QED BY <2>1, <3>1, <4>1 DEF OnceBut
    <3>3. Owed(v.stack[i]) \cap Owed(f) = {}
      BY <1>3, <2>1, <3>1 DEF OnceBut
    <3> QED BY <1>2, <2>1, <3>1, <3>2, <3>3 DEF OnceBut
  <2>5. ASSUME NEW r \in Records
        PROVE  v.told[r] = IF \/ r \notin Recs(v) \/ r \in X \cup Owed(f)
                              \/ \E sc \in OverlayScenes : r \in ToSet(v.lists[sc])
                              \/ \E i \in 1 .. Len(v.stack) : r \in Owed(v.stack[i])
                           THEN 0 ELSE 1
    <3>1. (\E i \in 1 .. Len(u.stack) : r \in Owed(u.stack[i]))
              <=> r \in Owed(f) \/ \E i \in 1 .. Len(v.stack) : r \in Owed(v.stack[i])
      BY <1>3
    <3> QED BY <1>2, <2>1, <3>1 DEF OnceBut
  <2> QED BY <2>2, <2>3, <2>4, <2>5 DEF OnceBut
<1>6. Routes(v)
  <2>1. Routes(u) /\ Recs(v) = Recs(u)
    BY <1>2 DEF Tidy, Recs
  <2>2. ASSUME NEW g, Reaching(u, g) PROVE Reaching(v, g)
    <3>1. ASSUME NEW j \in 1 .. Len(v.stack)
          PROVE  /\ g.live => v.stack[j].call # "enter"
                 /\ v.stack[j].call = "show" => v.stack[j].record \notin Reaches(g)
      <4>1. j + 1 \in 1 .. Len(u.stack) /\ v.stack[j] = u.stack[j + 1]
        BY <1>3
      <4> QED BY <2>2, <4>1 DEF Reaching
    <3>2. /\ g.live => g.sc = v.front
          /\ \A r \in Reaches(g) :
               /\ r \in Recs(v)
               /\ \A sc \in OverlayScenes : r \in ToSet(v.lists[sc]) => g.live /\ sc = g.sc
      BY <1>2, <2>1, <2>2 DEF Reaching
    <3> QED BY <3>1, <3>2 DEF Reaching
  <2>3. ASSUME NEW i \in 1 .. Len(v.stack)
        PROVE  /\ v.stack[i].call \in {"route", "clicked"} => i = Len(v.stack)
               /\ v.stack[i].call = "show" => Owner(v, v.stack[i].record) = v.stack[i].owner
               /\ v.stack[i].call = "route" => Reaching(v, v.stack[i])
               /\ v.stack[i].call = "handler" => /\ i + 1 \in 1 .. Len(v.stack)
                                                /\ v.stack[i + 1].call = "route"
    <3>1. i + 1 \in 1 .. Len(u.stack) /\ v.stack[i] = u.stack[i + 1]
      BY <1>3
    <3>2. /\ v.stack[i].call \in {"route", "clicked"} => i + 1 = Len(u.stack)
          /\ v.stack[i].call = "show" => Owner(u, v.stack[i].record) = v.stack[i].owner
          /\ v.stack[i].call = "route" => Reaching(u, v.stack[i])
          /\ v.stack[i].call = "handler" => /\ (i + 1) + 1 \in 1 .. Len(u.stack)
                                           /\ u.stack[(i + 1) + 1].call = "route"
      BY <2>1, <3>1 DEF Routes
    <3>3. Owner(v, v.stack[i].record) = Owner(u, v.stack[i].record)
      BY <1>2 DEF Owner
    <3>4. (i + 1) + 1 \in 1 .. Len(u.stack) => /\ i + 1 \in 1 .. Len(v.stack)
                                               /\ v.stack[i + 1] = u.stack[(i + 1) + 1]
      BY <1>3
    <3>5. v.stack[i].call = "handler" => i + 1 \in 1 .. Len(v.stack) /\ v.stack[i + 1].call = "route"
      BY <3>2, <3>4
    <3>6. v.stack[i].call \in {"route", "clicked"} => i = Len(v.stack)
      BY <1>3, <3>2
    <3> QED BY <2>2, <3>2, <3>3, <3>5, <3>6
  <2> QED BY <2>3 DEF Routes
<1>7. Outermost(f) => v.stack = <<>>
  <2>1. Outermost(f) => Len(u.stack) = 1
    BY <1>3 DEF Tidy, Routes, Outermost
  <2>2. v.stack \in Seq(Frame)
    BY <1>1 DEF UiTypes
  <2>3. Len(u.stack) = 1 => Len(v.stack) = 0
    BY <1>3
  <2> QED BY <2>1, <2>2, <2>3
<1>8. f.call = "handler" => v.stack # <<>> /\ Head(v.stack).call = "route"
  <2>1. f.call = "handler" => 2 \in 1 .. Len(u.stack) /\ u.stack[2].call = "route"
    BY <1>3 DEF Tidy, Routes
  <2>2. 2 \in 1 .. Len(u.stack) => 1 \in 1 .. Len(v.stack) /\ v.stack[1] = u.stack[2]
    BY <1>3
  <2>3. v.stack \in Seq(Frame)
    BY <1>1 DEF UiTypes
  <2>4. 1 \in 1 .. Len(v.stack) => v.stack # <<>> /\ Head(v.stack) = v.stack[1]
    BY <2>3
  <2> QED BY <2>1, <2>2, <2>4
<1> QED BY <1>1, <1>3, <1>4, <1>5, <1>6, <1>7, <1>8 DEF Tidy, v, f

(* A dismissal is told.                                                    *)
LEMMA ToldTidy ==
    ASSUME NEW u, NEW X, Tidy(u, X), NEW r \in X, NEW v, UiTypes(v),
           Others({"told", "menus"}, u, v), v.told = [u.told EXCEPT ![r] = @ + 1],
           v.menus = IF Kind(u, r) = "menu" THEN u.menus \ {r} ELSE u.menus
    PROVE  Tidy(v, X \ {r})
<1>1. /\ v.lists = u.lists /\ v.by = u.by /\ v.index = u.index /\ v.stack = u.stack
      /\ v.front = u.front /\ v.dialogs = u.dialogs /\ v.shown = u.shown
      /\ v.reshown = u.reshown
  BY DEF Others, Fields
<1>2. Kinds(v) /\ Tables(v) /\ Routes(v) /\ Recs(v) = Recs(u)
  <2>1. Kinds(v)
    BY <1>1 DEF Tidy, Kinds, Recs, Kind, Owner
  <2>2. Tables(v)
    BY <1>1 DEF Tidy, Tables, Owner
  <2>3. Recs(v) = Recs(u) /\ \A x : Owner(v, x) = Owner(u, x)
    BY <1>1 DEF Recs, Owner
  <2>4. ASSUME NEW f, Reaching(u, f) PROVE Reaching(v, f)
    BY <1>1, <2>3, <2>4 DEF Reaching
  <2>5. Routes(v)
    BY <1>1, <2>3, <2>4 DEF Tidy, Routes
  <2> QED BY <2>1, <2>2, <2>3, <2>5
<1>3. OnceBut(u, X) /\ X \subseteq Recs(u) /\ Recs(u) \subseteq Records /\ u.told \in [Records -> Nat]
  BY RecsAre DEF Tidy, OnceBut, UiTypes
<1>4. /\ r \in Records /\ r \in Recs(u) /\ v.told[r] = u.told[r] + 1
      /\ \A x \in Records \ {r} : v.told[x] = u.told[x]
  BY <1>3
<1>5. /\ \A sc \in OverlayScenes : r \notin ToSet(u.lists[sc])
      /\ \A i \in 1 .. Len(u.stack) : r \notin Owed(u.stack[i])
      /\ u.told[r] = 0
  BY <1>3, <1>4 DEF OnceBut
<1>6. OnceBut(v, X \ {r})
  <2>1. ASSUME NEW x \in Records
        PROVE  v.told[x] = IF \/ x \notin Recs(v) \/ x \in X \ {r}
                              \/ \E sc \in OverlayScenes : x \in ToSet(v.lists[sc])
                              \/ \E i \in 1 .. Len(v.stack) : x \in Owed(v.stack[i])
                           THEN 0 ELSE 1
    <3>1. CASE x = r
      BY <1>1, <1>2, <1>4, <1>5, <3>1
    <3>2. CASE x # r
      BY <1>1, <1>2, <1>3, <1>4, <3>2 DEF OnceBut
    <3> QED BY <3>1, <3>2
  <2>2. /\ X \ {r} \subseteq Recs(v)
        /\ \A sc \in OverlayScenes : /\ IsInjective(v.lists[sc]) /\ ToSet(v.lists[sc]) \subseteq Recs(v)
                                   /\ ToSet(v.lists[sc]) \cap (X \ {r}) = {}
        /\ \A sc, sd \in OverlayScenes : sc # sd => ToSet(v.lists[sc]) \cap ToSet(v.lists[sd]) = {}
    BY <1>1, <1>2, <1>3 DEF OnceBut
  <2>3. ASSUME NEW i \in 1 .. Len(v.stack)
        PROVE  /\ Owed(v.stack[i]) \subseteq Recs(v) /\ Owed(v.stack[i]) \cap (X \ {r}) = {}
               /\ v.stack[i].call = "callbacks" => IsInjective(v.stack[i].todo)
               /\ \A j \in 1 .. Len(v.stack) : i # j => Owed(v.stack[i]) \cap Owed(v.stack[j]) = {}
               /\ \A sc \in OverlayScenes : Owed(v.stack[i]) \cap ToSet(v.lists[sc]) = {}
    BY <1>1, <1>2, <1>3 DEF OnceBut
  <2> QED BY <2>1, <2>2, <2>3 DEF OnceBut
<1>7. Menus(v)
  <2>1. ASSUME NEW x \in Recs(v), Kind(v, x) = "menu" PROVE x \in v.menus <=> v.told[x] = 0
    <3>1. Kind(v, x) = Kind(u, x) /\ x \in Recs(u) /\ x \in Records
      BY <1>1, <1>2, <1>3 DEF Kind
    <3>2. CASE x = r
      BY <1>4, <1>5, <2>1, <3>1, <3>2
    <3>3. CASE x # r
      BY <1>4, <2>1, <3>1, <3>3 DEF Tidy, Menus
    <3> QED BY <3>2, <3>3
  <2>2. v.menus \subseteq Recs(v) /\ v.dialogs \subseteq Recs(v)
    BY <1>1, <1>2 DEF Tidy, Menus
  <2> QED BY <2>1, <2>2 DEF Menus
<1> QED BY <1>2, <1>6, <1>7 DEF Tidy

(* A record is made: it is on its way to the list.                         *)
NewParts(u, v, kind, o) ==
    /\ Tidy(v, {Newest(u)}) /\ Newest(u) \in Recs(v)
    /\ Kind(v, Newest(u)) = kind /\ Owner(v, Newest(u)) = o
    /\ Recs(v) = Recs(u) \cup {Newest(u)} /\ Newest(u) \notin Recs(u)
    /\ \A r \in Recs(u) : Kind(v, r) = Kind(u, r) /\ Owner(v, r) = Owner(u, r)

LEMMA NewTidy ==
    ASSUME NEW u, Tidy(u, {}), NEW v, NEW kind, NEW o \in Owners,
           Len(u.shown) < MaxShown,
           Others({"shown", "menus", "dialogs", "list", "at"}, u, v),
           v.list \in Nat, v.at \in OverlayScenes,
           v.shown = Append(u.shown, [kind |-> kind, owner |-> o]),
           v.menus = IF kind = "menu" THEN u.menus \cup {Newest(u)} ELSE u.menus,
           v.dialogs = IF kind = "dialog" THEN u.dialogs \cup {Newest(u)} ELSE u.dialogs,
           \/ kind = "panel" /\ o \in Panels
           \/ kind = "palette" /\ o = Palette
           \/ kind \in {"menu", "dialog"} /\ o = Newest(u)
    PROVE  NewParts(u, v, kind, o)
<1> DEFINE n == Newest(u)
           S == [kind : {"panel", "menu", "dialog", "palette"}, owner : Owners]
<1>1. /\ v.lists = u.lists /\ v.by = u.by /\ v.index = u.index /\ v.stack = u.stack
      /\ v.front = u.front /\ v.before = u.before /\ v.focus = u.focus /\ v.forgot = u.forgot
      /\ v.reshown = u.reshown /\ v.told = u.told /\ DOMAIN v = Fields
  BY DEF Others, Fields
<1>2. /\ UiTypes(u) /\ u.shown \in Seq(S) /\ Len(u.shown) \in Nat /\ MaxShown \in Nat
      /\ [kind |-> kind, owner |-> o] \in S
  BY RecsAre DEF Tidy, UiTypes
<1>3. /\ v.shown \in Seq(S) /\ Len(v.shown) = Len(u.shown) + 1
      /\ v.shown[Len(u.shown) + 1] = [kind |-> kind, owner |-> o]
      /\ \A i \in 1 .. Len(u.shown) : v.shown[i] = u.shown[i]
  BY <1>2, AppendProperties
<1>4. /\ n = Len(u.shown) + 1 /\ Recs(v) = Recs(u) \cup {n} /\ n \notin Recs(u) /\ n \in Records
      /\ \A r \in Recs(u) : Kind(v, r) = Kind(u, r) /\ Owner(v, r) = Owner(u, r)
      /\ Kind(v, n) = kind /\ Owner(v, n) = o
      /\ Recs(u) \subseteq Records /\ Len(v.shown) <= MaxShown
  BY <1>2, <1>3, RecsAre DEF Recs, Newest, Records, Kind, Owner
<1> HIDE DEF n, S
<1>5. UiTypes(v)
  BY <1>1, <1>2, <1>3, <1>4 DEF UiTypes, S, n
<1>6. Kinds(v)
  <2>1. ASSUME NEW r \in Recs(v)
        PROVE  /\ Kind(v, r) = "palette" <=> Owner(v, r) = Palette
               /\ Kind(v, r) \in {"menu", "dialog"} => Owner(v, r) = r
               /\ Kind(v, r) = "panel" => Owner(v, r) \in Panels
    <3>1. CASE r = n
      BY <1>4, <3>1, OverlaysAssumption DEF n, Records
    <3>2. CASE r # n
      <4>1. r \in Recs(u)
        BY <1>4, <3>2
      <4> QED BY <1>4, <4>1 DEF Tidy, Kinds
    <3> QED BY <3>1, <3>2
  <2> QED BY <2>1 DEF Kinds
<1>7. OnceBut(u, {}) /\ u.lists \in [OverlayScenes -> Seq(Records)] /\ u.stack \in Seq(Frame)
      /\ u.told \in [Records -> Nat]
  BY <1>2 DEF Tidy, UiTypes
<1>8. ASSUME NEW sc \in OverlayScenes, NEW k \in 1 .. Len(u.lists[sc])
      PROVE  u.lists[sc][k] \in Recs(u) /\ u.lists[sc][k] \in ToSet(u.lists[sc])
  BY <1>7, <1>8, InSet DEF OnceBut
<1>9. Tables(v)
  <2>1. ASSUME NEW sc \in OverlayScenes, NEW p \in Owners, u.by[sc][p] # NoRecord
        PROVE  Owner(v, u.by[sc][p]) = Owner(u, u.by[sc][p])
    <3>1. u.index[sc][p] \in 1 .. Len(u.lists[sc]) /\ u.lists[sc][u.index[sc][p]] = u.by[sc][p]
      BY <2>1 DEF Tidy, Tables
    <3>2. u.by[sc][p] \in Recs(u)
      BY <1>8, <3>1
    <3> QED BY <1>4, <3>2
  <2>2. \A sc \in OverlayScenes : \A k \in 1 .. Len(u.lists[sc]) :
            Owner(v, u.lists[sc][k]) = Owner(u, u.lists[sc][k])
    BY <1>4, <1>8
  <2>3. Tables(u)
    BY DEF Tidy
  <2>4. ASSUME NEW sc \in OverlayScenes, NEW p \in Owners
        PROVE  LET q == v.lists[sc]
                   r == v.by[sc][p]
                   i == v.index[sc][p]
               IN /\ r # NoRecord => /\ i \in 1 .. Len(q) /\ q[i] = r /\ Owner(v, r) = p
                                     /\ \A k \in i + 1 .. Len(q) : Owner(v, q[k]) # p
                  /\ p \notin v.reshown =>
                       /\ r = NoRecord => i = 0 /\ \A k \in 1 .. Len(q) : Owner(v, q[k]) # p
                       /\ r # NoRecord => \A k \in 1 .. Len(q) : Owner(v, q[k]) = p => k = i
    <3>1. u.index[sc][p] \in Nat /\ Len(u.lists[sc]) \in Nat
      BY <1>2, <1>7 DEF UiTypes
    <3>2. \A k \in u.index[sc][p] + 1 .. Len(u.lists[sc]) : k \in 1 .. Len(u.lists[sc])
      BY <3>1
    <3> QED BY <1>1, <2>1, <2>2, <2>3, <3>2 DEF Tables
  <2> QED BY <2>4 DEF Tables
<1>10. OnceBut(v, {n})
  <2>1. /\ \A sc \in OverlayScenes : ToSet(u.lists[sc]) \subseteq Recs(u) /\ IsInjective(u.lists[sc])
        /\ \A sc, sd \in OverlayScenes : sc # sd => ToSet(u.lists[sc]) \cap ToSet(u.lists[sd]) = {}
        /\ \A i \in 1 .. Len(u.stack) :
             /\ Owed(u.stack[i]) \subseteq Recs(u)
             /\ u.stack[i].call = "callbacks" => IsInjective(u.stack[i].todo)
             /\ \A j \in 1 .. Len(u.stack) : i # j => Owed(u.stack[i]) \cap Owed(u.stack[j]) = {}
             /\ \A sc \in OverlayScenes : Owed(u.stack[i]) \cap ToSet(u.lists[sc]) = {}
    BY <1>7 DEF OnceBut
  <2>2. ASSUME NEW x \in Records
        PROVE  v.told[x] = IF \/ x \notin Recs(v) \/ x \in {n}
                              \/ \E sc \in OverlayScenes : x \in ToSet(v.lists[sc])
                              \/ \E i \in 1 .. Len(v.stack) : x \in Owed(v.stack[i])
                           THEN 0 ELSE 1
    BY <1>1, <1>4, <1>7 DEF OnceBut
  <2>3. /\ {n} \subseteq Recs(v)
        /\ \A sc \in OverlayScenes : /\ IsInjective(v.lists[sc]) /\ ToSet(v.lists[sc]) \subseteq Recs(v)
                                   /\ ToSet(v.lists[sc]) \cap {n} = {}
        /\ \A sc, sd \in OverlayScenes : sc # sd => ToSet(v.lists[sc]) \cap ToSet(v.lists[sd]) = {}
    BY <1>1, <1>4, <2>1
  <2>4. ASSUME NEW i \in 1 .. Len(v.stack)
        PROVE  /\ Owed(v.stack[i]) \subseteq Recs(v) /\ Owed(v.stack[i]) \cap {n} = {}
               /\ v.stack[i].call = "callbacks" => IsInjective(v.stack[i].todo)
               /\ \A j \in 1 .. Len(v.stack) : i # j => Owed(v.stack[i]) \cap Owed(v.stack[j]) = {}
               /\ \A sc \in OverlayScenes : Owed(v.stack[i]) \cap ToSet(v.lists[sc]) = {}
    BY <1>1, <1>4, <2>1
  <2> QED BY <2>2, <2>3, <2>4 DEF OnceBut
<1>11. Menus(v)
  <2>1. u.told[n] = 0
    BY <1>4, <1>7 DEF OnceBut
  <2>2. u.menus \subseteq Recs(u) /\ u.dialogs \subseteq Recs(u)
    BY DEF Tidy, Menus
  <2>3. ASSUME NEW x \in Recs(v), Kind(v, x) = "menu" PROVE x \in v.menus <=> v.told[x] = 0
    <3>1. CASE x = n
      BY <1>1, <1>4, <2>1, <2>3, <3>1 DEF n
    <3>2. CASE x # n
      <4>1. x \in Recs(u) /\ Kind(u, x) = "menu"
        BY <1>4, <2>3, <3>2
      <4>2. x \in v.menus <=> x \in u.menus
        BY <3>2 DEF n
      <4> QED BY <1>1, <4>1, <4>2 DEF Tidy, Menus
    <3> QED BY <3>1, <3>2
  <2>4. v.menus \subseteq Recs(v) /\ v.dialogs \subseteq Recs(v)
    BY <1>4, <2>2 DEF n
  <2> QED BY <2>3, <2>4 DEF Menus
<1>12. Routes(v)
  <2>1. ASSUME NEW f, Reaching(u, f) PROVE Reaching(v, f)
    BY <1>1, <1>4, <2>1 DEF Reaching
  <2>2. ASSUME NEW i \in 1 .. Len(u.stack), u.stack[i].call = "show"
        PROVE  Owner(v, u.stack[i].record) = Owner(u, u.stack[i].record)
    <3>1. u.stack[i].record \in Recs(u)
      BY <1>7, <2>2 DEF OnceBut, Owed
    <3> QED BY <1>4, <3>1
  <2> QED BY <1>1, <2>1, <2>2 DEF Tidy, Routes
<1> QED BY <1>4, <1>5, <1>6, <1>9, <1>10, <1>11, <1>12 DEF Tidy, n, NewParts

(* A record comes on top of the list.                                      *)
OnTop(u, v, sc, r, o) ==
    /\ UiTypes(v) /\ Others({"lists", "by", "index", "reshown"}, u, v)
    /\ v.lists = [u.lists EXCEPT ![sc] = Append(u.lists[sc], r)]
    /\ v.by = [u.by EXCEPT ![sc] = [u.by[sc] EXCEPT ![o] = r]]
    /\ v.index = [u.index EXCEPT ![sc] = [u.index[sc] EXCEPT ![o] = Len(u.lists[sc]) + 1]]
    /\ v.reshown = IF u.by[sc][o] # NoRecord THEN u.reshown \cup {o} ELSE u.reshown

LEMMA AppendedFields ==
    ASSUME NEW u, UiTypes(u), NEW sc \in OverlayScenes, NEW r \in Records, NEW o \in Owners,
           u.by[sc][o] # NoRecord => o \in Panels
    PROVE  OnTop(u, Appended(u, sc, r, o), sc, r, o)
<1> DEFINE v == Appended(u, sc, r, o)
<1>1. DOMAIN u = Fields
  BY DEF UiTypes
<1>2. /\ Others({"lists", "by", "index", "reshown"}, u, v)
      /\ v.lists = [u.lists EXCEPT ![sc] = Append(@, r)]
      /\ v.by = [u.by EXCEPT ![sc] = [@ EXCEPT ![o] = r]]
      /\ v.index = [u.index EXCEPT ![sc] = [@ EXCEPT ![o] = Len(u.lists[sc]) + 1]]
      /\ v.reshown = IF u.by[sc][o] # NoRecord THEN u.reshown \cup {o} ELSE u.reshown
  BY <1>1 DEF Appended, Others, Fields
<1> HIDE DEF v
<1>3. /\ u.lists[sc] \in Seq(Records) /\ Append(u.lists[sc], r) \in Seq(Records)
      /\ Len(u.lists[sc]) + 1 \in Nat
  BY DEF UiTypes
<1>4. v.lists \in [OverlayScenes -> Seq(Records)]
  BY <1>2, <1>3 DEF UiTypes
<1>5. v.by \in [OverlayScenes -> [Owners -> Records \cup {NoRecord}]]
  BY <1>2 DEF UiTypes
<1>6. v.index \in [OverlayScenes -> [Owners -> Nat]]
  BY <1>2, <1>3 DEF UiTypes
<1>7. v.reshown \in SUBSET Panels
  BY <1>2 DEF UiTypes
<1>8. UiTypes(v)
  <2>1. /\ v.menus = u.menus /\ v.dialogs = u.dialogs /\ v.list = u.list /\ v.before = u.before
        /\ v.focus = u.focus /\ v.at = u.at /\ v.front = u.front /\ v.stack = u.stack
        /\ v.shown = u.shown /\ v.told = u.told /\ v.forgot = u.forgot /\ DOMAIN v = Fields
    BY <1>2 DEF Others, Fields
  <2> QED BY <1>4, <1>5, <1>6, <1>7, <2>1 DEF UiTypes
<1> QED BY <1>2, <1>8 DEF v, OnTop

(* The record that show() made is no longer on its way.                    *)
LEMMA AppendedTidy ==
    ASSUME NEW u, NEW X, Tidy(u, X), NEW sc \in OverlayScenes, NEW r \in X, NEW o \in Owners,
           Owner(u, r) = o, u.by[sc][o] # NoRecord => o \in Panels,
           \A i \in 1 .. Len(u.stack) : u.stack[i].call = "route" => r \notin Reaches(u.stack[i])
    PROVE  Tidy(Appended(u, sc, r, o), X \ {r})
<1> DEFINE v == Appended(u, sc, r, o)
           q == u.lists[sc]
           p == Append(q, r)
<1>1. /\ UiTypes(u) /\ OnceBut(u, X) /\ Recs(u) \subseteq Records /\ r \in Recs(u) /\ r \in Records
      /\ q \in Seq(Records) /\ u.stack \in Seq(Frame)
  BY RecsAre DEF Tidy, OnceBut, UiTypes
<1>2. /\ UiTypes(v) /\ Others({"lists", "by", "index", "reshown"}, u, v)
      /\ v.lists = [u.lists EXCEPT ![sc] = p]
      /\ v.by = [u.by EXCEPT ![sc] = [@ EXCEPT ![o] = r]]
      /\ v.index = [u.index EXCEPT ![sc] = [@ EXCEPT ![o] = Len(q) + 1]]
      /\ v.reshown = IF u.by[sc][o] # NoRecord THEN u.reshown \cup {o} ELSE u.reshown
  <2>1. UiTypes(u) /\ (u.by[sc][o] # NoRecord => o \in Panels) /\ r \in Records
    BY <1>1
  <2>2. OnTop(u, Appended(u, sc, r, o), sc, r, o)
    BY <2>1, AppendedFields
  <2> QED BY <2>2 DEF OnTop
<1>3. /\ p \in Seq(Records) /\ Len(p) = Len(q) + 1 /\ p[Len(q) + 1] = r /\ Len(q) \in Nat
      /\ \A i \in 1 .. Len(q) : p[i] = q[i]
  BY <1>1, AppendProperties
<1>4. /\ r \notin ToSet(q) /\ IsInjective(q) /\ ToSet(q) \subseteq Recs(u)
      /\ \A sd \in OverlayScenes : r \notin ToSet(u.lists[sd])
  BY <1>1 DEF OnceBut
<1>5. IsInjective(p) /\ ToSet(p) = ToSet(q) \cup {r}
  BY <1>1, <1>4, DistinctWith
<1> HIDE DEF v, p
<1>6. /\ v.menus = u.menus /\ v.dialogs = u.dialogs /\ v.front = u.front /\ v.stack = u.stack
      /\ v.shown = u.shown /\ v.told = u.told
  BY <1>2 DEF Others, Fields
<1>7. /\ v.lists[sc] = p /\ v.by[sc][o] = r /\ v.index[sc][o] = Len(q) + 1
      /\ \A sd \in OverlayScenes \ {sc} : v.lists[sd] = u.lists[sd] /\ v.by[sd] = u.by[sd] /\ v.index[sd] = u.index[sd]
      /\ \A x \in Owners \ {o} : v.by[sc][x] = u.by[sc][x] /\ v.index[sc][x] = u.index[sc][x]
      /\ Recs(v) = Recs(u) /\ \A x : Owner(v, x) = Owner(u, x) /\ Kind(v, x) = Kind(u, x)
  <2>1. /\ u.lists \in [OverlayScenes -> Seq(Records)]
        /\ u.by \in [OverlayScenes -> [Owners -> Records \cup {NoRecord}]]
        /\ u.index \in [OverlayScenes -> [Owners -> Nat]]
    BY <1>1 DEF UiTypes
  <2>2. v.lists[sc] = p /\ \A sd \in OverlayScenes \ {sc} : v.lists[sd] = u.lists[sd]
    BY <1>2, <2>1
  <2>3. v.by[sc] = [u.by[sc] EXCEPT ![o] = r] /\ \A sd \in OverlayScenes \ {sc} : v.by[sd] = u.by[sd]
    BY <1>2, <2>1
  <2>4. /\ v.index[sc] = [u.index[sc] EXCEPT ![o] = Len(q) + 1]
        /\ \A sd \in OverlayScenes \ {sc} : v.index[sd] = u.index[sd]
    BY <1>2, <2>1
  <2>5. v.by[sc][o] = r /\ \A x \in Owners \ {o} : v.by[sc][x] = u.by[sc][x]
    BY <2>1, <2>3
  <2>6. v.index[sc][o] = Len(q) + 1 /\ \A x \in Owners \ {o} : v.index[sc][x] = u.index[sc][x]
    BY <2>1, <2>4
  <2>7. Recs(v) = Recs(u) /\ \A x : Owner(v, x) = Owner(u, x) /\ Kind(v, x) = Kind(u, x)
    BY <1>6 DEF Recs, Owner, Kind
  <2> QED BY <2>2, <2>3, <2>4, <2>5, <2>6, <2>7
<1>8. Kinds(v) /\ Menus(v)
  BY <1>6, <1>7 DEF Tidy, Kinds, Menus
<1>9. Tables(v)
  <2>1. ASSUME NEW sd \in OverlayScenes, NEW x \in Owners
        PROVE  LET l == v.lists[sd]
                   z == v.by[sd][x]
                   i == v.index[sd][x]
               IN /\ z # NoRecord => /\ i \in 1 .. Len(l) /\ l[i] = z /\ Owner(v, z) = x
                                     /\ \A k \in i + 1 .. Len(l) : Owner(v, l[k]) # x
                  /\ x \notin v.reshown =>
                       /\ z = NoRecord => i = 0 /\ \A k \in 1 .. Len(l) : Owner(v, l[k]) # x
                       /\ z # NoRecord => \A k \in 1 .. Len(l) : Owner(v, l[k]) = x => k = i
    <3>1. x \notin v.reshown => x \notin u.reshown
      BY <1>2
    <3>2. CASE sd # sc
      <4>1. v.lists[sd] = u.lists[sd] /\ v.by[sd] = u.by[sd] /\ v.index[sd] = u.index[sd]
        BY <1>7, <3>2
      <4>2. \A y : Owner(v, y) = Owner(u, y)
        BY <1>7
      <4>3. Tables(u)
        BY DEF Tidy
      <4> QED BY <3>1, <4>1, <4>2, <4>3 DEF Tables
    <3>3. CASE sd = sc /\ x = o
      <4>1. r # NoRecord
        BY <1>1 DEF Records, NoRecord
      <4>2. \A k \in (Len(q) + 1) + 1 .. Len(p) : FALSE
        BY <1>3
      <4>3. ASSUME x \notin v.reshown, NEW k \in 1 .. Len(p), Owner(v, p[k]) = x
            PROVE  k = Len(q) + 1
        <5>1. x \notin u.reshown /\ u.by[sc][o] = NoRecord
          BY <1>2, <3>1, <3>3, <4>3
        <5>2. \A j \in 1 .. Len(q) : Owner(u, q[j]) # x
          BY <3>3, <5>1 DEF Tidy, Tables
        <5> QED BY <1>3, <1>7, <4>3, <5>2
      <4>4. v.lists[sd] = p /\ v.by[sd][x] = r /\ v.index[sd][x] = Len(q) + 1 /\ Owner(v, r) = x
        BY <1>7, <3>3
      <4>5. Len(q) + 1 \in 1 .. Len(p) /\ p[Len(q) + 1] = r
        BY <1>3
      <4> QED BY <4>1, <4>2, <4>3, <4>4, <4>5
    <3>4. CASE sd = sc /\ x # o
      <4>1. /\ v.by[sd][x] = u.by[sc][x] /\ v.index[sd][x] = u.index[sc][x] /\ v.lists[sd] = p
            /\ Owner(u, p[Len(q) + 1]) # x
        BY <1>3, <1>7, <3>4
      <4>2. /\ u.by[sc][x] # NoRecord => /\ u.index[sc][x] \in 1 .. Len(q) /\ q[u.index[sc][x]] = u.by[sc][x]
                                          /\ Owner(u, u.by[sc][x]) = x
                                          /\ \A k \in u.index[sc][x] + 1 .. Len(q) : Owner(u, q[k]) # x
            /\ x \notin u.reshown =>
                 /\ u.by[sc][x] = NoRecord => u.index[sc][x] = 0 /\ \A k \in 1 .. Len(q) : Owner(u, q[k]) # x
                 /\ u.by[sc][x] # NoRecord => \A k \in 1 .. Len(q) : Owner(u, q[k]) = x => k = u.index[sc][x]
        BY DEF Tidy, Tables
      <4>3. \A k \in 1 .. Len(p) : k \in 1 .. Len(q) \/ k = Len(q) + 1
        BY <1>3
      <4>4. u.index[sc][x] \in Nat
        BY <1>1 DEF UiTypes
      <4>5. \A k \in u.index[sc][x] + 1 .. Len(p) : k \in u.index[sc][x] + 1 .. Len(q) \/ k = Len(q) + 1
        BY <1>3, <4>4
      <4>6. \A k \in u.index[sc][x] + 1 .. Len(q) : k \in 1 .. Len(q)
        BY <1>3, <4>4
      <4>7. u.by[sc][x] # NoRecord => /\ u.index[sc][x] \in 1 .. Len(p) /\ p[u.index[sc][x]] = u.by[sc][x]
                                       /\ \A k \in u.index[sc][x] + 1 .. Len(p) : Owner(u, p[k]) # x
        <5> SUFFICES ASSUME u.by[sc][x] # NoRecord
                     PROVE  /\ u.index[sc][x] \in 1 .. Len(p) /\ p[u.index[sc][x]] = u.by[sc][x]
                            /\ \A k \in u.index[sc][x] + 1 .. Len(p) : Owner(u, p[k]) # x
          OBVIOUS
        <5>1. u.index[sc][x] \in 1 .. Len(q) /\ q[u.index[sc][x]] = u.by[sc][x]
          BY <4>2
        <5>2. u.index[sc][x] \in 1 .. Len(p) /\ p[u.index[sc][x]] = u.by[sc][x]
          BY <1>3, <5>1
        <5>3. ASSUME NEW k \in u.index[sc][x] + 1 .. Len(p)
              PROVE  Owner(u, p[k]) # x
          <6>1. CASE k = Len(q) + 1
            BY <4>1, <6>1
          <6>2. CASE k \in u.index[sc][x] + 1 .. Len(q)
            <7>1. k \in 1 .. Len(q) /\ p[k] = q[k]
              BY <1>3, <4>6, <6>2
            <7>2. Owner(u, q[k]) # x
              BY <4>2, <6>2
            <7> QED BY <7>1, <7>2
          <6> QED BY <4>5, <6>1, <6>2
        <5> QED BY <5>2, <5>3
      <4>8. x \notin u.reshown =>
                 /\ u.by[sc][x] = NoRecord => u.index[sc][x] = 0 /\ \A k \in 1 .. Len(p) : Owner(u, p[k]) # x
                 /\ u.by[sc][x] # NoRecord => \A k \in 1 .. Len(p) : Owner(u, p[k]) = x => k = u.index[sc][x]
        BY <1>3, <4>1, <4>2, <4>3
      <4> QED BY <1>7, <3>1, <4>1, <4>2, <4>7, <4>8
    <3> QED BY <3>2, <3>3, <3>4
  <2> QED BY <2>1 DEF Tables
<1>10. \A sd \in OverlayScenes : ToSet(v.lists[sd]) = IF sd = sc THEN ToSet(q) \cup {r} ELSE ToSet(u.lists[sd])
  BY <1>5, <1>7
<1>11. OnceBut(v, X \ {r})
  <2>1. /\ X \ {r} \subseteq Recs(v)
        /\ \A sd \in OverlayScenes : /\ IsInjective(v.lists[sd]) /\ ToSet(v.lists[sd]) \subseteq Recs(v)
                                   /\ ToSet(v.lists[sd]) \cap (X \ {r}) = {}
    BY <1>1, <1>4, <1>5, <1>7, <1>10 DEF OnceBut
  <2>2. ASSUME NEW sd \in OverlayScenes, NEW se \in OverlayScenes, sd # se
        PROVE  ToSet(v.lists[sd]) \cap ToSet(v.lists[se]) = {}
    <3>1. ToSet(u.lists[sd]) \cap ToSet(u.lists[se]) = {}
      BY <1>1, <2>2 DEF OnceBut
    <3> QED BY <1>4, <1>10, <2>2, <3>1
  <2>3. ASSUME NEW i \in 1 .. Len(v.stack)
        PROVE  /\ Owed(v.stack[i]) \subseteq Recs(v) /\ Owed(v.stack[i]) \cap (X \ {r}) = {}
               /\ v.stack[i].call = "callbacks" => IsInjective(v.stack[i].todo)
               /\ \A j \in 1 .. Len(v.stack) : i # j => Owed(v.stack[i]) \cap Owed(v.stack[j]) = {}
               /\ \A sd \in OverlayScenes : Owed(v.stack[i]) \cap ToSet(v.lists[sd]) = {}
    <3>1. r \notin Owed(u.stack[i]) /\ \A sd \in OverlayScenes : Owed(u.stack[i]) \cap ToSet(u.lists[sd]) = {}
      BY <1>1, <1>6 DEF OnceBut
    <3>2. \A sd \in OverlayScenes : Owed(v.stack[i]) \cap ToSet(v.lists[sd]) = {}
      BY <1>6, <1>10, <3>1
    <3> QED BY <1>1, <1>6, <1>7, <3>2 DEF OnceBut
  <2>4. ASSUME NEW x \in Records
        PROVE  v.told[x] = IF \/ x \notin Recs(v) \/ x \in X \ {r}
                              \/ \E sd \in OverlayScenes : x \in ToSet(v.lists[sd])
                              \/ \E i \in 1 .. Len(v.stack) : x \in Owed(v.stack[i])
                           THEN 0 ELSE 1
    <3>1. CASE x = r
      BY <1>1, <1>6, <1>7, <1>10, <3>1 DEF OnceBut
    <3>2. CASE x # r
      <4>1. (\E sd \in OverlayScenes : x \in ToSet(v.lists[sd])) <=> \E sd \in OverlayScenes : x \in ToSet(u.lists[sd])
        BY <1>10, <3>2
      <4> QED BY <1>1, <1>6, <1>7, <3>2, <4>1 DEF OnceBut
    <3> QED BY <3>1, <3>2
  <2> QED BY <2>1, <2>2, <2>3, <2>4 DEF OnceBut
<1>12. Routes(v)
  <2>1. ASSUME NEW f, Reaching(u, f), r \notin Reaches(f) PROVE Reaching(v, f)
    BY <1>6, <1>7, <1>10, <2>1 DEF Reaching
  <2> QED BY <1>6, <1>7, <2>1 DEF Tidy, Routes
<1> QED BY <1>2, <1>8, <1>9, <1>11, <1>12 DEF Tidy, v

(* An owner's overlay is taken out of the list and the tables.             *)
TakenOff(u, v, sc, o, q) ==
    /\ UiTypes(v) /\ Others({"lists", "by", "index"}, u, v)
    /\ v.lists = [u.lists EXCEPT ![sc] = q]
    /\ v.by = [u.by EXCEPT ![sc] = [u.by[sc] EXCEPT ![o] = NoRecord]]
    /\ v.index = [u.index EXCEPT ![sc] = Shifted(u.index[sc], OwnersOf(u, q), u.index[sc][o], o)]

LEMMA UnlistedFields ==
    ASSUME NEW u, UiTypes(u), NEW sc \in OverlayScenes, NEW o \in Owners,
           u.index[sc][o] \in 1 .. Len(u.lists[sc])
    PROVE  TakenOff(u, Unlisted(u, sc, o), sc, o, RemoveAt(u.lists[sc], u.index[sc][o]))
<1> DEFINE v == Unlisted(u, sc, o)
           q == RemoveAt(u.lists[sc], u.index[sc][o])
           t == Shifted(u.index[sc], OwnersOf(u, q), u.index[sc][o], o)
<1>1. DOMAIN u = Fields
  BY DEF UiTypes
<1>2. /\ Others({"lists", "by", "index"}, u, v)
      /\ v.lists = [u.lists EXCEPT ![sc] = q]
      /\ v.by = [u.by EXCEPT ![sc] = [u.by[sc] EXCEPT ![o] = NoRecord]]
      /\ v.index = [u.index EXCEPT ![sc] = t]
  <2> HIDE DEF q
  <2> QED BY <1>1 DEF Unlisted, Others, Fields, q, t
<1> HIDE DEF v
<1>3. q \in Seq(Records) /\ u.lists[sc] \in Seq(Records)
  BY RemovedParts DEF UiTypes
<1>4. t \in [Owners -> Nat]
  <2>1. OwnersOf(u, q) = [k \in DOMAIN q |-> Owner(u, q[k])] /\ DOMAIN q = 1 .. Len(q) /\ Len(q) \in Nat
    BY <1>3 DEF OwnersOf
  <2>2. Len(OwnersOf(u, q)) = Len(q)
    <3> HIDE DEF q
    <3> QED BY <2>1
  <2>3. u.index[sc] \in [Owners -> Nat]
    BY DEF UiTypes
  <2> HIDE DEF q
  <2> DEFINE w == OwnersOf(u, q)
             i == u.index[sc][o]
  <2>4. Len(w) \in Nat /\ i \in Nat
    BY <2>1, <2>2, <2>3
  <2> HIDE DEF w, i
  <2>5. ASSUME NEW p \in Owners PROVE t[p] \in Nat
    <3>1. t[p] = IF \E j \in i .. Len(w) : w[j] = p
                 THEN CHOOSE j \in i .. Len(w) : w[j] = p /\ \A k \in j + 1 .. Len(w) : w[k] # p
                 ELSE IF p = o THEN 0 ELSE u.index[sc][p]
      BY DEF Shifted, w, i
    <3>2. CASE \E j \in i .. Len(w) : w[j] = p
      <4>1. \E j \in i .. Len(w) : w[j] = p /\ \A k \in j + 1 .. Len(w) : w[k] # p
        <5> DEFINE S == {Len(w) - j : j \in {j \in i .. Len(w) : w[j] = p}}
        <5>1. S \in SUBSET Nat /\ S # {}
          BY <2>4, <3>2
        <5>2. PICK n \in S : \A m \in S : n <= m
          BY <5>1, LeastNatural
        <5>3. PICK j \in i .. Len(w) : w[j] = p /\ n = Len(w) - j
          BY <5>2
        <5>4. ASSUME NEW k \in j + 1 .. Len(w) PROVE w[k] # p
          <6>1. k \in i .. Len(w) /\ ~(Len(w) - j <= Len(w) - k)
            BY <2>4, <5>3
          <6> QED BY <5>2, <5>3, <6>1
        <5> QED BY <5>3, <5>4
      <4>2. (CHOOSE j \in i .. Len(w) : w[j] = p /\ \A k \in j + 1 .. Len(w) : w[k] # p) \in i .. Len(w)
        BY <4>1
      <4> QED BY <2>4, <3>1, <3>2, <4>2
    <3>3. CASE ~\E j \in i .. Len(w) : w[j] = p
      BY <2>3, <3>1, <3>3
    <3> QED BY <3>2, <3>3
  <2>6. t = [p \in Owners |-> t[p]]
    BY DEF Shifted
  <2> HIDE DEF t
  <2> QED BY <2>5, <2>6
<1> HIDE DEF t
<1>5. v.lists \in [OverlayScenes -> Seq(Records)]
  <2> HIDE DEF q
  <2> QED BY <1>2, <1>3 DEF UiTypes
<1>6. v.by \in [OverlayScenes -> [Owners -> Records \cup {NoRecord}]]
  BY <1>2 DEF UiTypes
<1>7. v.index \in [OverlayScenes -> [Owners -> Nat]]
  BY <1>2, <1>4 DEF UiTypes
<1>8. UiTypes(v)
  <2>1. /\ v.menus = u.menus /\ v.dialogs = u.dialogs /\ v.list = u.list /\ v.before = u.before
        /\ v.focus = u.focus /\ v.at = u.at /\ v.front = u.front /\ v.stack = u.stack
        /\ v.shown = u.shown /\ v.told = u.told /\ v.forgot = u.forgot /\ DOMAIN v = Fields
        /\ v.reshown = u.reshown
    BY <1>2 DEF Others, Fields
  <2> QED BY <1>5, <1>6, <1>7, <2>1 DEF UiTypes
<1> QED BY <1>2, <1>8 DEF v, t, q, TakenOff

(* The record taken out is on its way to its dismissal; the places of      *)
(* those above have followed.                                              *)
LEMMA UnlistedTidy ==
    ASSUME NEW u, NEW X, Tidy(u, X), NEW sc \in OverlayScenes, NEW o \in Owners,
           u.by[sc][o] # NoRecord
    PROVE  /\ Tidy(Unlisted(u, sc, o), X \cup {u.by[sc][o]})
           /\ u.by[sc][o] \notin X /\ u.by[sc][o] \in Recs(u) /\ Owner(u, u.by[sc][o]) = o
           /\ u.by[sc][o] \in ToSet(u.lists[sc])
           /\ TakenOff(u, Unlisted(u, sc, o), sc, o, RemoveAt(u.lists[sc], u.index[sc][o]))
<1> DEFINE v == Unlisted(u, sc, o)
           r == u.by[sc][o]
           i == u.index[sc][o]
           l == u.lists[sc]
           q == RemoveAt(l, i)
           w == OwnersOf(u, q)
<1>1. /\ UiTypes(u) /\ OnceBut(u, X) /\ Recs(u) \subseteq Records
      /\ l \in Seq(Records) /\ u.stack \in Seq(Frame) /\ Tables(u)
      /\ u.index[sc] \in [Owners -> Nat] /\ Len(l) \in Nat
  <2>1. UiTypes(u) /\ OnceBut(u, X) /\ Tables(u)
    BY DEF Tidy
  <2>2. l \in Seq(Records) /\ u.stack \in Seq(Frame) /\ u.index[sc] \in [Owners -> Nat]
    BY <2>1 DEF UiTypes
  <2> QED BY <2>1, <2>2, RecsAre
<1>2. /\ i \in 1 .. Len(l) /\ l[i] = r /\ Owner(u, r) = o
      /\ \A k \in i + 1 .. Len(l) : Owner(u, l[k]) # o
      /\ o \notin u.reshown => \A k \in 1 .. Len(l) : Owner(u, l[k]) = o => k = i
  BY <1>1 DEF Tables
<1>3. /\ r \in ToSet(l) /\ IsInjective(l) /\ ToSet(l) \subseteq Recs(u) /\ r \in Recs(u) /\ r \notin X
      /\ \A sd \in OverlayScenes \ {sc} : r \notin ToSet(u.lists[sd])
      /\ \A k \in 1 .. Len(u.stack) : r \notin Owed(u.stack[k])
  <2>1. r \in ToSet(l)
    BY <1>1, <1>2, InSet
  <2> QED BY <1>1, <2>1 DEF OnceBut
<1>4. TakenOff(u, v, sc, o, q)
  BY <1>1, <1>2, UnlistedFields
<1>5. /\ q \in Seq(Records) /\ Len(q) = Len(l) - 1
      /\ \A k \in 1 .. Len(q) : k < i => q[k] = l[k]
      /\ \A k \in 1 .. Len(q) : i <= k => q[k] = l[k + 1]
  BY <1>1, <1>2, RemovedParts
<1>6. IsInjective(q) /\ ToSet(q) = ToSet(l) \ {r}
  BY <1>1, <1>2, <1>3, RemovedSet
<1> HIDE DEF v, q
<1>7. w = [k \in 1 .. Len(q) |-> Owner(u, q[k])] /\ Len(w) = Len(q) /\ Len(q) \in Nat
      /\ \A k \in 1 .. Len(q) : w[k] = Owner(u, q[k])
  <2>1. w = [k \in 1 .. Len(q) |-> Owner(u, q[k])] /\ Len(q) \in Nat
    BY <1>5 DEF OwnersOf
  <2> QED BY <2>1
<1> DEFINE t == Shifted(u.index[sc], w, i, o)
<1> HIDE DEF w
<1>8. /\ v.menus = u.menus /\ v.dialogs = u.dialogs /\ v.front = u.front /\ v.stack = u.stack
      /\ v.shown = u.shown /\ v.told = u.told /\ v.reshown = u.reshown /\ UiTypes(v)
  BY <1>4 DEF Others, Fields, TakenOff
<1>9. /\ v.lists[sc] = q /\ v.by[sc][o] = NoRecord /\ v.index[sc] = t
      /\ \A sd \in OverlayScenes \ {sc} : v.lists[sd] = u.lists[sd] /\ v.by[sd] = u.by[sd] /\ v.index[sd] = u.index[sd]
      /\ \A x \in Owners \ {o} : v.by[sc][x] = u.by[sc][x]
      /\ Recs(v) = Recs(u) /\ \A x : Owner(v, x) = Owner(u, x) /\ Kind(v, x) = Kind(u, x)
  <2>1. /\ u.lists \in [OverlayScenes -> Seq(Records)]
        /\ u.by \in [OverlayScenes -> [Owners -> Records \cup {NoRecord}]]
        /\ u.index \in [OverlayScenes -> [Owners -> Nat]]
    BY <1>1 DEF UiTypes
  <2>2. v.lists[sc] = q /\ \A sd \in OverlayScenes \ {sc} : v.lists[sd] = u.lists[sd]
    BY <1>4, <2>1 DEF TakenOff
  <2>3. v.by[sc] = [u.by[sc] EXCEPT ![o] = NoRecord] /\ \A sd \in OverlayScenes \ {sc} : v.by[sd] = u.by[sd]
    BY <1>4, <2>1 DEF TakenOff
  <2>4. v.index[sc] = t /\ \A sd \in OverlayScenes \ {sc} : v.index[sd] = u.index[sd]
    BY <1>4, <2>1 DEF TakenOff, w
  <2>5. v.by[sc][o] = NoRecord /\ \A x \in Owners \ {o} : v.by[sc][x] = u.by[sc][x]
    BY <2>1, <2>3
  <2>7. Recs(v) = Recs(u) /\ \A x : Owner(v, x) = Owner(u, x) /\ Kind(v, x) = Kind(u, x)
    BY <1>8 DEF Recs, Owner, Kind
  <2> QED BY <2>2, <2>3, <2>4, <2>5, <2>7
<1>10. Kinds(v) /\ Menus(v)
  BY <1>8, <1>9 DEF Tidy, Kinds, Menus
<1>11. Tables(v)
  <2>1. ASSUME NEW x \in Owners
        PROVE  t[x] = IF \E j \in i .. Len(q) : w[j] = x
                      THEN CHOOSE j \in i .. Len(q) : w[j] = x /\ \A k \in j + 1 .. Len(q) : w[k] # x
                      ELSE IF x = o THEN 0 ELSE u.index[sc][x]
    BY <1>7 DEF Shifted
  <2> HIDE DEF t
  <2>2. ASSUME NEW sd \in OverlayScenes, NEW x \in Owners
        PROVE  LET m == v.lists[sd]
                   z == v.by[sd][x]
                   j == v.index[sd][x]
               IN /\ z # NoRecord => /\ j \in 1 .. Len(m) /\ m[j] = z /\ Owner(v, z) = x
                                     /\ \A k \in j + 1 .. Len(m) : Owner(v, m[k]) # x
                  /\ x \notin v.reshown =>
                       /\ z = NoRecord => j = 0 /\ \A k \in 1 .. Len(m) : Owner(v, m[k]) # x
                       /\ z # NoRecord => \A k \in 1 .. Len(m) : Owner(v, m[k]) = x => k = j
    <3>1. CASE sd # sc
      <4>1. v.lists[sd] = u.lists[sd] /\ v.by[sd] = u.by[sd] /\ v.index[sd] = u.index[sd]
        BY <1>9, <3>1
      <4>2. \A y : Owner(v, y) = Owner(u, y)
        BY <1>9
      <4> QED BY <1>1, <1>8, <4>1, <4>2 DEF Tables
    <3>2. CASE sd = sc /\ x = o
      <4>1. \A k \in i .. Len(q) : k + 1 \in i + 1 .. Len(l) /\ q[k] = l[k + 1]
        BY <1>2, <1>5, <1>7
      <4>2. \A k \in i .. Len(q) : w[k] # o
        BY <1>2, <1>5, <1>7, <4>1
      <4>3. t[o] = 0
        BY <2>1, <4>2
      <4>4. ASSUME o \notin u.reshown, NEW k \in 1 .. Len(q) PROVE Owner(u, q[k]) # o
        <5>1. CASE i <= k
          <6>1. k \in i .. Len(q)
            BY <1>7, <5>1
          <6> QED BY <1>7, <4>2, <6>1
        <5>2. CASE k < i
          <6>1. q[k] = l[k] /\ k \in 1 .. Len(l) /\ k # i
            BY <1>1, <1>2, <1>5, <5>2
          <6> QED BY <1>2, <4>4, <6>1
        <5>3. k \in Int /\ i \in Int
          BY <1>2
        <5> QED BY <5>1, <5>2, <5>3
      <4>5. v.lists[sd] = q /\ v.by[sd][x] = NoRecord /\ v.index[sd][x] = 0
        BY <1>9, <3>2, <4>3
      <4> QED BY <1>8, <1>9, <3>2, <4>4, <4>5
    <3>3. CASE sd = sc /\ x # o
      <4> DEFINE z == u.by[sc][x]
                 j == u.index[sc][x]
      <4>1. /\ v.by[sd][x] = z /\ v.index[sd][x] = t[x] /\ v.lists[sd] = q /\ j \in Nat
        BY <1>1, <1>9, <3>3
      <4>2. /\ z # NoRecord => /\ j \in 1 .. Len(l) /\ l[j] = z /\ Owner(u, z) = x
                               /\ \A k \in j + 1 .. Len(l) : Owner(u, l[k]) # x
            /\ x \notin u.reshown =>
                 /\ z = NoRecord => j = 0 /\ \A k \in 1 .. Len(l) : Owner(u, l[k]) # x
                 /\ z # NoRecord => \A k \in 1 .. Len(l) : Owner(u, l[k]) = x => k = j
        BY <1>1 DEF Tables
      <4> HIDE DEF z, j
      <4>3. ASSUME NEW k \in 1 .. Len(q)
            PROVE  \E m \in 1 .. Len(l) : q[k] = l[m] /\ m = IF k < i THEN k ELSE k + 1
        <5>1. k \in Int /\ i \in Int
          BY <1>2
        <5>2. CASE k < i
          <6>1. q[k] = l[k] /\ k \in 1 .. Len(l)
            BY <1>1, <1>5, <5>2
          <6> QED BY <5>2, <6>1
        <5>3. CASE ~(k < i)
          <6>1. q[k] = l[k + 1] /\ k + 1 \in 1 .. Len(l)
            BY <1>1, <1>5, <5>1, <5>3
          <6> QED BY <5>3, <6>1
        <5> QED BY <5>2, <5>3
      <4>4. CASE z = NoRecord
        <5>1. ASSUME x \notin u.reshown PROVE t[x] = 0 /\ \A k \in 1 .. Len(q) : Owner(u, q[k]) # x
          <6>1. \A k \in 1 .. Len(q) : Owner(u, q[k]) # x
            BY <4>2, <4>3, <4>4, <5>1
          <6>2. \A k \in i .. Len(q) : k \in 1 .. Len(q)
            BY <1>2, <1>7
          <6>3. t[x] = j
            BY <1>7, <2>1, <3>3, <6>1, <6>2 DEF j
          <6> QED BY <4>2, <4>4, <5>1, <6>1, <6>3
        <5> QED BY <1>8, <1>9, <4>1, <4>4, <5>1
      <4>5. CASE z # NoRecord
        <5>1. /\ j \in 1 .. Len(l) /\ l[j] = z /\ Owner(u, z) = x
              /\ \A k \in j + 1 .. Len(l) : Owner(u, l[k]) # x
          BY <4>2, <4>5
        <5>2. j # i
          BY <1>2, <3>3, <5>1
        <5>3. t[x] = IF i < j THEN j - 1 ELSE j
          <6>1. CASE i < j
            <7> DEFINE P(n) == w[n] = x /\ \A k \in n + 1 .. Len(q) : w[k] # x
            <7>1. j - 1 \in i .. Len(q) /\ j - 1 \in 1 .. Len(q) /\ q[j - 1] = l[j]
              BY <1>1, <1>2, <1>5, <5>1, <6>1
            <7>2. ASSUME NEW k \in (j - 1) + 1 .. Len(q) PROVE w[k] # x
              <8>1. k \in 1 .. Len(q) /\ i <= k /\ k + 1 \in j + 1 .. Len(l) /\ q[k] = l[k + 1]
                BY <1>1, <1>2, <1>5, <5>1, <6>1
              <8> QED BY <1>7, <5>1, <8>1
            <7>3. w[j - 1] = x
              BY <1>7, <5>1, <7>1
            <7>4. ASSUME NEW n \in i .. Len(q), P(n) PROVE n = j - 1
              <8>1. ~(n < j - 1)
                <9>1. n < j - 1 => j - 1 \in n + 1 .. Len(q)
                  BY <1>2, <1>7, <7>1
                <9> QED BY <7>3, <7>4, <9>1
              <8>2. ~(j - 1 < n)
                <9>1. j - 1 < n => n \in (j - 1) + 1 .. Len(q)
                  BY <1>2, <1>7, <7>1
                <9> QED BY <7>2, <7>4, <9>1
              <8> QED BY <1>2, <1>7, <5>1, <8>1, <8>2
            <7>5. P(j - 1)
              BY <7>2, <7>3
            <7>6. (CHOOSE n \in i .. Len(q) : P(n)) = j - 1
              <8> HIDE DEF P
              <8> QED BY <7>1, <7>4, <7>5
            <7> QED BY <2>1, <6>1, <7>1, <7>3, <7>6
          <6>2. CASE j < i
            <7>1. ASSUME NEW k \in i .. Len(q) PROVE w[k] # x
              <8>1. k \in 1 .. Len(q) /\ k + 1 \in j + 1 .. Len(l) /\ q[k] = l[k + 1]
                BY <1>1, <1>2, <1>5, <5>1, <6>2
              <8> QED BY <1>7, <5>1, <8>1
            <7>2. t[x] = j
              BY <2>1, <3>3, <7>1 DEF j
            <7> QED BY <1>2, <5>1, <6>2, <7>2
          <6>3. i \in Int /\ j \in Int
            BY <1>2, <5>1
          <6> QED BY <5>2, <6>1, <6>2, <6>3
        <5>4. t[x] \in 1 .. Len(q) /\ q[t[x]] = z
          <6>1. CASE i < j
            <7>1. t[x] = j - 1 /\ j - 1 \in 1 .. Len(q) /\ q[j - 1] = l[(j - 1) + 1] /\ (j - 1) + 1 = j
              BY <1>1, <1>2, <1>5, <5>1, <5>3, <6>1
            <7> QED BY <5>1, <7>1
          <6>2. CASE ~(i < j)
            <7>1. i \in 1 .. Len(l) /\ Len(l) \in Nat /\ Len(q) = Len(l) - 1
              BY <1>1, <1>2, <1>5
            <7>2. t[x] = j /\ j < i /\ j \in 1 .. Len(q)
              BY <5>1, <5>2, <5>3, <6>2, <7>1
            <7>3. q[j] = l[j]
              BY <1>5, <7>1, <7>2
            <7> QED BY <5>1, <7>2, <7>3
          <6> QED BY <6>1, <6>2
        <5>5. ASSUME NEW k \in 1 .. Len(q), NEW m \in 1 .. Len(l), m = IF k < i THEN k ELSE k + 1
              PROVE  (m = j => k = t[x]) /\ (t[x] < k => j < m)
          <6>1. k \in Int /\ m \in Int /\ i \in Int /\ j \in Int /\ m # i
            BY <1>2, <5>1, <5>5
          <6> QED BY <5>2, <5>3, <5>5, <6>1
        <5>6. ASSUME NEW k \in t[x] + 1 .. Len(q) PROVE Owner(u, q[k]) # x
          <6>1. k \in 1 .. Len(q) /\ t[x] < k
            BY <1>7, <5>4
          <6>2. PICK m \in 1 .. Len(l) : q[k] = l[m] /\ m = IF k < i THEN k ELSE k + 1
            BY <4>3, <6>1
          <6>3. m \in j + 1 .. Len(l)
            BY <1>1, <5>1, <5>5, <6>1, <6>2
          <6> QED BY <5>1, <6>2, <6>3
        <5>7. ASSUME x \notin u.reshown, NEW k \in 1 .. Len(q), Owner(u, q[k]) = x PROVE k = t[x]
          <6>1. PICK m \in 1 .. Len(l) : q[k] = l[m] /\ m = IF k < i THEN k ELSE k + 1
            BY <4>3
          <6>2. m = j
            BY <4>2, <4>5, <5>7, <6>1
          <6> QED BY <5>5, <6>1, <6>2
        <5> QED BY <1>8, <1>9, <4>1, <4>5, <5>1, <5>4, <5>6, <5>7
      <4> QED BY <4>4, <4>5
    <3> QED BY <3>1, <3>2, <3>3
  <2> QED BY <2>2 DEF Tables
<1>12. \A sd \in OverlayScenes : ToSet(v.lists[sd]) = IF sd = sc THEN ToSet(l) \ {r} ELSE ToSet(u.lists[sd])
  BY <1>6, <1>9
<1>13. OnceBut(v, X \cup {r})
  <2>1. /\ X \cup {r} \subseteq Recs(v)
        /\ \A sd \in OverlayScenes : /\ IsInjective(v.lists[sd]) /\ ToSet(v.lists[sd]) \subseteq Recs(v)
                                   /\ ToSet(v.lists[sd]) \cap (X \cup {r}) = {}
    BY <1>1, <1>3, <1>6, <1>9, <1>12 DEF OnceBut
  <2>2. ASSUME NEW sd \in OverlayScenes, NEW se \in OverlayScenes, sd # se
        PROVE  ToSet(v.lists[sd]) \cap ToSet(v.lists[se]) = {}
    <3>1. ToSet(u.lists[sd]) \cap ToSet(u.lists[se]) = {}
      BY <1>1, <2>2 DEF OnceBut
    <3> QED BY <1>12, <3>1
  <2>3. ASSUME NEW k \in 1 .. Len(v.stack)
        PROVE  /\ Owed(v.stack[k]) \subseteq Recs(v) /\ Owed(v.stack[k]) \cap (X \cup {r}) = {}
               /\ v.stack[k].call = "callbacks" => IsInjective(v.stack[k].todo)
               /\ \A j \in 1 .. Len(v.stack) : k # j => Owed(v.stack[k]) \cap Owed(v.stack[j]) = {}
               /\ \A sd \in OverlayScenes : Owed(v.stack[k]) \cap ToSet(v.lists[sd]) = {}
    <3>1. r \notin Owed(u.stack[k]) /\ \A sd \in OverlayScenes : Owed(u.stack[k]) \cap ToSet(u.lists[sd]) = {}
      BY <1>1, <1>3, <1>8 DEF OnceBut
    <3>2. \A sd \in OverlayScenes : Owed(v.stack[k]) \cap ToSet(v.lists[sd]) = {}
      BY <1>8, <1>12, <3>1
    <3> QED BY <1>1, <1>8, <1>9, <3>1, <3>2 DEF OnceBut
  <2>4. ASSUME NEW x \in Records
        PROVE  v.told[x] = IF \/ x \notin Recs(v) \/ x \in X \cup {r}
                              \/ \E sd \in OverlayScenes : x \in ToSet(v.lists[sd])
                              \/ \E k \in 1 .. Len(v.stack) : x \in Owed(v.stack[k])
                           THEN 0 ELSE 1
    <3>1. CASE x = r
      BY <1>1, <1>3, <1>8, <3>1 DEF OnceBut
    <3>2. CASE x # r
      <4>1. (\E sd \in OverlayScenes : x \in ToSet(v.lists[sd])) <=> \E sd \in OverlayScenes : x \in ToSet(u.lists[sd])
        BY <1>12, <3>2
      <4> QED BY <1>1, <1>8, <1>9, <3>2, <4>1 DEF OnceBut
    <3> QED BY <3>1, <3>2
  <2> QED BY <2>1, <2>2, <2>3, <2>4 DEF OnceBut
<1>14. Routes(v)
  <2>1. ASSUME NEW f, Reaching(u, f) PROVE Reaching(v, f)
    BY <1>8, <1>9, <1>12, <2>1 DEF Reaching
  <2> QED BY <1>8, <1>9, <2>1 DEF Tidy, Routes
<1>15. Tidy(v, X \cup {r})
  BY <1>8, <1>10, <1>11, <1>13, <1>14 DEF Tidy
<1> QED BY <1>2, <1>3, <1>4, <1>15 DEF v, q

(* The place of an owner that has no overlay.                              *)
LEMMA IndexTidy ==
    ASSUME NEW u, NEW X, Tidy(u, X), NEW sc \in OverlayScenes, NEW o \in Owners,
           u.by[sc][o] = NoRecord
    PROVE  Tidy([u EXCEPT !.index[sc][o] = 0], X) /\ Others({"index"}, u, [u EXCEPT !.index[sc][o] = 0])
<1> DEFINE v == [u EXCEPT !.index[sc][o] = 0]
<1>1. UiTypes(u) /\ DOMAIN u = Fields /\ u.index \in [OverlayScenes -> [Owners -> Nat]] /\ Tables(u)
      /\ Routes(u)
  BY DEF Tidy, UiTypes
<1>2. Others({"index"}, u, v) /\ v.index = [u.index EXCEPT ![sc] = [u.index[sc] EXCEPT ![o] = 0]]
  BY <1>1 DEF Others, Fields
<1> HIDE DEF v
<1>3. /\ v.lists = u.lists /\ v.by = u.by /\ v.stack = u.stack /\ v.menus = u.menus
      /\ v.front = u.front /\ v.dialogs = u.dialogs /\ v.shown = u.shown /\ v.told = u.told
      /\ v.reshown = u.reshown /\ v.list = u.list /\ v.before = u.before
      /\ v.focus = u.focus /\ v.at = u.at /\ v.forgot = u.forgot /\ DOMAIN v = Fields
  BY <1>2 DEF Others, Fields
<1>4. v.index \in [OverlayScenes -> [Owners -> Nat]]
  BY <1>1, <1>2
<1>5. UiTypes(v)
  BY <1>1, <1>3, <1>4 DEF UiTypes
<1>6. Kinds(v) /\ Menus(v) /\ OnceBut(v, X)
  <2>1. Kinds(v)
    BY <1>3 DEF Tidy, Kinds, Recs, Kind, Owner
  <2>2. OnceBut(v, X)
    BY <1>3 DEF Tidy, OnceBut, Recs
  <2>3. Menus(v)
    BY <1>3 DEF Tidy, Menus, Recs, Kind
  <2> QED BY <2>1, <2>2, <2>3
<1>7. Routes(v)
  <2>1. Recs(v) = Recs(u) /\ \A r : Owner(v, r) = Owner(u, r)
    BY <1>3 DEF Recs, Owner
  <2>2. ASSUME NEW f, Reaching(u, f) PROVE Reaching(v, f)
    BY <1>3, <2>1, <2>2 DEF Reaching
  <2> QED BY <1>1, <1>3, <2>1, <2>2 DEF Routes
<1>8. Tables(v)
  <2>1. \A sd \in OverlayScenes, x \in Owners : v.index[sd][x] = IF sd = sc /\ x = o THEN 0 ELSE u.index[sd][x]
    BY <1>1, <1>2
  <2>2. \A r : Owner(v, r) = Owner(u, r)
    BY <1>3 DEF Owner
  <2>3. ASSUME NEW sd \in OverlayScenes, NEW x \in Owners
        PROVE  LET q == v.lists[sd]
                   r == v.by[sd][x]
                   i == v.index[sd][x]
               IN /\ r # NoRecord => /\ i \in 1 .. Len(q) /\ q[i] = r /\ Owner(v, r) = x
                                     /\ \A k \in i + 1 .. Len(q) : Owner(v, q[k]) # x
                  /\ x \notin v.reshown =>
                       /\ r = NoRecord => i = 0 /\ \A k \in 1 .. Len(q) : Owner(v, q[k]) # x
                       /\ r # NoRecord => \A k \in 1 .. Len(q) : Owner(v, q[k]) = x => k = i
    <3>1. CASE sd = sc /\ x = o
      <4>1. v.by[sd][x] = NoRecord /\ v.index[sd][x] = 0
        BY <1>3, <2>1, <3>1
      <4>2. x \notin u.reshown => \A k \in 1 .. Len(u.lists[sc]) : Owner(u, u.lists[sc][k]) # o
        BY <1>1, <3>1 DEF Tables
      <4> QED BY <1>3, <2>2, <3>1, <4>1, <4>2
    <3>2. CASE ~(sd = sc /\ x = o)
      <4>1. v.index[sd][x] = u.index[sd][x]
        BY <2>1, <3>2
      <4> QED BY <1>1, <1>3, <2>2, <4>1 DEF Tables
    <3> QED BY <3>1, <3>2
  <2> QED BY <2>3 DEF Tables
<1> QED BY <1>2, <1>5, <1>6, <1>7, <1>8 DEF Tidy, v

(* No event is routed over a list that is in a table.                      *)
NoneLive(u) == \A i \in 1 .. Len(u.stack) : u.stack[i].call = "route" => ~u.stack[i].live

LEMMA FrontTidy ==
    ASSUME NEW u, NEW X, Tidy(u, X), NoneLive(u), NEW s \in OverlayScenes
    PROVE  Tidy([u EXCEPT !.front = s], X) /\ Others({"front"}, u, [u EXCEPT !.front = s])
<1> DEFINE v == [u EXCEPT !.front = s]
<1>1. UiTypes(u) /\ DOMAIN u = Fields /\ Tables(u) /\ Routes(u)
  BY DEF Tidy, UiTypes
<1>2. Others({"front"}, u, v) /\ v.front = s
  BY <1>1 DEF Others, Fields
<1> HIDE DEF v
<1>3. /\ v.lists = u.lists /\ v.by = u.by /\ v.stack = u.stack /\ v.menus = u.menus
      /\ v.index = u.index /\ v.dialogs = u.dialogs /\ v.shown = u.shown /\ v.told = u.told
      /\ v.reshown = u.reshown /\ v.list = u.list /\ v.before = u.before
      /\ v.focus = u.focus /\ v.at = u.at /\ v.forgot = u.forgot /\ DOMAIN v = Fields
  BY <1>2 DEF Others, Fields
<1>5. UiTypes(v)
  BY <1>1, <1>2, <1>3 DEF UiTypes
<1>6. Kinds(v) /\ Menus(v) /\ OnceBut(v, X) /\ Tables(v)
  <2>1. Kinds(v)
    BY <1>3 DEF Tidy, Kinds, Recs, Kind, Owner
  <2>2. OnceBut(v, X)
    BY <1>3 DEF Tidy, OnceBut, Recs
  <2>3. Menus(v)
    BY <1>3 DEF Tidy, Menus, Recs, Kind
  <2>4. Tables(v)
    BY <1>1, <1>3 DEF Tables, Owner
  <2> QED BY <2>1, <2>2, <2>3, <2>4
<1>7. Routes(v)
  <2>1. Recs(v) = Recs(u) /\ \A r : Owner(v, r) = Owner(u, r)
    BY <1>3 DEF Recs, Owner
  <2>2. ASSUME NEW f, Reaching(u, f), ~f.live PROVE Reaching(v, f)
    BY <1>3, <2>1, <2>2 DEF Reaching
  <2> QED BY <1>1, <1>3, <2>1, <2>2 DEF Routes, NoneLive
<1> QED BY <1>2, <1>5, <1>6, <1>7 DEF Tidy, v

LEMMA RouteFrames ==
    ASSUME NEW f \in Frame, f.call = "route"
    PROVE  f \in RouteFrame
BY DEF Frame, RouteFrame

(* What a routing over the old list reaches, it reached before, or is in   *)
(* that list.                                                              *)
LEMMA DetachedFrames ==
    ASSUME NEW f \in Frame, NEW sc, NEW q \in Seq(Records)
    PROVE  LET g == Detached(f, sc, q) IN
           /\ g \in Frame /\ g.call = f.call
           /\ g = f \/ (f.call = "route" /\ f.sc = sc /\ f.live)
           /\ f.call = "route" /\ f.sc = sc => ~g.live
           /\ f.call = "route" => Reaches(g) \subseteq Reaches(f) \cup ToSet(q) /\ g.sc = f.sc
           /\ f.call = "route" /\ g.live => f.live
<1> DEFINE g == [f EXCEPT !.live = FALSE, !.over = q]
<1>1. CASE f.call = "route" /\ f.sc = sc /\ f.live
  <2>1. f \in RouteFrame
    BY <1>1, RouteFrames
  <2>2. g \in RouteFrame
    BY <2>1 DEF RouteFrame
  <2>3. /\ g.call = f.call /\ g.live = FALSE /\ g.over = q /\ g.todo = f.todo /\ g.passed = f.passed
        /\ g.sc = f.sc
    BY <2>1 DEF RouteFrame
  <2>4. Reaches(g) \subseteq Reaches(f) \cup ToSet(q)
    BY <2>3 DEF Reaches
  <2>5. Detached(f, sc, q) = g
    BY <1>1 DEF Detached
  <2>6. g \in Frame
    BY <2>2 DEF Frame
  <2> HIDE DEF g
  <2> QED BY <1>1, <2>3, <2>4, <2>5, <2>6
<1>2. CASE ~(f.call = "route" /\ f.sc = sc /\ f.live)
  <2>1. Detached(f, sc, q) = f
    BY <1>2 DEF Detached
  <2>2. f.call = "route" => f.live \in BOOLEAN
    BY RouteFrames DEF RouteFrame
  <2> QED BY <1>2, <2>1, <2>2
<1> QED BY <1>1, <1>2

(* The tables of the scene in front are emptied.                           *)
Cleared(u, v) ==
    /\ Others({"lists", "by", "index", "stack"}, u, v)
    /\ v.lists = [u.lists EXCEPT ![u.front] = <<>>]
    /\ v.by = [u.by EXCEPT ![u.front] = [o \in Owners |-> NoRecord]]
    /\ v.index = [u.index EXCEPT ![u.front] = [o \in Owners |-> 0]]
    /\ v.stack \in Seq(Frame) /\ Len(v.stack) = Len(u.stack)
    /\ \A k \in 1 .. Len(u.stack) : v.stack[k] = Detached(u.stack[k], u.front, u.lists[u.front])

LEMMA EmptiedTidy ==
    ASSUME NEW u, Tidy(u, {})
    PROVE  /\ Tidy(Emptied(u, u.front), ToSet(u.lists[u.front])) /\ NoneLive(Emptied(u, u.front))
           /\ Cleared(u, Emptied(u, u.front)) /\ IsInjective(u.lists[u.front])
<1> DEFINE v == Emptied(u, u.front)
           s == u.front
           l == u.lists[s]
           X == ToSet(l)
<1>1. /\ UiTypes(u) /\ OnceBut(u, {}) /\ Tables(u) /\ Routes(u) /\ s \in OverlayScenes
      /\ DOMAIN u = Fields /\ u.stack \in Seq(Frame) /\ l \in Seq(Records)
      /\ u.lists \in [OverlayScenes -> Seq(Records)]
      /\ u.by \in [OverlayScenes -> [Owners -> Records \cup {NoRecord}]]
      /\ u.index \in [OverlayScenes -> [Owners -> Nat]]
  BY DEF Tidy, UiTypes
<1>2. Len(u.stack) \in Nat /\ DOMAIN u.stack = 1 .. Len(u.stack) /\ \A k \in 1 .. Len(u.stack) : u.stack[k] \in Frame
  BY <1>1
<1> HIDE DEF l
<1>3. v.stack = [k \in 1 .. Len(u.stack) |-> Detached(u.stack[k], s, l)]
  BY <1>1, <1>2 DEF Emptied, l, Fields
<1>4. \A k \in 1 .. Len(u.stack) : Detached(u.stack[k], s, l) \in Frame
  BY <1>1, <1>2, DetachedFrames
<1>5. v.stack \in Seq(Frame) /\ Len(v.stack) = Len(u.stack)
  BY <1>2, <1>3, <1>4
<1>6. Cleared(u, v)
  <2>1. Others({"lists", "by", "index", "stack"}, u, v)
    BY <1>1 DEF Emptied, Others, Fields
  <2>2. v.lists = [u.lists EXCEPT ![s] = <<>>]
    BY <1>1 DEF Emptied, Fields
  <2>3. v.by = [u.by EXCEPT ![s] = [o \in Owners |-> NoRecord]]
    BY <1>1 DEF Emptied, Fields
  <2>4. v.index = [u.index EXCEPT ![s] = [o \in Owners |-> 0]]
    BY <1>1 DEF Emptied, Fields
  <2> QED BY <1>2, <1>3, <1>5, <2>1, <2>2, <2>3, <2>4 DEF Cleared, l
<1> HIDE DEF v
<1>7. /\ v.menus = u.menus /\ v.front = u.front /\ v.dialogs = u.dialogs /\ v.shown = u.shown
      /\ v.told = u.told /\ v.reshown = u.reshown /\ v.list = u.list /\ v.before = u.before
      /\ v.focus = u.focus /\ v.at = u.at /\ v.forgot = u.forgot /\ DOMAIN v = Fields
  BY <1>6 DEF Others, Fields, Cleared
<1>8. /\ v.lists[s] = <<>> /\ \A o \in Owners : v.by[s][o] = NoRecord /\ v.index[s][o] = 0
      /\ \A sd \in OverlayScenes \ {s} : v.lists[sd] = u.lists[sd] /\ v.by[sd] = u.by[sd] /\ v.index[sd] = u.index[sd]
      /\ Recs(v) = Recs(u) /\ \A x : Owner(v, x) = Owner(u, x) /\ Kind(v, x) = Kind(u, x)
  <2>1. v.lists[s] = <<>> /\ \A sd \in OverlayScenes \ {s} : v.lists[sd] = u.lists[sd]
    BY <1>1, <1>6 DEF Cleared
  <2>2. v.by[s] = [o \in Owners |-> NoRecord] /\ \A sd \in OverlayScenes \ {s} : v.by[sd] = u.by[sd]
    BY <1>1, <1>6 DEF Cleared
  <2>3. v.index[s] = [o \in Owners |-> 0] /\ \A sd \in OverlayScenes \ {s} : v.index[sd] = u.index[sd]
    BY <1>1, <1>6 DEF Cleared
  <2>4. Recs(v) = Recs(u) /\ \A x : Owner(v, x) = Owner(u, x) /\ Kind(v, x) = Kind(u, x)
    BY <1>7 DEF Recs, Owner, Kind
  <2> QED BY <2>1, <2>2, <2>3, <2>4
<1>9. UiTypes(v)
  <2>1. v.lists \in [OverlayScenes -> Seq(Records)]
    BY <1>1, <1>6 DEF Cleared
  <2>2. v.by \in [OverlayScenes -> [Owners -> Records \cup {NoRecord}]]
    BY <1>1, <1>6 DEF Cleared
  <2>3. v.index \in [OverlayScenes -> [Owners -> Nat]]
    BY <1>1, <1>6 DEF Cleared
  <2> QED BY <1>1, <1>5, <1>7, <2>1, <2>2, <2>3 DEF UiTypes
<1>10. Kinds(v) /\ Menus(v) /\ Tables(v)
  <2>1. Kinds(v)
    BY <1>8 DEF Tidy, Kinds
  <2>2. Menus(v)
    BY <1>7, <1>8 DEF Tidy, Menus
  <2>3. ASSUME NEW sd \in OverlayScenes, NEW x \in Owners
        PROVE  LET q == v.lists[sd]
                   r == v.by[sd][x]
                   i == v.index[sd][x]
               IN /\ r # NoRecord => /\ i \in 1 .. Len(q) /\ q[i] = r /\ Owner(v, r) = x
                                     /\ \A k \in i + 1 .. Len(q) : Owner(v, q[k]) # x
                  /\ x \notin v.reshown =>
                       /\ r = NoRecord => i = 0 /\ \A k \in 1 .. Len(q) : Owner(v, q[k]) # x
                       /\ r # NoRecord => \A k \in 1 .. Len(q) : Owner(v, q[k]) = x => k = i
    <3>1. CASE sd = s
      <4>1. v.lists[sd] = <<>> /\ v.by[sd][x] = NoRecord /\ v.index[sd][x] = 0 /\ Len(<<>>) = 0
        BY <1>8, <3>1
      <4>2. \A k \in 1 .. Len(v.lists[sd]) : FALSE
        BY <4>1
      <4> QED BY <4>1, <4>2
    <3>2. CASE sd # s
      <4>1. v.lists[sd] = u.lists[sd] /\ v.by[sd] = u.by[sd] /\ v.index[sd] = u.index[sd]
        BY <1>8, <3>2
      <4> QED BY <1>1, <1>7, <1>8, <4>1 DEF Tables
    <3> QED BY <3>1, <3>2
  <2>4. Tables(v)
    BY <2>3 DEF Tables
  <2> QED BY <2>1, <2>2, <2>4
<1>11. X \subseteq Recs(u) /\ IsInjective(l)
  BY <1>1 DEF OnceBut, l
<1>12. /\ ToSet(v.lists[s]) = {} /\ IsInjective(v.lists[s])
       /\ \A sd \in OverlayScenes \ {s} : ToSet(v.lists[sd]) = ToSet(u.lists[sd]) /\ ToSet(u.lists[sd]) \cap X = {}
  <2>1. ToSet(v.lists[s]) = {} /\ IsInjective(v.lists[s])
    BY <1>8 DEF ToSet, IsInjective
  <2> QED BY <1>1, <1>8, <2>1 DEF OnceBut, l
<1>13. ASSUME NEW k \in 1 .. Len(v.stack)
       PROVE  /\ k \in 1 .. Len(u.stack) /\ v.stack[k] = Detached(u.stack[k], s, l)
              /\ v.stack[k].call = u.stack[k].call /\ u.stack[k] \in Frame
              /\ v.stack[k].call # "route" => v.stack[k] = u.stack[k]
              /\ Owed(v.stack[k]) = Owed(u.stack[k])
  <2>1. k \in 1 .. Len(u.stack) /\ v.stack[k] = Detached(u.stack[k], s, l) /\ u.stack[k] \in Frame
    BY <1>2, <1>5, <1>6 DEF Cleared, l
  <2>2. v.stack[k].call = u.stack[k].call /\ (v.stack[k].call # "route" => v.stack[k] = u.stack[k])
    BY <1>1, <2>1, DetachedFrames
  <2>3. Owed(v.stack[k]) = Owed(u.stack[k])
    BY <2>2 DEF Owed
  <2> QED BY <2>1, <2>2, <2>3
<1>14. OnceBut(v, X)
  <2>1. /\ X \subseteq Recs(v)
        /\ \A sd \in OverlayScenes : /\ IsInjective(v.lists[sd]) /\ ToSet(v.lists[sd]) \subseteq Recs(v)
                                   /\ ToSet(v.lists[sd]) \cap X = {}
    <3>1. \A sd \in OverlayScenes : IsInjective(u.lists[sd]) /\ ToSet(u.lists[sd]) \subseteq Recs(u)
      BY <1>1 DEF OnceBut
    <3>2. \A sd \in OverlayScenes \ {s} : v.lists[sd] = u.lists[sd]
      BY <1>8
    <3>3. ASSUME NEW sd \in OverlayScenes
          PROVE  /\ IsInjective(v.lists[sd]) /\ ToSet(v.lists[sd]) \subseteq Recs(v)
                 /\ ToSet(v.lists[sd]) \cap X = {}
      <4>1. CASE sd = s
        BY <1>12, <4>1
      <4>2. CASE sd # s
        BY <1>8, <1>12, <3>1, <3>2, <4>2
      <4> QED BY <4>1, <4>2
    <3> QED BY <1>8, <1>11, <3>3
  <2>2. ASSUME NEW sd \in OverlayScenes, NEW se \in OverlayScenes, sd # se
        PROVE  ToSet(v.lists[sd]) \cap ToSet(v.lists[se]) = {}
    <3>1. ToSet(u.lists[sd]) \cap ToSet(u.lists[se]) = {}
      BY <1>1, <2>2 DEF OnceBut
    <3> QED BY <1>12, <3>1
  <2>3. ASSUME NEW k \in 1 .. Len(v.stack)
        PROVE  /\ Owed(v.stack[k]) \subseteq Recs(v) /\ Owed(v.stack[k]) \cap X = {}
               /\ v.stack[k].call = "callbacks" => IsInjective(v.stack[k].todo)
               /\ \A j \in 1 .. Len(v.stack) : k # j => Owed(v.stack[k]) \cap Owed(v.stack[j]) = {}
               /\ \A sd \in OverlayScenes : Owed(v.stack[k]) \cap ToSet(v.lists[sd]) = {}
    <3>1. /\ Owed(u.stack[k]) \subseteq Recs(u)
          /\ u.stack[k].call = "callbacks" => IsInjective(u.stack[k].todo)
          /\ \A j \in 1 .. Len(u.stack) : k # j => Owed(u.stack[k]) \cap Owed(u.stack[j]) = {}
          /\ \A sd \in OverlayScenes : Owed(u.stack[k]) \cap ToSet(u.lists[sd]) = {}
      BY <1>1, <1>13 DEF OnceBut
    <3>2. Owed(v.stack[k]) \cap X = {}
      BY <1>1, <1>13, <3>1 DEF l
    <3>3. \A j \in 1 .. Len(v.stack) : k # j => Owed(v.stack[k]) \cap Owed(v.stack[j]) = {}
      BY <1>13, <3>1
    <3>4. \A sd \in OverlayScenes : Owed(v.stack[k]) \cap ToSet(v.lists[sd]) = {}
      BY <1>12, <1>13, <3>1
    <3>5. v.stack[k].call = "callbacks" => IsInjective(v.stack[k].todo)
      BY <1>13, <3>1
    <3> QED BY <1>8, <1>13, <3>1, <3>2, <3>3, <3>4, <3>5
  <2>4. ASSUME NEW x \in Records
        PROVE  v.told[x] = IF \/ x \notin Recs(v) \/ x \in X
                              \/ \E sd \in OverlayScenes : x \in ToSet(v.lists[sd])
                              \/ \E k \in 1 .. Len(v.stack) : x \in Owed(v.stack[k])
                           THEN 0 ELSE 1
    <3>1. (\E sd \in OverlayScenes : x \in ToSet(u.lists[sd]))
             <=> x \in X \/ \E sd \in OverlayScenes : x \in ToSet(v.lists[sd])
      BY <1>1, <1>12 DEF l
    <3>2. (\E k \in 1 .. Len(v.stack) : x \in Owed(v.stack[k])) <=> \E k \in 1 .. Len(u.stack) : x \in Owed(u.stack[k])
      BY <1>5, <1>13
    <3> QED BY <1>1, <1>7, <1>8, <3>1, <3>2 DEF OnceBut
  <2> QED BY <2>1, <2>2, <2>3, <2>4 DEF OnceBut
<1>15. NoneLive(v)
  <2> SUFFICES ASSUME NEW k \in 1 .. Len(v.stack), v.stack[k].call = "route"
               PROVE  ~v.stack[k].live
    BY DEF NoneLive
  <2>1. u.stack[k].call = "route" /\ k \in 1 .. Len(u.stack) /\ u.stack[k] \in Frame
    BY <1>13
  <2>2. u.stack[k].live => u.stack[k].sc = s
    BY <1>1, <2>1 DEF Routes, Reaching
  <2>3. v.stack[k] = Detached(u.stack[k], s, l)
    BY <1>13
  <2>4. u.stack[k].sc = s => ~v.stack[k].live
    BY <1>1, <2>1, <2>3, DetachedFrames
  <2>5. v.stack[k].live => u.stack[k].live
    BY <1>1, <2>1, <2>3, DetachedFrames
  <2> QED BY <2>2, <2>4, <2>5
<1>16. Routes(v)
  <2> SUFFICES ASSUME NEW k \in 1 .. Len(v.stack)
               PROVE  /\ v.stack[k].call \in {"route", "clicked"} => k = Len(v.stack)
                      /\ v.stack[k].call = "show" => Owner(v, v.stack[k].record) = v.stack[k].owner
                      /\ v.stack[k].call = "route" => Reaching(v, v.stack[k])
                      /\ v.stack[k].call = "handler" => /\ k + 1 \in 1 .. Len(v.stack)
                                                       /\ v.stack[k + 1].call = "route"
    BY DEF Routes
  <2>1. /\ u.stack[k].call \in {"route", "clicked"} => k = Len(u.stack)
        /\ u.stack[k].call = "show" => Owner(u, u.stack[k].record) = u.stack[k].owner
        /\ u.stack[k].call = "route" => Reaching(u, u.stack[k])
        /\ u.stack[k].call = "handler" => /\ k + 1 \in 1 .. Len(u.stack)
                                         /\ u.stack[k + 1].call = "route"
    BY <1>1, <1>13 DEF Routes
  <2>2. v.stack[k].call \in {"route", "clicked"} => k = Len(v.stack)
    BY <1>5, <1>13, <2>1
  <2>3. v.stack[k].call = "show" => Owner(v, v.stack[k].record) = v.stack[k].owner
    <3>1. v.stack[k].call = "show" => v.stack[k] = u.stack[k]
      BY <1>13
    <3> QED BY <1>8, <2>1, <3>1
  <2>4. v.stack[k].call = "handler" => k + 1 \in 1 .. Len(v.stack) /\ v.stack[k + 1].call = "route"
    <3>1. k + 1 \in 1 .. Len(v.stack) => v.stack[k + 1].call = u.stack[k + 1].call
      BY <1>13
    <3> QED BY <1>5, <1>13, <2>1, <3>1
  <2>5. ASSUME v.stack[k].call = "route" PROVE Reaching(v, v.stack[k])
    <3> DEFINE f == u.stack[k]
               g == v.stack[k]
    <3>1. f.call = "route" /\ Reaching(u, f) /\ g = Detached(f, s, l) /\ f \in Frame
      BY <1>13, <2>1, <2>5
    <3>2. ~g.live
      BY <1>15, <2>5 DEF NoneLive
    <3>3. Reaches(g) \subseteq Reaches(f) \cup X
      BY <1>1, <3>1, DetachedFrames
    <3> HIDE DEF f, g
    <3>4. ASSUME NEW r \in Reaches(g)
          PROVE  /\ r \in Recs(v)
                 /\ \A sd \in OverlayScenes : r \notin ToSet(v.lists[sd])
                 /\ \A j \in 1 .. Len(v.stack) : v.stack[j].call = "show" => v.stack[j].record # r
      <4>1. CASE r \in X
        <5>1. \A j \in 1 .. Len(u.stack) : r \notin Owed(u.stack[j])
          BY <1>1, <4>1 DEF OnceBut, l
        <5>2. \A j \in 1 .. Len(v.stack) : v.stack[j].call = "show" => v.stack[j].record # r
          BY <1>13, <5>1 DEF Owed
        <5> QED BY <1>8, <1>11, <1>12, <4>1, <5>2
      <4>2. CASE r \in Reaches(f)
        <5>1. /\ r \in Recs(u)
              /\ f.live => f.sc = s
              /\ \A sd \in OverlayScenes : r \in ToSet(u.lists[sd]) => f.live /\ sd = f.sc
              /\ \A j \in 1 .. Len(u.stack) : u.stack[j].call = "show" => u.stack[j].record # r
          BY <3>1, <4>2 DEF Reaching
        <5>2. \A j \in 1 .. Len(v.stack) : v.stack[j].call = "show" => v.stack[j].record # r
          <6>1. \A j \in 1 .. Len(v.stack) : v.stack[j].call = "show" =>
                   j \in 1 .. Len(u.stack) /\ v.stack[j] = u.stack[j]
            BY <1>13
          <6> QED BY <5>1, <6>1
        <5>3. \A sd \in OverlayScenes : r \notin ToSet(v.lists[sd])
          BY <1>12, <5>1
        <5>4. r \in Recs(u)
          BY <3>1, <4>2 DEF Reaching
        <5> QED BY <1>8, <5>2, <5>3, <5>4
      <4> QED BY <3>3, <4>1, <4>2
    <3> QED BY <3>2, <3>4 DEF Reaching, g
  <2> QED BY <2>2, <2>3, <2>4, <2>5
<1> QED BY <1>6, <1>9, <1>10, <1>11, <1>14, <1>15, <1>16 DEF Tidy, v, l

-----------------------------------------------------------------------------
(* Overlays: the palette and the focus.                                    *)

(* No palette is on its way to the list, and a scene is left after what a  *)
(* dismissal has still to do, or, with L, next.                            *)
Plain(u, L) ==
    \A i \in 1 .. Len(u.stack) :
        /\ ~ShowsPalette(u.stack[i]) /\ u.stack[i].call # "palette"
        /\ u.stack[i].call = "leave" => \/ i = 1 /\ L
                                        \/ i > 1 /\ u.stack[i - 1] = Reset(TRUE)
Steady(u) ==
    ~u.forgot =>
      /\ u.focus > 0 => Open(u, u.focus) /\ (u.list = u.focus \/ Two(u))
      /\ u.before > 0 => Two(u)
      /\ \A i \in 1 .. Len(u.stack) :
           u.stack[i].call = "callbacks" => \A r \in ToSet(u.stack[i].todo) : Kind(u, r) # "palette"
Good(u, X, L) == Tidy(u, X) /\ Plain(u, L) /\ Steady(u)

(* What the palette and the focus depend on.                               *)
Alike(u, v) ==
    /\ v.stack = u.stack /\ v.focus = u.focus /\ v.list = u.list /\ v.before = u.before
    /\ v.forgot = u.forgot /\ \A sc \in OverlayScenes : v.by[sc][Palette] = u.by[sc][Palette]
    /\ \A r \in Recs(u) : Kind(v, r) = Kind(u, r)

(* What the palette and the focus depend on is the same.                   *)
LEMMA GoodSame ==
    ASSUME NEW u, NEW v, NEW X, NEW Y, NEW L, Good(u, X, L), Alike(u, v), Tidy(v, Y)
    PROVE  Good(v, Y, L)
<1>1. Plain(v, L)
  BY DEF Good, Plain, Alike
<1>2. Steady(v)
  <2>1. (Two(v) <=> Two(u)) /\ \A r : Open(v, r) <=> Open(u, r)
    BY DEF Alike, Two, Open
  <2>2. ASSUME NEW i \in 1 .. Len(u.stack), u.stack[i].call = "callbacks", NEW r \in ToSet(u.stack[i].todo)
        PROVE  Kind(v, r) = Kind(u, r)
    <3>1. Owed(u.stack[i]) \subseteq Recs(u)
      BY DEF Good, Tidy, OnceBut
    <3> QED BY <2>2, <3>1 DEF Owed, Alike
  <2> QED BY <2>1, <2>2 DEF Good, Steady, Alike
<1> QED BY <1>1, <1>2 DEF Good

(* A frame that shows no palette and leaves no scene is put on the stack.  *)
LEMMA PushGood ==
    ASSUME NEW u, NEW X, NEW L, Good(u, X, L), NEW f, Safe(u, f), Owed(f) \subseteq X,
           ~ShowsPalette(f), f.call # "palette", f.call # "leave", L => f = Reset(TRUE),
           f.call = "callbacks" => \/ u.forgot
                                   \/ \A r \in ToSet(f.todo) : Kind(u, r) # "palette"
    PROVE  Good(Push(u, <<f>>), X \ Owed(f), FALSE)
<1> DEFINE v == Push(u, <<f>>)
<1>1. /\ v.stack = <<f>> \o u.stack /\ Others({"stack"}, u, v) /\ u.stack \in Seq(Frame) /\ f \in Frame
  <2>1. <<f>> \in Seq(Frame) /\ UiTypes(u)
    BY DEF Good, Safe, Tidy
  <2> QED BY <2>1, PushFields DEF Safe, UiTypes
<1>2. Tidy(v, X \ Owed(f))
  BY PushTidy DEF Good
<1>3. /\ Len(v.stack) = Len(u.stack) + 1 /\ v.stack[1] = f /\ Len(u.stack) \in Nat
      /\ \A i \in 1 .. Len(v.stack) : i = 1 \/ (i - 1 \in 1 .. Len(u.stack) /\ v.stack[i] = u.stack[i - 1])
  <2> HIDE DEF v
  <2> DEFINE p == <<f>> \o u.stack
  <2>1. /\ Len(p) = Len(u.stack) + 1 /\ p[1] = f
        /\ \A i \in 1 .. Len(p) : i = 1 \/ (i - 1 \in 1 .. Len(u.stack) /\ p[i] = u.stack[i - 1])
    BY <1>1, PushPlaces
  <2>2. v.stack = p /\ Len(u.stack) \in Nat
    BY <1>1
  <2> HIDE DEF p
  <2> QED BY <2>1, <2>2
<1> HIDE DEF v
<1>4. Plain(v, FALSE)
  <2> SUFFICES ASSUME NEW i \in 1 .. Len(v.stack)
               PROVE  /\ ~ShowsPalette(v.stack[i]) /\ v.stack[i].call # "palette"
                      /\ v.stack[i].call = "leave" => i > 1 /\ v.stack[i - 1] = Reset(TRUE)
    BY DEF Plain
  <2>1. CASE i = 1
    BY <1>3, <2>1
  <2>2. CASE i # 1
    <3>1. i - 1 \in 1 .. Len(u.stack) /\ v.stack[i] = u.stack[i - 1] /\ i > 1
      BY <1>3, <2>2
    <3>2. /\ ~ShowsPalette(v.stack[i]) /\ v.stack[i].call # "palette"
          /\ v.stack[i].call = "leave" => \/ i - 1 = 1 /\ L
                                          \/ i - 1 > 1 /\ u.stack[(i - 1) - 1] = Reset(TRUE)
      BY <3>1 DEF Good, Plain
    <3>3. i - 1 = 1 /\ L => v.stack[i - 1] = Reset(TRUE)
      BY <1>3
    <3>4. i - 1 > 1 => i - 1 \in 1 .. Len(v.stack) /\ v.stack[i - 1] = u.stack[(i - 1) - 1]
      BY <1>3, <3>1
    <3> QED BY <3>1, <3>2, <3>3, <3>4
  <2> QED BY <2>1, <2>2
<1>5. Steady(v)
  <2>1. /\ v.focus = u.focus /\ v.list = u.list /\ v.before = u.before /\ v.forgot = u.forgot
        /\ v.by = u.by /\ v.shown = u.shown
    BY <1>1 DEF Others, Fields
  <2>2. (Two(v) <=> Two(u)) /\ \A r : (Open(v, r) <=> Open(u, r)) /\ Kind(v, r) = Kind(u, r)
    BY <2>1 DEF Two, Open, Kind
  <2>3. ASSUME ~u.forgot, NEW i \in 1 .. Len(v.stack), v.stack[i].call = "callbacks"
        PROVE  \A r \in ToSet(v.stack[i].todo) : Kind(v, r) # "palette"
    <3>1. CASE i = 1
      BY <1>3, <2>2, <2>3, <3>1
    <3>2. CASE i # 1
      <4>1. i - 1 \in 1 .. Len(u.stack) /\ v.stack[i] = u.stack[i - 1]
        BY <1>3, <3>2
      <4> QED BY <2>2, <2>3, <4>1 DEF Good, Steady
    <3> QED BY <3>1, <3>2
  <2> QED BY <2>1, <2>2, <2>3 DEF Good, Steady
<1> QED BY <1>2, <1>4, <1>5 DEF Good, v

(* The switch of a scene begins.                                           *)
LEMMA LeaveGood ==
    ASSUME NEW u, Good(u, {}, FALSE), NEW s \in OverlayScenes
    PROVE  Good(Push(u, <<[call |-> "leave", to |-> s]>>), {}, TRUE)
<1> DEFINE f == [call |-> "leave", to |-> s]
           v == Push(u, <<f>>)
<1>1. f \in Frame /\ f.call = "leave" /\ Owed(f) = {} /\ ~ShowsPalette(f)
  BY DEF Frame, Owed, ShowsPalette
<1> HIDE DEF f
<1>2. /\ v.stack = <<f>> \o u.stack /\ Others({"stack"}, u, v) /\ u.stack \in Seq(Frame)
  <2>1. <<f>> \in Seq(Frame) /\ UiTypes(u)
    BY <1>1 DEF Good, Tidy
  <2> QED BY <2>1, PushFields DEF UiTypes
<1>3. Tidy(v, {})
  <2>1. Safe(u, f)
    BY <1>1 DEF Safe, Outermost
  <2>2. Tidy(u, {})
    BY DEF Good
  <2>3. Tidy(v, {} \ Owed(f))
    BY <1>1, <2>1, <2>2, PushTidy
  <2> QED BY <1>1, <2>3
<1>4. /\ Len(v.stack) = Len(u.stack) + 1 /\ v.stack[1] = f /\ Len(u.stack) \in Nat
      /\ \A i \in 1 .. Len(v.stack) : i = 1 \/ (i - 1 \in 1 .. Len(u.stack) /\ v.stack[i] = u.stack[i - 1])
  BY <1>1, <1>2, PushPlaces
<1> HIDE DEF v
<1>5. Plain(v, TRUE)
  <2> SUFFICES ASSUME NEW i \in 1 .. Len(v.stack)
               PROVE  /\ ~ShowsPalette(v.stack[i]) /\ v.stack[i].call # "palette"
                      /\ v.stack[i].call = "leave" => i = 1 \/ (i > 1 /\ v.stack[i - 1] = Reset(TRUE))
    BY DEF Plain
  <2>1. CASE i = 1
    BY <1>1, <1>4, <2>1
  <2>2. CASE i # 1
    <3>1. i - 1 \in 1 .. Len(u.stack) /\ v.stack[i] = u.stack[i - 1] /\ i > 1
      BY <1>4, <2>2
    <3>2. /\ ~ShowsPalette(v.stack[i]) /\ v.stack[i].call # "palette"
          /\ v.stack[i].call = "leave" => i - 1 > 1 /\ u.stack[(i - 1) - 1] = Reset(TRUE)
      BY <3>1 DEF Good, Plain
    <3>3. i - 1 > 1 => i - 1 \in 1 .. Len(v.stack) /\ v.stack[i - 1] = u.stack[(i - 1) - 1]
      BY <1>4, <3>1
    <3> QED BY <3>1, <3>2, <3>3
  <2> QED BY <2>1, <2>2
<1>6. Steady(v)
  <2>1. /\ v.focus = u.focus /\ v.list = u.list /\ v.before = u.before /\ v.forgot = u.forgot
        /\ v.by = u.by /\ v.shown = u.shown
    BY <1>2 DEF Others, Fields
  <2>2. (Two(v) <=> Two(u)) /\ \A r : (Open(v, r) <=> Open(u, r)) /\ Kind(v, r) = Kind(u, r)
    BY <2>1 DEF Two, Open, Kind
  <2>3. ASSUME ~u.forgot, NEW i \in 1 .. Len(v.stack), v.stack[i].call = "callbacks"
        PROVE  \A r \in ToSet(v.stack[i].todo) : Kind(v, r) # "palette"
    <3>1. i - 1 \in 1 .. Len(u.stack) /\ v.stack[i] = u.stack[i - 1]
      BY <1>1, <1>4, <2>3
    <3> QED BY <2>2, <2>3, <3>1 DEF Good, Steady
  <2> QED BY <2>1, <2>2, <2>3 DEF Good, Steady
<1> QED BY <1>3, <1>5, <1>6 DEF Good, v, f

(* When nothing is on its way the whole invariant holds.                   *)
LEMMA GoodInv ==
    ASSUME NEW u, NEW L, Good(u, {}, L), L => u.forgot \/ u.by[u.front][Palette] = NoRecord
    PROVE  OverlaysInv(u)
<1>1. Shape(u)
  BY DEF Good, Plain, Shape
<1>2. Focus(u)
  BY DEF Good, Plain, Steady, Focus
<1> QED BY <1>1, <1>2 DEF Good, OverlaysInv

(* The innermost call goes on: no palette is being shown.                  *)
LEMMA InvRest ==
    ASSUME NEW u, OverlaysInv(u), u.stack # <<>>, ~ShowsPalette(Head(u.stack))
    PROVE  /\ Good(Rest(u), Owed(Head(u.stack)), Head(u.stack) = Reset(TRUE))
           /\ Others({"stack"}, u, Rest(u)) /\ Head(u.stack) \in Frame /\ Head(u.stack) = u.stack[1]
           /\ Outermost(Head(u.stack)) => Rest(u).stack = <<>>
           /\ 1 \in 1 .. Len(u.stack)
<1> DEFINE v == Rest(u)
           h == Head(u.stack)
<1>1. /\ v.stack = Tail(u.stack) /\ Others({"stack"}, u, v)
      /\ u.stack \in Seq(Frame)
  <2>1. UiTypes(u)
    BY DEF OverlaysInv, Tidy
  <2> QED BY <2>1, RestFields DEF UiTypes
<1>2. Tidy(v, {} \cup Owed(h)) /\ h = u.stack[1] /\ h \in Frame /\ (Outermost(h) => v.stack = <<>>)
  BY RestTidy DEF OverlaysInv
<1>3. /\ Len(v.stack) = Len(u.stack) - 1 /\ Len(u.stack) \in Nat \ {0}
      /\ \A i \in 1 .. Len(v.stack) : i + 1 \in 1 .. Len(u.stack) /\ v.stack[i] = u.stack[i + 1]
      /\ 1 \in 1 .. Len(u.stack)
  BY <1>1, RestPlaces
<1> HIDE DEF v, h
<1>4. Plain(v, h = Reset(TRUE))
  <2> SUFFICES ASSUME NEW i \in 1 .. Len(v.stack)
               PROVE  /\ ~ShowsPalette(v.stack[i]) /\ v.stack[i].call # "palette"
                      /\ v.stack[i].call = "leave" => \/ i = 1 /\ h = Reset(TRUE)
                                                      \/ i > 1 /\ v.stack[i - 1] = Reset(TRUE)
    BY DEF Plain
  <2>1. i + 1 \in 1 .. Len(u.stack) /\ v.stack[i] = u.stack[i + 1]
    BY <1>3
  <2>2. /\ ShowsPalette(u.stack[i + 1]) => i + 1 = 1
        /\ u.stack[i + 1].call = "palette" => \/ i + 1 = 1
                                              \/ i + 1 = 2 /\ ShowsPalette(u.stack[1])
        /\ u.stack[i + 1].call = "leave" => \/ i + 1 = 1
                                            \/ i + 1 > 1 /\ u.stack[(i + 1) - 1] = Reset(TRUE)
    BY <2>1 DEF OverlaysInv, Shape
  <2>3. ~ShowsPalette(u.stack[1]) /\ (i > 1 => i - 1 \in 1 .. Len(v.stack) /\ v.stack[i - 1] = u.stack[(i - 1) + 1])
    BY <1>2, <1>3 DEF h
  <2>4. (i + 1) - 1 = i /\ (i - 1) + 1 = i /\ i + 1 # 1 /\ (i = 1 \/ i > 1)
    OBVIOUS
  <2>5. i = 1 => u.stack[i] = h
    BY <1>2
  <2> QED BY <2>1, <2>2, <2>3, <2>4, <2>5
<1>5. Steady(v)
  <2>1. /\ v.focus = u.focus /\ v.list = u.list /\ v.before = u.before /\ v.forgot = u.forgot
        /\ v.by = u.by /\ v.shown = u.shown
    BY <1>1 DEF Others, Fields
  <2>2. (Two(v) <=> Two(u)) /\ \A r : (Open(v, r) <=> Open(u, r)) /\ Kind(v, r) = Kind(u, r)
    BY <2>1 DEF Two, Open, Kind
  <2>3. ~ShowsPalette(u.stack[1])
    BY <1>2 DEF h
  <2>4. Focus(u)
    BY DEF OverlaysInv
  <2>5. ASSUME ~u.forgot, NEW i \in 1 .. Len(v.stack), v.stack[i].call = "callbacks"
        PROVE  \A r \in ToSet(v.stack[i].todo) : Kind(v, r) # "palette"
    <3>1. i + 1 \in 1 .. Len(u.stack) /\ v.stack[i] = u.stack[i + 1]
      BY <1>3
    <3> QED BY <2>2, <2>4, <2>5, <3>1 DEF Focus
  <2>6. ~u.forgot => /\ u.focus > 0 => Open(u, u.focus) /\ (u.list = u.focus \/ Two(u))
                     /\ u.before > 0 => Two(u)
    BY <2>3, <2>4 DEF Focus
  <2> QED BY <2>1, <2>2, <2>5, <2>6 DEF Steady
<1>6. {} \cup Owed(h) = Owed(h)
  OBVIOUS
<1> QED BY <1>1, <1>2, <1>3, <1>4, <1>5, <1>6 DEF Good, v, h

(* The program runs, or nothing does.                                      *)
LEMMA InvGood ==
    ASSUME NEW u, OverlaysInv(u),
           \/ u.stack = <<>>
           \/ /\ ~ShowsPalette(Head(u.stack))
              /\ Head(u.stack).call # "palette" /\ Head(u.stack).call # "leave"
    PROVE  Good(u, {}, FALSE)
<1>1. u.stack \in Seq(Frame) /\ Len(u.stack) \in Nat
  BY DEF OverlaysInv, Tidy, UiTypes
<1>2. /\ 1 \in 1 .. Len(u.stack) => /\ ~ShowsPalette(u.stack[1])
                                    /\ u.stack[1].call # "palette" /\ u.stack[1].call # "leave"
      /\ ~(u.stack # <<>> /\ ShowsPalette(u.stack[1]))
  BY <1>1
<1>3. Plain(u, FALSE)
  <2> SUFFICES ASSUME NEW i \in 1 .. Len(u.stack)
               PROVE  /\ ~ShowsPalette(u.stack[i]) /\ u.stack[i].call # "palette"
                      /\ u.stack[i].call = "leave" => i > 1 /\ u.stack[i - 1] = Reset(TRUE)
    BY DEF Plain
  <2>1. 1 \in 1 .. Len(u.stack)
    BY <1>1
  <2>2. /\ ShowsPalette(u.stack[i]) => i = 1
        /\ u.stack[i].call = "palette" => i = 1 \/ ShowsPalette(u.stack[1])
        /\ u.stack[i].call = "leave" => i = 1 \/ (i > 1 /\ u.stack[i - 1] = Reset(TRUE))
    BY DEF OverlaysInv, Shape
  <2> QED BY <1>2, <2>1, <2>2
<1>4. Steady(u)
  BY <1>2 DEF OverlaysInv, Focus, Steady
<1> QED BY <1>3, <1>4 DEF Good, OverlaysInv

(* Frames that owe nothing and may be put on any stack.                    *)
Loose == {f \in Frame : f.call \in {"callback", "each", "reset", "reopen"}}

LEMMA PushLoose ==
    ASSUME NEW u, NEW X, NEW L, Good(u, X, L), NEW f \in Loose, L => f = Reset(TRUE)
    PROVE  Good(Push(u, <<f>>), X, FALSE)
<1>1. f \in Frame /\ f.call \in {"callback", "each", "reset", "reopen"}
  BY DEF Loose
<1>2. Owed(f) = {} /\ ~ShowsPalette(f) /\ f.call # "palette" /\ f.call # "leave" /\ f.call # "callbacks"
  BY <1>1 DEF Owed, ShowsPalette
<1>3. Safe(u, f)
  BY <1>1 DEF Safe, Outermost
<1>4. Good(Push(u, <<f>>), X \ Owed(f), FALSE)
  BY <1>2, <1>3, PushGood
<1> QED BY <1>2, <1>4

LEMMA LooseFrames ==
    /\ ProgramCall("callback") \in Loose
    /\ \A b \in BOOLEAN : Reset(b) \in Loose
    /\ \A sc \in OverlayScenes, q \in Seq(Owners) : Each(sc, q) \in Loose
    /\ \A sc \in OverlayScenes : [call |-> "reopen", sc |-> sc] \in Loose
BY DEF ProgramCall, Reset, Each, Loose, Frame

(* Of the records made, the owners are known.                              *)
LEMMA OwnersType ==
    ASSUME NEW u, UiTypes(u), NEW q \in Seq(Records), ToSet(q) \subseteq Recs(u)
    PROVE  OwnersOf(u, q) \in Seq(Owners)
<1>1. DOMAIN q = 1 .. Len(q) /\ Len(q) \in Nat /\ \A i \in 1 .. Len(q) : q[i] \in Recs(u)
  BY InSet
<1>2. \A r \in Recs(u) : Owner(u, r) \in Owners
  BY KindsAre
<1> QED BY <1>1, <1>2 DEF OwnersOf

(* The focus moves.                                                        *)
LEMMA FocusTidy ==
    ASSUME NEW u, NEW X, Tidy(u, X), NEW n \in Int
    PROVE  LET w == [u EXCEPT !.focus = n] IN
           Tidy(w, X) /\ w.focus = n /\ Others({"focus"}, u, w)
<1> DEFINE w == [u EXCEPT !.focus = n]
<1>1. UiTypes(u) /\ DOMAIN u = Fields
  BY DEF Tidy, UiTypes
<1>2. w.focus = n /\ Others({"focus"}, u, w)
  BY <1>1 DEF Others, Fields
<1> HIDE DEF w
<1>3. UiTypes(w)
  BY <1>1, <1>2 DEF UiTypes, Others, Fields
<1>4. Others({"dialogs", "list", "before", "at", "focus", "forgot"}, u, w)
  BY <1>2 DEF Others
<1>5. w.dialogs \subseteq Recs(w)
  BY <1>2 DEF Others, Fields, Tidy, Menus, Recs
<1>6. Tidy(w, X)
  BY <1>3, <1>4, <1>5, SameTidy
<1> QED BY <1>2, <1>6 DEF w

LEMMA FocusFrame ==
    ASSUME NEW u, NEW X, Tidy(u, X), NEW n, n # u.focus
    PROVE  \E e \in Loose : e # Reset(TRUE) /\ FocusSet(u, n) = Push([u EXCEPT !.focus = n], <<e>>)
<1> DEFINE losers == {r \in 1 .. Len(u.shown) : LosesFocus(u, r, n)}
           q == Including(u.lists[u.front], losers)
           e == Each(u.front, OwnersOf(u, q))
<1>1. /\ UiTypes(u) /\ u.front \in OverlayScenes /\ u.lists[u.front] \in Seq(Records)
      /\ ToSet(u.lists[u.front]) \subseteq Recs(u)
  <2>1. UiTypes(u) /\ OnceBut(u, X)
    BY DEF Tidy
  <2>2. u.front \in OverlayScenes /\ u.lists \in [OverlayScenes -> Seq(Records)]
    BY <2>1 DEF UiTypes
  <2> QED BY <2>1, <2>2 DEF OnceBut
<1>2. q \in Seq(Records) /\ ToSet(q) \subseteq ToSet(u.lists[u.front])
  <2> HIDE DEF losers
  <2> QED BY <1>1, IncludingParts
<1>3. OwnersOf(u, q) \in Seq(Owners)
  <2> HIDE DEF q
  <2> QED BY <1>1, <1>2, OwnersType
<1>4. e \in Loose /\ e.call = "each"
  <2> HIDE DEF q
  <2>1. e \in Loose
    BY <1>1, <1>3, LooseFrames
  <2> QED BY <2>1 DEF Each
<1>5. e # Reset(TRUE)
  BY <1>4 DEF Reset
<1>6. FocusSet(u, n) = Push([u EXCEPT !.focus = n], <<e>>)
  BY DEF FocusSet
<1> HIDE DEF e
<1> QED BY <1>4, <1>5, <1>6

LEMMA FocusGood ==
    ASSUME NEW u, NEW X, Good(u, X, FALSE), NEW n \in Int, n <= 0 \/ u.forgot
    PROVE  Good(FocusSet(u, n), X, FALSE)
<1> DEFINE w == [u EXCEPT !.focus = n]
<1>1. CASE n = u.focus
  BY <1>1 DEF FocusSet
<1>2. CASE n # u.focus
  <2>1. Tidy(w, X) /\ w.focus = n /\ Others({"focus"}, u, w)
    BY FocusTidy DEF Good
  <2>2. PICK e \in Loose : FocusSet(u, n) = Push(w, <<e>>)
    BY <1>2, FocusFrame DEF Good
  <2> HIDE DEF w
  <2>3. /\ w.stack = u.stack /\ w.before = u.before /\ w.forgot = u.forgot /\ w.by = u.by
        /\ w.shown = u.shown
    BY <2>1 DEF Others, Fields
  <2>4. Plain(w, FALSE)
    BY <2>3 DEF Plain, Good
  <2>5. Steady(w)
    <3>1. (Two(w) <=> Two(u)) /\ \A r : Kind(w, r) = Kind(u, r)
      BY <2>3 DEF Two, Kind
    <3>2. ~u.forgot => ~(n > 0)
      OBVIOUS
    <3> QED BY <2>1, <2>3, <3>1, <3>2 DEF Steady, Good
  <2>6. Good(w, X, FALSE)
    BY <2>1, <2>4, <2>5 DEF Good
  <2> QED BY <2>2, <2>6, PushLoose
<1> QED BY <1>1, <1>2

(* A palette was dismissed.                                                *)
Alone(u) ==
    ~(u.forgot \/ SomePalette(u)) =>
      /\ ~(u.before > 0) /\ (u.focus > 0 => u.focus = u.list)
      /\ \A i \in 1 .. Len(u.stack) :
           u.stack[i].call = "callbacks" => \A r \in ToSet(u.stack[i].todo) : Kind(u, r) # "palette"

LEMMA PaletteGoneGood ==
    ASSUME NEW u, NEW X, NEW L, Tidy(u, X), Plain(u, L), Alone(u)
    PROVE  Good(PaletteGone(u), X, FALSE)
<1> DEFINE w == [u EXCEPT !.forgot = @ \/ SomePalette(u)]
           reset == Push(w, <<Reset(TRUE)>>)
<1>1. /\ UiTypes(u) /\ DOMAIN u = Fields /\ u.before \in Int /\ u.focus \in Int
      /\ u.forgot \in BOOLEAN /\ u.list \in Nat
  BY DEF Tidy, UiTypes
<1>2. w.forgot = (u.forgot \/ SomePalette(u)) /\ Others({"forgot"}, u, w)
  <2>1. \A b : [u EXCEPT !.forgot = b].forgot = b /\ Others({"forgot"}, u, [u EXCEPT !.forgot = b])
    BY <1>1 DEF Others, Fields
  <2> QED BY <2>1
<1>3. PaletteGone(u) = IF reset.focus = reset.list THEN FocusSet(reset, reset.before) ELSE reset
  <2>1. reset.focus = u.focus /\ reset.list = u.list /\ reset.before = u.before
    BY <1>1 DEF Push, Fields
  <2> QED BY <2>1 DEF PaletteGone
<1> HIDE DEF w
<1>4. /\ w.stack = u.stack /\ w.focus = u.focus /\ w.list = u.list /\ w.before = u.before
      /\ w.by = u.by /\ w.shown = u.shown /\ w.dialogs = u.dialogs /\ DOMAIN w = Fields
  BY <1>2 DEF Others, Fields
<1>5. Tidy(w, X)
  <2>1. w.forgot \in BOOLEAN
    BY <1>2
  <2>2. UiTypes(w)
    BY <1>1, <1>2, <2>1 DEF UiTypes, Others, Fields
  <2>3. Others({"dialogs", "list", "before", "at", "focus", "forgot"}, u, w)
    BY <1>2 DEF Others
  <2>4. w.dialogs \subseteq Recs(w)
    BY <1>4 DEF Tidy, Menus, Recs
  <2> QED BY <2>2, <2>3, <2>4, SameTidy
<1>6. Plain(w, L)
  BY <1>4 DEF Plain
<1>7. Reset(TRUE) \in Loose
  BY LooseFrames
<1>8. Alone(u) /\ \A r : Kind(w, r) = Kind(u, r)
  BY <1>4 DEF Kind
<1>9. ASSUME NEW v, Tidy(v, X), Others({"focus"}, w, v), ~w.forgot => ~(v.focus > 0)
      PROVE  Good(Push(v, <<Reset(TRUE)>>), X, FALSE)
  <2>1. /\ v.stack = w.stack /\ v.before = w.before /\ v.forgot = w.forgot /\ v.by = w.by
        /\ v.shown = w.shown
    BY <1>9 DEF Others, Fields
  <2>2. Plain(v, L)
    BY <1>6, <2>1 DEF Plain
  <2>3. Steady(v)
    <3>1. \A r : Kind(v, r) = Kind(u, r)
      BY <1>8, <2>1 DEF Kind
    <3>2. ~w.forgot => ~(v.before > 0) /\ \A i \in 1 .. Len(v.stack) :
             v.stack[i].call = "callbacks" => \A r \in ToSet(v.stack[i].todo) : Kind(v, r) # "palette"
      BY <1>2, <1>4, <1>8, <2>1, <3>1 DEF Alone
    <3> QED BY <1>9, <2>1, <3>2 DEF Steady
  <2>4. Good(v, X, L)
    BY <1>9, <2>2, <2>3 DEF Good
  <2> QED BY <1>7, <2>4, PushLoose
<1>10. reset.focus = u.focus /\ reset.list = u.list /\ reset.before = u.before
  BY <1>4 DEF Push, Fields
<1>11. CASE u.focus # u.list
  <2>1. ~w.forgot => ~(w.focus > 0)
    BY <1>2, <1>4, <1>8, <1>11 DEF Alone
  <2>2. Others({"focus"}, w, w)
    BY <1>4 DEF Others
  <2>3. Good(reset, X, FALSE)
    BY <1>5, <1>9, <2>1, <2>2
  <2> QED BY <1>3, <1>10, <1>11, <2>3
<1>12. CASE u.focus = u.list /\ u.before = u.focus
  <2>1. ~w.forgot => ~(w.focus > 0)
    BY <1>2, <1>4, <1>8, <1>12 DEF Alone
  <2>2. Others({"focus"}, w, w)
    BY <1>4 DEF Others
  <2>3. Good(reset, X, FALSE)
    BY <1>5, <1>9, <2>1, <2>2
  <2>4. FocusSet(reset, reset.before) = reset
    BY <1>10, <1>12 DEF FocusSet
  <2> QED BY <1>3, <1>10, <1>12, <2>3, <2>4
<1>13. CASE u.focus = u.list /\ u.before # u.focus
  <2> DEFINE v == [w EXCEPT !.focus = u.before]
  <2>1. Tidy(v, X) /\ v.focus = u.before /\ Others({"focus"}, w, v)
    BY <1>1, <1>5, FocusTidy
  <2>2. ~w.forgot => ~(v.focus > 0)
    BY <1>2, <1>8, <2>1 DEF Alone
  <2>3. Good(Push(v, <<Reset(TRUE)>>), X, FALSE)
    BY <1>9, <2>1, <2>2
  <2>4. Tidy(reset, X)
    <3>1. Safe(w, Reset(TRUE)) /\ Owed(Reset(TRUE)) = {} /\ Reset(TRUE) \in Frame
      BY <1>7 DEF Safe, Outermost, Reset, Owed, Loose
    <3>2. Tidy(reset, X \ Owed(Reset(TRUE)))
      BY <1>5, <3>1, PushTidy
    <3> QED BY <3>1, <3>2
  <2>5. PICK e \in Loose : FocusSet(reset, u.before) = Push([reset EXCEPT !.focus = u.before], <<e>>)
    BY <1>10, <1>13, <2>4, FocusFrame
  <2>6. [reset EXCEPT !.focus = u.before] = Push(v, <<Reset(TRUE)>>)
    BY <1>4 DEF Push, Fields
  <2>7. Good(Push(Push(v, <<Reset(TRUE)>>), <<e>>), X, FALSE)
    BY <2>3, <2>5, PushLoose
  <2> QED BY <1>3, <1>10, <1>13, <2>5, <2>6, <2>7
<1> QED BY <1>11, <1>12, <1>13

(* A dismissal is told, of something else than a palette.                  *)
LEMMA ToldFields ==
    ASSUME NEW u, UiTypes(u), NEW r \in Records
    PROVE  LET t == [u EXCEPT !.told[r] = @ + 1]
               m == [t EXCEPT !.menus = @ \ {r}]
           IN /\ UiTypes(t) /\ Others({"told"}, u, t) /\ t.told = [u.told EXCEPT ![r] = @ + 1]
              /\ UiTypes(m) /\ Others({"told", "menus"}, u, m) /\ m.told = [u.told EXCEPT ![r] = @ + 1]
              /\ m.menus = u.menus \ {r}
<1> DEFINE t == [u EXCEPT !.told[r] = @ + 1]
           m == [t EXCEPT !.menus = @ \ {r}]
<1>1. DOMAIN u = Fields /\ u.told \in [Records -> Nat] /\ u.menus \in SUBSET Records
  BY DEF UiTypes
<1>2. Others({"told"}, u, t) /\ t.told = [u.told EXCEPT ![r] = @ + 1]
  BY <1>1 DEF Others, Fields
<1> HIDE DEF t
<1>3. t.told \in [Records -> Nat]
  BY <1>1, <1>2
<1>4. DOMAIN t = Fields /\ t.menus = u.menus
  BY <1>2 DEF Others, Fields
<1>5. Others({"menus"}, t, m) /\ m.menus = u.menus \ {r}
  BY <1>4 DEF Others, Fields
<1> HIDE DEF m
<1>6. UiTypes(t)
  BY <1>2, <1>3 DEF UiTypes, Others, Fields
<1>7. m.menus \in SUBSET Records
  BY <1>1, <1>5
<1>8. UiTypes(m)
  BY <1>5, <1>6, <1>7 DEF UiTypes, Others, Fields
<1>9. Others({"told", "menus"}, u, m) /\ m.told = t.told
  BY <1>2, <1>5 DEF Others, Fields
<1> QED BY <1>2, <1>5, <1>6, <1>8, <1>9 DEF t, m

LEMMA OnDismissGood ==
    ASSUME NEW u, NEW X, NEW L, Tidy(u, X), Plain(u, L), NEW r \in X,
           Kind(u, r) # "palette" => ~L /\ Steady(u),
           Kind(u, r) = "palette" => Alone(u)
    PROVE  Good(OnDismiss(u, r), X \ {r}, FALSE)
<1> DEFINE t == [u EXCEPT !.told[r] = @ + 1]
           m == [t EXCEPT !.menus = @ \ {r}]
<1>1. UiTypes(u) /\ r \in Records /\ r \in Recs(u)
  BY RecsAre DEF Tidy, OnceBut
<1>2. /\ UiTypes(t) /\ Others({"told"}, u, t) /\ t.told = [u.told EXCEPT ![r] = @ + 1]
      /\ UiTypes(m) /\ Others({"told", "menus"}, u, m) /\ m.told = [u.told EXCEPT ![r] = @ + 1]
      /\ m.menus = u.menus \ {r}
  BY <1>1, ToldFields
<1>3. Kind(u, r) \in {"panel", "menu", "dialog", "palette"}
  BY <1>1, KindsAre
<1>4. OnDismiss(u, r) = CASE Kind(u, r) = "panel"   -> Push(t, <<ProgramCall("callback")>>)
                          [] Kind(u, r) = "menu"    -> Push(m, <<ProgramCall("callback")>>)
                          [] Kind(u, r) = "dialog"  -> t
                          [] Kind(u, r) = "palette" -> PaletteGone(t)
  BY DEF OnDismiss
<1> HIDE DEF t, m
<1>5. ASSUME Kind(u, r) # "menu" PROVE Tidy(t, X \ {r})
  <2>1. t.menus = u.menus /\ Others({"told", "menus"}, u, t)
    BY <1>2 DEF Others, Fields
  <2> QED BY <1>2, <1>5, <2>1, ToldTidy
<1>6. ASSUME Kind(u, r) = "menu" PROVE Tidy(m, X \ {r})
  BY <1>2, <1>6, ToldTidy
<1>7. /\ t.stack = u.stack /\ t.focus = u.focus /\ t.list = u.list /\ t.before = u.before
      /\ t.forgot = u.forgot /\ t.by = u.by /\ t.shown = u.shown
      /\ m.stack = u.stack /\ m.focus = u.focus /\ m.list = u.list /\ m.before = u.before
      /\ m.forgot = u.forgot /\ m.by = u.by /\ m.shown = u.shown
  BY <1>2 DEF Others, Fields
<1>8. /\ \A x : Kind(t, x) = Kind(u, x) /\ Kind(m, x) = Kind(u, x) /\ Open(t, x) = Open(u, x)
                /\ Open(m, x) = Open(u, x)
      /\ Two(t) = Two(u) /\ Two(m) = Two(u) /\ SomePalette(t) = SomePalette(u)
  BY <1>7 DEF Kind, Open, Two, SomePalette
<1>9. Plain(t, L) /\ Plain(m, L)
  BY <1>7 DEF Plain
<1>10. ASSUME Kind(u, r) # "palette" PROVE Steady(t) /\ Steady(m) /\ Plain(t, FALSE) /\ Plain(m, FALSE)
  <2>1. Steady(t)
    BY <1>7, <1>8, <1>10 DEF Steady
  <2>2. Steady(m)
    BY <1>7, <1>8, <1>10 DEF Steady
  <2>3. Plain(t, FALSE) /\ Plain(m, FALSE)
    BY <1>9, <1>10 DEF Plain
  <2> QED BY <2>1, <2>2, <2>3
<1>11. CASE Kind(u, r) = "panel"
  <2>1. Good(t, X \ {r}, FALSE) /\ OnDismiss(u, r) = Push(t, <<ProgramCall("callback")>>)
    BY <1>4, <1>5, <1>10, <1>11 DEF Good
  <2> QED BY <2>1, LooseFrames, PushLoose
<1>12. CASE Kind(u, r) = "menu"
  <2>1. Good(m, X \ {r}, FALSE) /\ OnDismiss(u, r) = Push(m, <<ProgramCall("callback")>>)
    BY <1>4, <1>6, <1>10, <1>12 DEF Good
  <2> QED BY <2>1, LooseFrames, PushLoose
<1>13. CASE Kind(u, r) = "dialog"
  BY <1>4, <1>5, <1>10, <1>13 DEF Good
<1>14. CASE Kind(u, r) = "palette"
  <2>1. OnDismiss(u, r) = PaletteGone(t) /\ Tidy(t, X \ {r})
    BY <1>4, <1>5, <1>14
  <2>2. Alone(t)
    BY <1>7, <1>8, <1>14 DEF Alone
  <2> QED BY <1>9, <2>1, <2>2, PaletteGoneGood
<1> QED BY <1>3, <1>11, <1>12, <1>13, <1>14

(* hide(), whichever overlay it is of.                                     *)
LEMMA HideGood ==
    ASSUME NEW u, NEW L \in BOOLEAN, Good(u, {}, L), NEW sc \in OverlayScenes, NEW o \in Owners,
           L => o = Palette /\ sc = u.front
    PROVE  OverlaysInv(Hide(u, sc, o))
<1> DEFINE r == u.by[sc][o]
           w == Unlisted(u, sc, o)
<1>1. Tidy(u, {}) /\ Plain(u, L) /\ Steady(u) /\ UiTypes(u) /\ Palette \in Owners
  BY DEF Good, Tidy, Owners
<1>2. CASE r = NoRecord
  <2> DEFINE v == [u EXCEPT !.index[sc][o] = 0]
  <2>1. Tidy(v, {}) /\ Others({"index"}, u, v) /\ Hide(u, sc, o) = v
    BY <1>1, <1>2, IndexTidy DEF Hide
  <2> HIDE DEF v
  <2>2. Alike(u, v) /\ v.front = u.front /\ v.by = u.by
    <3>1. /\ v.stack = u.stack /\ v.focus = u.focus /\ v.list = u.list /\ v.before = u.before
          /\ v.forgot = u.forgot /\ v.by = u.by /\ v.shown = u.shown /\ v.front = u.front
      BY <2>1 DEF Others, Fields
    <3> QED BY <3>1 DEF Alike, Kind
  <2>3. Good(v, {}, L)
    BY <2>1, <2>2, GoodSame
  <2>4. L => v.by[v.front][Palette] = NoRecord
    BY <1>2, <2>2
  <2> QED BY <2>1, <2>3, <2>4, GoodInv
<1>3. CASE r # NoRecord
  <2>1. /\ Tidy(w, {r}) /\ r \in Recs(u) /\ Owner(u, r) = o /\ Hide(u, sc, o) = OnDismiss(w, r)
        /\ TakenOff(u, w, sc, o, RemoveAt(u.lists[sc], u.index[sc][o]))
    <3>1. /\ Tidy(w, {} \cup {r}) /\ r \in Recs(u) /\ Owner(u, r) = o
          /\ TakenOff(u, w, sc, o, RemoveAt(u.lists[sc], u.index[sc][o]))
      BY <1>1, <1>3, UnlistedTidy
    <3>2. {} \cup {r} = {r}
      OBVIOUS
    <3>3. Hide(u, sc, o) = OnDismiss(w, r)
      BY <1>3 DEF Hide
    <3> QED BY <3>1, <3>2, <3>3
  <2> HIDE DEF w
  <2>2. /\ w.stack = u.stack /\ w.focus = u.focus /\ w.list = u.list /\ w.before = u.before
        /\ w.forgot = u.forgot /\ w.shown = u.shown /\ w.front = u.front
        /\ w.by = [u.by EXCEPT ![sc] = [u.by[sc] EXCEPT ![o] = NoRecord]]
    BY <2>1 DEF TakenOff, Others, Fields
  <2>3. /\ w.by[sc][o] = NoRecord /\ \A sd \in OverlayScenes \ {sc} : w.by[sd] = u.by[sd]
        /\ \A x \in Owners \ {o} : w.by[sc][x] = u.by[sc][x]
    <3>1. u.by \in [OverlayScenes -> [Owners -> Records \cup {NoRecord}]]
      BY <1>1 DEF UiTypes
    <3> QED BY <2>2, <3>1
  <2>4. Plain(w, L) /\ \A x : Kind(w, x) = Kind(u, x)
    BY <1>1, <2>2 DEF Plain, Kind
  <2>5. Kind(u, r) = "palette" <=> o = Palette
    BY <1>1, <2>1 DEF Tidy, Kinds
  <2>6. ASSUME o # Palette PROVE ~L /\ Steady(w)
    <3>1. \A sd \in OverlayScenes : w.by[sd][Palette] = u.by[sd][Palette]
      BY <1>1, <2>3, <2>6
    <3>2. Alike(u, w)
      BY <2>2, <2>4, <3>1 DEF Alike
    <3>3. Good(w, {r}, L)
      BY <2>1, <3>2, GoodSame
    <3> QED BY <2>6, <3>3 DEF Good
  <2>7. ASSUME o = Palette PROVE Alone(w)
    <3> SUFFICES ASSUME ~w.forgot, ~SomePalette(w)
                 PROVE  /\ ~(w.before > 0) /\ (w.focus > 0 => w.focus = w.list)
                        /\ \A i \in 1 .. Len(w.stack) :
                             w.stack[i].call = "callbacks" =>
                               \A x \in ToSet(w.stack[i].todo) : Kind(w, x) # "palette"
      BY DEF Alone
    <3>1. ~Two(u)
      <4>1. \A sd \in OverlayScenes \ {sc} : u.by[sd][Palette] = NoRecord
        BY <2>3 DEF SomePalette
      <4> QED BY <4>1 DEF Two
    <3> QED BY <1>1, <2>2, <2>4, <3>1 DEF Steady
  <2>8. Good(OnDismiss(w, r), {r} \ {r}, FALSE)
    <3>1. /\ Kind(w, r) # "palette" => ~L /\ Steady(w)
          /\ Kind(w, r) = "palette" => Alone(w)
      BY <2>4, <2>5, <2>6, <2>7
    <3> QED BY <2>1, <2>4, <3>1, OnDismissGood
  <2>9. {r} \ {r} = {}
    OBVIOUS
  <2> QED BY <2>1, <2>8, <2>9, GoodInv
<1> QED BY <1>2, <1>3

(* Two frames are put on the stack one by one.                             *)
LEMMA PushTwo ==
    ASSUME NEW u, UiTypes(u), NEW a \in Frame, NEW b \in Frame
    PROVE  Push(u, <<a, b>>) = Push(Push(u, <<b>>), <<a>>)
<1>1. u.stack \in Seq(Frame) /\ DOMAIN u = Fields
  BY DEF UiTypes
<1>2. <<a, b>> \o u.stack = <<a>> \o (<<b>> \o u.stack)
  <2>1. <<a>> \o <<b>> = <<a, b>>
    <3> DEFINE x == <<a, b>>
               y == <<a>> \o <<b>>
    <3>1. x \in Seq(Frame) /\ Len(x) = 2 /\ x[1] = a /\ x[2] = b
      OBVIOUS
    <3>2. <<a>> \in Seq(Frame) /\ <<b>> \in Seq(Frame)
      OBVIOUS
    <3>3. y \in Seq(Frame) /\ Len(y) = 2 /\ y[1] = a /\ y[2] = b
      BY <3>2, ConcatProperties
    <3> HIDE DEF x, y
    <3>4. \A i \in 1 .. Len(x) : x[i] = y[i]
      BY <3>1, <3>3
    <3>5. x = y
      BY <3>1, <3>3, <3>4, SeqEqual
    <3> QED BY <3>5 DEF x, y
  <2>2. <<a>> \in Seq(Frame) /\ <<b>> \in Seq(Frame)
    OBVIOUS
  <2>3. (<<a>> \o <<b>>) \o u.stack = <<a>> \o (<<b>> \o u.stack)
    BY <1>1, <2>2, Associative DEF Assoc
  <2> QED BY <2>1, <2>3
<1>3. Push(u, <<b>>).stack = <<b>> \o u.stack
  BY <1>1 DEF Push, Fields
<1>4. \A e, f : [[u EXCEPT !.stack = e] EXCEPT !.stack = f] = [u EXCEPT !.stack = f]
  OBVIOUS
<1>5. Push(Push(u, <<b>>), <<a>>) = [Push(u, <<b>>) EXCEPT !.stack = <<a>> \o (<<b>> \o u.stack)]
  BY <1>3 DEF Push
<1> QED BY <1>2, <1>4, <1>5 DEF Push

(* A record is made and its overlay is being shown.                        *)
ShowFrame(u, o) == [call |-> "show", sc |-> u.front, record |-> Newest(u), owner |-> o]

Shows(u, y, v, o) ==
    /\ Tidy(y, {Newest(u)}) /\ Others({"shown", "menus", "dialogs"}, u, y)
    /\ v = Push(y, <<ShowFrame(u, o)>>)
    /\ \A r \in Recs(u) : Kind(y, r) = Kind(u, r)
    /\ Safe(y, ShowFrame(u, o)) /\ Owed(ShowFrame(u, o)) = {Newest(u)}
    /\ Newest(u) \notin Recs(u) /\ Newest(u) \in Records
    /\ Tidy(v, {})

LEMMA ShowingTidy ==
    ASSUME NEW u, Tidy(u, {}), NEW w, NEW kind, NEW o \in Owners, Fresh(u),
           Others({"menus", "dialogs"}, u, w),
           w.menus = IF kind = "menu" THEN u.menus \cup {Newest(u)} ELSE u.menus,
           w.dialogs = IF kind = "dialog" THEN u.dialogs \cup {Newest(u)} ELSE u.dialogs,
           \/ kind = "panel" /\ o \in Panels
           \/ kind = "palette" /\ o = Palette
           \/ kind \in {"menu", "dialog"} /\ o = Newest(u)
    PROVE  \E y : Shows(u, y, Showing(w, kind, o), o)
<1> DEFINE n == Newest(u)
           y == [w EXCEPT !.shown = Append(@, [kind |-> kind, owner |-> o])]
           f == ShowFrame(u, o)
<1>1. UiTypes(u) /\ DOMAIN u = Fields /\ u.front \in OverlayScenes /\ u.list \in Nat /\ u.at \in OverlayScenes
  BY DEF Tidy, UiTypes
<1>2. DOMAIN w = Fields /\ w.shown = u.shown /\ w.front = u.front
  BY DEF Others, Fields
<1>3. Others({"shown"}, w, y) /\ y.shown = Append(u.shown, [kind |-> kind, owner |-> o])
  BY <1>2 DEF Others, Fields
<1>4. Showing(w, kind, o) = Push(y, <<f>>)
  BY <1>2 DEF Showing, ShowFrame, Newest
<1> HIDE DEF y
<1>5. /\ Others({"shown", "menus", "dialogs"}, u, y)
      /\ Others({"shown", "menus", "dialogs", "list", "at"}, u, y)
      /\ y.menus = w.menus /\ y.dialogs = w.dialogs /\ y.list = u.list /\ y.at = u.at
      /\ y.stack = u.stack /\ y.front = u.front
  BY <1>3 DEF Others, Fields
<1>6. Len(u.shown) < MaxShown /\ n \in Records
  <2>1. Len(u.shown) \in Nat /\ MaxShown \in Nat /\ Len(u.shown) < MaxShown
    BY <1>1, RecsAre DEF Fresh
  <2> QED BY <2>1 DEF Newest, Records
<1>7. /\ Tidy(y, {n}) /\ n \in Recs(y) /\ Owner(y, n) = o /\ Recs(y) = Recs(u) \cup {n} /\ n \notin Recs(u)
      /\ \A r \in Recs(u) : Kind(y, r) = Kind(u, r) /\ Owner(y, r) = Owner(u, r)
  <2>1. /\ y.menus = IF kind = "menu" THEN u.menus \cup {n} ELSE u.menus
        /\ y.dialogs = IF kind = "dialog" THEN u.dialogs \cup {n} ELSE u.dialogs
        /\ y.list \in Nat /\ y.at \in OverlayScenes
    BY <1>1, <1>5
  <2>2. NewParts(u, y, kind, o)
    BY <1>3, <1>5, <1>6, <2>1, NewTidy
  <2> QED BY <2>2 DEF NewParts
<1>8. f \in Frame /\ f.call = "show" /\ f.record = n /\ f.owner = o
  BY <1>1, <1>6 DEF ShowFrame, Frame
<1>9. Owed(f) = {n}
  BY <1>8 DEF Owed
<1> HIDE DEF f, n
<1>10. Safe(y, f)
  <2>1. ASSUME NEW i \in 1 .. Len(y.stack), y.stack[i].call = "route" PROVE n \notin Reaches(y.stack[i])
    <3>1. Reaching(u, y.stack[i])
      BY <1>5, <2>1 DEF Tidy, Routes
    <3> QED BY <1>7, <3>1 DEF Reaching
  <2> QED BY <1>7, <1>8, <2>1 DEF Safe, Outermost
<1>11. Tidy(Push(y, <<f>>), {n} \ {n})
  BY <1>7, <1>9, <1>10, PushTidy
<1>12. {n} \ {n} = {}
  OBVIOUS
<1>13. Shows(u, y, Showing(w, kind, o), o)
  BY <1>4, <1>5, <1>6, <1>7, <1>9, <1>10, <1>11, <1>12 DEF f, n, Shows
<1> QED BY <1>13

(* show(), of anything but the palette.                                    *)
LEMMA ShowGood ==
    ASSUME NEW u, Good(u, {}, FALSE), NEW w, NEW kind, NEW o \in Owners, Fresh(u),
           Others({"menus", "dialogs"}, u, w),
           w.menus = IF kind = "menu" THEN u.menus \cup {Newest(u)} ELSE u.menus,
           w.dialogs = IF kind = "dialog" THEN u.dialogs \cup {Newest(u)} ELSE u.dialogs,
           \/ kind = "panel" /\ o \in Panels
           \/ kind \in {"menu", "dialog"} /\ o = Newest(u)
    PROVE  OverlaysInv(Show(w, kind, o))
<1>1. Tidy(u, {}) /\ u.front \in OverlayScenes /\ w.front = u.front /\ UiTypes(u)
  BY DEF Good, Tidy, UiTypes, Others, Fields
<1>2. PICK y : Shows(u, y, Showing(w, kind, o), o)
  BY <1>1, ShowingTidy
<1> DEFINE f == ShowFrame(u, o)
<1>3. Good(y, {Newest(u)}, FALSE)
  <2>1. Alike(u, y)
    BY <1>2 DEF Alike, Others, Fields, Shows
  <2> QED BY <1>2, <2>1, GoodSame DEF Shows
<1>4. o # Palette
  BY <1>2, OverlaysAssumption DEF Records, Shows
<1>5. f.call = "show" /\ ~ShowsPalette(f)
  BY <1>4 DEF ShowFrame, ShowsPalette
<1> HIDE DEF f
<1>6. Good(Push(y, <<f>>), {Newest(u)} \ Owed(f), FALSE)
  BY <1>2, <1>3, <1>5, PushGood DEF f, Shows
<1>7. {Newest(u)} \ Owed(f) = {}
  BY <1>2 DEF f, Shows
<1>8. Good(Showing(w, kind, o), {}, FALSE)
  BY <1>2, <1>6, <1>7 DEF f, Shows
<1>9. OverlaysInv(Hide(Showing(w, kind, o), u.front, o))
  BY <1>1, <1>8, HideGood
<1> QED BY <1>1, <1>9 DEF Show

(* CommandPaletteManager.hide().                                           *)
LEMMA HidePaletteGood ==
    ASSUME NEW u, Good(u, {}, FALSE)
    PROVE  OverlaysInv(HidePalette(u))
<1>1. u.at \in OverlayScenes /\ Palette \in Owners /\ Reset(FALSE) \in Loose
  BY LooseFrames DEF Good, Tidy, UiTypes, Owners
<1>2. Good(Push(u, <<Reset(FALSE)>>), {}, FALSE)
  BY <1>1, PushLoose
<1>3. OverlaysInv(Hide(Push(u, <<Reset(FALSE)>>), u.at, Palette))
  BY <1>1, <1>2, HideGood
<1> QED BY <1>3 DEF HidePalette

(* CommandPaletteManager.show(): two frames are put on the stack.          *)
LEMMA ShowPaletteGood ==
    ASSUME NEW u, Good(u, {}, FALSE), Fresh(u)
    PROVE  OverlaysInv(ShowPalette(u))
<1> DEFINE synced == [u EXCEPT !.at = u.front]
           n == Newest(u)
           z == [synced EXCEPT !.list = n]
           g == [call |-> "palette", record |-> n]
           p == Push(z, <<g>>)
<1>1. /\ UiTypes(u) /\ DOMAIN u = Fields /\ u.front \in OverlayScenes /\ Tidy(u, {}) /\ Plain(u, FALSE)
      /\ Steady(u) /\ Palette \in Owners /\ u.focus \in Int /\ u.stack \in Seq(Frame)
  BY DEF Good, Tidy, UiTypes, Owners
<1>2. /\ Others({"at"}, u, synced) /\ synced.at = u.front
      /\ Others({"list"}, synced, z) /\ z.list = n
  BY <1>1 DEF Others, Fields
<1>3. ShowPalette(u) = IF u.by[u.front][Palette] # NoRecord THEN synced
                       ELSE Show(p, "palette", Palette)
  <2>1. synced.by = u.by
    BY <1>2 DEF Others, Fields
  <2> QED BY <1>2, <2>1 DEF ShowPalette, PaletteIsOpen
<1> HIDE DEF synced, z
<1>4. /\ synced.by = u.by /\ synced.stack = u.stack /\ synced.focus = u.focus /\ synced.list = u.list
      /\ synced.before = u.before /\ synced.forgot = u.forgot /\ synced.shown = u.shown
      /\ synced.dialogs = u.dialogs /\ synced.front = u.front
      /\ z.by = u.by /\ z.stack = u.stack /\ z.focus = u.focus
      /\ z.before = u.before /\ z.forgot = u.forgot /\ z.shown = u.shown
      /\ z.dialogs = u.dialogs /\ z.front = u.front /\ z.at = u.front
      /\ Others({"at", "list"}, u, z) /\ Others({"at", "list"}, u, synced)
  BY <1>2 DEF Others, Fields
<1>5. n \in Records /\ n \in Nat /\ n \notin Recs(u) /\ n = Len(u.shown) + 1
  <2>1. Len(u.shown) \in Nat /\ MaxShown \in Nat /\ Len(u.shown) < MaxShown
    BY <1>1, RecsAre DEF Fresh
  <2> QED BY <2>1 DEF Newest, Records, Recs
<1>6. Tidy(synced, {}) /\ Tidy(z, {})
  <2>1. u.dialogs \subseteq Recs(u)
    BY <1>1 DEF Tidy, Menus
  <2>2. UiTypes(synced) /\ UiTypes(z)
    <3>1. UiTypes(synced)
      BY <1>1, <1>2 DEF UiTypes, Others, Fields
    <3> QED BY <1>2, <1>5, <3>1 DEF UiTypes, Others, Fields
  <2>3. /\ Others({"dialogs", "list", "before", "at", "focus", "forgot"}, u, synced)
        /\ Others({"dialogs", "list", "before", "at", "focus", "forgot"}, u, z)
    BY <1>4 DEF Others
  <2>4. synced.dialogs \subseteq Recs(synced) /\ z.dialogs \subseteq Recs(z)
    BY <1>4, <2>1 DEF Recs
  <2> QED BY <1>1, <2>2, <2>3, <2>4, SameTidy
<1>7. CASE u.by[u.front][Palette] # NoRecord
  <2>1. Alike(u, synced)
    BY <1>4 DEF Alike, Kind
  <2>2. Good(synced, {}, FALSE)
    BY <1>6, <2>1, GoodSame
  <2> QED BY <1>3, <1>7, <2>2, GoodInv
<1>8. CASE u.by[u.front][Palette] = NoRecord
  <2>1. g \in Frame /\ g.call = "palette" /\ g.record = n /\ Owed(g) = {} /\ ~ShowsPalette(g)
    BY <1>5 DEF Frame, Owed, ShowsPalette
  <2> HIDE DEF g
  <2>2. Tidy(p, {})
    <3>1. Safe(z, g)
      BY <2>1 DEF Safe, Outermost
    <3>2. Tidy(p, {} \ Owed(g))
      BY <1>6, <2>1, <3>1, PushTidy
    <3> QED BY <2>1, <3>2
  <2>3. p.stack = <<g>> \o u.stack /\ Others({"stack"}, z, p)
    <3>1. <<g>> \in Seq(Frame) /\ UiTypes(z) /\ z.stack = u.stack
      BY <1>4, <1>6, <2>1 DEF Tidy
    <3>2. p.stack = <<g>> \o z.stack /\ Others({"stack"}, z, p)
      BY <3>1, PushFields
    <3> QED BY <3>1, <3>2
  <2> HIDE DEF p
  <2>4. /\ p.by = u.by /\ p.focus = u.focus /\ p.list = n /\ p.before = u.before
        /\ p.forgot = u.forgot /\ p.shown = u.shown /\ p.front = u.front
    BY <1>2, <1>4, <2>3 DEF Others, Fields
  <2>5. PICK y : Shows(p, y, Showing(p, "palette", Palette), Palette)
    <3>1. Fresh(p) /\ Others({"menus", "dialogs"}, p, p)
      BY <2>2, <2>4 DEF Fresh, Others, Tidy, UiTypes
    <3> QED BY <1>1, <2>2, <3>1, ShowingTidy
  <2> DEFINE t == Showing(p, "palette", Palette)
             f == ShowFrame(p, Palette)
             v == [t EXCEPT !.index[u.front][Palette] = 0]
  <2>6. /\ Tidy(t, {}) /\ t = Push(y, <<f>>) /\ Others({"shown", "menus", "dialogs"}, p, y)
        /\ \A r \in Recs(p) : Kind(y, r) = Kind(p, r)
        /\ UiTypes(y) /\ f \in Frame
    BY <2>5 DEF Shows, Tidy, Safe
  <2>7. /\ f.call = "show" /\ f.sc = u.front /\ f.record = n /\ f.owner = Palette
        /\ f = [call |-> "show", sc |-> u.front, record |-> n, owner |-> Palette]
    BY <2>4 DEF ShowFrame, Newest
  <2> HIDE DEF f, t
  <2>8. t.stack = <<f>> \o y.stack /\ Others({"stack"}, y, t)
    <3>1. <<f>> \in Seq(Frame)
      BY <2>6
    <3> QED BY <2>6, <3>1, PushFields
  <2>9. /\ t.by = u.by /\ t.focus = u.focus /\ t.list = n /\ t.before = u.before
        /\ t.forgot = u.forgot /\ t.front = u.front /\ t.stack = <<f>> \o p.stack
        /\ \A r \in Recs(u) : Kind(t, r) = Kind(u, r)
    <3>1. /\ y.by = p.by /\ y.focus = p.focus /\ y.list = p.list /\ y.before = p.before
          /\ y.forgot = p.forgot /\ y.front = p.front /\ y.stack = p.stack
      BY <2>6 DEF Others, Fields
    <3>2. /\ t.by = y.by /\ t.focus = y.focus /\ t.list = y.list /\ t.before = y.before
          /\ t.forgot = y.forgot /\ t.front = y.front /\ t.shown = y.shown
      BY <2>8 DEF Others, Fields
    <3>3. \A r \in Recs(u) : Kind(t, r) = Kind(u, r)
      BY <2>4, <2>6, <3>2 DEF Kind, Recs
    <3> QED BY <2>4, <2>8, <3>1, <3>2, <3>3
  <2>10. Show(p, "palette", Palette) = v
    BY <1>8, <2>4, <2>9 DEF Show, Hide, t
  <2>11. Tidy(v, {}) /\ Others({"index"}, t, v)
    BY <1>1, <1>8, <2>6, <2>9, IndexTidy
  <2> HIDE DEF v
  <2>12. /\ v.by = u.by /\ v.focus = u.focus /\ v.list = n /\ v.before = u.before
         /\ v.forgot = u.forgot /\ v.front = u.front /\ v.stack = <<f>> \o p.stack
         /\ \A r \in Recs(u) : Kind(v, r) = Kind(u, r)
    <3>1. /\ v.by = t.by /\ v.focus = t.focus /\ v.list = t.list /\ v.before = t.before
          /\ v.forgot = t.forgot /\ v.front = t.front /\ v.shown = t.shown /\ v.stack = t.stack
      BY <2>11 DEF Others, Fields
    <3>2. \A r : Kind(v, r) = Kind(t, r)
      BY <3>1 DEF Kind
    <3> QED BY <2>9, <3>1, <3>2
  <2>13. /\ v.stack[1] = f /\ v.stack[2] = g /\ Len(v.stack) \in Nat /\ 2 \in 1 .. Len(v.stack)
         /\ v.stack # <<>>
         /\ \A i \in 1 .. Len(v.stack) : \/ i = 1 \/ i = 2
                                         \/ i > 2 /\ i - 2 \in 1 .. Len(u.stack) /\ v.stack[i] = u.stack[i - 2]
    <3>1. /\ p.stack \in Seq(Frame) /\ Len(p.stack) = Len(u.stack) + 1 /\ p.stack[1] = g
          /\ \A i \in 1 .. Len(p.stack) : i = 1 \/ (i - 1 \in 1 .. Len(u.stack) /\ p.stack[i] = u.stack[i - 1])
      BY <1>1, <2>1, <2>3, PushPlaces
    <3>2. /\ v.stack \in Seq(Frame) /\ Len(v.stack) = Len(p.stack) + 1 /\ v.stack[1] = f
          /\ \A i \in 1 .. Len(v.stack) : i = 1 \/ (i - 1 \in 1 .. Len(p.stack) /\ v.stack[i] = p.stack[i - 1])
      BY <2>6, <2>12, <3>1, PushPlaces
    <3>3. Len(u.stack) \in Nat /\ Len(p.stack) \in Nat
      BY <1>1, <3>1
    <3>4. v.stack[2] = g /\ 2 \in 1 .. Len(v.stack) /\ Len(v.stack) \in Nat /\ v.stack # <<>>
      <4>1. Len(v.stack) = Len(u.stack) + 2 /\ Len(u.stack) \in Nat
        BY <3>1, <3>2, <3>3
      <4>2. Len(v.stack) \in Nat /\ 2 \in 1 .. Len(v.stack)
        BY <4>1
      <4>3. v.stack[2] = p.stack[2 - 1]
        BY <3>2, <4>2
      <4>4. v.stack[2] = g
        BY <3>1, <4>3
      <4>5. v.stack # <<>>
        BY <4>1
      <4> QED BY <4>2, <4>4, <4>5
    <3>5. ASSUME NEW i \in 1 .. Len(v.stack), i # 1, i # 2
          PROVE  i > 2 /\ i - 2 \in 1 .. Len(u.stack) /\ v.stack[i] = u.stack[i - 2]
      <4>1. i - 1 \in 1 .. Len(p.stack) /\ v.stack[i] = p.stack[i - 1] /\ i - 1 # 1 /\ i \in Int
        <5>1. i - 1 \in 1 .. Len(p.stack) /\ v.stack[i] = p.stack[i - 1]
          BY <3>2, <3>5
        <5>2. i \in Int /\ i - 1 # 1
          BY <3>4, <3>5
        <5> QED BY <5>1, <5>2
      <4>2. (i - 1) - 1 \in 1 .. Len(u.stack) /\ p.stack[i - 1] = u.stack[(i - 1) - 1]
        BY <3>1, <4>1
      <4>3. (i - 1) - 1 = i - 2 /\ (i - 2 \in 1 .. Len(u.stack) => i > 2)
        BY <3>3, <4>1
      <4> QED BY <4>1, <4>2, <4>3
    <3> QED BY <3>2, <3>4, <3>5
  <2>14. g = [call |-> "palette", record |-> n] /\ ShowsPalette(f)
    BY <2>7 DEF g, ShowsPalette
  <2>15. Shape(v)
    <3> SUFFICES ASSUME NEW i \in 1 .. Len(v.stack)
                 PROVE  LET h == v.stack[i] IN
                        /\ ShowsPalette(h) => /\ i = 1 /\ 2 \in 1 .. Len(v.stack) /\ v.by[h.sc][Palette] = NoRecord
                                              /\ v.stack[2] = [call |-> "palette", record |-> h.record]
                        /\ h.call = "palette" =>
                             /\ v.list = h.record
                             /\ \/ i = 1 /\ \E sc \in OverlayScenes : v.by[sc][Palette] = h.record
                                \/ i = 2 /\ ShowsPalette(v.stack[1])
                        /\ h.call = "leave" => \/ i = 1 /\ (v.forgot \/ v.by[v.front][Palette] = NoRecord)
                                               \/ i > 1 /\ v.stack[i - 1] = Reset(TRUE)
      BY DEF Shape
    <3>1. CASE i = 1
      BY <1>8, <2>7, <2>12, <2>13, <2>14, <3>1
    <3>2. CASE i = 2
      BY <2>1, <2>12, <2>13, <2>14, <3>2
    <3>3. CASE i # 1 /\ i # 2
      <4>1. i > 2 /\ i - 2 \in 1 .. Len(u.stack) /\ v.stack[i] = u.stack[i - 2]
        BY <2>13, <3>3
      <4>2. /\ ~ShowsPalette(v.stack[i]) /\ v.stack[i].call # "palette"
            /\ v.stack[i].call = "leave" => i - 2 > 1 /\ u.stack[(i - 2) - 1] = Reset(TRUE)
        BY <1>1, <4>1 DEF Plain
      <4>3. i - 2 > 1 => i - 1 \in 1 .. Len(v.stack) /\ i - 1 # 1 /\ i - 1 # 2 /\ (i - 1) - 2 = (i - 2) - 1
        BY <2>13, <4>1
      <4>4. i - 2 > 1 => v.stack[i - 1] = u.stack[(i - 2) - 1]
        BY <2>13, <4>3
      <4>5. i > 1
        BY <2>13, <4>1
      <4> QED BY <4>2, <4>4, <4>5
    <3> QED BY <3>1, <3>2, <3>3
  <2>16. Focus(v)
    <3>1. (Two(v) <=> Two(u)) /\ \A r : Open(v, r) <=> Open(u, r)
      BY <2>12 DEF Two, Open
    <3>2. ASSUME NEW i \in 1 .. Len(v.stack), v.stack[i].call = "palette", ~u.forgot
          PROVE  v.focus # v.stack[i].record
      <4>1. i = 2
        <5>1. i # 1
          BY <2>7, <2>13, <3>2
        <5>2. ASSUME i # 2 PROVE FALSE
          BY <1>1, <2>13, <3>2, <5>1, <5>2 DEF Plain
        <5> QED BY <5>2
      <4>2. v.stack[i].record = n
        BY <2>1, <2>13, <4>1
      <4>3. ASSUME u.focus = n PROVE FALSE
        <5>1. n > 0
          BY <1>5 DEF Records
        <5>2. PICK sc \in OverlayScenes : u.by[sc][Palette] = n
          BY <1>1, <3>2, <4>3, <5>1 DEF Steady, Open
        <5>3. /\ n # NoRecord /\ u.index[sc][Palette] \in 1 .. Len(u.lists[sc])
              /\ u.lists[sc][u.index[sc][Palette]] = n
          BY <1>1, <5>1, <5>2 DEF Tidy, Tables, NoRecord
        <5>4. u.lists[sc] \in Seq(Records) /\ ToSet(u.lists[sc]) \subseteq Recs(u)
          BY <1>1 DEF Tidy, OnceBut, UiTypes
        <5> QED BY <1>5, <5>3, <5>4, InSet
      <4> QED BY <2>12, <4>2, <4>3
    <3>3. ASSUME NEW i \in 1 .. Len(v.stack), v.stack[i].call = "callbacks", ~u.forgot
          PROVE  \A r \in ToSet(v.stack[i].todo) : Kind(v, r) # "palette"
      <4>1. i # 1 /\ i # 2
        BY <2>1, <2>7, <2>13, <3>3
      <4>2. i - 2 \in 1 .. Len(u.stack) /\ v.stack[i] = u.stack[i - 2]
        BY <2>13, <4>1
      <4>3. \A r \in ToSet(v.stack[i].todo) : r \in Recs(u) /\ Kind(u, r) # "palette"
        <5>1. Owed(u.stack[i - 2]) \subseteq Recs(u)
          BY <1>1, <4>2 DEF Tidy, OnceBut
        <5> QED BY <1>1, <3>3, <4>2, <5>1 DEF Steady, Owed
      <4> QED BY <2>12, <4>3
    <3>4. /\ v.focus = u.focus /\ v.before = u.before /\ v.forgot = u.forgot
          /\ v.stack # <<>> /\ ShowsPalette(v.stack[1])
      BY <2>12, <2>13, <2>14
    <3>5. ~u.forgot => (u.focus > 0 => Open(u, u.focus)) /\ (u.before > 0 => Two(u))
      BY <1>1 DEF Steady
    <3> QED BY <3>1, <3>2, <3>3, <3>4, <3>5 DEF Focus
  <2> QED BY <1>3, <1>8, <2>10, <2>11, <2>15, <2>16 DEF OverlaysInv
<1> QED BY <1>7, <1>8

(* The scene in front is left: what its tables held is dismissed.          *)
LEMMA HideAllGood ==
    ASSUME NEW u, Good(u, {}, FALSE), u.forgot \/ u.by[u.front][Palette] = NoRecord,
           NEW s \in OverlayScenes
    PROVE  OverlaysInv(HideAll(u, u.front, [call |-> "enter", to |-> s]))
<1> DEFINE e == Emptied(u, u.front)
           l == u.lists[u.front]
           f == [call |-> "enter", to |-> s]
           g == [call |-> "callbacks", todo |-> l]
<1>1. /\ Tidy(u, {}) /\ Plain(u, FALSE) /\ Steady(u) /\ UiTypes(u) /\ u.front \in OverlayScenes
      /\ l \in Seq(Records) /\ OnceBut(u, {}) /\ Palette \in Owners
      /\ u.by \in [OverlayScenes -> [Owners -> Records \cup {NoRecord}]] /\ u.stack \in Seq(Frame)
  BY DEF Good, Tidy, UiTypes, Owners
<1>2. Tidy(e, ToSet(l)) /\ NoneLive(e) /\ Cleared(u, e) /\ IsInjective(l)
  BY <1>1, EmptiedTidy
<1>3. f \in Frame /\ g \in Frame
  BY <1>1 DEF Frame
<1>4. HideAll(u, u.front, f) = Push(Push(e, <<f>>), <<g>>)
  <2>1. HideAll(u, u.front, f) = Push(e, <<g, f>>)
    BY DEF HideAll
  <2>2. UiTypes(e)
    BY <1>2 DEF Tidy
  <2> HIDE DEF e, f, g
  <2> QED BY <1>3, <2>1, <2>2, PushTwo
<1>5. ToSet(l) \subseteq Recs(u)
  BY <1>1 DEF OnceBut
<1> HIDE DEF e, l
<1>6. /\ e.focus = u.focus /\ e.list = u.list /\ e.before = u.before /\ e.forgot = u.forgot
      /\ e.shown = u.shown /\ e.by = [u.by EXCEPT ![u.front] = [o \in Owners |-> NoRecord]]
      /\ Len(e.stack) = Len(u.stack)
      /\ \A k \in 1 .. Len(u.stack) : e.stack[k] = Detached(u.stack[k], u.front, l)
  BY <1>2 DEF Cleared, Others, Fields, l
<1>7. ASSUME NEW k \in 1 .. Len(u.stack)
      PROVE  /\ e.stack[k].call = u.stack[k].call
             /\ u.stack[k].call # "route" => e.stack[k] = u.stack[k]
  <2>1. u.stack[k] \in Frame /\ e.stack[k] = Detached(u.stack[k], u.front, l)
    BY <1>1, <1>6
  <2> QED BY <1>1, <2>1, DetachedFrames
<1>8. \A r : Kind(e, r) = Kind(u, r)
  BY <1>6 DEF Kind
<1>9. Plain(e, FALSE)
  <2> SUFFICES ASSUME NEW i \in 1 .. Len(e.stack)
               PROVE  /\ ~ShowsPalette(e.stack[i]) /\ e.stack[i].call # "palette"
                      /\ e.stack[i].call = "leave" => i > 1 /\ e.stack[i - 1] = Reset(TRUE)
    BY DEF Plain
  <2>1. i \in 1 .. Len(u.stack)
    BY <1>6
  <2>2. /\ ~ShowsPalette(u.stack[i]) /\ u.stack[i].call # "palette"
        /\ u.stack[i].call = "leave" => i > 1 /\ u.stack[i - 1] = Reset(TRUE)
    BY <1>1, <2>1 DEF Plain
  <2>3. ~ShowsPalette(e.stack[i]) /\ e.stack[i].call # "palette"
    BY <1>7, <2>1, <2>2 DEF ShowsPalette
  <2>4. i > 1 => i - 1 \in 1 .. Len(u.stack)
    BY <1>1, <2>1
  <2>5. i > 1 /\ u.stack[i - 1] = Reset(TRUE) => e.stack[i - 1] = Reset(TRUE)
    <3>1. Reset(TRUE).call # "route"
      BY DEF Reset
    <3> QED BY <1>7, <2>4, <3>1
  <2> QED BY <1>7, <2>1, <2>2, <2>3, <2>5
<1>10. Steady(e)
  <2>1. ASSUME ~u.forgot, NEW sd \in OverlayScenes PROVE e.by[sd][Palette] = u.by[sd][Palette]
    BY <1>1, <1>6, <2>1
  <2>2. ~u.forgot => (Two(e) <=> Two(u)) /\ \A r : Open(e, r) <=> Open(u, r)
    BY <2>1 DEF Two, Open
  <2>3. ASSUME ~u.forgot, NEW i \in 1 .. Len(e.stack), e.stack[i].call = "callbacks"
        PROVE  \A r \in ToSet(e.stack[i].todo) : Kind(e, r) # "palette"
    <3>1. i \in 1 .. Len(u.stack)
      BY <1>6
    <3>2. e.stack[i] = u.stack[i]
      BY <1>7, <2>3, <3>1
    <3> QED BY <1>1, <1>8, <2>3, <3>1, <3>2 DEF Steady
  <2> QED BY <1>1, <1>6, <2>2, <2>3 DEF Steady
<1>11. Good(e, ToSet(l), FALSE)
  BY <1>2, <1>9, <1>10 DEF Good
<1>12. Good(Push(e, <<f>>), ToSet(l), FALSE)
  <2>1. f.call = "enter" /\ Owed(f) = {} /\ ~ShowsPalette(f)
    BY DEF Owed, ShowsPalette
  <2> HIDE DEF f
  <2>2. Safe(e, f)
    BY <1>2, <1>3, <2>1 DEF Safe, Outermost, NoneLive
  <2>3. Good(Push(e, <<f>>), ToSet(l) \ Owed(f), FALSE)
    BY <1>11, <2>1, <2>2, PushGood
  <2> QED BY <2>1, <2>3
<1> DEFINE p == Push(e, <<f>>)
<1>13. p.forgot = u.forgot /\ p.shown = u.shown
  <2>1. <<f>> \in Seq(Frame) /\ UiTypes(e)
    BY <1>2, <1>3 DEF Tidy
  <2>2. Others({"stack"}, e, p)
    BY <2>1, PushFields
  <2> QED BY <1>6, <2>2 DEF Others, Fields
<1> HIDE DEF p
<1>14. Good(Push(p, <<g>>), {}, FALSE)
  <2>1. g.call = "callbacks" /\ g.todo = l /\ ~ShowsPalette(g)
    BY DEF ShowsPalette
  <2>2. Owed(g) = ToSet(l)
    BY DEF Owed
  <2> HIDE DEF g
  <2>3. Safe(p, g)
    BY <1>2, <1>3, <2>1 DEF Safe, Outermost
  <2>4. ASSUME ~p.forgot, NEW r \in ToSet(l) PROVE Kind(p, r) # "palette"
    <3>1. Palette \notin u.reshown
      BY <1>1, OverlaysAssumption DEF UiTypes
    <3>2. \A k \in 1 .. Len(l) : Owner(u, l[k]) # Palette
      BY <1>1, <1>13, <2>4, <3>1 DEF Tidy, Tables, l
    <3>3. PICK k \in 1 .. Len(l) : l[k] = r
      BY <1>1, InSet DEF l
    <3>4. Kind(u, r) # "palette"
      BY <1>1, <1>5, <3>2, <3>3 DEF Tidy, Kinds
    <3> QED BY <1>13, <3>4 DEF Kind
  <2>5. Good(p, ToSet(l), FALSE)
    BY <1>12 DEF p
  <2>6. Good(Push(p, <<g>>), ToSet(l) \ Owed(g), FALSE)
    BY <2>1, <2>2, <2>3, <2>4, <2>5, PushGood
  <2>7. ToSet(l) \ Owed(g) = {}
    BY <2>2
  <2> QED BY <2>6, <2>7
<1> QED BY <1>4, <1>14, GoodInv DEF p

-----------------------------------------------------------------------------
(* Overlays: what is under way goes on.                                    *)

LEMMA ShowStep ==
    ASSUME NEW u, OverlaysInv(u), u.stack # <<>>, Head(u.stack).call = "show"
    PROVE  LET f == Head(u.stack) IN OverlaysInv(Appended(Rest(u), f.sc, f.record, f.owner))
<1> DEFINE f == Head(u.stack)
           w == Rest(u)
           sc == f.sc
           r == f.record
           o == f.owner
           v == Appended(w, sc, r, o)
<1>1. /\ Tidy(u, {}) /\ Shape(u) /\ Focus(u) /\ u.stack \in Seq(Frame)
  BY DEF OverlaysInv, Tidy, UiTypes
<1>2. /\ Tidy(w, {} \cup Owed(f)) /\ f = u.stack[1] /\ f \in Frame
  BY <1>1, RestTidy
<1>3. w.stack = Tail(u.stack) /\ Others({"stack"}, u, w)
  BY <1>1, RestFields DEF Tidy
<1>4. /\ 1 \in 1 .. Len(u.stack) /\ Len(w.stack) = Len(u.stack) - 1 /\ Len(u.stack) \in Nat
      /\ \A i \in 1 .. Len(w.stack) : i + 1 \in 1 .. Len(u.stack) /\ w.stack[i] = u.stack[i + 1]
  BY <1>1, <1>3, RestPlaces
<1> HIDE DEF f, w
<1>5. sc \in OverlayScenes /\ r \in Records /\ o \in Owners /\ f.call = "show"
  <2>1. f.call = "show"
    BY DEF f
  <2> QED BY <1>2, <2>1 DEF Frame, RouteFrame
<1>6. Owed(f) = {r} /\ {} \cup Owed(f) = {r}
  BY <1>5 DEF Owed
<1>7. Tidy(w, {r})
  BY <1>2, <1>6
<1>8. /\ w.by = u.by /\ w.focus = u.focus /\ w.list = u.list /\ w.before = u.before
      /\ w.forgot = u.forgot /\ w.shown = u.shown /\ w.front = u.front
  BY <1>3 DEF Others, Fields
<1>9. Owner(w, r) = o
  <2>1. Owner(u, r) = o
    BY <1>1, <1>2, <1>4, <1>5 DEF Tidy, Routes
  <2> QED BY <1>8, <2>1 DEF Owner
<1>10. ASSUME o = Palette
       PROVE  /\ u.by[sc][Palette] = NoRecord /\ 2 \in 1 .. Len(u.stack)
              /\ u.stack[2] = [call |-> "palette", record |-> r]
  <2>1. ShowsPalette(u.stack[1])
    BY <1>2, <1>5, <1>10 DEF ShowsPalette
  <2> QED BY <1>1, <1>2, <1>4, <2>1 DEF Shape
<1>11. /\ UiTypes(w) /\ Kinds(w) /\ OnceBut(w, {r}) /\ Tables(w) /\ r \in Recs(w)
       /\ \A sd \in OverlayScenes : w.lists[sd] \in Seq(Records)
  BY <1>7 DEF Tidy, OnceBut, UiTypes
<1>12. w.by[sc][o] # NoRecord => o \in Panels
  <2> SUFFICES ASSUME w.by[sc][o] # NoRecord, o \notin Panels PROVE FALSE
    OBVIOUS
  <2> DEFINE z == w.by[sc][o]
  <2>1. o # Palette
    BY <1>8, <1>10
  <2>2. /\ w.index[sc][o] \in 1 .. Len(w.lists[sc]) /\ w.lists[sc][w.index[sc][o]] = z
        /\ Owner(w, z) = o
    BY <1>5, <1>11 DEF Tables
  <2>3. z \in ToSet(w.lists[sc])
    BY <1>5, <1>11, <2>2, InSet
  <2>4. z \in Recs(w) /\ z # r
    BY <1>5, <1>11, <2>3 DEF OnceBut
  <2>5. ASSUME NEW x \in Recs(w), Owner(w, x) = o PROVE x = o
    <3>1. Kind(w, x) \in {"panel", "menu", "dialog", "palette"}
      BY <1>11, <2>5, KindsAre
    <3> QED BY <1>11, <2>1, <2>5, <3>1 DEF Kinds
  <2> QED BY <1>9, <1>11, <2>2, <2>4, <2>5
<1>13. ASSUME NEW i \in 1 .. Len(w.stack), w.stack[i].call = "route" PROVE r \notin Reaches(w.stack[i])
  <2>1. i + 1 \in 1 .. Len(u.stack) /\ w.stack[i] = u.stack[i + 1]
    BY <1>4
  <2>2. Reaching(u, w.stack[i])
    BY <1>1, <1>13, <2>1 DEF Tidy, Routes
  <2> QED BY <1>2, <1>4, <1>5, <2>2 DEF Reaching
<1>14. Tidy(v, {})
  <2>1. Tidy(v, {r} \ {r})
    BY <1>5, <1>7, <1>9, <1>12, <1>13, AppendedTidy
  <2>2. {r} \ {r} = {}
    OBVIOUS
  <2> QED BY <2>1, <2>2
<1>15. OnTop(w, v, sc, r, o)
  BY <1>5, <1>11, <1>12, AppendedFields
<1> HIDE DEF v
<1>16. /\ v.stack = w.stack /\ v.focus = w.focus /\ v.list = w.list /\ v.before = w.before
       /\ v.forgot = w.forgot /\ v.shown = w.shown /\ v.front = w.front
       /\ v.by = [w.by EXCEPT ![sc] = [w.by[sc] EXCEPT ![o] = r]]
  BY <1>15 DEF OnTop, Others, Fields
<1>17. /\ v.by[sc][o] = r /\ \A sd \in OverlayScenes \ {sc} : v.by[sd] = w.by[sd]
       /\ \A x \in Owners \ {o} : v.by[sc][x] = w.by[sc][x]
  <2>1. w.by \in [OverlayScenes -> [Owners -> Records \cup {NoRecord}]]
    BY <1>11 DEF UiTypes
  <2> QED BY <1>5, <1>16, <2>1
<1>18. CASE o # Palette
  <2>1. ~ShowsPalette(f)
    BY <1>18 DEF ShowsPalette
  <2>2. Good(w, {r}, FALSE)
    <3>1. Good(w, Owed(f), f = Reset(TRUE)) 
      BY <2>1, InvRest DEF f, w
    <3>2. (f = Reset(TRUE)) = FALSE
      BY <1>5 DEF Reset
    <3> QED BY <1>6, <3>1, <3>2
  <2>3. Alike(w, v)
    <3>1. \A sd \in OverlayScenes : v.by[sd][Palette] = w.by[sd][Palette]
      BY <1>17, <1>18 DEF Owners
    <3> QED BY <1>16, <3>1 DEF Alike, Kind
  <2>4. Good(v, {}, FALSE)
    BY <1>14, <2>2, <2>3, GoodSame
  <2> QED BY <2>4, GoodInv DEF v, w, f
<1>19. CASE o = Palette
  <2>1. /\ w.by[sc][Palette] = NoRecord /\ v.by[sc][Palette] = r
        /\ \A sd \in OverlayScenes \ {sc} : v.by[sd][Palette] = u.by[sd][Palette]
        /\ u.by[sc][Palette] = NoRecord
    BY <1>8, <1>10, <1>17, <1>19
  <2>2. /\ 1 \in 1 .. Len(v.stack) /\ v.stack[1] = [call |-> "palette", record |-> r]
        /\ \A i \in 1 .. Len(v.stack) : i + 1 \in 1 .. Len(u.stack) /\ v.stack[i] = u.stack[i + 1]
    BY <1>4, <1>10, <1>16, <1>19
  <2>3. \A i \in 1 .. Len(v.stack) : i # 1 =>
           /\ ~ShowsPalette(v.stack[i]) /\ v.stack[i].call # "palette"
           /\ v.stack[i].call = "leave" => i > 1 /\ v.stack[i - 1] = Reset(TRUE)
    <3> SUFFICES ASSUME NEW i \in 1 .. Len(v.stack), i # 1
                 PROVE  /\ ~ShowsPalette(v.stack[i]) /\ v.stack[i].call # "palette"
                        /\ v.stack[i].call = "leave" => i > 1 /\ v.stack[i - 1] = Reset(TRUE)
      OBVIOUS
    <3>1. i + 1 \in 1 .. Len(u.stack) /\ v.stack[i] = u.stack[i + 1] /\ i + 1 # 1 /\ i + 1 # 2 /\ i > 1
      BY <2>2
    <3>2. /\ ShowsPalette(u.stack[i + 1]) => i + 1 = 1
          /\ u.stack[i + 1].call = "palette" => i + 1 = 1 \/ i + 1 = 2
          /\ u.stack[i + 1].call = "leave" => \/ i + 1 = 1
                                              \/ i + 1 > 1 /\ u.stack[(i + 1) - 1] = Reset(TRUE)
      BY <1>1, <3>1 DEF Shape
    <3>3. (i + 1) - 1 = (i - 1) + 1 /\ i - 1 \in 1 .. Len(v.stack)
      BY <1>4, <1>16, <3>1
    <3>4. v.stack[i - 1] = u.stack[(i + 1) - 1]
      BY <2>2, <3>3
    <3> QED BY <3>1, <3>2, <3>4
  <2>4. u.list = r /\ (~u.forgot => u.focus # r)
    <3>1. u.stack[2].call = "palette" /\ u.stack[2].record = r
      BY <1>10, <1>19
    <3> QED BY <1>1, <1>10, <1>19, <3>1 DEF Shape, Focus
  <2>5. Shape(v)
    <3> SUFFICES ASSUME NEW i \in 1 .. Len(v.stack)
                 PROVE  LET h == v.stack[i] IN
                        /\ ShowsPalette(h) => /\ i = 1 /\ 2 \in 1 .. Len(v.stack) /\ v.by[h.sc][Palette] = NoRecord
                                              /\ v.stack[2] = [call |-> "palette", record |-> h.record]
                        /\ h.call = "palette" =>
                             /\ v.list = h.record
                             /\ \/ i = 1 /\ \E sd \in OverlayScenes : v.by[sd][Palette] = h.record
                                \/ i = 2 /\ ShowsPalette(v.stack[1])
                        /\ h.call = "leave" => \/ i = 1 /\ (v.forgot \/ v.by[v.front][Palette] = NoRecord)
                                               \/ i > 1 /\ v.stack[i - 1] = Reset(TRUE)
      BY DEF Shape
    <3>1. CASE i = 1
      <4>1. v.stack[i].call = "palette" /\ v.stack[i].record = r /\ ~ShowsPalette(v.stack[i])
        BY <2>2, <3>1 DEF ShowsPalette
      <4> QED BY <1>5, <1>8, <1>16, <2>1, <2>4, <3>1, <4>1
    <3>2. CASE i # 1
      BY <2>3, <3>2
    <3> QED BY <3>1, <3>2
  <2>6. Focus(v)
    <3> SUFFICES ASSUME ~u.forgot
                 PROVE  /\ u.focus > 0 => Open(v, u.focus)
                        /\ u.focus > 0 => Two(v)
                        /\ u.before > 0 => Two(v)
                        /\ \A i \in 1 .. Len(v.stack) :
                             /\ v.stack[i].call = "palette" => u.focus # v.stack[i].record
                             /\ v.stack[i].call = "callbacks" =>
                                  \A x \in ToSet(v.stack[i].todo) : Kind(v, x) # "palette"
      BY <1>8, <1>16 DEF Focus
    <3>1. ASSUME u.focus > 0 PROVE Open(v, u.focus) /\ Two(v)
      <4>1. PICK sd \in OverlayScenes : u.by[sd][Palette] = u.focus
        BY <1>1, <3>1 DEF Focus, Open
      <4>2. u.focus # NoRecord /\ r # NoRecord
        BY <1>5, <3>1 DEF NoRecord, Records
      <4>3. sd # sc /\ v.by[sd][Palette] = u.focus
        BY <2>1, <4>1, <4>2
      <4> QED BY <1>5, <2>1, <4>2, <4>3 DEF Open, Two
    <3>2. ASSUME u.before > 0 PROVE Two(v)
      <4>1. Two(u)
        BY <1>1, <3>2 DEF Focus
      <4>2. \A sd \in OverlayScenes : u.by[sd][Palette] # NoRecord => v.by[sd][Palette] # NoRecord
        BY <1>5, <2>1
      <4> QED BY <4>1, <4>2 DEF Two
    <3>3. ASSUME NEW i \in 1 .. Len(v.stack), v.stack[i].call = "palette"
          PROVE  u.focus # v.stack[i].record
      <4>1. i = 1
        BY <2>3, <3>3
      <4>2. v.stack[i].record = r
        BY <2>2, <4>1
      <4>3. u.focus # r
        BY <2>4
      <4> QED BY <4>2, <4>3
    <3>4. ASSUME NEW i \in 1 .. Len(v.stack), v.stack[i].call = "callbacks"
          PROVE  \A x \in ToSet(v.stack[i].todo) : Kind(v, x) # "palette"
      <4>1. \A x : Kind(v, x) = Kind(u, x)
        BY <1>8, <1>16 DEF Kind
      <4> QED BY <1>1, <2>2, <3>4, <4>1 DEF Focus
    <3> QED BY <3>1, <3>2, <3>3, <3>4
  <2> QED BY <1>14, <2>5, <2>6 DEF OverlaysInv, v, w, f
<1> QED BY <1>18, <1>19

(* Routing, sweeping and other calls that owe nothing go on.               *)
LEMMA RestGood ==
    ASSUME NEW u, OverlaysInv(u), u.stack # <<>>,
           Head(u.stack).call \notin {"show", "callbacks", "reset"}
    PROVE  /\ Good(Rest(u), {}, FALSE) /\ OverlaysInv(Rest(u))
           /\ Others({"stack"}, u, Rest(u)) /\ Head(u.stack) \in Frame /\ Head(u.stack) = u.stack[1]
           /\ Outermost(Head(u.stack)) => Rest(u).stack = <<>>
           /\ 1 \in 1 .. Len(u.stack)
<1> DEFINE h == Head(u.stack)
<1>1. ~ShowsPalette(h) /\ Owed(h) = {} /\ (h = Reset(TRUE)) = FALSE
  BY DEF ShowsPalette, Owed, Reset
<1>2. /\ Good(Rest(u), Owed(h), h = Reset(TRUE))
      /\ Others({"stack"}, u, Rest(u)) /\ h \in Frame /\ h = u.stack[1]
      /\ Outermost(h) => Rest(u).stack = <<>>
      /\ 1 \in 1 .. Len(u.stack)
  BY <1>1, InvRest
<1> HIDE DEF h
<1>3. Good(Rest(u), {}, FALSE)
  BY <1>1, <1>2
<1>4. OverlaysInv(Rest(u))
  BY <1>3, GoodInv
<1> QED BY <1>2, <1>3, <1>4 DEF h

LEMMA EachStep ==
    ASSUME NEW u, OverlaysInv(u), u.stack # <<>>, Head(u.stack).call = "each"
    PROVE  LET f == Head(u.stack)
               w == Rest(u) IN
           OverlaysInv(IF f.todo = <<>> THEN w
                       ELSE Hide(Push(w, <<Each(f.sc, Tail(f.todo))>>), f.sc, Head(f.todo)))
<1> DEFINE f == Head(u.stack)
           w == Rest(u)
<1>1. Good(w, {}, FALSE) /\ OverlaysInv(w) /\ f \in Frame
  BY RestGood
<1>2. f.call = "each"
  OBVIOUS
<1> HIDE DEF f, w
<1>3. f.sc \in OverlayScenes /\ f.todo \in Seq(Owners)
  BY <1>1, <1>2 DEF Frame, RouteFrame
<1>4. ASSUME f.todo # <<>>
      PROVE  OverlaysInv(Hide(Push(w, <<Each(f.sc, Tail(f.todo))>>), f.sc, Head(f.todo)))
  <2>1. Tail(f.todo) \in Seq(Owners) /\ Head(f.todo) \in Owners
    BY <1>3, <1>4
  <2>2. Each(f.sc, Tail(f.todo)) \in Loose
    BY <1>3, <2>1, LooseFrames
  <2>3. Good(Push(w, <<Each(f.sc, Tail(f.todo))>>), {}, FALSE)
    BY <1>1, <2>2, PushLoose
  <2> QED BY <1>3, <2>1, <2>3, HideGood
<1> QED BY <1>1, <1>4 DEF f, w

LEMMA CallbacksStep ==
    ASSUME NEW u, OverlaysInv(u), u.stack # <<>>, Head(u.stack).call = "callbacks"
    PROVE  LET f == Head(u.stack)
               w == Rest(u) IN
           OverlaysInv(IF f.todo = <<>> THEN w
                       ELSE OnDismiss(Push(w, <<[f EXCEPT !.todo = Tail(@)]>>), Head(f.todo)))
<1> DEFINE f == Head(u.stack)
           w == Rest(u)
           g == [f EXCEPT !.todo = Tail(@)]
           r == Head(f.todo)
           p == Push(w, <<g>>)
<1>1. ~ShowsPalette(f) /\ f.call = "callbacks" /\ (f = Reset(TRUE)) = FALSE
  BY DEF ShowsPalette, Reset
<1>2. /\ Good(w, Owed(f), f = Reset(TRUE)) /\ Others({"stack"}, u, w) /\ f \in Frame /\ f = u.stack[1]
      /\ 1 \in 1 .. Len(u.stack)
  BY <1>1, InvRest
<1> HIDE DEF f, w
<1>3. Good(w, ToSet(f.todo), FALSE) /\ f.todo \in Seq(Records)
  <2>1. Owed(f) = ToSet(f.todo)
    BY <1>1 DEF Owed
  <2> QED BY <1>1, <1>2, <2>1 DEF Frame, RouteFrame
<1>4. IsInjective(f.todo)
  BY <1>1, <1>2 DEF OverlaysInv, Tidy, OnceBut
<1>5. CASE f.todo = <<>>
  <2>1. ToSet(f.todo) = {}
    BY <1>5 DEF ToSet
  <2>2. Good(w, {}, FALSE)
    BY <1>3, <2>1
  <2>3. OverlaysInv(w)
    BY <2>2, GoodInv
  <2> QED BY <1>5, <2>3 DEF f, w
<1>6. CASE f.todo # <<>>
  <2>1. /\ r \in Records /\ ToSet(f.todo) = {r} \cup ToSet(Tail(f.todo)) /\ r \notin ToSet(Tail(f.todo))
        /\ IsInjective(Tail(f.todo)) /\ Tail(f.todo) \in Seq(Records)
    <3>1. /\ Tail(f.todo) \in Seq(Records) /\ Len(f.todo) \in Nat \ {0} /\ Len(Tail(f.todo)) = Len(f.todo) - 1
          /\ r = f.todo[1] /\ f.todo[1] \in Records
          /\ \A i \in 1 .. Len(Tail(f.todo)) : i + 1 \in 1 .. Len(f.todo) /\ Tail(f.todo)[i] = f.todo[i + 1]
          /\ \A i \in 1 .. Len(f.todo) : i = 1 \/ (i - 1 \in 1 .. Len(Tail(f.todo)) /\ f.todo[i] = Tail(f.todo)[i - 1])
      BY <1>3, <1>6, RestPlaces
    <3> DEFINE t == Tail(f.todo)
               s == f.todo
    <3> HIDE DEF t, s
    <3>2. /\ s \in Seq(Records) /\ t \in Seq(Records)
          /\ \A x : (x \in ToSet(s) <=> \E i \in 1 .. Len(s) : s[i] = x)
          /\ \A x : (x \in ToSet(t) <=> \E i \in 1 .. Len(t) : t[i] = x)
      <4>1. s \in Seq(Records) /\ t \in Seq(Records)
        BY <1>3, <3>1 DEF s, t
      <4>2. \A q \in Seq(Records) : \A x : (x \in ToSet(q) <=> \E i \in 1 .. Len(q) : q[i] = x)
        <5> SUFFICES ASSUME NEW q \in Seq(Records), NEW x
                     PROVE  x \in ToSet(q) <=> \E i \in 1 .. Len(q) : q[i] = x
          OBVIOUS
        <5>1. /\ \A i \in 1 .. Len(q) : q[i] \in ToSet(q)
              /\ \A y \in ToSet(q) : \E i \in 1 .. Len(q) : q[i] = y
          BY InSet
        <5> QED BY <5>1
      <4> QED BY <4>1, <4>2
    <3>3. /\ Len(s) \in Nat \ {0} /\ Len(t) = Len(s) - 1 /\ r = s[1] /\ 1 \in 1 .. Len(s)
          /\ \A i \in 1 .. Len(t) : i + 1 \in 1 .. Len(s) /\ t[i] = s[i + 1]
          /\ \A i \in 1 .. Len(s) : i = 1 \/ (i - 1 \in 1 .. Len(t) /\ s[i] = t[i - 1])
      BY <3>1 DEF s, t
    <3>4. \A i, j \in 1 .. Len(s) : s[i] = s[j] => i = j
      BY <1>4, <3>2 DEF s, IsInjective
    <3>5. ToSet(s) = {r} \cup ToSet(t)
      <4>1. ASSUME NEW x \in ToSet(s) PROVE x = r \/ x \in ToSet(t)
        <5>1. PICK i \in 1 .. Len(s) : s[i] = x
          BY <3>2
        <5>2. i = 1 \/ (i - 1 \in 1 .. Len(t) /\ t[i - 1] = x)
          BY <3>3, <5>1
        <5>3. i = 1 => x = r
          BY <3>3, <5>1
        <5> QED BY <3>2, <5>2, <5>3
      <4>2. ASSUME NEW x \in ToSet(t) PROVE x \in ToSet(s)
        <5>1. PICK i \in 1 .. Len(t) : t[i] = x
          BY <3>2
        <5>2. i + 1 \in 1 .. Len(s) /\ s[i + 1] = x
          BY <3>3, <5>1
        <5> QED BY <3>2, <5>2
      <4>3. r \in ToSet(s)
        BY <3>2, <3>3
      <4> QED BY <4>1, <4>2, <4>3
    <3>6. r \notin ToSet(t)
      <4> SUFFICES ASSUME NEW i \in 1 .. Len(t), t[i] = r PROVE FALSE
        BY <3>2
      <4>1. i + 1 \in 1 .. Len(s) /\ s[i + 1] = s[1]
        BY <3>3
      <4>2. i + 1 = 1
        BY <3>3, <3>4, <4>1
      <4> QED BY <4>2
    <3>7. IsInjective(t)
      <4> SUFFICES ASSUME NEW i \in 1 .. Len(t), NEW j \in 1 .. Len(t), t[i] = t[j] PROVE i = j
        BY <3>2 DEF IsInjective
      <4>1. i + 1 \in 1 .. Len(s) /\ j + 1 \in 1 .. Len(s) /\ s[i + 1] = s[j + 1]
        BY <3>3
      <4>2. i + 1 = j + 1
        BY <3>4, <4>1
      <4> QED BY <4>2
    <3> QED BY <3>1, <3>5, <3>6, <3>7 DEF s, t
  <2>2. g.call = "callbacks" /\ g.todo = Tail(f.todo) /\ g \in Frame
    <3>1. f = [call |-> "callbacks", todo |-> f.todo]
      BY <1>1, <1>2 DEF Frame, RouteFrame
    <3>2. g = [call |-> "callbacks", todo |-> Tail(f.todo)]
      <4>1. \A q, z : [[call |-> "callbacks", todo |-> q] EXCEPT !.todo = z] = [call |-> "callbacks", todo |-> z]
        OBVIOUS
      <4>2. g = [f EXCEPT !.todo = Tail(f.todo)]
        OBVIOUS
      <4> QED BY <3>1, <4>1, <4>2
    <3> QED BY <2>1, <3>2 DEF Frame
  <2> HIDE DEF g
  <2>3. Owed(g) = ToSet(Tail(f.todo)) /\ ~ShowsPalette(g) /\ Safe(w, g)
    BY <2>1, <2>2 DEF Owed, ShowsPalette, Safe, Outermost
  <2>4. w.forgot = u.forgot /\ w.shown = u.shown
    BY <1>2 DEF Others, Fields
  <2>5. ~u.forgot => \A x \in ToSet(f.todo) : Kind(u, x) # "palette" /\ Kind(w, x) # "palette"
    <3>1. \A x : Kind(w, x) = Kind(u, x)
      BY <2>4 DEF Kind
    <3> QED BY <1>1, <1>2, <3>1 DEF OverlaysInv, Focus
  <2>6. Good(p, {r}, FALSE)
    <3>1. ToSet(f.todo) \ Owed(g) = {r} /\ Owed(g) \subseteq ToSet(f.todo)
      BY <2>1, <2>3
    <3>2. w.forgot \/ \A x \in ToSet(g.todo) : Kind(w, x) # "palette"
      BY <2>1, <2>2, <2>4, <2>5
    <3>3. g.call # "palette" /\ g.call # "leave"
      BY <2>2
    <3>4. Good(p, ToSet(f.todo) \ Owed(g), FALSE)
      BY <1>3, <2>3, <3>1, <3>2, <3>3, PushGood
    <3> QED BY <3>1, <3>4
  <2>7. p.forgot = u.forgot /\ p.shown = u.shown
    <3>1. <<g>> \in Seq(Frame) /\ UiTypes(w)
      BY <1>3, <2>2 DEF Good, Tidy
    <3>2. Others({"stack"}, w, p)
      BY <3>1, PushFields
    <3> QED BY <2>4, <3>2 DEF Others, Fields
  <2> HIDE DEF p
  <2>8. Kind(p, r) = "palette" => Alone(p)
    <3>1. Kind(p, r) = Kind(u, r)
      BY <2>7 DEF Kind
    <3>2. Kind(u, r) = "palette" => p.forgot
      BY <2>1, <2>5, <2>7
    <3> QED BY <3>1, <3>2 DEF Alone
  <2>9. Good(OnDismiss(p, r), {r} \ {r}, FALSE)
    <3>1. Tidy(p, {r}) /\ Plain(p, FALSE) /\ Steady(p) /\ r \in {r}
      BY <2>6 DEF Good
    <3> HIDE DEF r
    <3>2. Kind(p, r) # "palette" => ~FALSE /\ Steady(p)
      BY <3>1
    <3> QED BY <2>8, <3>1, <3>2, OnDismissGood
  <2>10. {r} \ {r} = {}
    OBVIOUS
  <2>11. OverlaysInv(OnDismiss(p, r))
    BY <2>9, <2>10, GoodInv
  <2> QED BY <1>6, <2>11 DEF f, w, p, g
<1> QED BY <1>5, <1>6

(* The scene is left, with what its tables held, and the other comes.      *)
LEMMA LeaveStep ==
    ASSUME NEW u, OverlaysInv(u), u.stack # <<>>, Head(u.stack).call = "leave"
    PROVE  LET w == Rest(u) IN
           OverlaysInv(HideAll(w, w.front, [Head(u.stack) EXCEPT !.call = "enter"]))
<1> DEFINE f == Head(u.stack)
           w == Rest(u)
<1>1. /\ Good(w, {}, FALSE) /\ Others({"stack"}, u, w) /\ f \in Frame /\ f = u.stack[1]
      /\ 1 \in 1 .. Len(u.stack)
  BY RestGood
<1>2. f.call = "leave"
  OBVIOUS
<1> HIDE DEF f, w
<1>3. u.forgot \/ u.by[u.front][Palette] = NoRecord
  <2>1. Shape(u) /\ u.stack[1].call = "leave" /\ 1 \in 1 .. Len(u.stack)
    BY <1>1, <1>2 DEF OverlaysInv
  <2>2. ASSUME NEW i \in 1 .. Len(u.stack), u.stack[i].call = "leave", i = 1
        PROVE  u.forgot \/ u.by[u.front][Palette] = NoRecord
    <3>1. ~(i > 1)
      BY <2>2
    <3>2. \/ i = 1 /\ (u.forgot \/ u.by[u.front][Palette] = NoRecord)
          \/ i > 1 /\ u.stack[i - 1] = Reset(TRUE)
      BY Zenon, <2>1, <2>2 DEF Shape
    <3> QED BY <3>1, <3>2
  <2> QED BY <2>1, <2>2
<1>4. w.forgot = u.forgot /\ w.by = u.by /\ w.front = u.front
  BY <1>1 DEF Others, Fields
<1>5. f.to \in OverlayScenes /\ [f EXCEPT !.call = "enter"] = [call |-> "enter", to |-> f.to]
  <2>1. f = [call |-> "leave", to |-> f.to] /\ f.to \in OverlayScenes
    BY <1>1, <1>2 DEF Frame, RouteFrame
  <2>2. [f EXCEPT !.call = "enter"] = [call |-> "enter", to |-> f.to]
    BY <2>1
  <2> QED BY <2>1, <2>2
<1>6. OverlaysInv(HideAll(w, w.front, [call |-> "enter", to |-> f.to]))
  BY <1>1, <1>3, <1>4, <1>5, HideAllGood
<1> QED BY <1>5, <1>6 DEF f, w

LEMMA EnterStep ==
    ASSUME NEW u, OverlaysInv(u), u.stack # <<>>, Head(u.stack).call = "enter"
    PROVE  OverlaysInv([Rest(u) EXCEPT !.front = Head(u.stack).to])
<1> DEFINE f == Head(u.stack)
           w == Rest(u)
           s == f.to
           v == [w EXCEPT !.front = s]
<1>1. /\ Good(w, {}, FALSE) /\ Others({"stack"}, u, w) /\ f \in Frame /\ f = u.stack[1]
      /\ 1 \in 1 .. Len(u.stack)
  BY RestGood
<1>2. f.call = "enter" /\ UiTypes(u)
  BY DEF OverlaysInv, Tidy
<1>3. w.stack = Tail(u.stack) /\ u.stack \in Seq(Frame)
  BY <1>2, RestFields DEF UiTypes
<1> HIDE DEF f, w
<1>4. s \in OverlayScenes
  BY <1>1, <1>2 DEF Frame, RouteFrame
<1>5. NoneLive(w)
  <2> SUFFICES ASSUME NEW i \in 1 .. Len(w.stack), w.stack[i].call = "route", w.stack[i].live
               PROVE  FALSE
    BY DEF NoneLive
  <2>1. i + 1 \in 1 .. Len(u.stack) /\ w.stack[i] = u.stack[i + 1]
    BY <1>3, RestPlaces
  <2>2. Reaching(u, w.stack[i])
    BY <2>1 DEF OverlaysInv, Tidy, Routes
  <2> QED BY <1>1, <1>2, <2>2 DEF Reaching
<1>6. Tidy(v, {}) /\ Others({"front"}, w, v)
  BY <1>1, <1>4, <1>5, FrontTidy DEF Good
<1> HIDE DEF v
<1>7. Alike(w, v)
  <2>1. /\ v.stack = w.stack /\ v.focus = w.focus /\ v.list = w.list /\ v.before = w.before
        /\ v.forgot = w.forgot /\ v.by = w.by /\ v.shown = w.shown
    BY <1>6 DEF Others, Fields
  <2> QED BY <2>1 DEF Alike, Kind
<1>8. Good(v, {}, FALSE)
  BY <1>1, <1>6, <1>7, GoodSame
<1> QED BY <1>8, GoodInv DEF v, w, f

(* The palette's list takes the focus.                                     *)
LEMMA PaletteStep ==
    ASSUME NEW u, OverlaysInv(u), u.stack # <<>>, Head(u.stack).call = "palette"
    PROVE  LET w == Rest(u) IN
           OverlaysInv(FocusSet([w EXCEPT !.before = w.focus], Head(u.stack).record))
<1> DEFINE f == Head(u.stack)
           w == Rest(u)
           r == f.record
           b == [w EXCEPT !.before = w.focus]
           z == [b EXCEPT !.focus = r]
<1>1. /\ Good(w, {}, FALSE) /\ Others({"stack"}, u, w) /\ f \in Frame /\ f = u.stack[1]
      /\ 1 \in 1 .. Len(u.stack)
  BY RestGood
<1>2. f.call = "palette" /\ ~ShowsPalette(f)
  BY DEF ShowsPalette
<1>3. /\ UiTypes(w) /\ DOMAIN w = Fields /\ Tidy(w, {}) /\ Plain(w, FALSE) /\ Steady(w) /\ w.focus \in Int
  BY <1>1 DEF Good, Tidy, UiTypes
<1>4. /\ w.focus = u.focus /\ w.list = u.list /\ w.before = u.before /\ w.by = u.by
      /\ w.forgot = u.forgot /\ w.shown = u.shown
  BY <1>1 DEF Others, Fields
<1>5. Others({"before"}, w, b) /\ b.before = w.focus
  BY <1>3 DEF Others, Fields
<1> HIDE DEF f, w, b
<1>6. r \in Records /\ r \in Int /\ r > 0
  BY <1>1, <1>2 DEF Frame, RouteFrame, Records
<1>7. /\ u.list = r /\ \E sc \in OverlayScenes : u.by[sc][Palette] = r
  <2>1. ASSUME NEW i \in 1 .. Len(u.stack), u.stack[i].call = "palette", i = 1
        PROVE  /\ u.list = u.stack[i].record
               /\ \E sc \in OverlayScenes : u.by[sc][Palette] = u.stack[i].record
    <3>1. i # 2
      BY <2>1
    <3>2. /\ u.list = u.stack[i].record
          /\ \/ i = 1 /\ \E sc \in OverlayScenes : u.by[sc][Palette] = u.stack[i].record
             \/ i = 2 /\ ShowsPalette(u.stack[1])
      BY Zenon, <2>1 DEF OverlaysInv, Shape
    <3> QED BY <3>1, <3>2
  <2> QED BY <1>1, <1>2, <2>1
<1>8. ~u.forgot => /\ u.focus # r
                   /\ u.focus > 0 => Open(u, u.focus)
  <2>1. Focus(u)
    BY DEF OverlaysInv
  <2> QED BY <1>1, <1>2, <2>1 DEF Focus
<1>9. /\ b.focus = w.focus /\ b.list = w.list /\ b.by = w.by /\ b.forgot = w.forgot
      /\ b.shown = w.shown /\ b.stack = w.stack /\ b.dialogs = w.dialogs /\ DOMAIN b = Fields
  BY <1>5 DEF Others, Fields
<1>10. Tidy(b, {})
  <2>1. UiTypes(b)
    BY <1>3, <1>5 DEF UiTypes, Others, Fields
  <2>2. Others({"dialogs", "list", "before", "at", "focus", "forgot"}, w, b)
    BY <1>5 DEF Others
  <2>3. b.dialogs \subseteq Recs(b)
    BY <1>3, <1>9 DEF Tidy, Menus, Recs
  <2> QED BY <1>3, <2>1, <2>2, <2>3, SameTidy
<1>11. ASSUME ~u.forgot, u.focus > 0 PROVE Two(u)
  <2>1. PICK sc \in OverlayScenes : u.by[sc][Palette] = r
    BY <1>7
  <2>2. PICK sd \in OverlayScenes : u.by[sd][Palette] = u.focus
    BY <1>8, <1>11 DEF Open
  <2>3. sc # sd /\ r # NoRecord /\ u.focus # NoRecord
    BY <1>6, <1>8, <1>11, <2>1, <2>2 DEF NoRecord
  <2> QED BY <2>1, <2>2, <2>3 DEF Two
<1>12. ASSUME NEW v, Tidy(v, {}), Others({"focus"}, b, v), v.focus = r
       PROVE  Good(v, {}, FALSE)
  <2>1. /\ v.list = r /\ v.by = u.by /\ v.forgot = u.forgot /\ v.shown = u.shown
        /\ v.stack = w.stack /\ v.before = u.focus
    BY <1>4, <1>5, <1>7, <1>9, <1>12 DEF Others, Fields
  <2>2. Plain(v, FALSE)
    BY <1>3, <2>1 DEF Plain
  <2>3. Steady(v)
    <3>1. /\ Two(v) <=> Two(u)
          /\ \A x : Kind(v, x) = Kind(w, x)
          /\ Open(v, r)
      BY <1>4, <1>7, <2>1 DEF Two, Kind, Open
    <3>2. ~u.forgot => (u.focus > 0 => Two(v))
      BY <1>11, <3>1
    <3>3. ~u.forgot => \A i \in 1 .. Len(v.stack) :
             v.stack[i].call = "callbacks" => \A x \in ToSet(v.stack[i].todo) : Kind(v, x) # "palette"
      BY <1>3, <1>4, <2>1, <3>1 DEF Steady
    <3> QED BY <1>12, <2>1, <3>1, <3>2, <3>3 DEF Steady
  <2> QED BY <1>12, <2>2, <2>3 DEF Good
<1>13. CASE r = b.focus
  <2>1. Others({"focus"}, b, b)
    BY <1>9 DEF Others
  <2>2. Good(b, {}, FALSE)
    BY <1>10, <1>12, <1>13, <2>1
  <2>3. FocusSet(b, r) = b
    BY <1>13 DEF FocusSet
  <2>4. OverlaysInv(FocusSet(b, r))
    BY <2>2, <2>3, GoodInv
  <2> QED BY <2>4 DEF f, w, b
<1>14. CASE r # b.focus
  <2>1. Tidy(z, {}) /\ z.focus = r /\ Others({"focus"}, b, z)
    BY <1>6, <1>10, FocusTidy
  <2>2. Good(z, {}, FALSE)
    BY <1>12, <2>1
  <2>3. PICK e \in Loose : FocusSet(b, r) = Push(z, <<e>>)
    BY <1>10, <1>14, FocusFrame
  <2> HIDE DEF z
  <2>4. Good(Push(z, <<e>>), {}, FALSE)
    BY <2>2, PushLoose
  <2>5. OverlaysInv(FocusSet(b, r))
    BY <2>3, <2>4, GoodInv
  <2> QED BY <2>5 DEF f, w, b
<1> QED BY <1>13, <1>14

(* The palette's fields are reset.                                         *)
LEMMA ResetStep ==
    ASSUME NEW u, OverlaysInv(u), u.stack # <<>>, Head(u.stack).call = "reset"
    PROVE  LET f == Head(u.stack)
               w == Rest(u) IN
           OverlaysInv([w EXCEPT !.list = NoRecord, !.before = IF f.dismissed THEN NoFocus ELSE @,
                                 !.forgot = @ \/ SomePalette(w)])
<1> DEFINE f == Head(u.stack)
           w == Rest(u)
           L == (f = Reset(TRUE))
           v == [w EXCEPT !.list = NoRecord, !.before = IF f.dismissed THEN NoFocus ELSE @,
                          !.forgot = @ \/ SomePalette(w)]
<1>1. ~ShowsPalette(f) /\ f.call = "reset" /\ Owed(f) = {}
  BY DEF ShowsPalette, Owed
<1>2. /\ Good(w, Owed(f), L) /\ Others({"stack"}, u, w) /\ f \in Frame /\ f = u.stack[1]
  BY <1>1, InvRest
<1> HIDE DEF f, w, L
<1>3. /\ Good(w, {}, L) /\ UiTypes(w) /\ DOMAIN w = Fields /\ Tidy(w, {}) /\ Plain(w, L) /\ Steady(w)
      /\ w.before \in Int /\ w.forgot \in BOOLEAN /\ w.focus \in Int /\ Palette \in Owners
      /\ w.front \in OverlayScenes
  BY <1>1, <1>2 DEF Good, Tidy, UiTypes, Owners
<1>4. /\ Others({"list", "before", "forgot"}, w, v) /\ v.list = NoRecord
      /\ v.before = IF f.dismissed THEN NoFocus ELSE w.before
      /\ v.forgot = (w.forgot \/ SomePalette(w))
  <2> DEFINE a == IF f.dismissed THEN NoFocus ELSE w.before
             c == w.forgot \/ SomePalette(w)
  <2>1. v = [w EXCEPT !["list"] = NoRecord, !["before"] = a, !["forgot"] = c]
    OBVIOUS
  <2> HIDE DEF a, c, v
  <2> DEFINE x == [w EXCEPT !["list"] = NoRecord, !["before"] = a, !["forgot"] = c]
  <2>2. x["list"] = NoRecord /\ x["before"] = a /\ x["forgot"] = c
        /\ Others({"list", "before", "forgot"}, w, x)
    BY <1>3 DEF Others, Fields
  <2> QED BY <2>1, <2>2 DEF a, c
<1> HIDE DEF v
<1>5. /\ v.focus = w.focus /\ v.by = w.by /\ v.shown = w.shown /\ v.stack = w.stack
      /\ v.dialogs = w.dialogs /\ v.front = w.front
  BY <1>4 DEF Others, Fields
<1>6. Tidy(v, {})
  <2>1. v.list \in Nat /\ v.before \in Int /\ v.forgot \in BOOLEAN
    BY <1>3, <1>4 DEF NoRecord, NoFocus
  <2>2. UiTypes(v)
    BY <1>3, <1>4, <2>1 DEF UiTypes, Others, Fields
  <2>3. Others({"dialogs", "list", "before", "at", "focus", "forgot"}, w, v)
    BY <1>4 DEF Others
  <2>4. v.dialogs \subseteq Recs(v)
    BY <1>3, <1>5 DEF Tidy, Menus, Recs
  <2> QED BY <1>3, <2>2, <2>3, <2>4, SameTidy
<1>7. Plain(v, L)
  BY <1>3, <1>5 DEF Plain
<1>8. Steady(v)
  <2> SUFFICES ASSUME ~w.forgot, ~SomePalette(w)
               PROVE  /\ ~(v.focus > 0) /\ ~(v.before > 0)
                      /\ \A i \in 1 .. Len(v.stack) :
                           v.stack[i].call = "callbacks" => \A r \in ToSet(v.stack[i].todo) : Kind(v, r) # "palette"
    BY <1>4 DEF Steady
  <2>1. ~Two(w) /\ \A x : x > 0 => ~Open(w, x)
    BY DEF Two, Open, SomePalette, NoRecord
  <2>2. ~(w.focus > 0) /\ ~(w.before > 0)
    BY <1>3, <2>1 DEF Steady
  <2>3. \A x : Kind(v, x) = Kind(w, x)
    BY <1>5 DEF Kind
  <2> QED BY <1>3, <1>4, <1>5, <2>2, <2>3 DEF Steady, NoFocus
<1>9. L => v.forgot \/ v.by[v.front][Palette] = NoRecord
  BY <1>3, <1>4, <1>5 DEF SomePalette
<1>10. Good(v, {}, L)
  BY <1>6, <1>7, <1>8 DEF Good
<1>11. OverlaysInv(v)
  BY <1>9, <1>10, GoodInv
<1> QED BY <1>11 DEF f, w, v

LEMMA ReopenStep ==
    ASSUME NEW u, OverlaysInv(u), u.stack # <<>>, Head(u.stack).call = "reopen"
    PROVE  LET w == Rest(u) IN
           OverlaysInv(IF PaletteIsOpen(w) \/ w.front # Head(u.stack).sc \/ ~Fresh(w) THEN w ELSE ShowPalette(w))
<1> DEFINE w == Rest(u)
<1>1. Good(w, {}, FALSE) /\ OverlaysInv(w)
  BY RestGood
<1> HIDE DEF w
<1>2. Fresh(w) => OverlaysInv(ShowPalette(w))
  BY <1>1, ShowPaletteGood
<1> QED BY <1>1, <1>2 DEF w

LEMMA ContinueStep ==
    ASSUME OverlaysInv(ui), Continue
    PROVE  OverlaysInv(ui')
<1> DEFINE f == Head(ui.stack)
           u == Rest(ui)
<1>1. /\ ui.stack # <<>>
      /\ \/ f.call = "show" /\ ui' = Appended(u, f.sc, f.record, f.owner)
         \/ /\ f.call = "each"
            /\ ui' = IF f.todo = <<>> THEN u
                     ELSE Hide(Push(u, <<Each(f.sc, Tail(f.todo))>>), f.sc, Head(f.todo))
         \/ /\ f.call = "callbacks"
            /\ ui' = IF f.todo = <<>> THEN u
                     ELSE OnDismiss(Push(u, <<[f EXCEPT !.todo = Tail(@)]>>), Head(f.todo))
         \/ f.call = "palette" /\ ui' = FocusSet([u EXCEPT !.before = u.focus], f.record)
         \/ /\ f.call = "reset"
            /\ ui' = [u EXCEPT !.list = NoRecord, !.before = IF f.dismissed THEN NoFocus ELSE @,
                              !.forgot = @ \/ SomePalette(u)]
         \/ /\ f.call = "reopen"
            /\ ui' = IF PaletteIsOpen(u) \/ u.front # f.sc \/ ~Fresh(u) THEN u ELSE ShowPalette(u)
         \/ f.call = "leave" /\ ui' = HideAll(u, u.front, [f EXCEPT !.call = "enter"])
         \/ f.call = "enter" /\ ui' = [u EXCEPT !.front = f.to]
  BY Zenon DEF Continue
<1>2. CASE f.call = "show" /\ ui' = Appended(u, f.sc, f.record, f.owner)
  BY <1>1, <1>2, ShowStep
<1>3. CASE /\ f.call = "each"
           /\ ui' = IF f.todo = <<>> THEN u
                    ELSE Hide(Push(u, <<Each(f.sc, Tail(f.todo))>>), f.sc, Head(f.todo))
  BY Zenon, <1>1, <1>3, EachStep
<1>4. CASE /\ f.call = "callbacks"
           /\ ui' = IF f.todo = <<>> THEN u
                    ELSE OnDismiss(Push(u, <<[f EXCEPT !.todo = Tail(@)]>>), Head(f.todo))
  BY Zenon, <1>1, <1>4, CallbacksStep
<1>5. CASE f.call = "palette" /\ ui' = FocusSet([u EXCEPT !.before = u.focus], f.record)
  BY Zenon, <1>1, <1>5, PaletteStep
<1>6. CASE /\ f.call = "reset"
           /\ ui' = [u EXCEPT !.list = NoRecord, !.before = IF f.dismissed THEN NoFocus ELSE @,
                             !.forgot = @ \/ SomePalette(u)]
  BY Zenon, <1>1, <1>6, ResetStep
<1>7. CASE /\ f.call = "reopen"
           /\ ui' = IF PaletteIsOpen(u) \/ u.front # f.sc \/ ~Fresh(u) THEN u ELSE ShowPalette(u)
  BY Zenon, <1>1, <1>7, ReopenStep
<1>8. CASE f.call = "leave" /\ ui' = HideAll(u, u.front, [f EXCEPT !.call = "enter"])
  BY Zenon, <1>1, <1>8, LeaveStep
<1>9. CASE f.call = "enter" /\ ui' = [u EXCEPT !.front = f.to]
  BY Zenon, <1>1, <1>9, EnterStep
<1> QED BY <1>1, <1>2, <1>3, <1>4, <1>5, <1>6, <1>7, <1>8, <1>9

-----------------------------------------------------------------------------
(* Overlays: what the program does.                                        *)

LEMMA ProgramGood ==
    ASSUME OverlaysInv(ui), ProgramIsRunning
    PROVE  Good(ui, {}, FALSE) /\ UiTypes(ui) /\ DOMAIN ui = Fields /\ ui.front \in OverlayScenes
<1>1. UiTypes(ui) /\ DOMAIN ui = Fields /\ ui.front \in OverlayScenes
  BY DEF OverlaysInv, Tidy, UiTypes
<1>2. \/ ui.stack = <<>>
      \/ /\ ~ShowsPalette(Head(ui.stack))
         /\ Head(ui.stack).call # "palette" /\ Head(ui.stack).call # "leave"
  BY DEF ProgramIsRunning, ShowsPalette
<1> QED BY <1>1, <1>2, InvGood

LEMMA ShowOverlayKeeps ==
    ASSUME OverlaysInv(ui), ShowOverlay
    PROVE  OverlaysInv(ui')
<1> DEFINE n == Newest(ui)
           m == [ui EXCEPT !.menus = @ \cup {n}]
           d == [ui EXCEPT !.dialogs = @ \cup {n}]
<1>1. /\ ProgramIsRunning /\ Fresh(ui)
      /\ \/ \E o \in Panels : ui' = Show(ui, "panel", o)
         \/ ui' = Show(m, "menu", n)
         \/ ui' = Show(d, "dialog", n)
  BY Zenon DEF ShowOverlay, OverlayOp
<1>2. Good(ui, {}, FALSE) /\ UiTypes(ui) /\ DOMAIN ui = Fields
  BY <1>1, ProgramGood
<1>3. n \in Owners
  <2>1. Len(ui.shown) \in Nat /\ MaxShown \in Nat /\ Len(ui.shown) < MaxShown
    BY <1>1, <1>2, RecsAre DEF Fresh
  <2> QED BY <2>1 DEF Newest, Records, Owners
<1>4. /\ Others({"menus", "dialogs"}, ui, ui)
      /\ Others({"menus", "dialogs"}, ui, m) /\ m.menus = ui.menus \cup {n} /\ m.dialogs = ui.dialogs
      /\ Others({"menus", "dialogs"}, ui, d) /\ d.dialogs = ui.dialogs \cup {n} /\ d.menus = ui.menus
  BY <1>2 DEF Others, Fields
<1> HIDE DEF n, m, d
<1>5. ASSUME NEW o \in Panels PROVE OverlaysInv(Show(ui, "panel", o))
  <2>1. o \in Owners
    BY DEF Owners
  <2> QED BY <1>1, <1>2, <1>4, <2>1, ShowGood
<1>6. OverlaysInv(Show(m, "menu", n))
  BY <1>1, <1>2, <1>3, <1>4, ShowGood DEF n
<1>7. OverlaysInv(Show(d, "dialog", n))
  BY <1>1, <1>2, <1>3, <1>4, ShowGood DEF n
<1> QED BY <1>1, <1>5, <1>6, <1>7

LEMMA OpenPaletteKeeps ==
    ASSUME OverlaysInv(ui), OpenPalette
    PROVE  OverlaysInv(ui')
<1>1. ProgramIsRunning /\ Fresh(ui) /\ ui' = ShowPalette(ui)
  BY Zenon DEF OpenPalette, OverlayOp
<1>2. Good(ui, {}, FALSE)
  BY <1>1, ProgramGood
<1> QED BY <1>1, <1>2, ShowPaletteGood

LEMMA HideOverlayKeeps ==
    ASSUME OverlaysInv(ui), HideOverlay
    PROVE  OverlaysInv(ui')
<1>1. /\ ProgramIsRunning
      /\ \/ \E o \in Panels \cup ui.menus : ui' = Hide(ui, ui.front, o)
         \/ \E d \in ui.dialogs :
               ui' = Hide([ui EXCEPT !.dialogs = @ \ {d}], ui.front, d)
         \/ ui' = HidePalette(ui)
  BY Zenon DEF HideOverlay, OverlayOp
<1>2. /\ Good(ui, {}, FALSE) /\ UiTypes(ui) /\ DOMAIN ui = Fields /\ ui.front \in OverlayScenes
      /\ Tidy(ui, {}) /\ ui.dialogs \subseteq Records /\ ui.menus \subseteq Records
  BY <1>1, ProgramGood DEF Good, UiTypes
<1>3. ASSUME NEW o \in Panels \cup ui.menus PROVE OverlaysInv(Hide(ui, ui.front, o))
  <2>1. o \in Owners
    BY <1>2 DEF Owners
  <2> QED BY <1>2, <2>1, HideGood
<1>4. ASSUME NEW d \in ui.dialogs PROVE OverlaysInv(Hide([ui EXCEPT !.dialogs = @ \ {d}], ui.front, d))
  <2> DEFINE v == [ui EXCEPT !.dialogs = @ \ {d}]
  <2>1. Others({"dialogs"}, ui, v) /\ v.dialogs = ui.dialogs \ {d}
    BY <1>2 DEF Others, Fields
  <2> HIDE DEF v
  <2>2. /\ v.focus = ui.focus /\ v.list = ui.list /\ v.before = ui.before /\ v.by = ui.by
        /\ v.forgot = ui.forgot /\ v.shown = ui.shown /\ v.stack = ui.stack /\ v.front = ui.front
    BY <2>1 DEF Others, Fields
  <2>3. Tidy(v, {})
    <3>1. v.dialogs \in SUBSET Records
      BY <1>2, <2>1
    <3>2. UiTypes(v)
      BY <1>2, <2>1, <3>1 DEF UiTypes, Others, Fields
    <3>3. Others({"dialogs", "list", "before", "at", "focus", "forgot"}, ui, v)
      BY <2>1 DEF Others
    <3>4. v.dialogs \subseteq Recs(v)
      BY <1>2, <2>1, <2>2 DEF Tidy, Menus, Recs
    <3> QED BY <1>2, <3>2, <3>3, <3>4, SameTidy
  <2>4. Alike(ui, v)
    BY <2>2 DEF Alike, Kind
  <2>5. Good(v, {}, FALSE)
    BY <1>2, <2>3, <2>4, GoodSame
  <2>6. d \in Owners
    BY <1>2 DEF Owners
  <2>7. OverlaysInv(Hide(v, ui.front, d))
    BY <1>2, <2>5, <2>6, HideGood
  <2> QED BY <2>7 DEF v
<1>5. OverlaysInv(HidePalette(ui))
  BY <1>2, HidePaletteGood
<1> QED BY <1>1, <1>3, <1>4, <1>5

LEMMA MoveFocusKeeps ==
    ASSUME OverlaysInv(ui), MoveFocus
    PROVE  OverlaysInv(ui')
<1>1. ProgramIsRunning /\ \E n \in {NoFocus, Control} : ui' = FocusSet(ui, n)
  BY Zenon DEF MoveFocus, OverlayOp
<1>2. PICK n \in {NoFocus, Control} : ui' = FocusSet(ui, n)
  BY <1>1
<1>3. n \in Int /\ n <= 0
  BY DEF NoFocus, Control
<1>4. Good(ui, {}, FALSE)
  BY <1>1, ProgramGood
<1>5. Good(FocusSet(ui, n), {}, FALSE)
  BY <1>3, <1>4, FocusGood
<1> QED BY <1>2, <1>5, GoodInv

LEMMA SwitchKeeps ==
    ASSUME OverlaysInv(ui), NEW s \in OverlayScenes, SwitchOverlayScene(s)
    PROVE  OverlaysInv(ui')
<1> DEFINE f == [call |-> "leave", to |-> s]
           p == Push(ui, <<f>>)
<1>1. ProgramIsRunning /\ ui' = Hide(p, ui.front, Palette)
  BY Zenon DEF SwitchOverlayScene, OverlayOp
<1>2. Good(ui, {}, FALSE) /\ UiTypes(ui) /\ ui.front \in OverlayScenes /\ Palette \in Owners
  BY <1>1, ProgramGood DEF Owners
<1>3. Good(p, {}, TRUE)
  BY <1>2, LeaveGood
<1>4. p.front = ui.front
  <2>1. f \in Frame
    BY DEF Frame
  <2> HIDE DEF f
  <2>2. <<f>> \in Seq(Frame)
    BY <2>1
  <2>3. Others({"stack"}, ui, p)
    BY <1>2, <2>2, PushFields
  <2> QED BY <2>3 DEF Others, Fields
<1> HIDE DEF p
<1> QED BY <1>1, <1>2, <1>3, <1>4, HideGood

LEMMA ReturnsKeeps ==
    ASSUME OverlaysInv(ui), ProgramReturns
    PROVE  OverlaysInv(ui')
<1>1. /\ ui.stack # <<>> /\ Head(ui.stack).call \in {"callback", "handler"}
      /\ \/ ui' = Rest(ui)
         \/ Head(ui.stack).call = "handler" /\ ui' = Rest(Rest(ui))
  BY DEF ProgramReturns, ProgramIsRunning, Running
<1>2. OverlaysInv(Rest(ui))
  BY <1>1, RestGood
<1>3. ASSUME Head(ui.stack).call = "handler" PROVE OverlaysInv(Rest(Rest(ui)))
  <2>1. Rest(ui).stack # <<>> /\ Head(Rest(ui).stack).call = "route"
    BY <1>1, <1>3, RestTidy DEF OverlaysInv
  <2> QED BY <1>2, <2>1, RestGood
<1> QED BY <1>1, <1>2, <1>3

-----------------------------------------------------------------------------
(* Overlays: events.                                                       *)

LEMMA EscapeKeeps ==
    ASSUME OverlaysInv(ui), EscapeKey
    PROVE  OverlaysInv(ui')
<1>1. ui.stack = <<>> /\ \E i \in DOMAIN ui.lists[ui.front] :
                            ui' = Hide(ui, ui.front, Owner(ui, ui.lists[ui.front][i]))
  BY Zenon DEF EscapeKey
<1>2. PICK i \in DOMAIN ui.lists[ui.front] :
         ui' = Hide(ui, ui.front, Owner(ui, ui.lists[ui.front][i]))
  BY <1>1
<1>3. /\ Good(ui, {}, FALSE) /\ Tidy(ui, {}) /\ UiTypes(ui) /\ ui.front \in OverlayScenes
      /\ ui.lists[ui.front] \in Seq(Records) /\ ToSet(ui.lists[ui.front]) \subseteq Recs(ui)
  <2>1. Good(ui, {}, FALSE)
    BY <1>1, InvGood
  <2>2. UiTypes(ui) /\ ui.front \in OverlayScenes /\ OnceBut(ui, {}) /\ Tidy(ui, {})
    BY <2>1 DEF Good, Tidy, UiTypes
  <2> QED BY <2>1, <2>2 DEF UiTypes, OnceBut
<1>4. Owner(ui, ui.lists[ui.front][i]) \in Owners
  <2> DEFINE q == ui.lists[ui.front]
  <2> HIDE DEF q
  <2>1. q \in Seq(Records) /\ ToSet(q) \subseteq Recs(ui) /\ i \in DOMAIN q
    BY <1>3 DEF q
  <2>2. OwnersOf(ui, q) \in Seq(Owners)
    BY <1>3, <2>1, OwnersType
  <2>3. OwnersOf(ui, q)[i] \in Owners
    BY <2>1, <2>2 DEF OwnersOf
  <2>4. OwnersOf(ui, q)[i] = Owner(ui, q[i])
    BY <2>1 DEF OwnersOf
  <2> QED BY <2>3, <2>4 DEF q
<1> QED BY <1>2, <1>3, <1>4, HideGood

(* Routing begins at the top of the list in front.                         *)
LEMMA RouteBegins ==
    ASSUME NEW u, Good(u, {}, FALSE), u.stack = <<>>, u.lists = ui.lists, u.front = ui.front,
           NEW event \in {"other", "click"}, NEW hit \in SUBSET Records, NEW then \in {NoFocus, Control}
    PROVE  Good(Push(u, <<Route(event, ui.front, hit, then)>>), {}, FALSE)
<1> DEFINE f == Route(event, ui.front, hit, then)
<1>1. /\ ui.front \in OverlayScenes /\ Len(ui.lists[ui.front]) \in Int
  BY DEF Good, Tidy, UiTypes
<1>2. f \in Frame /\ f.call = "route" /\ f.sc = ui.front /\ Reaches(f) = {}
  <2> DEFINE n == Len(ui.lists[ui.front])
  <2>1. f = [call |-> "route", event |-> event, sc |-> ui.front, at |-> n,
             live |-> TRUE, over |-> <<>>, hit |-> hit, then |-> then,
             passed |-> <<>>, seen |-> <<>>, todo |-> <<>>, inside |-> FALSE]
    BY DEF Route
  <2> HIDE DEF n
  <2>2. <<>> \in Seq(Records) /\ <<>> \in Seq(Owners) /\ n \in Int
    BY <1>1 DEF n
  <2>3. f \in RouteFrame
    BY <1>1, <2>1, <2>2 DEF RouteFrame
  <2>4. ToSet(<<>>) = {}
    BY DEF ToSet
  <2>5. Reaches(f) = {}
    BY <2>1, <2>4 DEF Reaches
  <2>6. f.call = "route" /\ f.sc = ui.front
    BY <2>1
  <2> HIDE DEF f
  <2>7. f \in Frame
    BY <2>3 DEF Frame
  <2> QED BY <2>5, <2>6, <2>7
<1> HIDE DEF f
<1>3. Safe(u, f) /\ Owed(f) = {} /\ ~ShowsPalette(f)
  BY <1>2 DEF Safe, Outermost, Owed, ShowsPalette
<1>4. Good(Push(u, <<f>>), {} \ Owed(f), FALSE)
  BY <1>2, <1>3, PushGood
<1> QED BY <1>3, <1>4 DEF f

LEMMA OtherEventKeeps ==
    ASSUME OverlaysInv(ui), OtherEvent
    PROVE  OverlaysInv(ui')
<1>1. ui.stack = <<>> /\ ui' = Push(ui, <<Route("other", ui.front, {}, NoFocus)>>)
  BY Zenon DEF OtherEvent
<1>2. Good(ui, {}, FALSE)
  BY <1>1, InvGood
<1>3. Good(ui', {}, FALSE)
  BY <1>1, <1>2, RouteBegins
<1> QED BY <1>3, GoodInv

LEMMA ClickKeeps ==
    ASSUME OverlaysInv(ui), NEW hit \in SUBSET (1 .. Len(ui.shown)), NEW target \in {NoFocus, Control},
           Click(hit, target)
    PROVE  OverlaysInv(ui')
<1> DEFINE f == [call |-> "clicked", hit |-> hit, target |-> target]
           p == Push(ui, <<f>>)
<1>1. ui.stack = <<>> /\ (ui' = p \/ ui' = Hide(p, ui.front, Palette))
  BY DEF Click
<1>2. Good(ui, {}, FALSE) /\ UiTypes(ui) /\ ui.front \in OverlayScenes /\ Palette \in Owners
  <2>1. Good(ui, {}, FALSE)
    BY <1>1, InvGood
  <2> QED BY <2>1 DEF Good, Tidy, UiTypes, Owners
<1>3. f \in Frame /\ f.call = "clicked"
  <2>1. hit \in SUBSET Records
    BY <1>2, RecsAre DEF Recs
  <2> QED BY <2>1 DEF Frame
<1> HIDE DEF f
<1>4. Safe(ui, f) /\ Owed(f) = {} /\ ~ShowsPalette(f)
  BY <1>1, <1>3 DEF Safe, Outermost, Owed, ShowsPalette
<1>5. Good(p, {} \ Owed(f), FALSE)
  BY <1>2, <1>3, <1>4, PushGood
<1>6. Good(p, {}, FALSE)
  BY <1>4, <1>5
<1> HIDE DEF p
<1>7. OverlaysInv(p)
  BY <1>6, GoodInv
<1>8. OverlaysInv(Hide(p, ui.front, Palette))
  BY <1>2, <1>6, HideGood
<1> QED BY <1>1, <1>7, <1>8

(* A click moves the focus, or nothing.                                    *)
LEMMA FocusedGood ==
    ASSUME NEW u, Good(u, {}, FALSE), NEW n \in {NoFocus, Control}
    PROVE  OverlaysInv(Focused(u, n))
<1>1. n \in Int /\ n <= 0
  BY DEF NoFocus, Control
<1>2. OverlaysInv(u)
  BY GoodInv
<1>3. Good(FocusSet(u, n), {}, FALSE)
  BY <1>1, FocusGood
<1>4. OverlaysInv(FocusSet(u, n))
  BY <1>3, GoodInv
<1> QED BY <1>2, <1>4 DEF Focused

LEMMA RouteClickKeeps ==
    ASSUME OverlaysInv(ui), RouteClick
    PROVE  OverlaysInv(ui')
<1> DEFINE f == Head(ui.stack)
           w == Rest(ui)
           Begun(then) == Push(w, <<Route("click", ui.front, f.hit, then)>>)
<1>1. /\ ui.stack # <<>> /\ f.call = "clicked"
      /\ ui' = Begun(f.target) \/ ui' = Focused(Begun(NoFocus), f.target)
  BY DEF RouteClick, Running
<1>2. Good(w, {}, FALSE) /\ Others({"stack"}, ui, w) /\ f \in Frame /\ w.stack = <<>>
  BY <1>1, RestGood DEF Outermost
<1> HIDE DEF f, w
<1>3. f.hit \in SUBSET Records /\ f.target \in {NoFocus, Control}
  BY <1>1, <1>2 DEF Frame, RouteFrame
<1>4. w.lists = ui.lists /\ w.front = ui.front
  BY <1>2 DEF Others, Fields
<1>5. Good(Begun(f.target), {}, FALSE) /\ Good(Begun(NoFocus), {}, FALSE)
  BY <1>2, <1>3, <1>4, RouteBegins
<1> HIDE DEF Begun
<1>6. OverlaysInv(Begun(f.target))
  BY <1>5, GoodInv
<1>7. OverlaysInv(Focused(Begun(NoFocus), f.target))
  BY <1>3, <1>5, FocusedGood
<1> QED BY <1>1, <1>6, <1>7

(* A routing frame goes on as g.                                           *)
LEMMA NowGood ==
    ASSUME OverlaysInv(ui), ui.stack # <<>>, Head(ui.stack).call = "route"
    PROVE  LET f == Head(ui.stack)
               w == Rest(ui) IN
           /\ Good(w, {}, FALSE) /\ w.stack = <<>> /\ Others({"stack"}, ui, w) /\ f \in RouteFrame
           /\ Reaching(ui, f) /\ ui.stack = <<f>>
           /\ \A g \in RouteFrame : /\ [ui EXCEPT !.stack[1] = g] = Push(w, <<g>>)
                                    /\ Rest(Push(w, <<g>>)) = w
<1> DEFINE f == Head(ui.stack)
           w == Rest(ui)
<1>1. /\ Good(w, {}, FALSE) /\ Others({"stack"}, ui, w) /\ f \in Frame /\ f = ui.stack[1]
      /\ w.stack = <<>> /\ 1 \in 1 .. Len(ui.stack)
  BY RestGood DEF Outermost
<1>2. f.call = "route" /\ f \in RouteFrame
  BY <1>1, RouteFrames
<1>3. Reaching(ui, f)
  BY <1>1, <1>2 DEF OverlaysInv, Tidy, Routes
<1>4. DOMAIN ui = Fields /\ ui.stack \in Seq(Frame) /\ w.stack = Tail(ui.stack)
  <2>1. UiTypes(ui)
    BY DEF OverlaysInv, Tidy
  <2> QED BY <2>1, RestFields DEF UiTypes
<1>5. Len(ui.stack) = 1 /\ Tail(ui.stack) = <<>> /\ ui.stack = <<f>>
  <2>1. Len(Tail(ui.stack)) = Len(ui.stack) - 1 /\ Len(ui.stack) \in Nat \ {0}
    BY <1>4, RestPlaces
  <2>2. Len(Tail(ui.stack)) = 0
    <3> HIDE DEF w
    <3>1. Tail(ui.stack) = <<>>
      BY <1>1, <1>4
    <3>2. Len(<<>>) = 0
      OBVIOUS
    <3> QED BY Zenon, <3>1, <3>2
  <2>3. Len(ui.stack) = 1
    BY <2>1, <2>2
  <2>4. f = ui.stack[1] /\ <<f>> \in Seq(Frame) /\ Len(<<f>>) = 1 /\ <<f>>[1] = f
    BY <1>1
  <2>5. \A i \in 1 .. Len(ui.stack) : ui.stack[i] = <<f>>[i]
    BY <2>3, <2>4
  <2>6. ui.stack = <<f>>
    BY <1>4, <2>3, <2>4, <2>5, SeqEqual
  <2> QED BY <1>1, <1>4, <2>3, <2>6
<1>6. ASSUME NEW g \in RouteFrame
      PROVE  [ui EXCEPT !.stack[1] = g] = Push(w, <<g>>) /\ Rest(Push(w, <<g>>)) = w
  <2>1. \A a, b, c : /\ [[ui EXCEPT !.stack = a] EXCEPT !.stack = b] = [ui EXCEPT !.stack = b]
                     /\ [[[ui EXCEPT !.stack = a] EXCEPT !.stack = b] EXCEPT !.stack = c] = [ui EXCEPT !.stack = c]
    OBVIOUS
  <2>2. w = [ui EXCEPT !.stack = <<>>]
    BY <1>5 DEF Rest
  <2>3. Push(w, <<g>>) = [w EXCEPT !.stack = <<g>> \o <<>>]
    BY <1>1 DEF Push
  <2>4. <<g>> \o <<>> = <<g>> /\ Tail(<<g>>) = <<>>
    OBVIOUS
  <2>5. Push(w, <<g>>) = [ui EXCEPT !.stack = <<g>>]
    BY <2>1, <2>2, <2>3, <2>4
  <2>6. [ui EXCEPT !.stack[1] = g] = [ui EXCEPT !.stack = <<g>>]
    <3>1. [ui EXCEPT !.stack[1] = g] = [ui EXCEPT !.stack = [ui.stack EXCEPT ![1] = g]]
      OBVIOUS
    <3>2. [ui.stack EXCEPT ![1] = g] = <<g>>
      <4>1. [<<f>> EXCEPT ![1] = g] = <<g>>
        OBVIOUS
      <4> HIDE DEF f
      <4> QED BY <1>5, <4>1
    <3> QED BY <3>1, <3>2
  <2>7. Rest(Push(w, <<g>>)) = w
    <3>1. Push(w, <<g>>).stack = <<g>>
      BY <1>4, <2>5 DEF Fields
    <3>2. Rest(Push(w, <<g>>)) = [Push(w, <<g>>) EXCEPT !.stack = <<>>]
      BY <2>4, <3>1 DEF Rest
    <3> QED BY <2>1, <2>2, <2>5, <3>2
  <2> QED BY <2>5, <2>6, <2>7
<1> QED BY <1>1, <1>2, <1>3, <1>5, <1>6

LEMMA RouteGood ==
    ASSUME NEW w, Good(w, {}, FALSE), w.stack = <<>>, NEW g \in RouteFrame,
           g.live => g.sc = w.front,
           \A r \in Reaches(g) : /\ r \in Recs(w)
                                 /\ \A sc \in OverlayScenes : r \in ToSet(w.lists[sc]) => g.live /\ sc = g.sc
    PROVE  Good(Push(w, <<g>>), {}, FALSE)
<1>1. g \in Frame /\ g.call = "route"
  BY DEF Frame, RouteFrame
<1>2. Safe(w, g) /\ Owed(g) = {} /\ ~ShowsPalette(g)
  BY <1>1 DEF Safe, Outermost, Owed, ShowsPalette
<1>3. Good(Push(w, <<g>>), {} \ Owed(g), FALSE)
  BY <1>1, <1>2, PushGood
<1> QED BY <1>2, <1>3

(* A menu's overlay is hidden, that its manager no longer counts as open.  *)
LEMMA MenuGone ==
    ASSUME NEW w, Good(w, {}, FALSE), w.stack = <<>>, NEW r \in Recs(w), Kind(w, r) = "menu",
           \A sc \in OverlayScenes : r \in ToSet(w.lists[sc]) => sc = w.front
    PROVE  OverlaysInv(Hide(Push([w EXCEPT !.menus = @ \ {r}], <<ProgramCall("callback")>>), w.front, r))
<1> DEFINE cb == ProgramCall("callback")
           m == [w EXCEPT !.menus = @ \ {r}]
           p == Push(m, <<cb>>)
           W == Push(w, <<cb>>)
           sc == w.front
<1>1. /\ Tidy(w, {}) /\ UiTypes(w) /\ DOMAIN w = Fields /\ sc \in OverlayScenes /\ Kinds(w) /\ Tables(w)
      /\ OnceBut(w, {}) /\ Menus(w) /\ w.reshown \in SUBSET Panels
      /\ w.lists \in [OverlayScenes -> Seq(Records)]
      /\ w.by \in [OverlayScenes -> [Owners -> Records \cup {NoRecord}]]
      /\ w.menus \in SUBSET Records
  BY DEF Good, Tidy, UiTypes
<1>2. Others({"menus"}, w, m) /\ m.menus = w.menus \ {r}
  BY <1>1 DEF Others, Fields
<1> HIDE DEF m
<1>3. UiTypes(m)
  <2>1. m.menus \in SUBSET Records
    BY <1>1, <1>2
  <2> QED BY <1>1, <1>2, <2>1 DEF UiTypes, Others, Fields
<1>4. cb \in Loose /\ cb \in Frame
  BY LooseFrames DEF Loose
<1> HIDE DEF cb
<1>5. /\ p.stack = <<cb>> \o m.stack /\ Others({"stack"}, m, p) /\ UiTypes(p)
      /\ W.stack = <<cb>> \o w.stack /\ Others({"stack"}, w, W) /\ UiTypes(W)
  <2>1. <<cb>> \in Seq(Frame)
    BY <1>4
  <2> QED BY <1>1, <1>3, <2>1, PushFields
<1> HIDE DEF p, W
<1>6. /\ Others({"menus"}, W, p) /\ p.menus = W.menus \ {r} /\ DOMAIN p = Fields /\ DOMAIN W = Fields
      /\ W.menus = w.menus
  <2>1. m.stack = w.stack
    BY <1>2 DEF Others, Fields
  <2>2. p.stack = W.stack
    BY <1>5, <2>1
  <2> QED BY <1>2, <1>5, <2>2 DEF Others, Fields
<1>7. /\ p.lists = W.lists /\ p.by = W.by /\ p.index = W.index /\ p.shown = W.shown
      /\ W.lists = w.lists /\ W.by = w.by /\ W.index = w.index /\ W.shown = w.shown
      /\ W.front = w.front
  BY <1>5, <1>6 DEF Others, Fields
<1>8. Good(W, {}, FALSE)
  BY <1>4, PushLoose DEF W
<1>9. Owner(w, r) = r /\ r \in Records /\ r \in Owners /\ r # Palette /\ r \notin Panels
  <2>1. Owner(w, r) = r /\ r \in Records
    BY <1>1, RecsAre DEF Kinds
  <2> QED BY <2>1, OverlaysAssumption DEF Owners, Records
<1>10. CASE w.by[sc][r] = NoRecord
  <2>1. r \notin ToSet(w.lists[sc])
    <3>1. r \notin w.reshown
      BY <1>1, <1>9
    <3>2. \A k \in 1 .. Len(w.lists[sc]) : Owner(w, w.lists[sc][k]) # r
      BY <1>1, <1>9, <1>10, <3>1 DEF Tables
    <3>3. w.lists[sc] \in Seq(Records)
      BY <1>1
    <3> QED BY <1>9, <3>2, <3>3, InSet
  <2>2. w.told[r] = 1
    <3>1. \A sd \in OverlayScenes : r \notin ToSet(w.lists[sd])
      BY <2>1
    <3>2. ~\E i \in 1 .. Len(w.stack) : r \in Owed(w.stack[i])
      OBVIOUS
    <3> QED BY <1>1, <1>9, <3>1, <3>2 DEF OnceBut
  <2>3. r \notin w.menus
    BY <1>1, <2>2 DEF Menus
  <2>4. p.menus = W.menus
    BY <1>6, <2>3
  <2>5. Others({"dialogs", "list", "before", "at", "focus", "forgot"}, W, p) /\ Alike(W, p)
        /\ p.dialogs = W.dialogs
    <3>1. /\ p.focus = W.focus /\ p.list = W.list /\ p.before = W.before /\ p.by = W.by
          /\ p.forgot = W.forgot /\ p.shown = W.shown /\ p.stack = W.stack /\ p.dialogs = W.dialogs
      BY <1>6 DEF Others, Fields
    <3>2. \A x \in Fields : p[x] = W[x]
      BY <1>6, <2>4 DEF Others, Fields
    <3> QED BY <1>6, <3>1, <3>2 DEF Others, Alike, Kind
  <2>6. Tidy(p, {})
    <3>1. p.dialogs \subseteq Recs(p)
      BY <1>7, <1>8, <2>5 DEF Good, Tidy, Menus, Recs
    <3> QED BY <1>5, <1>8, <2>5, <3>1, SameTidy DEF Good
  <2>7. Good(p, {}, FALSE)
    BY <1>8, <2>5, <2>6, GoodSame
  <2>8. OverlaysInv(Hide(p, sc, r))
    BY <1>1, <1>9, <2>7, HideGood
  <2> QED BY <2>8 DEF p, m, cb
<1>11. CASE w.by[sc][r] # NoRecord
  <2> DEFINE z == w.by[sc][r]
             l == w.lists[sc]
             i == w.index[sc][r]
             q == RemoveAt(l, i)
             a == Unlisted(W, sc, r)
             b == Unlisted(p, sc, r)
             t == [b EXCEPT !.told[r] = @ + 1]
             v == [t EXCEPT !.menus = @ \ {r}]
  <2>1. i \in 1 .. Len(l) /\ l[i] = z /\ Owner(w, z) = r /\ l \in Seq(Records)
    <3>1. l \in Seq(Records)
      BY <1>1
    <3> QED BY <1>1, <1>9, <1>11, <3>1 DEF Tables
  <2>2. z = r
    <3>1. z \in Recs(w)
      BY <1>1, <2>1, InSet DEF OnceBut
    <3>2. Kind(w, z) \in {"panel", "menu", "dialog", "palette"}
      BY <1>1, <3>1, KindsAre
    <3> QED BY <1>1, <1>9, <2>1, <3>1, <3>2 DEF Kinds
  <2>3. TakenOff(W, a, sc, r, q) /\ TakenOff(p, b, sc, r, q)
    <3>1. /\ W.index[sc][r] = i /\ W.lists[sc] = l /\ p.index[sc][r] = i /\ p.lists[sc] = l
      BY <1>7
    <3> HIDE DEF i, l, a, b
    <3>2. TakenOff(W, Unlisted(W, sc, r), sc, r, RemoveAt(W.lists[sc], W.index[sc][r]))
      BY <1>1, <1>5, <1>9, <2>1, <3>1, UnlistedFields
    <3>3. TakenOff(p, Unlisted(p, sc, r), sc, r, RemoveAt(p.lists[sc], p.index[sc][r]))
      BY <1>1, <1>5, <1>9, <2>1, <3>1, UnlistedFields
    <3> QED BY <3>1, <3>2, <3>3 DEF a, b
  <2>4. Tidy(a, {} \cup {r})
    <3>1. W.by[sc][r] = r
      BY <1>7, <2>2
    <3>2. r # NoRecord
      BY <1>11, <2>2
    <3> QED BY <1>1, <1>8, <1>9, <3>1, <3>2, UnlistedTidy DEF Good
  <2>5. Hide(p, sc, r) = Push(v, <<cb>>)
    <3>1. p.by[sc][r] = r /\ r # NoRecord
      BY <1>7, <1>11, <2>2
    <3>2. Hide(p, sc, r) = OnDismiss(b, r)
      BY <3>1 DEF Hide
    <3>3. Kind(b, r) = "menu"
      <4>1. b.shown = w.shown
        BY <1>7, <2>3 DEF TakenOff, Others, Fields
      <4> QED BY <4>1 DEF Kind
    <3> HIDE DEF b
    <3> QED BY <3>2, <3>3 DEF OnDismiss, cb
  <2> HIDE DEF a, b, q
  <2>6. Others({"menus"}, a, b) /\ b.menus = a.menus \ {r} /\ UiTypes(b) /\ UiTypes(a)
        /\ a.shown = w.shown
    <3>1. OwnersOf(p, q) = OwnersOf(W, q)
      BY <1>7 DEF OwnersOf, Owner
    <3>2. a.lists = b.lists /\ a.by = b.by /\ a.index = b.index
      BY <1>7, <2>3, <3>1 DEF TakenOff
    <3>3. /\ DOMAIN b = Fields
          /\ \A x \in Fields \ {"lists", "by", "index"} : a[x] = W[x] /\ b[x] = p[x]
      BY <2>3 DEF TakenOff, Others
    <3>4. \A x \in Fields \ {"menus"} : p[x] = W[x]
      BY <1>6 DEF Others
    <3>5. a["lists"] = b["lists"] /\ a["by"] = b["by"] /\ a["index"] = b["index"]
      BY <3>2
    <3>6. \A x \in Fields \ {"menus"} : b[x] = a[x]
      BY <3>3, <3>4, <3>5
    <3>7. a.menus = W.menus /\ b.menus = p.menus /\ a.shown = W.shown
      BY <3>3 DEF Fields
    <3> QED BY <1>6, <1>7, <2>3, <3>3, <3>6, <3>7 DEF Others, TakenOff
  <2>7. /\ UiTypes(v) /\ Others({"told", "menus"}, b, v) /\ v.told = [b.told EXCEPT ![r] = @ + 1]
        /\ v.menus = b.menus \ {r}
    BY <1>9, <2>6, ToldFields
  <2> HIDE DEF v
  <2>8. Others({"told", "menus"}, a, v) /\ v.told = [a.told EXCEPT ![r] = @ + 1] /\ v.menus = a.menus \ {r}
    <3>1. b.told = a.told
      BY <2>6 DEF Others, Fields
    <3> QED BY <2>6, <2>7, <3>1 DEF Others, Fields
  <2>9. Tidy(v, {})
    <3>1. Kind(a, r) = "menu"
      BY <2>6 DEF Kind
    <3>2. {} \cup {r} = {r} /\ {r} \ {r} = {}
      OBVIOUS
    <3>3. Tidy(a, {r}) /\ r \in {r}
      BY <2>4, <3>2
    <3>4. Tidy(v, {r} \ {r})
      BY <2>7, <2>8, <3>1, <3>3, ToldTidy
    <3> QED BY <3>2, <3>4
  <2>10. Alike(W, v)
    <3>1. /\ v.focus = W.focus /\ v.list = W.list /\ v.before = W.before /\ v.forgot = W.forgot
          /\ v.shown = W.shown /\ v.stack = W.stack
          /\ v.by = a.by
      BY <2>3, <2>8 DEF TakenOff, Others, Fields
    <3>2. a.by = [W.by EXCEPT ![sc] = [W.by[sc] EXCEPT ![r] = NoRecord]]
      BY <2>3 DEF TakenOff
    <3>3. \A sd \in OverlayScenes : a.by[sd][Palette] = W.by[sd][Palette]
      <4>1. W.by \in [OverlayScenes -> [Owners -> Records \cup {NoRecord}]] /\ Palette \in Owners
        BY <1>1, <1>7 DEF Owners
      <4> QED BY <1>1, <1>9, <3>2, <4>1
    <3> QED BY <3>1, <3>3 DEF Alike, Kind
  <2>11. Good(v, {}, FALSE)
    BY <1>8, <2>9, <2>10, GoodSame
  <2>12. Good(Push(v, <<cb>>), {}, FALSE)
    BY <1>4, <2>11, PushLoose
  <2>13. OverlaysInv(Hide(p, sc, r))
    BY <2>5, <2>12, GoodInv
  <2> QED BY <2>13 DEF p, m, cb
<1> QED BY <1>10, <1>11

(* The overlay r handles the event.                                        *)
LEMMA HandlesGood ==
    ASSUME NEW w, Good(w, {}, FALSE), w.stack = <<>>, NEW g \in RouteFrame,
           Good(Push(w, <<g>>), {}, FALSE), Rest(Push(w, <<g>>)) = w, NEW r \in Recs(w),
           \A sc \in OverlayScenes : r \in ToSet(w.lists[sc]) => sc = w.front,
           NEW v \in Handles(Push(w, <<g>>), r, g)
    PROVE  OverlaysInv(v)
<1> DEFINE u == Push(w, <<g>>)
           cb == ProgramCall("callback")
           handler == ProgramCall("handler")
           reopen == [call |-> "reopen", sc |-> w.front]
<1>1. UiTypes(w) /\ w.front \in OverlayScenes /\ g \in Frame /\ g.call = "route"
  BY DEF Good, Tidy, UiTypes, Frame, RouteFrame
<1>2. u.stack = <<g>> \o w.stack /\ Others({"stack"}, w, u) /\ UiTypes(u)
  <2>1. <<g>> \in Seq(Frame)
    BY <1>1
  <2> QED BY <1>1, <2>1, PushFields
<1>3. u.front = w.front /\ u.shown = w.shown /\ Kind(u, r) = Kind(w, r)
  BY <1>2 DEF Others, Fields, Kind
<1>4. Good(u, {}, FALSE) /\ Rest(u) = w
  OBVIOUS
<1>5. /\ Kind(u, r) = "panel"   => v = Push(u, <<handler>>)
      /\ Kind(u, r) = "dialog"  => v \in {w, u}
      /\ Kind(u, r) = "menu"    => \/ v \in {w, u}
                                   \/ v = Hide(Push([w EXCEPT !.menus = @ \ {r}], <<cb>>), w.front, r)
      /\ Kind(u, r) = "palette" => \/ v \in {w, u}
                                   \/ v = HidePalette(Push(w, <<cb>>))
                                   \/ v = Push(w, <<cb, reopen>>)
  <2> HIDE DEF u, cb
  <2>1. v \in Handles(u, r, g)
    BY DEF u
  <2> QED BY <1>3, <1>4, <2>1 DEF Handles, cb
<1>6. Kind(u, r) \in {"panel", "menu", "dialog", "palette"}
  <2>1. Kind(w, r) \in {"panel", "menu", "dialog", "palette"}
    BY <1>1, KindsAre
  <2> QED BY <1>3, <2>1
<1> HIDE DEF u
<1>7. OverlaysInv(w) /\ OverlaysInv(u)
  BY <1>4, GoodInv
<1>8. OverlaysInv(Push(u, <<handler>>))
  <2>1. u.stack # <<>> /\ u.stack[1].call = "route"
    BY <1>1, <1>2
  <2>2. handler \in Frame /\ handler.call = "handler"
    BY DEF ProgramCall, Frame
  <2> HIDE DEF handler
  <2>3. Safe(u, handler) /\ Owed(handler) = {} /\ ~ShowsPalette(handler)
    BY <2>1, <2>2 DEF Safe, Outermost, Owed, ShowsPalette
  <2>4. Good(Push(u, <<handler>>), {} \ Owed(handler), FALSE)
    BY <1>4, <2>2, <2>3, PushGood
  <2>5. Good(Push(u, <<handler>>), {}, FALSE)
    BY <2>3, <2>4
  <2> QED BY <2>5, GoodInv
<1>9. ASSUME Kind(u, r) = "menu"
      PROVE  OverlaysInv(Hide(Push([w EXCEPT !.menus = @ \ {r}], <<cb>>), w.front, r))
  BY <1>3, <1>9, MenuGone
<1>10. cb \in Loose /\ reopen \in Loose /\ cb \in Frame /\ reopen \in Frame
  BY <1>1, LooseFrames DEF Loose
<1> HIDE DEF cb, reopen
<1>11. OverlaysInv(HidePalette(Push(w, <<cb>>)))
  <2>1. Good(Push(w, <<cb>>), {}, FALSE)
    BY <1>10, PushLoose
  <2> QED BY <2>1, HidePaletteGood
<1>12. OverlaysInv(Push(w, <<cb, reopen>>))
  <2>1. Push(w, <<cb, reopen>>) = Push(Push(w, <<reopen>>), <<cb>>)
    BY <1>1, <1>10, PushTwo
  <2>2. Good(Push(w, <<reopen>>), {}, FALSE)
    BY <1>10, PushLoose
  <2>3. Good(Push(Push(w, <<reopen>>), <<cb>>), {}, FALSE)
    BY <1>10, <2>2, PushLoose
  <2> QED BY <2>1, <2>3, GoodInv
<1> QED BY <1>5, <1>6, <1>7, <1>8, <1>9, <1>11, <1>12

(* One overlay of the routing.                                             *)
LEMMA RouteStepKeeps ==
    ASSUME OverlaysInv(ui), RouteStep
    PROVE  OverlaysInv(ui')
<1> DEFINE f == Head(ui.stack)
           w == Rest(ui)
           q == IF f.live THEN ui.lists[f.sc] ELSE f.over
           Now(g) == [ui EXCEPT !.stack[1] = g]
           rest == [f EXCEPT !.todo = Tail(@)]
           r == q[f.at]
           down == [f EXCEPT !.at = @ - 1,
                      !.seen = IF Kind(ui, r) # "dialog" THEN Append(@, Owner(ui, r)) ELSE @]
           waits == [down EXCEPT !.passed = Append(@, r)]
           sees == [down EXCEPT !.inside = f.inside \/ r \in f.hit, !.passed = <<>>,
                                !.todo = Append(f.passed, r)]
<1>1. /\ ui.stack # <<>> /\ f.call = "route"
      /\ \/ f.todo # <<>> /\ ui' \in Handles(Now(rest), Head(f.todo), rest)
         \/ /\ f.at \in 1 .. Len(q) /\ (ui' = Now(waits) \/ ui' = Now(sees))
         \/ ui' = Push(w, <<Each(f.sc, f.seen)>>)
         \/ ui' = Focused(w, f.then)
  BY DEF RouteStep, Running
<1>2. /\ Good(w, {}, FALSE) /\ w.stack = <<>> /\ Others({"stack"}, ui, w) /\ f \in RouteFrame
      /\ Reaching(ui, f) /\ ui.stack = <<f>>
      /\ \A g \in RouteFrame : /\ Now(g) = Push(w, <<g>>)
                               /\ Rest(Push(w, <<g>>)) = w
  BY <1>1, NowGood
<1>3. /\ w.lists = ui.lists /\ w.shown = ui.shown /\ w.front = ui.front /\ Recs(w) = Recs(ui)
      /\ UiTypes(w) /\ OnceBut(w, {}) /\ w.lists \in [OverlayScenes -> Seq(Records)]
  <2>1. w.lists = ui.lists /\ w.shown = ui.shown /\ w.front = ui.front
    BY <1>2 DEF Others, Fields
  <2> QED BY <1>2, <2>1 DEF Recs, Good, Tidy, UiTypes
<1> HIDE DEF f, w, Now
<1>4. /\ f.sc \in OverlayScenes /\ f.todo \in Seq(Records) /\ f.passed \in Seq(Records)
      /\ f.over \in Seq(Records) /\ f.seen \in Seq(Owners) /\ f.then \in {NoFocus, Control}
      /\ f.live \in BOOLEAN
  BY <1>2 DEF RouteFrame
<1>5. /\ f.live => f.sc = w.front
      /\ \A x \in Reaches(f) :
           /\ x \in Recs(w)
           /\ \A sc \in OverlayScenes : x \in ToSet(w.lists[sc]) => f.live /\ sc = f.sc
  BY <1>2, <1>3 DEF Reaching
<1>6. ASSUME f.todo # <<>>, ui' \in Handles(Now(rest), Head(f.todo), rest)
      PROVE  OverlaysInv(ui')
  <2>1. /\ rest \in RouteFrame /\ rest.live = f.live /\ rest.sc = f.sc /\ rest.todo = Tail(f.todo)
        /\ rest.passed = f.passed /\ rest.over = f.over
    <3>1. Tail(f.todo) \in Seq(Records)
      BY <1>4, <1>6
    <3> QED BY <1>2, <3>1 DEF RouteFrame
  <2> HIDE DEF rest
  <2>2. Head(f.todo) \in ToSet(f.todo) /\ ToSet(Tail(f.todo)) \subseteq ToSet(f.todo)
    <3> DEFINE s == f.todo
               t == Tail(s)
    <3>1. /\ t \in Seq(Records) /\ Len(s) \in Nat \ {0} /\ Len(t) = Len(s) - 1
          /\ Head(s) = s[1]
          /\ \A i \in 1 .. Len(t) : i + 1 \in 1 .. Len(s) /\ t[i] = s[i + 1]
      BY <1>4, <1>6, RestPlaces
    <3>2. s \in Seq(Records)
      BY <1>4
    <3> HIDE DEF s, t
    <3>3. /\ \A i \in 1 .. Len(s) : s[i] \in ToSet(s)
          /\ \A y \in ToSet(t) : \E i \in 1 .. Len(t) : t[i] = y
      BY <3>1, <3>2, InSet
    <3>4. Head(s) \in ToSet(s)
      BY <3>1, <3>3
    <3>5. ToSet(t) \subseteq ToSet(s)
      <4> SUFFICES ASSUME NEW y \in ToSet(t) PROVE y \in ToSet(s)
        OBVIOUS
      <4>1. PICK i \in 1 .. Len(t) : t[i] = y
        BY <3>3
      <4>2. i + 1 \in 1 .. Len(s) /\ s[i + 1] = y
        BY <3>1, <4>1
      <4> QED BY <3>3, <4>2
    <3> QED BY <3>4, <3>5 DEF s, t
  <2>3. Head(f.todo) \in Reaches(f) /\ Reaches(rest) \subseteq Reaches(f)
    BY <2>1, <2>2 DEF Reaches
  <2>4. Good(Push(w, <<rest>>), {}, FALSE)
    BY <1>2, <1>5, <2>1, <2>3, RouteGood
  <2>5. Now(rest) = Push(w, <<rest>>) /\ Rest(Push(w, <<rest>>)) = w
    BY <1>2, <2>1
  <2>6. ui' \in Handles(Push(w, <<rest>>), Head(f.todo), rest)
    BY <1>6, <2>5
  <2>7. Head(f.todo) \in Recs(w) /\ \A sc \in OverlayScenes : Head(f.todo) \in ToSet(w.lists[sc]) => sc = w.front
    BY <1>5, <2>3
  <2> QED BY <1>2, <2>1, <2>4, <2>5, <2>6, <2>7, HandlesGood
<1>7. ASSUME f.at \in 1 .. Len(q), ui' = Now(waits) \/ ui' = Now(sees)
      PROVE  OverlaysInv(ui')
  <2>1. q \in Seq(Records) /\ r \in ToSet(q) /\ r \in Records
    <3>1. q \in Seq(Records)
      BY <1>3, <1>4
    <3> HIDE DEF q
    <3> QED BY <1>7, <3>1, InSet
  <2>2. /\ r \in Recs(w)
        /\ \A sc \in OverlayScenes : r \in ToSet(w.lists[sc]) => f.live /\ sc = f.sc
    <3>1. CASE f.live
      <4>1. r \in ToSet(w.lists[f.sc])
        BY <1>3, <2>1, <3>1
      <4> HIDE DEF r
      <4> QED BY <1>3, <1>4, <3>1, <4>1 DEF OnceBut
    <3>2. CASE ~f.live
      <4>1. r \in Reaches(f)
        BY <2>1, <3>2 DEF Reaches
      <4> HIDE DEF r
      <4> QED BY <1>5, <4>1
    <3> QED BY <3>1, <3>2
  <2>3. Owner(ui, r) \in Owners
    <3> HIDE DEF r
    <3>1. Owner(w, r) \in Owners
      BY <1>3, <2>2, KindsAre
    <3> QED BY <1>3, <3>1 DEF Owner
  <2> HIDE DEF r, q
  <2>4. /\ down \in RouteFrame /\ down.live = f.live /\ down.sc = f.sc /\ down.todo = f.todo
        /\ down.passed = f.passed /\ down.over = f.over
    <3> DEFINE n == f.at - 1
               s == IF Kind(ui, r) # "dialog" THEN Append(f.seen, Owner(ui, r)) ELSE f.seen
    <3>1. n \in Int /\ s \in Seq(Owners)
      BY <1>2, <1>4, <2>3 DEF RouteFrame
    <3>2. down = [f EXCEPT !.at = n, !.seen = s]
      OBVIOUS
    <3> HIDE DEF n, s, down
    <3> QED BY <1>2, <3>1, <3>2 DEF RouteFrame
  <2> HIDE DEF down
  <2>5. /\ Append(f.passed, r) \in Seq(Records) /\ ToSet(Append(f.passed, r)) = ToSet(f.passed) \cup {r}
        /\ <<>> \in Seq(Records) /\ ToSet(<<>>) = {}
    <3>1. ToSet(<<>>) = {} /\ <<>> \in Seq(Records)
      BY DEF ToSet
    <3> QED BY <1>4, <2>1, <3>1, AppendSet
  <2>6. /\ waits \in RouteFrame /\ waits.live = f.live /\ waits.sc = f.sc
        /\ Reaches(waits) \subseteq Reaches(f) \cup {r}
    <3> DEFINE p == Append(f.passed, r)
    <3>1. p \in Seq(Records) /\ ToSet(p) = ToSet(f.passed) \cup {r}
      BY <2>5
    <3>2. waits = [down EXCEPT !.passed = p]
      BY <2>4
    <3> HIDE DEF p, waits
    <3>3. /\ waits \in RouteFrame /\ waits.live = f.live /\ waits.sc = f.sc /\ waits.passed = p
          /\ waits.todo = f.todo /\ waits.over = f.over
      BY <2>4, <3>1, <3>2 DEF RouteFrame
    <3> QED BY <3>1, <3>3 DEF Reaches
  <2>7. /\ sees \in RouteFrame /\ sees.live = f.live /\ sees.sc = f.sc
        /\ Reaches(sees) \subseteq Reaches(f) \cup {r}
    <3> DEFINE p == Append(f.passed, r)
               b == f.inside \/ r \in f.hit
    <3>1. p \in Seq(Records) /\ ToSet(p) = ToSet(f.passed) \cup {r}
      BY <2>5
    <3>2. b \in BOOLEAN
      BY <1>2 DEF RouteFrame
    <3>3. sees = [down EXCEPT !.inside = b, !.passed = <<>>, !.todo = p]
      OBVIOUS
    <3> HIDE DEF p, b, sees
    <3>4. /\ sees \in RouteFrame /\ sees.live = f.live /\ sees.sc = f.sc /\ sees.passed = <<>>
          /\ sees.todo = p /\ sees.over = f.over
      BY <2>4, <2>5, <3>1, <3>2, <3>3 DEF RouteFrame
    <3> QED BY <2>5, <3>1, <3>4 DEF Reaches
  <2> HIDE DEF waits, sees
  <2>8. ASSUME NEW g \in RouteFrame, g.live = f.live, g.sc = f.sc, Reaches(g) \subseteq Reaches(f) \cup {r}
        PROVE  OverlaysInv(Now(g))
    <3>1. \A x \in Reaches(g) :
             /\ x \in Recs(w)
             /\ \A sc \in OverlayScenes : x \in ToSet(w.lists[sc]) => g.live /\ sc = g.sc
      BY <1>5, <2>2, <2>8
    <3>2. Good(Push(w, <<g>>), {}, FALSE)
      BY <1>2, <1>5, <2>8, <3>1, RouteGood
    <3>3. Now(g) = Push(w, <<g>>)
      BY <1>2
    <3> QED BY <3>2, <3>3, GoodInv
  <2> QED BY <1>7, <2>6, <2>7, <2>8
<1>8. OverlaysInv(Push(w, <<Each(f.sc, f.seen)>>))
  <2>1. Each(f.sc, f.seen) \in Loose
    BY <1>4, LooseFrames
  <2>2. Good(Push(w, <<Each(f.sc, f.seen)>>), {}, FALSE)
    BY <1>2, <2>1, PushLoose
  <2> QED BY <2>2, GoodInv
<1>9. OverlaysInv(Focused(w, f.then))
  BY <1>2, <1>4, FocusedGood
<1> QED BY <1>1, <1>6, <1>7, <1>8, <1>9

-----------------------------------------------------------------------------
(* Overlays: the theorem.                                                  *)

LEMMA OverlaysInitInv ==
    ASSUME OverlaysInit
    PROVE  OverlaysInv(ui)
<1>1. PICK s \in OverlayScenes :
        ui = [lists |-> [sc \in OverlayScenes |-> <<>>],
              by |-> [sc \in OverlayScenes |-> [o \in Owners |-> NoRecord]],
              index |-> [sc \in OverlayScenes |-> [o \in Owners |-> 0]],
              menus |-> {}, dialogs |-> {}, list |-> NoRecord, before |-> NoFocus,
              at |-> s, focus |-> NoFocus, front |-> s, stack |-> <<>>,
              shown |-> <<>>, told |-> [r \in Records |-> 0], reshown |-> {}, forgot |-> FALSE]
  BY DEF OverlaysInit
<1>2. /\ ui.lists = [sc \in OverlayScenes |-> <<>>]
      /\ ui.by = [sc \in OverlayScenes |-> [o \in Owners |-> NoRecord]]
      /\ ui.index = [sc \in OverlayScenes |-> [o \in Owners |-> 0]]
      /\ ui.menus = {} /\ ui.dialogs = {} /\ ui.list = NoRecord /\ ui.before = NoFocus
      /\ ui.at = s /\ ui.focus = NoFocus /\ ui.front = s /\ ui.stack = <<>>
      /\ ui.shown = <<>> /\ ui.told = [r \in Records |-> 0] /\ ui.reshown = {} /\ ui.forgot = FALSE
      /\ DOMAIN ui = Fields
  BY <1>1 DEF Fields
<1>3. /\ \A sc \in OverlayScenes : ui.lists[sc] = <<>>
      /\ Recs(ui) = {} /\ Len(ui.stack) = 0 /\ Len(ui.shown) = 0 /\ ToSet(<<>>) = {} /\ IsInjective(<<>>)
  BY <1>2 DEF Recs, ToSet, IsInjective
<1>4. UiTypes(ui)
  <2>1. /\ ui.lists \in [OverlayScenes -> Seq(Records)]
        /\ ui.by \in [OverlayScenes -> [Owners -> Records \cup {NoRecord}]]
        /\ ui.index \in [OverlayScenes -> [Owners -> Nat]]
        /\ ui.told \in [Records -> Nat]
    BY <1>2
  <2>2. ui.list \in Nat /\ ui.before \in Int /\ ui.focus \in Int
    BY <1>2 DEF NoRecord, NoFocus
  <2>3. /\ ui.stack \in Seq(Frame)
        /\ ui.shown \in Seq([kind : {"panel", "menu", "dialog", "palette"}, owner : Owners])
        /\ Len(ui.shown) <= MaxShown
    BY <1>2, <1>3, OverlaysAssumption
  <2> QED BY <1>2, <2>1, <2>2, <2>3 DEF UiTypes
<1>5. Kinds(ui) /\ Menus(ui) /\ Routes(ui)
  BY <1>2, <1>3 DEF Kinds, Menus, Routes
<1>6. Tables(ui)
  <2>1. \A sc \in OverlayScenes, o \in Owners : /\ ui.by[sc][o] = NoRecord /\ ui.index[sc][o] = 0
                                               /\ Len(ui.lists[sc]) = 0
    BY <1>2, <1>3
  <2> QED BY <2>1 DEF Tables
<1>7. OnceBut(ui, {})
  BY <1>2, <1>3 DEF OnceBut
<1>8. Shape(ui)
  BY <1>3 DEF Shape
<1>9. Focus(ui)
  BY <1>2, <1>3 DEF Focus, NoFocus
<1> QED BY <1>4, <1>5, <1>6, <1>7, <1>8, <1>9 DEF OverlaysInv, Tidy

LEMMA OverlaysNextKeeps ==
    ASSUME OverlaysInv(ui), [OverlaysNext]_overlayVars
    PROVE  OverlaysInv(ui')
<1>1. CASE UNCHANGED overlayVars
  BY <1>1 DEF overlayVars
<1>2. CASE OverlaysNext
  BY <1>2, ShowOverlayKeeps, OpenPaletteKeeps, HideOverlayKeeps, MoveFocusKeeps, SwitchKeeps,
     EscapeKeeps, OtherEventKeeps, ClickKeeps, RouteClickKeeps, RouteStepKeeps, ReturnsKeeps,
     ContinueStep DEF OverlaysNext
<1> QED BY <1>1, <1>2

LEMMA OverlaysInvSafe ==
    ASSUME OverlaysInv(ui)
    PROVE  OverlaysSafe
<1>1. /\ UiTypes(ui) /\ Tables(ui) /\ OnceBut(ui, {}) /\ Menus(ui) /\ Focus(ui)
      /\ ui.lists \in [OverlayScenes -> Seq(Records)] /\ ui.stack \in Seq(Frame)
      /\ ui.by \in [OverlayScenes -> [Owners -> Records \cup {NoRecord}]]
      /\ ui.index \in [OverlayScenes -> [Owners -> Nat]]
  BY DEF OverlaysInv, Tidy, UiTypes
<1>2. TablesAgree
  <2> SUFFICES ASSUME NEW sc \in OverlayScenes, NEW o \in Owners \ ui.reshown
               PROVE  LET q == ui.lists[sc]
                          places == {i \in DOMAIN q : Owner(ui, q[i]) = o}
                      IN IF places = {} THEN ui.by[sc][o] = NoRecord /\ ui.index[sc][o] = 0
                         ELSE /\ places = {ui.index[sc][o]}
                              /\ ui.by[sc][o] = q[ui.index[sc][o]]
    BY DEF TablesAgree
  <2> DEFINE q == ui.lists[sc]
             places == {i \in DOMAIN q : Owner(ui, q[i]) = o}
             r == ui.by[sc][o]
             n == ui.index[sc][o]
  <2>1. q \in Seq(Records) /\ DOMAIN q = 1 .. Len(q)
    BY <1>1
  <2>2. /\ r # NoRecord => n \in 1 .. Len(q) /\ q[n] = r /\ Owner(ui, r) = o
        /\ r = NoRecord => n = 0 /\ \A k \in 1 .. Len(q) : Owner(ui, q[k]) # o
        /\ r # NoRecord => \A k \in 1 .. Len(q) : Owner(ui, q[k]) = o => k = n
    BY <1>1 DEF Tables
  <2> HIDE DEF q, r, n
  <2>3. CASE r = NoRecord
    <3>1. places = {}
      BY <2>1, <2>2, <2>3
    <3> QED BY <2>2, <2>3, <3>1 DEF q, r, n
  <2>4. CASE r # NoRecord
    <3>1. places = {n} /\ r = q[n]
      BY <2>1, <2>2, <2>4
    <3> HIDE DEF places
    <3>2. places # {}
      BY <3>1
    <3> QED BY <3>1, <3>2 DEF places, q, r, n
  <2> QED BY <2>3, <2>4
<1>3. ASSUME NEW q \in Seq(Records), NEW r PROVE Contains(q, r) <=> r \in ToSet(q)
  BY <1>3 DEF Contains, ToSet
<1>4. DismissedOnce
  <2> SUFFICES ASSUME NEW r \in 1 .. Len(ui.shown)
               PROVE  LET Waits(f) == \/ f.call = "show" /\ f.record = r
                                      \/ f.call = "callbacks" /\ Contains(f.todo, r)
                      IN ui.told[r] = IF \/ \E sc \in OverlayScenes : Contains(ui.lists[sc], r)
                                         \/ \E i \in DOMAIN ui.stack : Waits(ui.stack[i])
                                      THEN 0 ELSE 1
    BY DEF DismissedOnce
  <2>1. r \in Recs(ui) /\ r \in Records
    BY <1>1, RecsAre DEF Recs
  <2>2. DOMAIN ui.stack = 1 .. Len(ui.stack)
    BY <1>1
  <2>3. \A sc \in OverlayScenes : Contains(ui.lists[sc], r) <=> r \in ToSet(ui.lists[sc])
    BY <1>1, <1>3
  <2>4. ASSUME NEW i \in 1 .. Len(ui.stack)
        PROVE  (\/ ui.stack[i].call = "show" /\ ui.stack[i].record = r
                \/ ui.stack[i].call = "callbacks" /\ Contains(ui.stack[i].todo, r))
               <=> r \in Owed(ui.stack[i])
    <3> DEFINE f == ui.stack[i]
    <3>1. f \in Frame
      BY <1>1
    <3> HIDE DEF f
    <3>2. f.call = "callbacks" => f.todo \in Seq(Records)
      BY <3>1 DEF Frame, RouteFrame
    <3>3. f.call = "callbacks" => (Contains(f.todo, r) <=> r \in ToSet(f.todo))
      BY <1>3, <3>2
    <3>4. (\/ f.call = "show" /\ f.record = r
           \/ f.call = "callbacks" /\ Contains(f.todo, r)) <=> r \in Owed(f)
      BY <3>3 DEF Owed
    <3> QED BY <3>4 DEF f
  <2>5. ui.told[r] = IF \/ \E sc \in OverlayScenes : r \in ToSet(ui.lists[sc])
                        \/ \E i \in 1 .. Len(ui.stack) : r \in Owed(ui.stack[i])
                     THEN 0 ELSE 1
    BY <1>1, <2>1 DEF OnceBut
  <2> QED BY <2>2, <2>3, <2>4, <2>5
<1>5. MenusAgree
  BY <1>1 DEF MenusAgree, Menus, Recs
<1>6. PaletteReturnsFocus
  BY <1>1 DEF PaletteReturnsFocus, Focus, Open
<1> QED BY <1>2, <1>4, <1>5, <1>6 DEF OverlaysSafe

(* Whatever dismissals, handlers, actions, changes of focus and switches   *)
(* of scene show and hide while an event is routed: the tables by owner    *)
(* and by place say the same as the list of records, each on_dismiss is    *)
(* called once, a menu is open to its manager until then, and the focus is *)
(* not left on the list of a palette that is gone.                         *)
THEOREM OverlaysKept == OverlaysSpec => []OverlaysSafe
<1>1. OverlaysInit => OverlaysInv(ui)
  BY OverlaysInitInv
<1>2. OverlaysInv(ui) /\ [OverlaysNext]_overlayVars => OverlaysInv(ui)'
  BY OverlaysNextKeeps
<1>3. OverlaysInv(ui) => OverlaysSafe
  BY OverlaysInvSafe
<1> QED BY <1>1, <1>2, <1>3, PTL DEF OverlaysSpec
=============================================================================
