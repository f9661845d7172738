-------------------------------- MODULE Timers -------------------------------
(***************************************************************************)
(* gui_do/scheduling/timers.py: repeating and one-shot timers driven by    *)
(* update(dt) once per frame.                                              *)
(*                                                                         *)
(* update() first advances every timer and collects the callbacks that are *)
(* due, then removes the expired one-shots, and only then runs the         *)
(* callbacks, one after the other.  A callback is program code: it may     *)
(* register, remove and reschedule timers, and it may raise, which ends    *)
(* update() with the callbacks after it not run.                           *)
(*                                                                         *)
(* Times are integers: the float rounding of the accumulator is left out.  *)
(* update() called from a callback is left out.                            *)
(***************************************************************************)
EXTENDS SequencesExt, SequenceFilter

CONSTANTS
  Ids,        \* timer ids
  Intervals,  \* the intervals and delays the program uses
  Steps,      \* the dt of a frame
  Raising,    \* whether callbacks may raise
  None,       \* no timer, no callback
  MaxAge      \* bound of the model: ages are not counted beyond it

ASSUME TimersAssumption ==
  /\ Intervals \subseteq Nat \ {0}
  /\ Steps \subseteq Nat \ {0}
  /\ Raising \in BOOLEAN
  /\ None \notin Ids
  /\ MaxAge \in Nat

VARIABLES
  timers,   \* _timers
  order,    \* the order of the keys of the dictionary _timers
  batch,    \* the callbacks update() collected and has not run yet
  current   \* the callback update() is running, None between frames

timerVars == <<timers, order, batch, current>>

(* `age`, `fires` and `moved` are history: the time since the timer was    *)
(* registered, how often it came due, and whether it was rescheduled.      *)
Timer == [interval : Intervals, elapsed : Nat, once : BOOLEAN,
          age : 0 .. MaxAge, fires : Nat, moved : BOOLEAN]

(* A collected callback.  `cancelled` is history: its id was removed or    *)
(* registered anew after update() collected it.                            *)
Callback == [id : Ids, once : BOOLEAN, cancelled : BOOLEAN]

ASSUME NoneAssumption == None \notin Timer \cup Callback

TimersTypeOK ==
  /\ timers \in [Ids -> Timer \cup {None}]
  /\ IsInjective(order)
  /\ ToSet(order) = {id \in Ids : timers[id] # None}
  /\ batch \in Seq(Callback)
  /\ current \in Callback \cup {None}

TimersInit ==
  /\ timers = [id \in Ids |-> None]
  /\ order = <<>>
  /\ batch = <<>>
  /\ current = None

InUpdate == current # None \/ batch # <<>>

CancelCollected(ids) ==
  [i \in DOMAIN batch |->
     [batch[i] EXCEPT !.cancelled = @ \/ batch[i].id \in ids]]

Fresh(interval, once) ==
  [interval |-> interval, elapsed |-> 0, once |-> once,
   age |-> 0, fires |-> 0, moved |-> FALSE]

(* Mutant: the key is appended although it is in the dictionary already.   *)
RegisterLast(id, interval, once) ==
  /\ timers' = [timers EXCEPT ![id] = Fresh(interval, once)]
  /\ order' = Append(order, id)
  /\ batch' = CancelCollected({id})
  /\ UNCHANGED current

(* Registering under a known id replaces the timer and keeps the place of  *)
(* the key in the dictionary.                                              *)
Register(id, interval, once) ==
  /\ timers' = [timers EXCEPT ![id] = Fresh(interval, once)]
  /\ order' = IF timers[id] = None THEN Append(order, id) ELSE order
  /\ batch' = CancelCollected({id})
  /\ UNCHANGED current

AddTimer(id, interval) == Register(id, interval, FALSE)

AddOnce(id, delay) == Register(id, delay, TRUE)

Unregister(ids) ==
  /\ timers' = [id \in Ids |-> IF id \in ids THEN None ELSE timers[id]]
  /\ order' = Excluding(order, ids)
  /\ batch' = CancelCollected(ids)
  /\ UNCHANGED current

RemoveTimer(id) == Unregister({id})

CancelAll == Unregister(Ids)

Reschedule(id, interval) ==
  /\ timers[id] # None
  /\ timers' = [timers EXCEPT ![id].interval = interval,
                              ![id].moved = TRUE,
                              ![id].age = 0, ![id].fires = 0]
  /\ UNCHANGED <<order, batch, current>>

(* How often timer t comes due when dt passes, and what is left of t.      *)
Due(t, dt) ==
  IF t.once THEN IF t.elapsed + dt >= t.interval THEN 1 ELSE 0
  ELSE (t.elapsed + dt) \div t.interval

Advanced(t, dt) ==
  LET counted == ~t.moved /\ t.age + dt <= MaxAge
  IN  [t EXCEPT !.elapsed = @ + dt - (IF t.once THEN 0 ELSE Due(t, dt) * t.interval),
                !.age = IF counted THEN @ + dt ELSE MaxAge,
                !.fires = IF counted THEN @ + Due(t, dt) ELSE 0]

Collected(dt) ==
  FlattenSeq([i \in DOMAIN order |->
    LET t == timers[order[i]] IN
      [k \in 1 .. Due(t, dt) |->
         [id |-> order[i], once |-> t.once, cancelled |-> FALSE]]])

Expired(dt) ==
  {id \in ToSet(order) : timers[id].once /\ Due(timers[id], dt) > 0}

(* update() up to the first callback: everything before it is one step, as *)
(* no program code runs in between.                                        *)
UpdateStart(dt) ==
  /\ ~InUpdate
  /\ batch' = Collected(dt)
  /\ timers' = [id \in Ids |->
       IF timers[id] = None \/ id \in Expired(dt) THEN None
       ELSE Advanced(timers[id], dt)]
  /\ order' = Excluding(order, Expired(dt))
  /\ UNCHANGED current

CallbackStart ==
  /\ current = None
  /\ batch # <<>>
  /\ current' = Head(batch)
  /\ batch' = Tail(batch)
  /\ UNCHANGED <<timers, order>>

(* Mutant: an expired one-shot is removed when its callback has run.       *)
CallbackReturnExpiring ==
  /\ current # None
  /\ IF current.once THEN
       /\ timers' = [timers EXCEPT ![current.id] = None]
       /\ order' = Excluding(order, {current.id})
     ELSE UNCHANGED <<timers, order>>
  /\ current' = None
  /\ UNCHANGED batch

CallbackReturn ==
  /\ current # None
  /\ current' = None
  /\ UNCHANGED <<timers, order, batch>>

CallbackRaise ==
  /\ Raising
  /\ current # None
  /\ current' = None
  /\ batch' = <<>>
  /\ UNCHANGED <<timers, order>>

(* Between frames no time is lost and no firing is skipped: what passed    *)
(* since a timer was registered is what update() handed out in whole       *)
(* intervals plus the remainder, and a whole interval never stays behind.  *)
NoDrift ==
  \A id \in Ids :
    LET t == timers[id] IN
      t # None => (t.moved \/ t.age = MaxAge \/
                     /\ t.age = t.fires * t.interval + t.elapsed
                     /\ t.elapsed < t.interval)

(* A one-shot timer is called at most once: while its callback waits to be *)
(* run it is no longer registered, unless it was armed again, which the    *)
(* removal of the expired timers must not undo.                            *)
OneShotOnce ==
  \A i \in DOMAIN batch :
    batch[i].once /\ ~batch[i].cancelled =>
      /\ timers[batch[i].id] = None
      /\ \A j \in DOMAIN batch : batch[j].id = batch[i].id => j = i
=============================================================================
