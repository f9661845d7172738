-------------------------- MODULE RateLimitersProofs --------------------------
(***************************************************************************)
(* Proofs about RateLimiters and the Timers it extends: the types, the     *)
(* timers' accounts, and what debouncer and throttler promise.             *)
(*                                                                         *)
(* The inductive invariant adds to the types and to the invariants that    *)
(* TLC checks what the order of the steps in update() makes true: a due    *)
(* one-shot is collected once and is no longer registered (Registration,   *)
(* Collection), what is pending is exactly as old as its timer (Pending),  *)
(* and the throttler's timer is never older than its last invocation       *)
(* (Spaced).                                                               *)
(***************************************************************************)
EXTENDS RateLimiters, SequenceLemmas

(* What is registered: the keys of the dictionary are the timers', each    *)
(* once, the limiters' timers are one-shots of one Delay, and no timer has *)
(* lost time.                                                              *)
Registration ==
    /\ timers \in [Ids -> Timer \cup {None}]
    /\ order \in Seq(Ids) /\ IsInjective(order)
    /\ ToSet(order) = {id \in Ids : timers[id] # None}
    /\ \A id \in {D, T} : timers[id] # None => timers[id].once /\ timers[id].interval = Delay
    /\ NoDrift

(* What is collected: of a one-shot, as the limiters' timers are, only one *)
(* callback, and meanwhile it is not registered unless it was cancelled.   *)
Collection ==
    /\ batch \in Seq(Callback)
    /\ \A i \in DOMAIN batch :
          /\ batch[i].id \in {D, T} => batch[i].once
          /\ batch[i].once => \A j \in DOMAIN batch : batch[j].id = batch[i].id => j = i
          /\ batch[i].once /\ ~batch[i].cancelled => timers[batch[i].id] = None

(* What is pending is the last call(); its timer is as old as that call.   *)
Pending ==
    /\ pending => args = latest /\ latest \in DebounceArgs
    /\ late \/ ( /\ IsCollected(D) => timers[D] = None /\ idle = Delay
                 /\ WillEnd(D) => pending
                 /\ timers[D] # None => idle = timers[D].elapsed /\ idle < Delay )

(* A callback of the limiter is running.                                   *)
Running(by) == \E i \in DOMAIN calls : calls[i].by = by

(* The end of the interval is never nearer than a Delay after the last     *)
(* invocation, and out of an interval that Delay is over.                  *)
Spaced ==
    late \/ failed \/
      /\ ~locked => since = Delay
      /\ IsCollected(T) => since = Delay
      /\ timers[T] # None /\ ~Running(T) => timers[T].elapsed <= since

(* The types of all but the timers.                                        *)
LimiterTypes ==
    /\ pending \in BOOLEAN /\ late \in BOOLEAN /\ failed \in BOOLEAN /\ locked \in BOOLEAN
    /\ args \in Args \cup {None} /\ latest \in Args \cup {None} /\ queued \in Args \cup {None}
    /\ leading \in Edges /\ idle \in 0 .. Delay /\ since \in 0 .. Delay
    /\ calls \in Seq(Call) /\ current \in Callback \cup {None}

IInv == Registration /\ Collection /\ LimiterTypes /\ Pending /\ Spaced /\ LimitersAreArmed

-----------------------------------------------------------------------------
(* Sequences of the timers.                                                *)

(* The rest of a batch: its entries are those after the first.             *)
LEMMA RestOfBatch ==
    ASSUME NEW b \in Seq(Callback), b # <<>>
    PROVE  /\ Head(b) = b[1] /\ Head(b) \in Callback
           /\ Tail(b) \in Seq(Callback) /\ Len(b) \in Nat \ {0}
           /\ DOMAIN b = 1 .. Len(b) /\ DOMAIN Tail(b) = 1 .. Len(b) - 1
           /\ \A i \in DOMAIN Tail(b) : Tail(b)[i] = b[i + 1] /\ i + 1 \in DOMAIN b
  BY HeadTailProperties

(* Cancelling changes nothing but the history of the entries.              *)
LEMMA CancelKeeps ==
    ASSUME batch \in Seq(Callback), NEW ids \in SUBSET Ids
    PROVE  /\ CancelCollected(ids) \in Seq(Callback)
           /\ DOMAIN CancelCollected(ids) = DOMAIN batch
           /\ \A i \in DOMAIN batch :
                 /\ CancelCollected(ids)[i].id = batch[i].id
                 /\ CancelCollected(ids)[i].once = batch[i].once
                 /\ CancelCollected(ids)[i].cancelled = (batch[i].cancelled \/ batch[i].id \in ids)
<1>1. \A i \in DOMAIN batch : batch[i] \in Callback
  OBVIOUS
<1>2. \A i \in DOMAIN batch :
         [batch[i] EXCEPT !.cancelled = @ \/ batch[i].id \in ids] \in Callback
  BY <1>1 DEF Callback
<1>3. DOMAIN batch = 1 .. Len(batch) /\ Len(batch) \in Nat
  OBVIOUS
<1>4. CancelCollected(ids) \in [1 .. Len(batch) -> Callback]
  BY <1>2, <1>3 DEF CancelCollected
<1>5. CancelCollected(ids) \in Seq(Callback)
  BY <1>3, <1>4
<1> QED  BY <1>1, <1>3, <1>5 DEF CancelCollected, Callback

-----------------------------------------------------------------------------
(* One timer.                                                              *)

(* The constants, by name.                                                 *)
LEMMA Setting ==
    /\ Ids = {D, T, P} /\ D # T /\ D # P /\ T # P /\ None \notin Ids
    /\ Delay \in Nat \ {0} /\ Delay \in Intervals /\ Intervals \subseteq Nat \ {0}
    /\ Steps \subseteq Nat \ {0} /\ MaxAge \in Nat
    /\ None \notin DebounceArgs \cup ThrottleArgs /\ Edges \subseteq BOOLEAN
  BY TimersAssumption, RateLimitersAssumption DEF TimersAssumption, RateLimitersAssumption

(* What passed falls into whole intervals and less than one more.          *)
LEMMA WholeIntervals ==
    ASSUME NEW n \in Nat, NEW m \in Nat \ {0}
    PROVE  n \div m \in Nat /\ (n \div m) * m <= n /\ n - (n \div m) * m < m
  OBVIOUS

(* Time that passes is handed out in whole intervals or stays as remainder.*)
LEMMA Account ==
    ASSUME NEW a \in Nat, NEW f \in Nat, NEW i \in Nat, NEW e \in Nat,
           NEW dt \in Nat, NEW q \in Nat, a = f * i + e
    PROVE  a + dt = (f + q) * i + (e + dt - q * i)
  OBVIOUS

(* The fields of a timer, the steps of time.                               *)
LEMMA TimerFields ==
    ASSUME NEW t \in Timer
    PROVE  /\ t.interval \in Intervals /\ t.interval \in Nat \ {0} /\ t.elapsed \in Nat
           /\ t.once \in BOOLEAN /\ t.moved \in BOOLEAN
           /\ t.age \in 0 .. MaxAge /\ t.fires \in Nat /\ MaxAge \in Nat
<1>1. /\ t.interval \in Intervals /\ t.elapsed \in Nat /\ t.once \in BOOLEAN
      /\ t.moved \in BOOLEAN /\ t.age \in 0 .. MaxAge /\ t.fires \in Nat
  BY DEF Timer
<1> QED BY <1>1, Setting

LEMMA StepsType == \A dt \in Steps : dt \in Nat /\ dt > 0
  BY Setting

LEMMA FreshTimer ==
    ASSUME NEW i \in Intervals, NEW o \in BOOLEAN
    PROVE  Fresh(i, o) \in Timer
  BY Setting DEF Fresh, Timer

(* How often a timer comes due.                                            *)
LEMMA DueParts ==
    ASSUME NEW t \in Timer, NEW dt \in Steps
    PROVE  /\ Due(t, dt) \in Nat
           /\ t.once => Due(t, dt) \in {0, 1} /\ (Due(t, dt) = 0 <=> t.elapsed + dt < t.interval)
           /\ ~t.once => /\ Due(t, dt) * t.interval <= t.elapsed + dt
                         /\ t.elapsed + dt - Due(t, dt) * t.interval < t.interval
<1>1. t.interval \in Nat \ {0} /\ t.elapsed + dt \in Nat /\ t.once \in BOOLEAN
  BY TimerFields, StepsType
<1>2. CASE t.once
  <2>1. Due(t, dt) = IF t.elapsed + dt >= t.interval THEN 1 ELSE 0
    BY <1>2 DEF Due
  <2> QED BY <1>1, <1>2, <2>1
<1>3. CASE ~t.once
  <2> DEFINE n == t.elapsed + dt
             m == t.interval
  <2>1. Due(t, dt) = n \div m
    BY <1>3 DEF Due
  <2>2. n \in Nat /\ m \in Nat \ {0}
    BY <1>1
  <2>3. n \div m \in Nat /\ (n \div m) * m <= n /\ n - (n \div m) * m < m
    <3> HIDE DEF n, m
    <3> QED BY <2>2, WholeIntervals
  <2>4. Due(t, dt) \in Nat /\ Due(t, dt) * m <= n /\ n - Due(t, dt) * m < m
    BY <2>1, <2>3
  <2> HIDE DEF n, m
  <2>5. t.elapsed + dt - Due(t, dt) * t.interval = n - Due(t, dt) * m
    BY <1>1, <2>4, TimerFields, StepsType DEF n, m
  <2> QED BY <1>3, <2>4, <2>5 DEF n, m
<1> QED BY <1>1, <1>2, <1>3

(* A frame ages a timer without losing time, unless it is a one-shot that  *)
(* is due and goes.                                                        *)
LEMMA AdvancedTimer ==
    ASSUME NEW t \in Timer, NEW dt \in Steps, ~(t.once /\ Due(t, dt) > 0)
    PROVE  /\ Advanced(t, dt) \in Timer
           /\ Advanced(t, dt).once = t.once /\ Advanced(t, dt).interval = t.interval
           /\ t.once => /\ Advanced(t, dt).elapsed = t.elapsed + dt
                        /\ t.elapsed + dt < t.interval
           /\ t.moved \/ t.age = MaxAge \/ (t.age = t.fires * t.interval + t.elapsed /\ t.elapsed < t.interval)
              => \/ Advanced(t, dt).moved \/ Advanced(t, dt).age = MaxAge
                 \/ /\ Advanced(t, dt).age = Advanced(t, dt).fires * t.interval + Advanced(t, dt).elapsed
                    /\ Advanced(t, dt).elapsed < t.interval
<1> DEFINE q == Due(t, dt)
           counted == ~t.moved /\ t.age + dt <= MaxAge
<1>1. /\ q \in Nat
      /\ t.once => q \in {0, 1} /\ (q = 0 <=> t.elapsed + dt < t.interval)
      /\ ~t.once => q * t.interval <= t.elapsed + dt /\ t.elapsed + dt - q * t.interval < t.interval
  BY DueParts
<1> HIDE DEF q
<1>2. /\ t.interval \in Intervals /\ t.interval \in Nat \ {0} /\ t.elapsed \in Nat /\ dt \in Nat
      /\ t.once \in BOOLEAN /\ t.moved \in BOOLEAN
      /\ t.age \in 0 .. MaxAge /\ t.fires \in Nat /\ MaxAge \in Nat
  BY TimerFields, StepsType
<1>3. t.once => q = 0 /\ t.elapsed + dt < t.interval
  BY <1>1 DEF q
<1> DEFINE left == t.elapsed + dt - (IF t.once THEN 0 ELSE q * t.interval)
<1>4. left \in Nat /\ left < t.interval /\ (t.once => left = t.elapsed + dt)
  <2>1. CASE t.once
    BY <1>2, <1>3, <2>1
  <2>2. CASE ~t.once
    <3>1. q * t.interval \in Nat
      BY <1>1, <1>2
    <3> QED BY <1>1, <1>2, <2>2, <3>1
  <2> QED BY <1>2, <2>1, <2>2
<1>5. Advanced(t, dt) = [t EXCEPT !.elapsed = left, !.age = IF counted THEN t.age + dt ELSE MaxAge,
                                  !.fires = IF counted THEN t.fires + q ELSE 0]
  BY DEF Advanced, Timer, q
<1> HIDE DEF left
<1>6. /\ Advanced(t, dt).elapsed = left /\ Advanced(t, dt).once = t.once
      /\ Advanced(t, dt).interval = t.interval /\ Advanced(t, dt).moved = t.moved
      /\ Advanced(t, dt).age = (IF counted THEN t.age + dt ELSE MaxAge)
      /\ Advanced(t, dt).fires = (IF counted THEN t.fires + q ELSE 0)
  BY <1>5 DEF Timer
<1>7. Advanced(t, dt) \in Timer
  <2> DEFINE age == IF counted THEN t.age + dt ELSE MaxAge
             fires == IF counted THEN t.fires + q ELSE 0
  <2>1. age \in 0 .. MaxAge /\ fires \in Nat
    BY <1>1, <1>2
  <2>2. Advanced(t, dt) = [t EXCEPT !.elapsed = left, !.age = age, !.fires = fires]
    BY <1>5
  <2> HIDE DEF age, fires
  <2> QED BY <1>4, <2>1, <2>2 DEF Timer
<1>8. ASSUME t.age = t.fires * t.interval + t.elapsed, counted
      PROVE  t.age + dt = (t.fires + q) * t.interval + left
  <2>1. t.age + dt = (t.fires + q) * t.interval + (t.elapsed + dt - q * t.interval)
    BY <1>1, <1>2, <1>8, Account
  <2>2. left = t.elapsed + dt - q * t.interval
    BY <1>2, <1>3, <1>4 DEF left
  <2> QED BY <2>1, <2>2
<1>9. t.moved \/ t.age = MaxAge \/ (t.age = t.fires * t.interval + t.elapsed /\ t.elapsed < t.interval)
      => t.moved \/ ~counted \/ t.age + dt = (t.fires + q) * t.interval + left
  BY <1>2, <1>8, Setting
<1> QED BY <1>2, <1>3, <1>4, <1>6, <1>7, <1>9

(* What a frame collects: a callback for each time a timer comes due, and  *)
(* so one of each one-shot that does.                                      *)
LEMMA WhatIsCollected ==
    ASSUME Registration, NEW dt \in Steps
    PROVE  /\ Collected(dt) \in Seq(Callback)
           /\ \A k \in DOMAIN Collected(dt) :
                 /\ Collected(dt)[k].id \in ToSet(order)
                 /\ Due(timers[Collected(dt)[k].id], dt) > 0
                 /\ Collected(dt)[k].once = timers[Collected(dt)[k].id].once
                 /\ Collected(dt)[k].cancelled = FALSE
           /\ \A k, l \in DOMAIN Collected(dt) :
                 Collected(dt)[k].once /\ Collected(dt)[l].id = Collected(dt)[k].id => l = k
           /\ \A id \in ToSet(order) : Due(timers[id], dt) > 0 =>
                 \E k \in DOMAIN Collected(dt) : Collected(dt)[k].id = id
<1> DEFINE C == Collected(dt)
           entry(i) == [id |-> order[i], once |-> timers[order[i]].once, cancelled |-> FALSE]
           due(i) == Due(timers[order[i]], dt)
           lists == [i \in 1 .. Len(order) |-> [k \in 1 .. due(i) |-> entry(i)]]
<1>1. /\ DOMAIN order = 1 .. Len(order) /\ Len(order) \in Nat
      /\ \A i \in 1 .. Len(order) : order[i] \in ToSet(order) /\ order[i] \in Ids
  BY DEF ToSet, Registration
<1>2. \A i \in 1 .. Len(order) : timers[order[i]] \in Timer
  <2> SUFFICES ASSUME NEW i \in 1 .. Len(order) PROVE timers[order[i]] \in Timer
    OBVIOUS
  <2>1. timers[order[i]] # None
    BY <1>1 DEF Registration
  <2> QED BY <1>1, <2>1 DEF Registration
<1>3. \A i \in 1 .. Len(order) :
         /\ due(i) \in Nat /\ entry(i) \in Callback
         /\ timers[order[i]].once => due(i) \in {0, 1}
  <2> SUFFICES ASSUME NEW i \in 1 .. Len(order)
               PROVE  /\ due(i) \in Nat /\ entry(i) \in Callback
                      /\ timers[order[i]].once => due(i) \in {0, 1}
    OBVIOUS
  <2>1. timers[order[i]] \in Timer /\ timers[order[i]].once \in BOOLEAN
    BY <1>2, TimerFields
  <2>2. entry(i) \in Callback
    BY <1>1, <2>1 DEF Callback
  <2> QED BY <2>1, <2>2, DueParts
<1>4. C = FlattenSeq(lists)
  BY <1>1 DEF Collected
<1> HIDE DEF C, entry, due
<1>5. \A i \in 1 .. Len(order) : lists[i] \in Seq(Callback) /\ Len(lists[i]) = due(i)
  BY <1>3
<1>6. lists \in Seq(Seq(Callback)) /\ Len(lists) = Len(order)
  BY <1>1, <1>5
<1>7. C \in Seq(Callback) /\ \E at : Spread(C, lists, Len(order), at)
  <2> HIDE DEF lists
  <2> QED BY <1>4, <1>6, FlattenPlaces
<1>8. PICK at : Spread(C, lists, Len(order), at)
  BY <1>7
<1>9. /\ \A k \in 1 .. Len(C) :
            /\ at[k] \in (1 .. Len(order)) \X Nat
            /\ at[k][2] \in 1 .. Len(lists[at[k][1]]) /\ C[k] = lists[at[k][1]][at[k][2]]
      /\ \A k, l \in 1 .. Len(C) : at[k] = at[l] => k = l
      /\ \A i \in 1 .. Len(order) : \A j \in 1 .. Len(lists[i]) :
            \E k \in 1 .. Len(C) : at[k] = <<i, j>>
  <2> HIDE DEF lists
  <2> QED BY <1>8 DEF Spread
<1>10. ASSUME NEW k \in 1 .. Len(C)
       PROVE  /\ at[k][1] \in 1 .. Len(order) /\ at[k][2] \in 1 .. due(at[k][1])
              /\ C[k] = entry(at[k][1]) /\ at[k] = <<at[k][1], at[k][2]>>
  <2>1. at[k][1] \in 1 .. Len(order) /\ at[k] = <<at[k][1], at[k][2]>>
    <3>1. at[k] \in (1 .. Len(order)) \X Nat
      BY <1>9
    <3>2. \A A, B : \A x \in A \X B : x[1] \in A /\ x = <<x[1], x[2]>>
      OBVIOUS
    <3> QED BY <3>1, <3>2
  <2>2. at[k][2] \in 1 .. due(at[k][1])
    BY <1>5, <1>9, <2>1
  <2>3. C[k] = lists[at[k][1]][at[k][2]]
    BY <1>9
  <2> QED BY <2>1, <2>2, <2>3
<1>11. DOMAIN C = 1 .. Len(C) /\ Len(C) \in Nat
  BY <1>7
<1>12. ASSUME NEW k \in 1 .. Len(C)
       PROVE  /\ C[k].id = order[at[k][1]] /\ C[k].once = timers[order[at[k][1]]].once
              /\ C[k].cancelled = FALSE
  <2>1. C[k] = entry(at[k][1])
    BY <1>10
  <2> QED BY <2>1 DEF entry
<1>13. ASSUME NEW k \in 1 .. Len(C), NEW l \in 1 .. Len(C), C[k].once, C[l].id = C[k].id
       PROVE  l = k
  <2>1. /\ at[k][1] \in 1 .. Len(order) /\ at[l][1] \in 1 .. Len(order)
        /\ order[at[k][1]] = order[at[l][1]] /\ timers[order[at[k][1]]].once
    BY <1>10, <1>12, <1>13
  <2>2. at[k][1] = at[l][1]
    BY <1>1, <2>1 DEF Registration, IsInjective
  <2>3. at[k][2] = 1 /\ at[l][2] = 1
    <3>1. due(at[k][1]) \in {0, 1} /\ at[k][2] \in 1 .. due(at[k][1])
      BY <1>3, <1>10, <2>1
    <3>2. at[l][2] \in 1 .. due(at[k][1])
      BY <1>10, <2>2
    <3> QED BY <3>1, <3>2
  <2>4. at[k] = at[l]
    BY <1>10, <2>2, <2>3
  <2> QED BY <1>9, <2>4
<1>14. ASSUME NEW id \in ToSet(order), Due(timers[id], dt) > 0
       PROVE  \E k \in 1 .. Len(C) : C[k].id = id
  <2>1. PICK i \in 1 .. Len(order) : order[i] = id
    BY <1>1 DEF ToSet
  <2>2. 1 \in 1 .. Len(lists[i])
    <3>1. due(i) \in Nat /\ due(i) > 0
      BY <1>3, <1>14, <2>1 DEF due
    <3> QED BY <1>5, <3>1
  <2>3. PICK k \in 1 .. Len(C) : at[k] = <<i, 1>>
    <3> HIDE DEF lists
    <3> QED BY <1>9, <2>2
  <2>4. at[k][1] = i
    BY <2>3
  <2> QED BY <1>12, <2>1, <2>4
<1>15. ASSUME NEW k \in 1 .. Len(C)
       PROVE  C[k].id \in ToSet(order) /\ Due(timers[C[k].id], dt) > 0
  <2>1. at[k][1] \in 1 .. Len(order) /\ C[k].id = order[at[k][1]]
    BY <1>10, <1>12
  <2>2. due(at[k][1]) > 0
    BY <1>3, <1>10, <2>1
  <2> QED BY <1>1, <2>1, <2>2 DEF due
<1> HIDE DEF lists
<1>16. \A k \in DOMAIN C : /\ C[k].id \in ToSet(order) /\ Due(timers[C[k].id], dt) > 0
                           /\ C[k].once = timers[C[k].id].once /\ C[k].cancelled = FALSE
  BY <1>11, <1>12, <1>15
<1>17. \A k, l \in DOMAIN C : C[k].once /\ C[l].id = C[k].id => l = k
  BY <1>11, <1>13
<1>18. \A id \in ToSet(order) : Due(timers[id], dt) > 0 => \E k \in DOMAIN C : C[k].id = id
  BY <1>11, <1>14
<1> QED BY <1>7, <1>16, <1>17, <1>18 DEF C

-----------------------------------------------------------------------------
(* What the operations of Timers keep.                                     *)

(* A timer that is registered, anew or in its place of the dictionary.     *)
LEMMA ArmKeeps ==
    ASSUME Registration, NEW id \in Ids, NEW i \in Intervals, NEW o \in BOOLEAN,
           id \in {D, T} => o /\ i = Delay,
           timers' = [timers EXCEPT ![id] = Fresh(i, o)],
           \/ order' = Append(Excluding(order, {id}), id)
           \/ order' = IF timers[id] = None THEN Append(order, id) ELSE order
    PROVE  Registration'
<1>1. Fresh(i, o) \in Timer /\ Fresh(i, o) # None
  BY FreshTimer, NoneAssumption
<1>2. /\ timers' \in [Ids -> Timer \cup {None}]
      /\ \A x \in Ids : timers'[x] = IF x = id THEN Fresh(i, o) ELSE timers[x]
  BY <1>1 DEF Registration
<1>3. /\ order \in Seq(Ids) /\ IsInjective(order)
      /\ ToSet(order) = {x \in Ids : timers[x] # None}
  BY DEF Registration
<1>4. order' \in Seq(Ids) /\ IsInjective(order') /\ ToSet(order') = ToSet(order) \cup {id}
  <2>1. CASE order' = Append(Excluding(order, {id}), id)
    <3> DEFINE e == Excluding(order, {id})
    <3>1. e \in Seq(Ids) /\ IsInjective(e) /\ ToSet(e) = ToSet(order) \ {id}
      BY <1>3, DistinctWithout
    <3> HIDE DEF e
    <3>2. /\ Append(e, id) \in Seq(Ids) /\ IsInjective(Append(e, id))
          /\ ToSet(Append(e, id)) = ToSet(e) \cup {id}
      BY <3>1, DistinctWith
    <3> QED BY <2>1, <3>1, <3>2 DEF e
  <2>2. CASE order' = IF timers[id] = None THEN Append(order, id) ELSE order
    <3>1. CASE timers[id] = None
      <4>1. id \notin ToSet(order)
        BY <1>3, <3>1
      <4> QED BY <1>3, <2>2, <3>1, <4>1, DistinctWith
    <3>2. CASE timers[id] # None
      BY <1>3, <2>2, <3>2
    <3> QED BY <3>1, <3>2
  <2> QED BY <2>1, <2>2
<1>5. ToSet(order') = {x \in Ids : timers'[x] # None}
  BY <1>1, <1>2, <1>3, <1>4
<1>6. ASSUME NEW x \in {D, T}, timers'[x] # None
      PROVE  timers'[x].once /\ timers'[x].interval = Delay
  <2>1. CASE x = id
    BY <1>2, <2>1, Setting DEF Fresh
  <2>2. CASE x # id
    BY <1>2, <1>6, <2>2, Setting DEF Registration
  <2> QED BY <2>1, <2>2
<1>7. NoDrift'
  <2> SUFFICES ASSUME NEW x \in Ids, timers'[x] # None
               PROVE  \/ timers'[x].moved \/ timers'[x].age = MaxAge
                      \/ /\ timers'[x].age = timers'[x].fires * timers'[x].interval + timers'[x].elapsed
                         /\ timers'[x].elapsed < timers'[x].interval
    BY DEF NoDrift
  <2>1. CASE x = id
    <3>1. timers'[x] = Fresh(i, o)
      BY <1>2, <2>1
    <3>2. timers'[x].age = 0 /\ timers'[x].fires = 0 /\ timers'[x].elapsed = 0 /\ timers'[x].interval = i
      BY <3>1 DEF Fresh
    <3>3. i \in Nat \ {0}
      BY Setting
    <3> QED BY <3>2, <3>3
  <2>2. CASE x # id
    BY <1>2, <2>2 DEF Registration, NoDrift
  <2> QED BY <2>1, <2>2
<1> QED BY <1>2, <1>4, <1>5, <1>6, <1>7 DEF Registration

(* Timers that are removed take their keys along.                          *)
LEMMA DropKeeps ==
    ASSUME Registration, NEW ids \in SUBSET Ids, Unregister(ids)
    PROVE  /\ Registration'
           /\ \A x \in Ids : timers'[x] = IF x \in ids THEN None ELSE timers[x]
<1>1. /\ timers' \in [Ids -> Timer \cup {None}]
      /\ \A x \in Ids : timers'[x] = IF x \in ids THEN None ELSE timers[x]
  BY DEF Registration, Unregister
<1>2. /\ order \in Seq(Ids) /\ IsInjective(order)
      /\ ToSet(order) = {x \in Ids : timers[x] # None}
  BY DEF Registration
<1>3. order' \in Seq(Ids) /\ IsInjective(order') /\ ToSet(order') = ToSet(order) \ ids
  BY <1>2, DistinctWithout DEF Unregister
<1>4. ToSet(order') = {x \in Ids : timers'[x] # None}
  BY <1>1, <1>2, <1>3
<1>5. \A x \in {D, T} : timers'[x] # None => timers'[x].once /\ timers'[x].interval = Delay
  BY <1>1, Setting DEF Registration
<1>6. NoDrift'
  BY <1>1 DEF Registration, NoDrift
<1> QED BY <1>1, <1>3, <1>4, <1>5, <1>6 DEF Registration

(* The program reschedules its own timer.                                  *)
LEMMA RescheduleKeeps ==
    ASSUME Registration, NEW i \in Intervals, Reschedule(P, i)
    PROVE  Registration' /\ \A x \in Ids : timers'[x] = None <=> timers[x] = None
<1> DEFINE t == [timers[P] EXCEPT !.interval = i, !.moved = TRUE, !.age = 0, !.fires = 0]
<1>1. timers[P] \in Timer
  BY Setting DEF Registration, Reschedule
<1>2. t \in Timer /\ t.moved /\ t # None
  <2>1. t \in Timer /\ t.moved
    <3>1. i \in Intervals /\ 0 \in 0 .. MaxAge /\ 0 \in Nat
      BY Setting
    <3> QED BY <1>1, <3>1 DEF Timer
  <2> QED BY <2>1, NoneAssumption
<1>3. timers' = [timers EXCEPT ![P] = t]
  BY DEF Reschedule
<1> HIDE DEF t
<1>4. /\ timers' \in [Ids -> Timer \cup {None}]
      /\ \A x \in Ids : timers'[x] = IF x = P THEN t ELSE timers[x]
  BY <1>2, <1>3, Setting DEF Registration
<1>5. timers[P] # None
  BY DEF Reschedule
<1>6. ToSet(order') = {x \in Ids : timers'[x] # None}
  BY <1>2, <1>4, <1>5 DEF Registration, Reschedule
<1>7. \A x \in {D, T} : timers'[x] # None => timers'[x].once /\ timers'[x].interval = Delay
  BY <1>4, Setting DEF Registration
<1>8. NoDrift'
  BY <1>2, <1>4 DEF Registration, NoDrift
<1> QED BY <1>2, <1>4, <1>5, <1>6, <1>7, <1>8 DEF Registration, Reschedule

(* update() advances what stays and drops the one-shots that are due.      *)
LEMMA FrameKeeps ==
    ASSUME Registration, NEW dt \in Steps, UpdateStart(dt)
    PROVE  /\ Registration'
           /\ \A x \in Ids : timers'[x] = IF timers[x] = None \/ x \in Expired(dt) THEN None
                                          ELSE Advanced(timers[x], dt)
           /\ \A x \in Ids : timers[x] # None /\ x \notin Expired(dt) =>
                 /\ timers[x] \in Timer /\ ~(timers[x].once /\ Due(timers[x], dt) > 0)
                 /\ timers'[x] # None
<1>1. \A x \in Ids : timers'[x] = IF timers[x] = None \/ x \in Expired(dt) THEN None
                                  ELSE Advanced(timers[x], dt)
  BY DEF UpdateStart
<1>2. /\ order \in Seq(Ids) /\ IsInjective(order)
      /\ ToSet(order) = {x \in Ids : timers[x] # None}
      /\ timers \in [Ids -> Timer \cup {None}]
  BY DEF Registration
<1>3. ASSUME NEW x \in Ids, timers[x] # None, x \notin Expired(dt)
      PROVE  timers[x] \in Timer /\ ~(timers[x].once /\ Due(timers[x], dt) > 0)
  <2>1. timers[x] \in Timer /\ x \in ToSet(order)
    BY <1>2, <1>3
  <2> QED BY <1>3, <2>1 DEF Expired
<1>4. ASSUME NEW x \in Ids, timers[x] # None, x \notin Expired(dt)
      PROVE  /\ timers'[x] \in Timer /\ timers'[x] # None
             /\ timers'[x].once = timers[x].once /\ timers'[x].interval = timers[x].interval
             /\ timers'[x].moved \/ timers'[x].age = MaxAge
                \/ /\ timers'[x].age = timers'[x].fires * timers'[x].interval + timers'[x].elapsed
                   /\ timers'[x].elapsed < timers'[x].interval
  <2>1. timers'[x] = Advanced(timers[x], dt)
    BY <1>1, <1>4
  <2>2. timers[x] \in Timer /\ ~(timers[x].once /\ Due(timers[x], dt) > 0)
    BY <1>3, <1>4
  <2>3. \/ timers[x].moved \/ timers[x].age = MaxAge
        \/ /\ timers[x].age = timers[x].fires * timers[x].interval + timers[x].elapsed
           /\ timers[x].elapsed < timers[x].interval
    BY <1>4 DEF Registration, NoDrift
  <2>4. /\ timers'[x] \in Timer
        /\ timers'[x].once = timers[x].once /\ timers'[x].interval = timers[x].interval
        /\ timers'[x].moved \/ timers'[x].age = MaxAge
           \/ /\ timers'[x].age = timers'[x].fires * timers'[x].interval + timers'[x].elapsed
              /\ timers'[x].elapsed < timers'[x].interval
    BY <2>1, <2>2, <2>3, AdvancedTimer
  <2> QED BY <2>4, NoneAssumption
<1>5. timers' \in [Ids -> Timer \cup {None}]
  <2>1. timers' = [x \in Ids |-> IF timers[x] = None \/ x \in Expired(dt) THEN None
                                 ELSE Advanced(timers[x], dt)]
    BY DEF UpdateStart
  <2>2. \A x \in Ids : timers'[x] \in Timer \cup {None}
    BY <1>1, <1>4
  <2> QED BY <2>1, <2>2
<1>6. order' \in Seq(Ids) /\ IsInjective(order') /\ ToSet(order') = ToSet(order) \ Expired(dt)
  BY <1>2, DistinctWithout DEF UpdateStart
<1>7. ToSet(order') = {x \in Ids : timers'[x] # None}
  BY <1>1, <1>2, <1>4, <1>6
<1>8. \A x \in {D, T} : timers'[x] # None => timers'[x].once /\ timers'[x].interval = Delay
  <2> SUFFICES ASSUME NEW x \in {D, T}, timers'[x] # None
               PROVE  timers'[x].once /\ timers'[x].interval = Delay
    OBVIOUS
  <2>1. x \in Ids /\ timers[x] # None /\ x \notin Expired(dt)
    BY <1>1, Setting
  <2>2. timers[x].once /\ timers[x].interval = Delay
    BY <2>1 DEF Registration
  <2> QED BY <1>4, <2>1, <2>2
<1>9. NoDrift'
  <2> SUFFICES ASSUME NEW x \in Ids, timers'[x] # None
               PROVE  \/ timers'[x].moved \/ timers'[x].age = MaxAge
                      \/ /\ timers'[x].age = timers'[x].fires * timers'[x].interval + timers'[x].elapsed
                         /\ timers'[x].elapsed < timers'[x].interval
    BY DEF NoDrift
  <2>1. timers[x] # None /\ x \notin Expired(dt)
    BY <1>1
  <2> QED BY <1>4, <2>1
<1> QED BY <1>1, <1>3, <1>4, <1>5, <1>6, <1>7, <1>8, <1>9 DEF Registration

-----------------------------------------------------------------------------
(* What they make of the batch.                                            *)

(* The entries of the batch.                                               *)
LEMMA BatchEntries ==
    ASSUME Collection
    PROVE  \A i \in DOMAIN batch : /\ batch[i] \in Callback /\ batch[i].id \in Ids
                                   /\ batch[i].once \in BOOLEAN /\ batch[i].cancelled \in BOOLEAN
<1>1. \A i \in DOMAIN batch : batch[i] \in Callback
  BY DEF Collection
<1> QED BY <1>1 DEF Callback

(* Callbacks that are cancelled are still collected; of the timers that    *)
(* are registered anew the callbacks are.                                  *)
LEMMA CancelCollects ==
    ASSUME Collection, NEW ids \in SUBSET Ids, batch' = CancelCollected(ids),
           \A x \in Ids \ ids : timers[x] = None => timers'[x] = None
    PROVE  Collection' /\ \A x : IsCollected(x)' <=> IsCollected(x)
<1>1. batch \in Seq(Callback) /\ \A i \in DOMAIN batch : batch[i].id \in Ids /\ batch[i].cancelled \in BOOLEAN
  BY BatchEntries DEF Collection
<1>2. /\ batch' \in Seq(Callback) /\ DOMAIN batch' = DOMAIN batch
      /\ \A i \in DOMAIN batch :
            /\ batch'[i].id = batch[i].id /\ batch'[i].once = batch[i].once
            /\ batch'[i].cancelled = (batch[i].cancelled \/ batch[i].id \in ids)
  BY <1>1, CancelKeeps
<1>3. \A i \in DOMAIN batch' : batch'[i].once /\ ~batch'[i].cancelled => timers'[batch'[i].id] = None
  BY <1>1, <1>2 DEF Collection
<1>4. \A i \in DOMAIN batch' :
         /\ batch'[i].id \in {D, T} => batch'[i].once
         /\ batch'[i].once => \A j \in DOMAIN batch' : batch'[j].id = batch'[i].id => j = i
  BY <1>2 DEF Collection
<1>5. \A x : IsCollected(x)' <=> IsCollected(x)
  BY <1>2 DEF IsCollected
<1> QED BY <1>2, <1>3, <1>4, <1>5 DEF Collection

(* update() takes the first callback: of a one-shot none is left.          *)
LEMMA TakeCollects ==
    ASSUME Collection, batch # <<>>, batch' = Tail(batch),
           \A x \in Ids : timers[x] = None => timers'[x] = None \/ (x = batch[1].id /\ batch[1].once)
    PROVE  /\ Collection' /\ Head(batch) = batch[1] /\ batch[1] \in Callback /\ IsCollected(batch[1].id)
           /\ \A x : IsCollected(x)' => IsCollected(x)
           /\ \A x : x # batch[1].id /\ IsCollected(x) => IsCollected(x)'
           /\ \A x : x = batch[1].id /\ batch[1].once => ~IsCollected(x)'
<1>1. /\ Head(batch) = batch[1] /\ Head(batch) \in Callback
      /\ batch' \in Seq(Callback) /\ Len(batch) \in Nat \ {0}
      /\ DOMAIN batch = 1 .. Len(batch) /\ DOMAIN batch' = 1 .. Len(batch) - 1
      /\ \A i \in DOMAIN batch' : batch'[i] = batch[i + 1] /\ i + 1 \in DOMAIN batch
  BY RestOfBatch DEF Collection
<1>2. 1 \in DOMAIN batch /\ (\A i \in DOMAIN batch : i # 1 => i - 1 \in DOMAIN batch' /\ batch'[i - 1] = batch[i])
  BY <1>1
<1>3. \A i \in DOMAIN batch' : batch'[i] \in Callback /\ batch'[i].id \in Ids
  BY <1>1, BatchEntries
<1>4. ASSUME NEW i \in DOMAIN batch'
      PROVE  /\ batch'[i].id \in {D, T} => batch'[i].once
             /\ batch'[i].once => \A j \in DOMAIN batch' : batch'[j].id = batch'[i].id => j = i
             /\ batch'[i].once /\ ~batch'[i].cancelled => timers'[batch'[i].id] = None
             /\ batch[1].once => batch'[i].id # batch[1].id
  <2>1. i + 1 \in DOMAIN batch /\ batch'[i] = batch[i + 1] /\ i \in Nat /\ i + 1 # 1
    BY <1>1
  <2>2. batch'[i].once => \A j \in DOMAIN batch' : batch'[j].id = batch'[i].id => j = i
    <3> SUFFICES ASSUME batch'[i].once, NEW j \in DOMAIN batch', batch'[j].id = batch'[i].id
                 PROVE  j = i
      OBVIOUS
    <3>1. j + 1 \in DOMAIN batch /\ batch'[j] = batch[j + 1] /\ j \in Nat
      BY <1>1
    <3>2. j + 1 = i + 1
      BY <2>1, <3>1 DEF Collection
    <3> QED BY <2>1, <3>1, <3>2
  <2>3. batch[1].once => batch'[i].id # batch[1].id
    BY <1>2, <2>1 DEF Collection
  <2>4. batch'[i].once /\ ~batch'[i].cancelled => timers'[batch'[i].id] = None
    BY <1>3, <2>1, <2>3 DEF Collection
  <2> QED BY <2>1, <2>2, <2>3, <2>4 DEF Collection
<1>5. Collection'
  BY <1>1, <1>4 DEF Collection
<1>6. \A x : IsCollected(x)' => IsCollected(x)
  BY <1>1 DEF IsCollected
<1>7. \A x : x # batch[1].id /\ IsCollected(x) => IsCollected(x)'
  BY <1>2, SMTT(30) DEF IsCollected
<1>8. batch[1].once => \A i \in DOMAIN batch' : batch'[i].id # batch[1].id
  BY <1>4
<1>9. \A x : x = batch[1].id /\ batch[1].once => ~IsCollected(x)'
  BY <1>8 DEF IsCollected
<1> QED BY <1>1, <1>2, <1>5, <1>6, <1>7, <1>9 DEF IsCollected

(* After an exception nothing is collected.                                *)
LEMMA NothingCollected ==
    ASSUME batch' = <<>>
    PROVE  Collection' /\ \A x : ~IsCollected(x)'
  BY DEF Collection, IsCollected

(* The batch is as it was, and no timer was added.                         *)
LEMMA SameCollected ==
    ASSUME Collection, batch' = batch, \A x \in Ids : timers[x] = None => timers'[x] = None
    PROVE  Collection' /\ \A x : IsCollected(x)' <=> IsCollected(x)
<1>1. \A i \in DOMAIN batch : batch[i].id \in Ids
  BY BatchEntries
<1>2. Collection'
  BY <1>1 DEF Collection
<1>3. \A x : IsCollected(x)' <=> IsCollected(x)
  BY DEF IsCollected
<1> QED BY <1>2, <1>3

(* Of a one-shot that a frame finds due the callback is collected, and it  *)
(* goes; of one that is not due it is not, and it ages.                    *)
LEMMA FrameCollects ==
    ASSUME Registration, NEW dt \in Steps, UpdateStart(dt)
    PROVE  /\ Collection'
           /\ \A x \in {D, T} :
                 /\ IsCollected(x)' => timers[x] # None /\ timers'[x] = None
                                       /\ timers[x].elapsed + dt >= Delay
                 /\ timers'[x] # None => /\ timers[x] # None
                                         /\ timers'[x].elapsed = timers[x].elapsed + dt
                                         /\ timers'[x].elapsed < Delay
                 /\ timers[x] # None => WillEnd(x)'
<1>1. /\ Registration'
      /\ \A x \in Ids : timers'[x] = IF timers[x] = None \/ x \in Expired(dt) THEN None
                                     ELSE Advanced(timers[x], dt)
      /\ \A x \in Ids : timers[x] # None /\ x \notin Expired(dt) =>
            /\ timers[x] \in Timer /\ ~(timers[x].once /\ Due(timers[x], dt) > 0)
            /\ timers'[x] # None
  BY FrameKeeps
<1>2. /\ batch' \in Seq(Callback)
      /\ \A k \in DOMAIN batch' :
            /\ batch'[k].id \in ToSet(order)
            /\ Due(timers[batch'[k].id], dt) > 0
            /\ batch'[k].once = timers[batch'[k].id].once
      /\ \A k, l \in DOMAIN batch' : batch'[k].once /\ batch'[l].id = batch'[k].id => l = k
      /\ \A id \in ToSet(order) : Due(timers[id], dt) > 0 => \E k \in DOMAIN batch' : batch'[k].id = id
  BY WhatIsCollected DEF UpdateStart
<1>3. /\ ToSet(order) = {x \in Ids : timers[x] # None}
      /\ timers \in [Ids -> Timer \cup {None}]
      /\ \A x \in {D, T} : timers[x] # None => timers[x].once /\ timers[x].interval = Delay
  BY DEF Registration
<1>4. ASSUME NEW k \in DOMAIN batch', batch'[k].once
      PROVE  batch'[k].id \in Expired(dt) /\ timers'[batch'[k].id] = None
  <2>1. batch'[k].id \in Expired(dt)
    BY <1>2, <1>4 DEF Expired
  <2>2. batch'[k].id \in Ids
    BY <1>2, <1>3
  <2> QED BY <1>1, <2>1, <2>2
<1>5. \A k \in DOMAIN batch' : batch'[k].id \in {D, T} => batch'[k].once
  BY <1>2, <1>3
<1>6. Collection'
  BY <1>2, <1>4, <1>5 DEF Collection
<1>7. ASSUME NEW x \in {D, T}
      PROVE  /\ IsCollected(x)' => timers[x] # None /\ timers'[x] = None /\ timers[x].elapsed + dt >= Delay
             /\ timers'[x] # None => /\ timers[x] # None
                                     /\ timers'[x].elapsed = timers[x].elapsed + dt
                                     /\ timers'[x].elapsed < Delay
             /\ timers[x] # None => WillEnd(x)'
  <2>1. x \in Ids /\ dt \in Nat /\ Delay \in Nat
    BY Setting, StepsType
  <2>2. ASSUME timers[x] # None
        PROVE  /\ timers[x] \in Timer /\ timers[x].once /\ timers[x].interval = Delay /\ x \in ToSet(order)
               /\ timers[x].elapsed \in Nat
               /\ Due(timers[x], dt) \in {0, 1} /\ (Due(timers[x], dt) = 0 <=> timers[x].elapsed + dt < Delay)
    <3>1. timers[x] \in Timer /\ timers[x].once /\ timers[x].interval = Delay /\ x \in ToSet(order)
      BY <1>3, <2>1, <2>2
    <3> QED BY <3>1, TimerFields, DueParts
  <2>3. ASSUME IsCollected(x)'
        PROVE  timers[x] # None /\ timers'[x] = None /\ timers[x].elapsed + dt >= Delay
    <3>1. PICK k \in DOMAIN batch' : batch'[k].id = x
      BY <2>3 DEF IsCollected
    <3>2. timers[x] # None /\ Due(timers[x], dt) > 0 /\ timers'[x] = None
      BY <1>2, <1>3, <1>4, <1>5, <3>1
    <3>3. timers[x].elapsed \in Nat /\ (Due(timers[x], dt) = 0 <=> timers[x].elapsed + dt < Delay)
      BY <2>2, <3>2
    <3> QED BY <2>1, <3>2, <3>3
  <2>4. ASSUME timers'[x] # None
        PROVE  /\ timers[x] # None /\ timers'[x].elapsed = timers[x].elapsed + dt
               /\ timers'[x].elapsed < Delay
    <3>1. timers[x] # None /\ x \notin Expired(dt) /\ timers'[x] = Advanced(timers[x], dt)
      BY <1>1, <2>1, <2>4
    <3>2. timers[x] \in Timer /\ ~(timers[x].once /\ Due(timers[x], dt) > 0)
      BY <1>1, <2>1, <3>1
    <3>3. timers[x].once /\ timers[x].interval = Delay
      BY <2>2, <3>1
    <3>4. Advanced(timers[x], dt).elapsed = timers[x].elapsed + dt
          /\ timers[x].elapsed + dt < timers[x].interval
      BY <3>2, <3>3, AdvancedTimer
    <3> QED BY <3>1, <3>3, <3>4
  <2>5. ASSUME timers[x] # None PROVE WillEnd(x)'
    <3>1. CASE x \in Expired(dt)
      <4>1. x \in ToSet(order) /\ Due(timers[x], dt) > 0
        BY <3>1 DEF Expired
      <4>2. IsCollected(x)'
        BY <1>2, <4>1 DEF IsCollected
      <4> QED BY <4>2 DEF WillEnd
    <3>2. CASE x \notin Expired(dt)
      BY <1>1, <2>1, <2>5, <3>2 DEF WillEnd
    <3> QED BY <3>1, <3>2
  <2> QED BY <2>3, <2>4, <2>5
<1> QED BY <1>6, <1>7

-----------------------------------------------------------------------------
(* The stack of callbacks.                                                 *)

LEMMA CallStarts ==
    ASSUME LimiterTypes, NEW by \in {D, T}, NEW a \in Args \cup {None}, Invoke(by, a)
    PROVE  /\ calls' \in Seq(Call)
           /\ calls'[Len(calls')] = [by |-> by, args |-> a]
           /\ \A x : Running(x)' <=> x = by \/ Running(x)
<1> DEFINE c == [by |-> by, args |-> a]
<1>1. c \in Call /\ calls \in Seq(Call) /\ calls' = Append(calls, c)
  BY DEF Call, Invoke, LimiterTypes
<1>2. /\ calls' \in Seq(Call) /\ Len(calls') = Len(calls) + 1 /\ Len(calls) \in Nat
      /\ DOMAIN calls' = 1 .. Len(calls) + 1 /\ DOMAIN calls = 1 .. Len(calls)
      /\ \A i \in 1 .. Len(calls) : calls'[i] = calls[i]
      /\ calls'[Len(calls) + 1] = c
  <2> HIDE DEF c
  <2> QED BY <1>1, AppendProperties
<1>3. c.by = by
  OBVIOUS
<1> HIDE DEF c
<1>4. Running(by)'
  <2>1. Len(calls) + 1 \in DOMAIN calls' /\ calls'[Len(calls) + 1].by = by
    BY <1>2, <1>3
  <2> QED BY <2>1 DEF Running
<1>5. ASSUME NEW x, Running(x) PROVE Running(x)'
  <2>1. PICK i \in DOMAIN calls : calls[i].by = x
    BY <1>5 DEF Running
  <2>2. i \in DOMAIN calls' /\ calls'[i].by = x
    BY <1>2, <2>1
  <2> QED BY <2>2 DEF Running
<1>6. ASSUME NEW x, Running(x)', x # by PROVE Running(x)
  <2>1. PICK i \in DOMAIN calls' : calls'[i].by = x
    BY <1>6 DEF Running
  <2>2. i # Len(calls) + 1
    BY <1>2, <1>3, <1>6, <2>1
  <2>3. i \in DOMAIN calls /\ calls[i].by = x
    BY <1>2, <2>1, <2>2
  <2> QED BY <2>3 DEF Running
<1> QED BY <1>2, <1>4, <1>5, <1>6 DEF c

LEMMA CallEnds ==
    ASSUME LimiterTypes, calls # <<>>, calls' = Front(calls)
    PROVE  /\ calls' \in Seq(Call) /\ Len(calls') < Len(calls)
           /\ \A x : Running(x)' => Running(x)
           /\ \A x : x # Top.by /\ Running(x) => Running(x)'
<1>1. calls \in Seq(Call) /\ Len(calls) \in Nat \ {0} /\ DOMAIN calls = 1 .. Len(calls)
  BY DEF LimiterTypes
<1>2. /\ calls' \in Seq(Call) /\ Len(calls') = Len(calls) - 1
      /\ DOMAIN calls' = 1 .. Len(calls) - 1
      /\ \A i \in 1 .. Len(calls) - 1 : calls'[i] = calls[i]
  BY <1>1, SubSeqProperties DEF Front
<1>3. \A x : Running(x)' => Running(x)
  BY <1>1, <1>2 DEF Running
<1>4. ASSUME NEW x, x # Top.by, Running(x) PROVE Running(x)'
  <2>1. PICK i \in DOMAIN calls : calls[i].by = x
    BY <1>4 DEF Running
  <2>2. i \in DOMAIN calls' /\ calls'[i].by = x
    BY <1>1, <1>2, <1>4, <2>1 DEF Top
  <2> QED BY <2>2 DEF Running
<1> QED BY <1>1, <1>2, <1>3, <1>4

LEMMA CallsStay ==
    ASSUME UNCHANGED calls
    PROVE  \A x : Running(x)' <=> Running(x)
  BY DEF Running

(* Registering a timer, with what was collected of it before.              *)
LEMMA Registered ==
    ASSUME Registration, Collection, NEW id \in Ids, NEW i \in Intervals, NEW o \in BOOLEAN,
           id \in {D, T} => o /\ i = Delay,
           timers' = [timers EXCEPT ![id] = Fresh(i, o)],
           \/ order' = Append(Excluding(order, {id}), id)
           \/ order' = IF timers[id] = None THEN Append(order, id) ELSE order,
           batch' = CancelCollected({id})
    PROVE  /\ Registration' /\ Collection'
           /\ timers'[id] # None /\ timers'[id].elapsed = 0
           /\ \A x \in Ids : x # id => timers'[x] = timers[x]
           /\ \A x : IsCollected(x)' <=> IsCollected(x)
<1>1. Registration'
  BY ArmKeeps
<1>2. timers'[id] = Fresh(i, o) /\ \A x \in Ids : x # id => timers'[x] = timers[x]
  BY DEF Registration
<1>3. Fresh(i, o) \in Timer /\ Fresh(i, o).elapsed = 0
  BY FreshTimer DEF Fresh
<1>4. Collection' /\ \A x : IsCollected(x)' <=> IsCollected(x)
  <2>1. \A x \in Ids \ {id} : timers[x] = None => timers'[x] = None
    BY <1>2
  <2> QED BY <2>1, CancelCollects
<1> QED BY <1>1, <1>2, <1>3, <1>4, NoneAssumption

(* Removing timers.                                                        *)
LEMMA Removed ==
    ASSUME Registration, Collection, NEW ids \in SUBSET Ids, Unregister(ids)
    PROVE  /\ Registration' /\ Collection' /\ current' = current
           /\ \A x \in Ids : timers'[x] = IF x \in ids THEN None ELSE timers[x]
           /\ \A x : IsCollected(x)' <=> IsCollected(x)
<1>1. Registration' /\ \A x \in Ids : timers'[x] = IF x \in ids THEN None ELSE timers[x]
  BY DropKeeps
<1>2. Collection' /\ \A x : IsCollected(x)' <=> IsCollected(x)
  <2>1. \A x \in Ids \ ids : timers[x] = None => timers'[x] = None
    BY <1>1
  <2> QED BY <2>1, CancelCollects DEF Unregister
<1> QED BY <1>1, <1>2 DEF Unregister

(* Without a change of the timers.                                         *)
LEMMA TimersStay ==
    ASSUME Registration, Collection, UNCHANGED <<timers, order, batch>>
    PROVE  Registration' /\ Collection' /\ \A x : IsCollected(x)' <=> IsCollected(x)
<1>1. Registration'
  BY DEF Registration, NoDrift
<1>2. Collection' /\ \A x : IsCollected(x)' <=> IsCollected(x)
  BY SameCollected
<1> QED BY <1>1, <1>2

-----------------------------------------------------------------------------
(* The steps.                                                              *)

(* Before the first frame nothing is registered.                           *)
LEMMA InitIInv == Init => IInv
<1> SUFFICES ASSUME Init PROVE IInv
  OBVIOUS
<1> USE DEF Init, TimersInit, DebouncerInit, ThrottlerInit
<1>1. Registration
  <2>1. order \in Seq(Ids) /\ IsInjective(order) /\ ToSet(order) = {}
    BY DEF IsInjective, ToSet
  <2> QED BY <2>1, Setting DEF Registration, NoDrift
<1>2. Collection
  BY DEF Collection
<1>3. LimiterTypes
  <2>1. Delay \in Nat /\ 0 \in 0 .. Delay /\ Delay \in 0 .. Delay
    BY Setting
  <2>2. <<>> \in Seq(Call)
    OBVIOUS
  <2> QED BY <2>1, <2>2 DEF LimiterTypes
<1>4. ~IsCollected(D) /\ ~IsCollected(T) /\ timers[D] = None /\ timers[T] = None
  BY Setting DEF IsCollected
<1>5. Pending /\ Spaced /\ LimitersAreArmed
  BY <1>4 DEF Pending, Spaced, LimitersAreArmed, WillEnd
<1> QED BY <1>1, <1>2, <1>3, <1>5 DEF IInv

(* Debouncer.call                                                          *)
LEMMA DebounceStep ==
    ASSUME IInv, Undisturbed, NEW a \in DebounceArgs, Debounce(a)
    PROVE  IInv'
<1> USE DEF IInv
<1>1. /\ Registration' /\ Collection'
      /\ timers'[D] # None /\ timers'[D].elapsed = 0
      /\ \A x \in Ids : x # D => timers'[x] = timers[x]
      /\ \A x : IsCollected(x)' <=> IsCollected(x)
  BY Registered, Setting DEF Debounce
<1>2. \A x : Running(x)' <=> Running(x)
  BY CallsStay DEF Debounce
<1>3. LimiterTypes'
  BY Setting DEF LimiterTypes, Debounce, throttlerVars, Args
<1>4. Pending'
  <2>1. /\ pending' = TRUE /\ args' = a /\ latest' = a /\ idle' = 0
        /\ late' = (late \/ IsCollected(D))
    BY DEF Debounce
  <2>2. Delay \in Nat /\ 0 < Delay
    BY Setting
  <2> QED BY <1>1, <2>1, <2>2 DEF Pending, WillEnd
<1>5. Spaced'
  BY <1>1, <1>2, Setting DEF Spaced, Debounce, throttlerVars, Undisturbed
<1>6. LimitersAreArmed'
  BY <1>1, <1>2, Setting DEF LimitersAreArmed, Debounce, throttlerVars, WillEnd, Undisturbed, Running
<1> QED BY <1>1, <1>3, <1>4, <1>5, <1>6

(* Debouncer.cancel                                                        *)
LEMMA DebounceCancelStep ==
    ASSUME IInv, Undisturbed, DebounceCancel
    PROVE  IInv'
<1> USE DEF IInv
<1>1. /\ Registration' /\ Collection' /\ current' = current
      /\ \A x \in Ids : timers'[x] = IF x \in {D} THEN None ELSE timers[x]
      /\ \A x : IsCollected(x)' <=> IsCollected(x)
  BY Removed, Setting DEF DebounceCancel, RemoveTimer
<1>2. \A x : Running(x)' <=> Running(x)
  BY CallsStay DEF DebounceCancel
<1>3. LimiterTypes'
  <2>1. current' = current /\ 0 \in 0 .. Delay
    BY <1>1, Setting
  <2>2. late' \in BOOLEAN
    BY DEF DebounceCancel
  <2> QED BY <2>1, <2>2 DEF LimiterTypes, DebounceCancel, throttlerVars
<1>4. /\ pending' = FALSE /\ args' = None /\ latest' = None /\ idle' = 0
      /\ late' = (late \/ IsCollected(D))
  BY DEF DebounceCancel
<1>5. Pending'
  BY <1>1, <1>4, Setting DEF Pending, WillEnd
<1>6. Spaced'
  BY <1>1, <1>2, Setting DEF Spaced, DebounceCancel, throttlerVars, Undisturbed
<1>7. LimitersAreArmed'
  BY <1>1, <1>2, Setting DEF LimitersAreArmed, DebounceCancel, throttlerVars, WillEnd, Undisturbed, Running
<1> QED BY <1>1, <1>3, <1>5, <1>6, <1>7

(* Debouncer.flush: it fires with the latest arguments.                    *)
LEMMA DebounceFlushStep ==
    ASSUME IInv, Undisturbed, DebounceFlush
    PROVE  /\ IInv'
           /\ latest # None /\ calls'[Len(calls')] = [by |-> D, args |-> latest]
<1> USE DEF IInv
<1>1. /\ Registration' /\ Collection' /\ current' = current
      /\ \A x \in Ids : timers'[x] = IF x \in {D} THEN None ELSE timers[x]
      /\ \A x : IsCollected(x)' <=> IsCollected(x)
  BY Removed, Setting DEF DebounceFlush, RemoveTimer
<1>2. /\ calls' \in Seq(Call)
      /\ calls'[Len(calls')] = [by |-> D, args |-> args]
      /\ \A x : Running(x)' <=> x = D \/ Running(x)
  BY CallStarts DEF LimiterTypes, DebounceFlush, Fire
<1>3. LimiterTypes'
  <2>1. current' = current /\ 0 \in 0 .. Delay /\ calls' \in Seq(Call)
    BY <1>1, <1>2, Setting
  <2>2. late' \in BOOLEAN
    BY DEF DebounceFlush
  <2> QED BY <2>1, <2>2 DEF LimiterTypes, DebounceFlush, Fire, throttlerVars
<1>4. /\ pending' = FALSE /\ args' = None /\ latest' = None /\ idle' = 0
      /\ late' = (late \/ IsCollected(D))
  BY DEF DebounceFlush, Fire
<1>5. Pending'
  BY <1>1, <1>4, Setting DEF Pending, WillEnd
<1>6. Spaced'
  BY <1>1, <1>2, Setting DEF Spaced, DebounceFlush, Fire, throttlerVars, Undisturbed
<1>7. LimitersAreArmed'
  BY <1>1, <1>2, Setting DEF LimitersAreArmed, DebounceFlush, Fire, throttlerVars, WillEnd, Undisturbed, Running
<1>8. latest # None /\ args = latest
  BY Setting DEF Pending, DebounceFlush
<1> QED BY <1>1, <1>2, <1>3, <1>5, <1>6, <1>7, <1>8

(* Throttler.call                                                          *)
LEMMA ThrottleStep ==
    ASSUME IInv, Undisturbed, NEW a \in ThrottleArgs, Throttle(a)
    PROVE  IInv' /\ (Len(calls') > Len(calls) => since = Delay)
<1> USE DEF IInv
<1>1. /\ UNCHANGED debouncerVars /\ failed' = failed
      /\ late' = (late \/ (~locked /\ IsCollected(T)))
  BY DEF Throttle
<1>2. CASE ~locked /\ leading /\ ThrottleUnlocked(a)
  <2>1. /\ locked' = TRUE /\ since' = 0 /\ UNCHANGED <<timers, order, batch, current, leading, queued>>
        /\ Invoke(T, a)
    BY <1>2 DEF ThrottleUnlocked, timerVars
  <2>2. Registration' /\ Collection' /\ \A x : IsCollected(x)' <=> IsCollected(x)
    BY <2>1, TimersStay
  <2>3. calls' \in Seq(Call) /\ \A x : Running(x)' <=> x = T \/ Running(x)
    BY <2>1, CallStarts DEF Args
  <2>4. LimiterTypes'
    BY <1>1, <2>1, <2>3, Setting DEF LimiterTypes, debouncerVars
  <2>5. Pending'
    BY <1>1, <2>1, <2>2 DEF Pending, WillEnd, debouncerVars, Undisturbed
  <2>6. Spaced' /\ since = Delay
    BY <1>1, <1>2, <2>1, <2>2, <2>3 DEF Spaced, Undisturbed
  <2>7. LimitersAreArmed'
    BY <1>1, <1>2, <2>1, <2>2, <2>3 DEF LimitersAreArmed, WillEnd, debouncerVars, Undisturbed, Running
  <2> QED BY <2>2, <2>4, <2>5, <2>6, <2>7
<1>3. CASE ~locked /\ ~leading /\ ThrottleUnlocked(a)
  <2>1. /\ locked' = TRUE /\ queued' = a /\ UNCHANGED <<leading, calls, since, current>>
        /\ timers' = [timers EXCEPT ![T] = Fresh(Delay, TRUE)]
        /\ order' = IF timers[T] = None THEN Append(order, T) ELSE order
        /\ batch' = CancelCollected({T})
    BY <1>3 DEF ThrottleUnlocked, AddOnce, Register
  <2>2. /\ Registration' /\ Collection'
        /\ timers'[T] # None /\ timers'[T].elapsed = 0
        /\ \A x \in Ids : x # T => timers'[x] = timers[x]
        /\ \A x : IsCollected(x)' <=> IsCollected(x)
    BY <2>1, Registered, Setting
  <2>3. \A x : Running(x)' <=> Running(x)
    BY <2>1, CallsStay
  <2>4. LimiterTypes'
    BY <1>1, <2>1, Setting DEF LimiterTypes, debouncerVars, Args
  <2>5. Pending'
    BY <1>1, <2>1, <2>2, Setting DEF Pending, WillEnd, debouncerVars, Undisturbed
  <2>6. Spaced'
    <3>1. since = Delay /\ 0 <= Delay
      BY <1>3, Setting DEF Spaced, Undisturbed
    <3>2. since' = Delay /\ locked' = TRUE /\ timers'[T].elapsed = 0
      BY <2>1, <2>2, <3>1
    <3> QED BY <3>1, <3>2 DEF Spaced
  <2>7. LimitersAreArmed'
    BY <1>1, <1>3, <2>1, <2>2, <2>3, Setting DEF LimitersAreArmed, WillEnd, debouncerVars, Undisturbed, Running
  <2>8. ~(Len(calls') > Len(calls))
    BY <2>1 DEF LimiterTypes
  <2> QED BY <2>2, <2>4, <2>5, <2>6, <2>7, <2>8
<1>4. CASE ThrottleLocked(a)
  <2>1. /\ locked /\ queued' = a
        /\ UNCHANGED <<timers, order, batch, current, leading, locked, since, calls>>
    BY <1>4 DEF ThrottleLocked, timerVars
  <2>2. Registration' /\ Collection' /\ \A x : IsCollected(x)' <=> IsCollected(x)
    BY <2>1, TimersStay
  <2>3. \A x : Running(x)' <=> Running(x)
    BY <2>1, CallsStay
  <2>4. LimiterTypes'
    BY <1>1, <2>1, Setting DEF LimiterTypes, debouncerVars, Args
  <2>5. Pending'
    BY <1>1, <2>1, <2>2 DEF Pending, WillEnd, debouncerVars, Undisturbed
  <2>6. Spaced'
    BY <1>1, <2>1, <2>2, <2>3 DEF Spaced, Undisturbed
  <2>7. LimitersAreArmed'
    BY <1>1, <2>1, <2>2, <2>3 DEF LimitersAreArmed, WillEnd, debouncerVars, Undisturbed, Running
  <2>8. ~(Len(calls') > Len(calls))
    BY <2>1 DEF LimiterTypes
  <2> QED BY <2>2, <2>4, <2>5, <2>6, <2>7, <2>8
<1> QED BY <1>2, <1>3, <1>4 DEF Throttle, ThrottleUnlocked

(* Throttler.cancel                                                        *)
LEMMA ThrottleCancelStep ==
    ASSUME IInv, Undisturbed, ThrottleCancel
    PROVE  IInv'
<1> USE DEF IInv
<1>1. /\ Registration' /\ Collection' /\ current' = current
      /\ \A x \in Ids : timers'[x] = IF x \in {T} THEN None ELSE timers[x]
      /\ \A x : IsCollected(x)' <=> IsCollected(x)
  BY Removed, Setting DEF ThrottleCancel, RemoveTimer
<1>2. \A x : Running(x)' <=> Running(x)
  BY CallsStay DEF ThrottleCancel
<1>3. LimiterTypes'
  <2>1. Delay \in 0 .. Delay
    BY Setting
  <2> QED BY <1>1, <2>1 DEF LimiterTypes, ThrottleCancel, debouncerVars
<1>4. /\ locked' = FALSE /\ queued' = None /\ since' = Delay
      /\ late' = (late \/ IsCollected(T)) /\ UNCHANGED debouncerVars
  BY DEF ThrottleCancel
<1>5. Pending'
  BY <1>1, <1>4, Setting DEF Pending, WillEnd, debouncerVars, Undisturbed
<1>6. Spaced'
  BY <1>1, <1>4, Setting DEF Spaced
<1>7. LimitersAreArmed'
  BY <1>1, <1>2, <1>4, Setting DEF LimitersAreArmed, debouncerVars, WillEnd, Undisturbed, ThrottleCancel
<1> QED BY <1>1, <1>3, <1>5, <1>6, <1>7

(* update() calls Debouncer._fire: with the latest arguments, when the     *)
(* last call() is a delay ago.                                             *)
LEMMA FireFromUpdateStep ==
    ASSUME IInv, FireFromUpdate
    PROVE  /\ IInv'
           /\ late \/ ( /\ latest # None /\ calls'[Len(calls')] = [by |-> D, args |-> latest]
                        /\ idle = Delay )
<1> USE DEF IInv
<1>1. /\ batch # <<>> /\ Head(batch).id = D /\ current' = Head(batch) /\ batch' = Tail(batch)
      /\ UNCHANGED <<timers, order, throttlerVars, failed, late>>
      /\ pending' = FALSE /\ args' = None /\ latest' = None /\ idle' = 0
      /\ Invoke(D, args)
  BY DEF FireFromUpdate, CallbackStart, Fire
<1>2. /\ Collection' /\ Head(batch) = batch[1] /\ batch[1] \in Callback /\ IsCollected(batch[1].id)
      /\ \A x : IsCollected(x)' => IsCollected(x)
      /\ \A x : x # batch[1].id /\ IsCollected(x) => IsCollected(x)'
      /\ \A x : x = batch[1].id /\ batch[1].once => ~IsCollected(x)'
  BY <1>1, TakeCollects
<1>3. batch[1].id = D /\ batch[1].once
  <2>1. 1 \in DOMAIN batch
    BY <1>1 DEF Collection
  <2> QED BY <1>1, <1>2, <2>1 DEF Collection
<1>4. Registration'
  BY <1>1 DEF Registration, NoDrift
<1>5. /\ calls' \in Seq(Call)
      /\ calls'[Len(calls')] = [by |-> D, args |-> args]
      /\ \A x : Running(x)' <=> x = D \/ Running(x)
  BY <1>1, CallStarts DEF LimiterTypes
<1>6. LimiterTypes'
  <2>1. current' \in Callback /\ 0 \in 0 .. Delay
    BY <1>1, <1>2, Setting
  <2> QED BY <1>1, <1>5, <2>1 DEF LimiterTypes, throttlerVars
<1>7. late \/ (timers[D] = None /\ idle = Delay /\ pending)
  BY <1>2, <1>3 DEF Pending, WillEnd
<1>8. Pending'
  BY <1>1, <1>2, <1>3, <1>7 DEF Pending, WillEnd
<1>9. Spaced'
  BY <1>1, <1>2, <1>5, Setting DEF Spaced, throttlerVars
<1>10. LimitersAreArmed'
  BY <1>1, <1>2, <1>3, <1>5, <1>7, Setting DEF LimitersAreArmed, throttlerVars, WillEnd, Running
<1>11. late \/ (latest # None /\ args = latest /\ idle = Delay)
  BY <1>7, Setting DEF Pending
<1> QED BY <1>2, <1>4, <1>5, <1>6, <1>8, <1>9, <1>10, <1>11

(* Throttler._on_interval_end                                              *)
LEMMA IntervalEndStep ==
    ASSUME IInv, IntervalEnd
    PROVE  IInv' /\ (Len(calls') > Len(calls) => late \/ failed \/ since = Delay)
<1> USE DEF IInv
<1>1. /\ batch # <<>> /\ Head(batch).id = T /\ batch' = Tail(batch) /\ current = None
      /\ UNCHANGED <<leading, debouncerVars, late, failed>>
  BY DEF IntervalEnd
<1>2. /\ Head(batch) = batch[1] /\ Head(batch) \in Callback /\ 1 \in DOMAIN batch
  BY <1>1, RestOfBatch DEF Collection
<1>3. batch[1].id = T /\ batch[1].once
  BY <1>1, <1>2 DEF Collection
<1>4. \A x \in Ids : timers[x] = None => timers'[x] = None \/ x = T
  BY <1>1 DEF IntervalEnd, Registration
<1>5. /\ Collection' /\ Head(batch) = batch[1] /\ batch[1] \in Callback /\ IsCollected(batch[1].id)
      /\ \A x : IsCollected(x)' => IsCollected(x)
      /\ \A x : x # batch[1].id /\ IsCollected(x) => IsCollected(x)'
      /\ \A x : x = batch[1].id /\ batch[1].once => ~IsCollected(x)'
  BY <1>1, <1>3, <1>4, TakeCollects
<1>6. IsCollected(T) /\ ~IsCollected(T)' /\ (IsCollected(D)' <=> IsCollected(D))
  BY <1>3, <1>5, Setting
<1>7. late \/ failed \/ since = Delay
  BY <1>6 DEF Spaced
<1>8. CASE queued = None /\ locked' = FALSE /\ UNCHANGED <<timers, order, current, queued, since, calls>>
  <2>1. Registration'
    BY <1>8 DEF Registration, NoDrift
  <2>2. \A x : Running(x)' <=> Running(x)
    BY <1>8, CallsStay
  <2>3. LimiterTypes'
    BY <1>1, <1>8 DEF LimiterTypes, debouncerVars
  <2>4. Pending'
    BY <1>1, <1>6, <1>8 DEF Pending, WillEnd, debouncerVars
  <2>5. Spaced'
    BY <1>1, <1>6, <1>7, <1>8, <2>2 DEF Spaced
  <2>6. LimitersAreArmed'
    BY <1>1, <1>6, <1>8 DEF LimitersAreArmed, WillEnd, debouncerVars
  <2>7. ~(Len(calls') > Len(calls))
    BY <1>8 DEF LimiterTypes
  <2> QED BY <1>5, <2>1, <2>3, <2>4, <2>5, <2>6, <2>7
<1>9. CASE /\ queued # None /\ leading /\ locked' = TRUE /\ queued' = None /\ Invoke(T, queued)
           /\ since' = 0 /\ current' = Head(batch) /\ UNCHANGED <<timers, order>>
  <2>1. Registration'
    BY <1>9 DEF Registration, NoDrift
  <2>2. calls' \in Seq(Call) /\ \A x : Running(x)' <=> x = T \/ Running(x)
    BY <1>9, CallStarts DEF LimiterTypes
  <2>3. LimiterTypes'
    <3>1. 0 \in 0 .. Delay
      BY Setting
    <3> QED BY <1>1, <1>2, <1>9, <2>2, <3>1 DEF LimiterTypes, debouncerVars
  <2>4. Pending'
    BY <1>1, <1>6, <1>9 DEF Pending, WillEnd, debouncerVars
  <2>5. Spaced'
    BY <1>6, <1>9, <2>2 DEF Spaced
  <2>6. LimitersAreArmed'
    BY <1>1, <1>6, <1>9, <2>2 DEF LimitersAreArmed, WillEnd, debouncerVars, Running
  <2> QED BY <1>5, <1>7, <2>1, <2>3, <2>4, <2>5, <2>6
<1>10. CASE /\ queued # None /\ ~leading /\ locked' = TRUE
            /\ timers' = [timers EXCEPT ![T] = Fresh(Delay, TRUE)]
            /\ order' = IF timers[T] = None THEN Append(order, T) ELSE order
            /\ UNCHANGED <<current, queued, since, calls>>
  <2>1. Registration'
    BY <1>10, ArmKeeps, Setting
  <2>2. /\ timers'[T] # None /\ timers'[T].elapsed = 0
        /\ \A x \in Ids : x # T => timers'[x] = timers[x]
    <3>1. timers'[T] = Fresh(Delay, TRUE) /\ \A x \in Ids : x # T => timers'[x] = timers[x]
      BY <1>10, Setting DEF Registration
    <3>2. Fresh(Delay, TRUE) \in Timer /\ Fresh(Delay, TRUE).elapsed = 0
      BY Setting, FreshTimer DEF Fresh
    <3> QED BY <3>1, <3>2, NoneAssumption
  <2>3. \A x : Running(x)' <=> Running(x)
    BY <1>10, CallsStay
  <2>4. LimiterTypes'
    BY <1>1, <1>10 DEF LimiterTypes, debouncerVars
  <2>5. Pending'
    BY <1>1, <1>6, <2>2, Setting DEF Pending, WillEnd, debouncerVars
  <2>6. Spaced'
    <3>1. late \/ failed \/ (since' = Delay /\ 0 <= Delay)
      BY <1>7, <1>10, Setting
    <3> QED BY <1>1, <1>6, <1>10, <2>2, <3>1 DEF Spaced
  <2>7. LimitersAreArmed'
    BY <1>1, <1>6, <1>10, <2>2, <2>3, Setting DEF LimitersAreArmed, WillEnd, debouncerVars
  <2>8. ~(Len(calls') > Len(calls))
    BY <1>10 DEF LimiterTypes
  <2> QED BY <1>5, <2>1, <2>4, <2>5, <2>6, <2>7, <2>8
<1> QED BY <1>8, <1>9, <1>10 DEF IntervalEnd

(* update() calls the callback of the program's timer.                     *)
LEMMA ProgramCallbackStartStep ==
    ASSUME IInv, ProgramCallbackStart
    PROVE  IInv'
<1> USE DEF IInv
<1>1. /\ batch # <<>> /\ Head(batch).id = P /\ current' = Head(batch) /\ batch' = Tail(batch)
      /\ UNCHANGED <<timers, order, debouncerVars, throttlerVars, calls, late, failed>>
  BY DEF ProgramCallbackStart, CallbackStart
<1>2. /\ Collection' /\ Head(batch) = batch[1] /\ batch[1] \in Callback /\ IsCollected(batch[1].id)
      /\ \A x : IsCollected(x)' => IsCollected(x)
      /\ \A x : x # batch[1].id /\ IsCollected(x) => IsCollected(x)'
      /\ \A x : x = batch[1].id /\ batch[1].once => ~IsCollected(x)'
  BY <1>1, TakeCollects
<1>3. (IsCollected(D)' <=> IsCollected(D)) /\ (IsCollected(T)' <=> IsCollected(T))
  BY <1>1, <1>2, Setting
<1>4. Registration'
  BY <1>1 DEF Registration, NoDrift
<1>5. \A x : Running(x)' <=> Running(x)
  BY <1>1, CallsStay
<1>6. LimiterTypes'
  BY <1>1, <1>2 DEF LimiterTypes, debouncerVars, throttlerVars
<1>7. Pending'
  BY <1>1, <1>3 DEF Pending, WillEnd, debouncerVars
<1>8. Spaced'
  BY <1>1, <1>3, <1>5 DEF Spaced, throttlerVars
<1>9. LimitersAreArmed'
  BY <1>1, <1>3, <1>5 DEF LimitersAreArmed, WillEnd, debouncerVars, throttlerVars, Running
<1> QED BY <1>2, <1>4, <1>6, <1>7, <1>8, <1>9

(* The debouncer's callback returns.                                       *)
LEMMA DebouncedReturnsStep ==
    ASSUME IInv, DebouncedReturns
    PROVE  IInv'
<1> USE DEF IInv
<1>1. /\ calls # <<>> /\ Top.by = D /\ calls' = Front(calls)
      /\ UNCHANGED <<timers, order, batch>> /\ current' \in {None, current}
      /\ UNCHANGED <<debouncerVars, throttlerVars, late, failed>>
  BY DEF DebouncedReturns, CallbackReturn, timerVars
<1>2. Registration' /\ Collection' /\ \A x : IsCollected(x)' <=> IsCollected(x)
  BY <1>1, TimersStay
<1>3. calls' \in Seq(Call) /\ (Running(T)' <=> Running(T))
  BY <1>1, CallEnds, Setting
<1>4. LimiterTypes'
  BY <1>1, <1>3 DEF LimiterTypes, debouncerVars, throttlerVars
<1>5. Pending'
  BY <1>1, <1>2 DEF Pending, WillEnd, debouncerVars
<1>6. Spaced'
  BY <1>1, <1>2, <1>3 DEF Spaced, throttlerVars
<1>7. LimitersAreArmed'
  BY <1>1, <1>2, <1>3 DEF LimitersAreArmed, WillEnd, debouncerVars, throttlerVars, Running
<1> QED BY <1>2, <1>4, <1>5, <1>6, <1>7

(* The throttler's callback returns, which arms the timer.                 *)
LEMMA ThrottledReturnsStep ==
    ASSUME IInv, ThrottledReturns
    PROVE  IInv'
<1> USE DEF IInv
<1>1. /\ calls # <<>> /\ Top.by = T /\ calls' = Front(calls) /\ current' \in {None, current}
      /\ timers' = [timers EXCEPT ![T] = Fresh(Delay, TRUE)]
      /\ order' = IF timers[T] = None THEN Append(order, T) ELSE order
      /\ batch' = CancelCollected({T})
      /\ UNCHANGED <<debouncerVars, throttlerVars, late, failed>>
  BY DEF ThrottledReturns
<1>2. /\ Registration' /\ Collection'
      /\ timers'[T] # None /\ timers'[T].elapsed = 0
      /\ \A x \in Ids : x # T => timers'[x] = timers[x]
      /\ \A x : IsCollected(x)' <=> IsCollected(x)
  BY <1>1, Registered, Setting
<1>3. calls' \in Seq(Call)
  BY <1>1, CallEnds
<1>4. LimiterTypes'
  BY <1>1, <1>3 DEF LimiterTypes, debouncerVars, throttlerVars
<1>5. Pending'
  BY <1>1, <1>2, Setting DEF Pending, WillEnd, debouncerVars
<1>6. Spaced'
  <2>1. 0 <= since
    BY DEF LimiterTypes
  <2> QED BY <1>1, <1>2, <2>1 DEF Spaced, throttlerVars
<1>7. LimitersAreArmed'
  BY <1>1, <1>2, Setting DEF LimitersAreArmed, WillEnd, debouncerVars, throttlerVars
<1> QED BY <1>2, <1>4, <1>5, <1>6, <1>7

(* A callback raises: no timer comes or goes, collected callbacks may.     *)
LEMMA RaiseKeeps ==
    ASSUME IInv, UNCHANGED <<timers, order, debouncerVars, throttlerVars, late>>,
           batch' = <<>> \/ batch' = batch, failed' = TRUE, LimiterTypes'
    PROVE  IInv'
<1> USE DEF IInv
<1>1. Registration'
  BY DEF Registration, NoDrift
<1>2. Collection' /\ \A x : IsCollected(x)' => IsCollected(x)
  BY NothingCollected, SameCollected
<1>3. Pending'
  BY <1>2 DEF Pending, WillEnd, debouncerVars
<1>4. Spaced' /\ LimitersAreArmed'
  BY DEF Spaced, LimitersAreArmed
<1> QED BY <1>1, <1>2, <1>3, <1>4

LEMMA LimiterCallbackRaisesStep ==
    ASSUME IInv, LimiterCallbackRaises
    PROVE  IInv'
<1>1. /\ calls # <<>> /\ calls' = Front(calls) /\ current' \in {None, current}
      /\ UNCHANGED <<timers, order, debouncerVars, throttlerVars, late>>
      /\ batch' = <<>> \/ batch' = batch
      /\ failed' = TRUE
  BY DEF LimiterCallbackRaises, CallbackRaise, timerVars
<1>2. calls' \in Seq(Call)
  BY <1>1, CallEnds DEF IInv
<1>3. LimiterTypes'
  BY <1>1, <1>2 DEF IInv, LimiterTypes, debouncerVars, throttlerVars
<1> QED BY <1>1, <1>3, RaiseKeeps

(* The callback of the program's timer returns or raises.                  *)
LEMMA ProgramCallbackEndsStep ==
    ASSUME IInv, ProgramCallbackEnds
    PROVE  IInv'
<1>1. /\ UNCHANGED <<timers, order, debouncerVars, throttlerVars, calls, late>> /\ current' = None
      /\ \/ batch' = batch /\ failed' = failed
         \/ batch' = <<>> /\ failed' = TRUE
  BY DEF ProgramCallbackEnds, CallbackReturn, CallbackRaise
<1>2. LimiterTypes'
  BY <1>1 DEF IInv, LimiterTypes, debouncerVars, throttlerVars
<1>3. CASE batch' = batch /\ failed' = failed
  <2> USE DEF IInv
  <2>1. Registration' /\ Collection' /\ \A x : IsCollected(x)' <=> IsCollected(x)
    BY <1>1, <1>3, TimersStay
  <2>2. \A x : Running(x)' <=> Running(x)
    BY <1>1, CallsStay
  <2>3. Pending'
    BY <1>1, <2>1 DEF Pending, WillEnd, debouncerVars
  <2>4. Spaced'
    BY <1>1, <1>3, <2>1, <2>2 DEF Spaced, throttlerVars
  <2>5. LimitersAreArmed'
    BY <1>1, <1>3, <2>1, <2>2 DEF LimitersAreArmed, WillEnd, debouncerVars, throttlerVars, Running
  <2> QED BY <1>2, <2>1, <2>3, <2>4, <2>5
<1>4. CASE batch' = <<>> /\ failed' = TRUE
  BY <1>1, <1>2, <1>4, RaiseKeeps
<1> QED BY <1>1, <1>3, <1>4

(* The program registers, moves or removes its own timer.                  *)
LEMMA ProgramTimerStep ==
    ASSUME IInv, ProgramTimer
    PROVE  IInv'
<1> USE DEF IInv
<1>1. UNCHANGED <<debouncerVars, throttlerVars, calls, late, failed>>
  BY DEF ProgramTimer
<1>2. /\ Registration' /\ Collection' /\ current' = current
      /\ timers'[D] = None <=> timers[D] = None
      /\ timers'[T] = None <=> timers[T] = None
      /\ timers[D] # None => timers'[D].elapsed = timers[D].elapsed
      /\ timers[T] # None => timers'[T].elapsed = timers[T].elapsed
      /\ \A x : IsCollected(x)' <=> IsCollected(x)
  <2>1. CASE \E i \in Intervals : AddTimer(P, i) \/ AddOnce(P, i)
    <3>1. PICK i \in Intervals, o \in BOOLEAN : Register(P, i, o)
      BY <2>1 DEF AddTimer, AddOnce
    <3>2. /\ timers' = [timers EXCEPT ![P] = Fresh(i, o)]
          /\ order' = IF timers[P] = None THEN Append(order, P) ELSE order
          /\ batch' = CancelCollected({P}) /\ current' = current
      BY <3>1 DEF Register
    <3>3. /\ Registration' /\ Collection'
          /\ \A x \in Ids : x # P => timers'[x] = timers[x]
          /\ \A x : IsCollected(x)' <=> IsCollected(x)
      BY <3>2, Registered, Setting
    <3>4. timers'[D] = timers[D] /\ timers'[T] = timers[T]
      BY <3>3, Setting
    <3> QED BY <3>2, <3>3, <3>4
  <2>2. CASE \E i \in Intervals : Reschedule(P, i)
    <3>1. PICK i \in Intervals : Reschedule(P, i)
      BY <2>2
    <3>2. Registration' /\ \A x \in Ids : timers'[x] = None <=> timers[x] = None
      BY <3>1, RescheduleKeeps
    <3>3. batch' = batch /\ current' = current
      BY <3>1 DEF Reschedule
    <3>4. Collection' /\ \A x : IsCollected(x)' <=> IsCollected(x)
      BY <3>2, <3>3, SameCollected
    <3>5. timers'[D] = timers[D] /\ timers'[T] = timers[T]
      BY <3>1, Setting DEF Reschedule, Registration
    <3> QED BY <3>2, <3>3, <3>4, <3>5
  <2>3. CASE RemoveTimer(P)
    <3>1. /\ Registration' /\ Collection' /\ current' = current
          /\ \A x \in Ids : timers'[x] = IF x \in {P} THEN None ELSE timers[x]
          /\ \A x : IsCollected(x)' <=> IsCollected(x)
      BY <2>3, Removed, Setting DEF RemoveTimer
    <3>2. timers'[D] = timers[D] /\ timers'[T] = timers[T]
      BY <3>1, Setting
    <3> QED BY <3>1, <3>2
  <2> QED BY <2>1, <2>2, <2>3 DEF ProgramTimer
<1>3. \A x : Running(x)' <=> Running(x)
  BY <1>1, CallsStay
<1>4. LimiterTypes'
  BY <1>1, <1>2 DEF LimiterTypes, debouncerVars, throttlerVars
<1>5. Pending'
  BY <1>1, <1>2 DEF Pending, WillEnd, debouncerVars
<1>6. Spaced'
  BY <1>1, <1>2, <1>3 DEF Spaced, throttlerVars
<1>7. LimitersAreArmed'
  BY <1>1, <1>2, <1>3 DEF LimitersAreArmed, WillEnd, debouncerVars, throttlerVars, Running
<1> QED BY <1>2, <1>4, <1>5, <1>6, <1>7

(* Timers.cancel_all                                                       *)
LEMMA ProgramCancelsAllStep ==
    ASSUME IInv, Undisturbed, ProgramCancelsAll
    PROVE  IInv'
<1> USE DEF IInv
<1>1. /\ Registration' /\ Collection' /\ current' = current
      /\ \A x \in Ids : timers'[x] = IF x \in Ids THEN None ELSE timers[x]
      /\ \A x : IsCollected(x)' <=> IsCollected(x)
  BY Removed DEF ProgramCancelsAll, CancelAll
<1>2. failed' = TRUE /\ UNCHANGED <<debouncerVars, throttlerVars, calls, late>>
  BY DEF ProgramCancelsAll
<1>3. LimiterTypes'
  BY <1>1, <1>2 DEF LimiterTypes, debouncerVars, throttlerVars
<1>4. Pending'
  BY <1>1, <1>2, Setting DEF Pending, WillEnd, debouncerVars, Undisturbed
<1>5. Spaced' /\ LimitersAreArmed'
  BY <1>2 DEF Spaced, LimitersAreArmed
<1> QED BY <1>1, <1>3, <1>4, <1>5

(* Time that is counted up to Delay.                                       *)
LEMMA Counting ==
    ASSUME NEW t \in 0 .. Delay, NEW dt \in Steps
    PROVE  /\ UpTo(t + dt) \in 0 .. Delay
           /\ t = Delay => UpTo(t + dt) = Delay
           /\ \A e \in Nat : e <= t => /\ e + dt >= Delay => UpTo(t + dt) = Delay
                                       /\ e + dt < Delay => e + dt <= UpTo(t + dt)
           /\ t + dt < Delay => UpTo(t + dt) = t + dt
  BY Setting, StepsType DEF UpTo

(* update(), up to the first callback.                                     *)
LEMMA UpdateStep ==
    ASSUME IInv, NEW dt \in Steps, Update(dt)
    PROVE  IInv'
<1> USE DEF IInv
<1>1. /\ calls = <<>> /\ UpdateStart(dt) /\ batch = <<>> /\ current' = current
      /\ idle' = (IF pending THEN UpTo(idle + dt) ELSE 0)
      /\ since' = UpTo(since + dt)
      /\ UNCHANGED <<pending, args, latest, leading, locked, queued, calls, late, failed>>
  BY DEF Update, UpdateStart, InUpdate
<1>2. Registration' /\ Collection'
  BY <1>1, FrameKeeps, FrameCollects
<1>3. \A x \in {D, T} :
         /\ IsCollected(x)' => timers[x] # None /\ timers'[x] = None /\ timers[x].elapsed + dt >= Delay
         /\ timers'[x] # None => /\ timers[x] # None
                                 /\ timers'[x].elapsed = timers[x].elapsed + dt
                                 /\ timers'[x].elapsed < Delay
         /\ timers[x] # None => WillEnd(x)'
  BY <1>1, FrameCollects
<1>4. ~IsCollected(D) /\ ~IsCollected(T) /\ ~Running(T)
  BY <1>1 DEF IsCollected, Running
<1>5. \A x \in {D, T} : timers[x] # None => timers[x].elapsed \in Nat
  BY Setting, TimerFields DEF Registration
<1>6. idle \in 0 .. Delay /\ since \in 0 .. Delay /\ 0 \in 0 .. Delay /\ Delay \in Nat /\ dt \in Nat
  BY Setting, StepsType DEF LimiterTypes
<1>7. LimiterTypes'
  <2>1. idle' \in 0 .. Delay /\ since' \in 0 .. Delay
    BY <1>1, <1>6, Counting
  <2> QED BY <1>1, <2>1 DEF LimiterTypes
<1>8. Pending'
  <2>1. pending' => args' = latest' /\ latest' \in DebounceArgs
    BY <1>1 DEF Pending
  <2>2. ASSUME ~late, IsCollected(D)' PROVE timers'[D] = None /\ idle' = Delay
    <3>1. /\ timers[D] # None /\ timers'[D] = None /\ timers[D].elapsed + dt >= Delay
      BY <1>3, <2>2
    <3>2. pending /\ idle = timers[D].elapsed
      BY <2>2, <3>1 DEF Pending, WillEnd
    <3>3. UpTo(idle + dt) = Delay
      BY <1>6, <3>1, <3>2, Counting
    <3> QED BY <1>1, <3>1, <3>2, <3>3
  <2>3. ASSUME ~late, WillEnd(D)' PROVE pending'
    <3>1. timers[D] # None
      BY <1>3, <2>3 DEF WillEnd
    <3> QED BY <1>1, <2>3, <3>1 DEF Pending, WillEnd
  <2>4. ASSUME ~late, timers'[D] # None PROVE idle' = timers'[D].elapsed /\ idle' < Delay
    <3>1. /\ timers[D] # None /\ timers'[D].elapsed = timers[D].elapsed + dt
          /\ timers'[D].elapsed < Delay
      BY <1>3, <2>4
    <3>2. pending /\ idle = timers[D].elapsed
      BY <2>4, <3>1 DEF Pending, WillEnd
    <3>3. UpTo(idle + dt) = idle + dt
      BY <1>6, <3>1, <3>2, Counting
    <3> QED BY <1>1, <3>1, <3>2, <3>3
  <2>5. late' = late
    BY <1>1
  <2> QED BY <2>1, <2>2, <2>3, <2>4, <2>5 DEF Pending
<1>9. Spaced'
  <2> SUFFICES ASSUME ~late, ~failed
               PROVE  /\ ~locked' => since' = Delay
                      /\ IsCollected(T)' => since' = Delay
                      /\ timers'[T] # None /\ ~Running(T)' => timers'[T].elapsed <= since'
    BY <1>1 DEF Spaced
  <2>1. ~locked' => since' = Delay
    BY <1>1, <1>6, Counting DEF Spaced
  <2>2. ASSUME timers[T] # None PROVE timers[T].elapsed \in Nat /\ timers[T].elapsed <= since
    BY <1>4, <1>5, <2>2 DEF Spaced
  <2>3. IsCollected(T)' => since' = Delay
    BY <1>1, <1>3, <1>6, <2>2, Counting
  <2>4. timers'[T] # None => timers'[T].elapsed <= since'
    BY <1>1, <1>3, <1>6, <2>2, Counting
  <2> QED BY <2>1, <2>3, <2>4
<1>10. LimitersAreArmed'
  <2> SUFFICES ASSUME ~late, ~failed
               PROVE  /\ pending' <=> WillEnd(D)'
                      /\ locked' => WillEnd(T)'
                      /\ queued' # None => locked'
    BY <1>1 DEF LimitersAreArmed
  <2>1. /\ pending <=> timers[D] # None
        /\ locked => timers[T] # None
        /\ queued # None => locked
    BY <1>4 DEF LimitersAreArmed, WillEnd, Running
  <2>2. WillEnd(D)' => timers[D] # None
    BY <1>3 DEF WillEnd
  <2> QED BY <1>1, <1>3, <2>1, <2>2
<1> QED BY <1>2, <1>7, <1>8, <1>9, <1>10

-----------------------------------------------------------------------------
(* The theorems.                                                           *)

LEMMA Stutter == IInv /\ UNCHANGED vars => IInv'
<1> SUFFICES ASSUME IInv, UNCHANGED vars PROVE IInv'
  OBVIOUS
<1> USE DEF IInv, vars, timerVars, debouncerVars, throttlerVars
<1>1. Registration' /\ Collection' /\ \A x : IsCollected(x)' <=> IsCollected(x)
  BY TimersStay
<1>2. \A x : Running(x)' <=> Running(x)
  BY CallsStay
<1>3. LimiterTypes'
  BY DEF LimiterTypes
<1>4. Pending'
  BY <1>1 DEF Pending, WillEnd
<1>5. Spaced'
  BY <1>1, <1>2 DEF Spaced
<1>6. LimitersAreArmed'
  BY <1>1, <1>2 DEF LimitersAreArmed, WillEnd, Running
<1> QED BY <1>1, <1>3, <1>4, <1>5, <1>6

LEMMA NextIInv == IInv /\ Next => IInv'
<1> SUFFICES ASSUME IInv, Next PROVE IInv'
  OBVIOUS
<1>1. CASE Program
  <2>1. Undisturbed
    BY <1>1 DEF Program
  <2>2. CASE \E a \in DebounceArgs : Debounce(a)
    BY <2>1, <2>2, DebounceStep
  <2>3. CASE \E a \in ThrottleArgs : Throttle(a)
    BY <2>1, <2>3, ThrottleStep
  <2>4. CASE DebounceCancel
    BY <2>1, <2>4, DebounceCancelStep
  <2>5. CASE DebounceFlush
    BY <2>1, <2>5, DebounceFlushStep
  <2>6. CASE ThrottleCancel
    BY <2>1, <2>6, ThrottleCancelStep
  <2>7. CASE ProgramTimer
    BY <2>7, ProgramTimerStep
  <2>8. CASE ProgramCancelsAll
    BY <2>1, <2>8, ProgramCancelsAllStep
  <2> QED BY <1>1, <2>2, <2>3, <2>4, <2>5, <2>6, <2>7, <2>8 DEF Program
<1>2. CASE Frame
  BY <1>2, UpdateStep DEF Frame
<1>3. CASE Callbacks
  BY <1>3, FireFromUpdateStep, IntervalEndStep, ProgramCallbackStartStep, DebouncedReturnsStep,
     ThrottledReturnsStep, LimiterCallbackRaisesStep, ProgramCallbackEndsStep DEF Callbacks
<1> QED BY <1>1, <1>2, <1>3 DEF Next

(* IInv is an inductive invariant.                                         *)
LEMMA Invariance == Spec => []IInv
<1>1. Init => IInv
  BY InitIInv
<1>2. IInv /\ [Next]_vars => IInv'
  BY NextIInv, Stutter
<1> QED BY <1>1, <1>2, PTL DEF Spec

(* The types of the timers and of the limiters.                            *)
THEOREM TypeCorrect == Spec => []TypeOK
<1>1. IInv => TypeOK
  BY DEF IInv, TypeOK, TimersTypeOK, Registration, Collection, LimiterTypes
<1> QED BY <1>1, Invariance, PTL

(* is_pending and is_locked are true only while their timer or callback    *)
(* is still to come, and what is pending or buffered always has one.       *)
THEOREM LimitersStayArmed == Spec => []LimitersAreArmed
<1>1. IInv => LimitersAreArmed
  BY DEF IInv
<1> QED BY <1>1, Invariance, PTL

(* No callback step removes a timer that is registered.                    *)
LEMMA CallbacksRemoveNothing ==
    ASSUME IInv, Callbacks, NEW id \in Ids, timers[id] # None
    PROVE  timers'[id] # None
<1>1. Fresh(Delay, TRUE) # None
  BY FreshTimer, Setting, NoneAssumption
<1>2. timers \in [Ids -> Timer \cup {None}]
  BY DEF IInv, Registration
<1>3. CASE IntervalEnd
  BY <1>1, <1>2, <1>3 DEF IntervalEnd
<1>4. CASE ThrottledReturns
  BY <1>1, <1>2, <1>4 DEF ThrottledReturns
<1>5. CASE FireFromUpdate \/ ProgramCallbackStart
  BY <1>5 DEF FireFromUpdate, ProgramCallbackStart, CallbackStart
<1>6. CASE DebouncedReturns \/ LimiterCallbackRaises \/ ProgramCallbackEnds
  BY <1>6 DEF DebouncedReturns, LimiterCallbackRaises, ProgramCallbackEnds,
              CallbackReturn, CallbackRaise, timerVars
<1> QED BY <1>3, <1>4, <1>5, <1>6 DEF Callbacks

(* A frame only removes one-shots.                                         *)
LEMMA FramesRemoveOneShots ==
    ASSUME IInv, Frame, NEW id \in Ids, timers[id] # None, timers'[id] = None
    PROVE  timers[id].once
<1>1. PICK dt \in Steps : UpdateStart(dt)
  BY DEF Frame, Update
<1>2. id \in Expired(dt)
  BY <1>1, FrameKeeps DEF IInv
<1> QED BY <1>2 DEF Expired

(* Timers lose no time, one-shots are called at most once, and a timer     *)
(* that a callback arms again survives the frame.                          *)
THEOREM TimersAreSafe == Spec => TimersSafe
<1>1. IInv => NoDrift /\ OneShotOnce
  BY DEF IInv, Registration, Collection, OneShotOnce
<1>2. IInv /\ [Next]_vars =>
        [\A id \in Ids : timers[id] # None /\ timers'[id] = None =>
            Program \/ (Frame /\ timers[id].once)]_vars
  <2> SUFFICES ASSUME IInv, Next, NEW id \in Ids, timers[id] # None, timers'[id] = None
               PROVE  Program \/ (Frame /\ timers[id].once)
    OBVIOUS
  <2> QED BY CallbacksRemoveNothing, FramesRemoveOneShots DEF Next
<1> QED BY <1>1, <1>2, Invariance, PTL DEF Spec, TimersSafe, ReArmSurvives

(* Whose callback a step starts.                                           *)
LEMMA WhatFires ==
    ASSUME IInv, Next, NEW by \in {D, T}, Fired(by)
    PROVE  \/ by = D /\ Undisturbed /\ DebounceFlush
           \/ by = D /\ FireFromUpdate
           \/ by = T /\ Undisturbed /\ \E a \in ThrottleArgs : Throttle(a)
           \/ by = T /\ IntervalEnd
<1>1. calls \in Seq(Call) /\ Len(calls) \in Nat /\ D # T
  BY Setting DEF IInv, LimiterTypes
<1>2. calls' # calls /\ ~(Len(calls') < Len(calls))
  BY <1>1 DEF Fired
<1>3. ASSUME NEW x \in {D, T}, NEW a \in Args \cup {None}, Invoke(x, a) PROVE by = x
  <2>1. calls'[Len(calls')] = [by |-> x, args |-> a]
    BY <1>3, CallStarts DEF IInv
  <2>2. calls'[Len(calls')].by = x
    BY <2>1
  <2> QED BY <2>2 DEF Fired
<1>4. CASE Program
  <2>1. Undisturbed
    BY <1>4 DEF Program
  <2>2. CASE \E a \in DebounceArgs : Debounce(a)
    BY <1>2, <2>2 DEF Debounce
  <2>3. CASE \E a \in ThrottleArgs : Throttle(a)
    <3>1. PICK a \in ThrottleArgs : Throttle(a)
      BY <2>3
    <3>2. Invoke(T, a)
      BY <1>2, <3>1 DEF Throttle, ThrottleUnlocked, ThrottleLocked
    <3>3. by = T
      BY <1>3, <3>2 DEF Args
    <3> QED BY <2>1, <3>1, <3>3
  <2>4. CASE DebounceCancel \/ ThrottleCancel \/ ProgramTimer \/ ProgramCancelsAll
    BY <1>2, <2>4 DEF DebounceCancel, ThrottleCancel, ProgramTimer, ProgramCancelsAll
  <2>5. CASE DebounceFlush
    <3>1. Invoke(D, args) /\ args \in Args \cup {None}
      BY <2>5 DEF DebounceFlush, Fire, IInv, LimiterTypes
    <3> QED BY <1>3, <2>1, <2>5, <3>1
  <2> QED BY <1>4, <2>2, <2>3, <2>4, <2>5 DEF Program
<1>5. CASE Frame
  BY <1>2, <1>5 DEF Frame, Update
<1>6. CASE FireFromUpdate
  <2>1. Invoke(D, args) /\ args \in Args \cup {None}
    BY <1>6 DEF FireFromUpdate, Fire, IInv, LimiterTypes
  <2> QED BY <1>3, <1>6, <2>1
<1>7. CASE IntervalEnd
  <2>1. Invoke(T, queued) /\ queued \in Args \cup {None}
    BY <1>2, <1>7 DEF IntervalEnd, IInv, LimiterTypes
  <2> QED BY <1>3, <1>7, <2>1
<1>8. CASE DebouncedReturns \/ ThrottledReturns \/ LimiterCallbackRaises
  <2>1. calls # <<>> /\ calls' = Front(calls)
    BY <1>8 DEF DebouncedReturns, ThrottledReturns, LimiterCallbackRaises
  <2>2. Len(calls') < Len(calls)
    BY <2>1, CallEnds DEF IInv
  <2> QED BY <1>2, <2>2
<1>9. CASE ProgramCallbackStart \/ ProgramCallbackEnds
  BY <1>2, <1>9 DEF ProgramCallbackStart, ProgramCallbackEnds
<1> QED BY <1>4, <1>5, <1>6, <1>7, <1>8, <1>9 DEF Next, Callbacks

(* The debouncer's callback gets the latest arguments and runs, in         *)
(* update(), only when the whole delay is over; the throttler's runs at    *)
(* most once per interval.                                                 *)
THEOREM LimitersFireRight == Spec => FiresRight
<1>1. IInv /\ [Next]_vars =>
        [Fired(D) => late \/ (latest # None /\ calls'[Len(calls')].args = latest)]_vars
  <2> SUFFICES ASSUME IInv, Next, Fired(D), ~late
               PROVE  latest # None /\ calls'[Len(calls')].args = latest
    OBVIOUS
  <2>1. (Undisturbed /\ DebounceFlush) \/ FireFromUpdate
    BY WhatFires, Setting
  <2>2. latest # None /\ calls'[Len(calls')] = [by |-> D, args |-> latest]
    BY <2>1, DebounceFlushStep, FireFromUpdateStep
  <2> QED BY <2>2
<1>2. IInv /\ [Next]_vars => [FireFromUpdate => late \/ idle >= Delay]_vars
  <2> SUFFICES ASSUME IInv, FireFromUpdate PROVE late \/ idle >= Delay
    OBVIOUS
  <2>1. late \/ idle = Delay
    BY FireFromUpdateStep
  <2> QED BY <2>1, Setting
<1>3. IInv /\ [Next]_vars => [Fired(T) => late \/ failed \/ since >= Delay]_vars
  <2> SUFFICES ASSUME IInv, Next, Fired(T) PROVE late \/ failed \/ since >= Delay
    OBVIOUS
  <2>1. (Undisturbed /\ \E a \in ThrottleArgs : Throttle(a)) \/ IntervalEnd
    BY WhatFires, Setting
  <2>2. Len(calls') > Len(calls)
    BY DEF Fired
  <2>3. late \/ failed \/ since = Delay
    BY <2>1, <2>2, ThrottleStep, IntervalEndStep
  <2> QED BY <2>3, Setting
<1> QED BY <1>1, <1>2, <1>3, Invariance, PTL
        DEF Spec, FiresRight, FiresLatest, FiresWhenIdle, OncePerInterval
=============================================================================
