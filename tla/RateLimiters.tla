----------------------------- MODULE RateLimiters -----------------------------
(***************************************************************************)
(* gui_do/scheduling/rate_limiter.py on gui_do/scheduling/timers.py: a     *)
(* Debouncer, a Throttler and a timer of the program share one Timers.     *)
(*                                                                         *)
(* The debouncer's callback runs Delay after the last call(), with that    *)
(* call's arguments.  The throttler's runs at most once per Delay, and the *)
(* most recent of the calls in between is delivered when the interval      *)
(* ends.  Both callbacks, and the program's timer, are program code: they  *)
(* may use the timers and both limiters again, and they may raise.         *)
(* `calls` is the stack of limiter callbacks now running.                  *)
(***************************************************************************)
EXTENDS Timers

CONSTANTS
  D, T, P,  \* the timer ids of the debouncer, the throttler, the program
  Delay,    \* _delay_s of the debouncer, _interval_s of the throttler
  DebounceArgs, ThrottleArgs,  \* arguments of the two call()s
  Edges,    \* the values of leading given to Throttler.__init__
  MaxDepth  \* bound of the model: limiter callbacks running at a time

ASSUME RateLimitersAssumption ==
  /\ Ids = {D, T, P} /\ D # T /\ D # P /\ T # P
  /\ Delay \in Intervals
  /\ None \notin DebounceArgs \cup ThrottleArgs
  /\ Edges \subseteq BOOLEAN
  /\ MaxDepth \in Nat \ {0}

VARIABLES
  pending,  \* Debouncer._pending
  args,     \* Debouncer._pending_args, None for ()
  leading,  \* Throttler._leading
  locked,   \* Throttler._locked
  queued,   \* Throttler._queued_args
  calls,    \* the limiter callbacks running, innermost last
  latest,   \* history: arguments of the debouncer's last call() in force
  idle,     \* history: how long the pending call() is ago, up to Delay
  since,    \* history: time since the throttler's callback was invoked, up
            \* to Delay, which it is also after cancel()
  late,     \* history: a limiter was called or cancelled after update() had
            \* collected its timer
  failed    \* history: an exception or cancel_all() took a timer away

debouncerVars == <<pending, args, latest, idle>>
throttlerVars == <<leading, locked, queued, since>>
vars == <<timerVars, debouncerVars, throttlerVars, calls, late, failed>>

Args == DebounceArgs \cup ThrottleArgs
Call == [by : {D, T}, args : Args \cup {None}]

TypeOK ==
  /\ TimersTypeOK
  /\ pending \in BOOLEAN
  /\ args \in Args \cup {None}
  /\ latest \in Args \cup {None}
  /\ idle \in 0 .. Delay
  /\ leading \in Edges
  /\ locked \in BOOLEAN
  /\ queued \in Args \cup {None}
  /\ since \in 0 .. Delay
  /\ calls \in Seq(Call)
  /\ late \in BOOLEAN
  /\ failed \in BOOLEAN

DebouncerInit ==
  /\ pending = FALSE
  /\ args = None
  /\ latest = None
  /\ idle = 0

ThrottlerInit ==
  /\ leading \in Edges
  /\ locked = FALSE
  /\ queued = None
  /\ since = Delay

Init ==
  /\ TimersInit
  /\ DebouncerInit
  /\ ThrottlerInit
  /\ calls = <<>>
  /\ late = FALSE
  /\ failed = FALSE

IsCollected(id) == \E i \in DOMAIN batch : batch[i].id = id
Invoke(by, a) == calls' = Append(calls, [by |-> by, args |-> a])

(* update() runs a limiter's callback: it is the first of `calls`.         *)
FromLimiter == current # None /\ current.id \in {D, T}

(* Program code runs: outside update(), in the callback of a timer of the  *)
(* program, or in a limiter's callback.                                    *)
ProgramRuns ==
  \/ calls # <<>>
  \/ ~InUpdate
  \/ current # None /\ current.id = P

-----------------------------------------------------------------------------
(* Debouncer *)

(* Debouncer.call: remove_timer and add_once, so the timer starts anew at  *)
(* the end of the dictionary.                                              *)
Debounce(a) ==
  /\ pending' = TRUE
  /\ args' = a
  /\ timers' = [timers EXCEPT ![D] = Fresh(Delay, TRUE)]
  /\ order' = Append(Excluding(order, {D}), D)
  /\ batch' = CancelCollected({D})
  /\ latest' = a
  /\ idle' = 0
  /\ late' = (late \/ IsCollected(D))
  /\ UNCHANGED <<current, throttlerVars, calls, failed>>

DebounceCancel ==
  /\ RemoveTimer(D)
  /\ pending' = FALSE
  /\ args' = None
  /\ latest' = None
  /\ idle' = 0
  /\ late' = (late \/ IsCollected(D))
  /\ UNCHANGED <<throttlerVars, calls, failed>>

(* _fire, up to the call of the callback.                                  *)
Fire ==
  /\ pending' = FALSE
  /\ args' = None
  /\ latest' = None
  /\ idle' = 0
  /\ Invoke(D, args)
  /\ UNCHANGED <<throttlerVars, failed>>

DebounceFlush ==
  /\ pending
  /\ Len(calls) < MaxDepth
  /\ RemoveTimer(D)
  /\ Fire
  /\ late' = (late \/ IsCollected(D))

(* update() reaches the debouncer's timer, whose callback is _fire.        *)
FireFromUpdate ==
  /\ batch # <<>> /\ Head(batch).id = D
  /\ CallbackStart
  /\ Fire
  /\ UNCHANGED late

-----------------------------------------------------------------------------
(* Throttler *)

(* Mutant: the flag is set when the callback has returned.                 *)
ThrottleUnlockedLate(a) ==
  /\ ~locked
  /\ Len(calls) < MaxDepth
  /\ Invoke(T, a)
  /\ since' = 0
  /\ UNCHANGED <<timerVars, leading, locked, queued>>

(* call() outside an interval: with a leading edge the callback starts now *)
(* and the timer is armed when it returns (ThrottledReturns); without, the *)
(* call is buffered and the timer armed at once.                           *)
ThrottleUnlocked(a) ==
  /\ ~locked
  /\ locked' = TRUE
  /\ UNCHANGED leading
  /\ IF leading
     THEN /\ Len(calls) < MaxDepth
          /\ Invoke(T, a)
          /\ since' = 0
          /\ UNCHANGED <<timerVars, queued>>
     ELSE /\ queued' = a
          /\ AddOnce(T, Delay)
          /\ UNCHANGED <<calls, since>>

ThrottleLocked(a) ==
  /\ locked
  /\ queued' = a
  /\ UNCHANGED <<timerVars, leading, locked, since, calls>>

Throttle(a) ==
  /\ ThrottleUnlocked(a) \/ ThrottleLocked(a)
  /\ late' = (late \/ (~locked /\ IsCollected(T)))
  /\ UNCHANGED <<debouncerVars, failed>>

ThrottleCancel ==
  /\ RemoveTimer(T)
  /\ locked' = FALSE
  /\ queued' = None
  /\ since' = Delay
  /\ late' = (late \/ IsCollected(T))
  /\ UNCHANGED <<leading, debouncerVars, calls, failed>>

(* Mutant: the end of the interval neither unlocks nor delivers.           *)
IntervalEndIgnored ==
  /\ current = None
  /\ batch # <<>> /\ Head(batch).id = T
  /\ batch' = Tail(batch)
  /\ UNCHANGED <<timers, order, current, debouncerVars, throttlerVars, calls,
                 late, failed>>

(* update() reaches the throttler's timer: _on_interval_end, with the      *)
(* call() of the buffered arguments it makes once it has unlocked.         *)
IntervalEnd ==
  /\ current = None
  /\ batch # <<>> /\ Head(batch).id = T
  /\ batch' = Tail(batch)
  /\ \/ /\ queued = None
        /\ locked' = FALSE
        /\ UNCHANGED <<timers, order, current, queued, since, calls>>
     \/ /\ queued # None /\ leading
        /\ locked' = TRUE
        /\ queued' = None
        /\ Invoke(T, queued)
        /\ since' = 0
        /\ current' = Head(batch)
        /\ UNCHANGED <<timers, order>>
     \/ /\ queued # None /\ ~leading
        /\ locked' = TRUE
        /\ timers' = [timers EXCEPT ![T] = Fresh(Delay, TRUE)]
        /\ order' = IF timers[T] = None THEN Append(order, T) ELSE order
        /\ UNCHANGED <<current, queued, since, calls>>
  /\ UNCHANGED <<leading, debouncerVars, late, failed>>

-----------------------------------------------------------------------------
(* The ends of callbacks *)

Top == calls[Len(calls)]
InFrame == Len(calls) = 1 /\ FromLimiter

DebouncedReturns ==
  /\ calls # <<>> /\ Top.by = D
  /\ calls' = Front(calls)
  /\ IF InFrame THEN CallbackReturn ELSE UNCHANGED timerVars
  /\ UNCHANGED <<debouncerVars, throttlerVars, late, failed>>

(* Mutant: nothing is armed.                                               *)
ThrottledReturnsUnarmed ==
  /\ calls # <<>> /\ Top.by = T
  /\ calls' = Front(calls)
  /\ IF InFrame THEN CallbackReturn ELSE UNCHANGED timerVars
  /\ UNCHANGED <<debouncerVars, throttlerVars, late, failed>>

(* The callback returns to call(), which arms the timer; when              *)
(* _on_interval_end made the call, update() goes on.                       *)
ThrottledReturns ==
  /\ calls # <<>> /\ Top.by = T
  /\ calls' = Front(calls)
  /\ timers' = [timers EXCEPT ![T] = Fresh(Delay, TRUE)]
  /\ order' = IF timers[T] = None THEN Append(order, T) ELSE order
  /\ batch' = CancelCollected({T})
  /\ current' = IF InFrame THEN None ELSE current
  /\ UNCHANGED <<debouncerVars, throttlerVars, late, failed>>

(* The innermost callback raises: call() arms nothing.  The exception      *)
(* reaches the program, which may catch it, or ends update().              *)
LimiterCallbackRaises ==
  /\ Raising
  /\ calls # <<>>
  /\ calls' = Front(calls)
  /\ IF InFrame THEN CallbackRaise ELSE UNCHANGED timerVars
  /\ failed' = TRUE
  /\ UNCHANGED <<debouncerVars, throttlerVars, late>>

-----------------------------------------------------------------------------
(* The program's own timer, and the frame *)

ProgramTimer ==
  /\ \/ \E i \in Intervals : AddTimer(P, i) \/ AddOnce(P, i) \/ Reschedule(P, i)
     \/ RemoveTimer(P)
  /\ UNCHANGED <<debouncerVars, throttlerVars, calls, late, failed>>

ProgramCancelsAll ==
  /\ CancelAll
  /\ failed' = TRUE
  /\ UNCHANGED <<debouncerVars, throttlerVars, calls, late>>

ProgramCallbackStart ==
  /\ batch # <<>> /\ Head(batch).id = P
  /\ CallbackStart
  /\ UNCHANGED <<debouncerVars, throttlerVars, calls, late, failed>>

ProgramCallbackEnds ==
  /\ calls = <<>> /\ ~FromLimiter
  /\ \/ CallbackReturn /\ UNCHANGED failed
     \/ CallbackRaise /\ failed' = TRUE
  /\ UNCHANGED <<debouncerVars, throttlerVars, calls, late>>

UpTo(t) == IF t > Delay THEN Delay ELSE t

Update(dt) ==
  /\ calls = <<>>
  /\ UpdateStart(dt)
  /\ idle' = IF pending THEN UpTo(idle + dt) ELSE 0
  /\ since' = UpTo(since + dt)
  /\ UNCHANGED <<pending, args, latest, leading, locked, queued, calls, late, failed>>

(* Bound of the model: the program does nothing more after a disturbance.  *)
Undisturbed == ~late /\ ~failed

Program ==
  /\ ProgramRuns
  /\ Undisturbed
  /\ \/ \E a \in DebounceArgs : Debounce(a)
     \/ \E a \in ThrottleArgs : Throttle(a)
     \/ DebounceCancel
     \/ DebounceFlush
     \/ ThrottleCancel
     \/ ProgramTimer
     \/ ProgramCancelsAll

Frame == \E dt \in Steps : Update(dt)

Callbacks ==
  \/ FireFromUpdate
  \/ IntervalEnd
  \/ ProgramCallbackStart
  \/ DebouncedReturns
  \/ ThrottledReturns
  \/ LimiterCallbackRaises
  \/ ProgramCallbackEnds

Next == Program \/ Frame \/ Callbacks

Spec == Init /\ [][Next]_vars

LimiterCallbackEnds ==
  DebouncedReturns \/ ThrottledReturns \/ LimiterCallbackRaises
OutermostEnds == Len(calls) = 1 /\ ~FromLimiter /\ LimiterCallbackEnds
FrameCallbackEnds == ProgramCallbackEnds \/ (InFrame /\ LimiterCallbackEnds)

(* The frame loop calls update() again and again.  Program code ends,      *)
(* between frames and in callbacks, whatever it calls meanwhile: hence the *)
(* strong fairness of the steps that wait for its end.                     *)
FairSpec ==
  /\ Spec
  /\ WF_vars(Callbacks)
  /\ SF_vars(OutermostEnds)
  /\ SF_vars(FrameCallbackEnds)
  /\ SF_vars(Frame)

-----------------------------------------------------------------------------
(* Properties *)

Fired(by) == Len(calls') > Len(calls) /\ calls'[Len(calls')].by = by

(* A timer only disappears through the API or when it comes due as a       *)
(* one-shot: one that a callback arms again survives the frame, whatever   *)
(* the removal of the expired timers does.                                 *)
ReArmSurvives ==
  [][\A id \in Ids :
       timers[id] # None /\ timers'[id] = None =>
         Program \/ (Frame /\ timers[id].once)]_vars

TimersSafe == []NoDrift /\ []OneShotOnce /\ ReArmSurvives

(* "The callback fires with the arguments from the most recent call()",    *)
(* and cancel() takes them back "without firing" the callback.             *)
FiresLatest ==
  [][Fired(D) => late \/ (latest # None /\ calls'[Len(calls')].args = latest)]_vars

(* update() only fires the debouncer when the input has been idle for the  *)
(* whole delay.                                                            *)
FiresWhenIdle == [][FireFromUpdate => late \/ idle >= Delay]_vars

(* "Ensures a callback is invoked at most once per interval".              *)
OncePerInterval == [][Fired(T) => late \/ failed \/ since >= Delay]_vars

(* is_pending is "True while a debounced call is waiting to fire", and     *)
(* is_locked only while the end of the interval is to come: both timers    *)
(* are armed or collected, or the throttler's callback still runs.         *)
WillEnd(id) == timers[id] # None \/ IsCollected(id)
LimitersAreArmed ==
  \/ late \/ failed
  \/ /\ pending <=> WillEnd(D)
     /\ locked => WillEnd(T) \/ \E i \in DOMAIN calls : calls[i].by = T
     /\ queued # None => locked

FiresRight == FiresLatest /\ FiresWhenIdle /\ OncePerInterval

(* What is pending is fired, cancelled or called again: idle is 0 from a   *)
(* call() to the next frame.                                               *)
PendingFires ==
  pending /\ idle > 0 ~> late \/ failed \/ ~pending \/ idle = 0

Overtaken(a) == queued # a \/ \E i \in DOMAIN calls : calls[i].by = T

(* "The most-recent buffered call fires at the end of the interval": it is *)
(* invoked, unless it is cancelled or a later call takes its place.        *)
BufferedFires ==
  leading => \A a \in ThrottleArgs : queued = a ~> late \/ failed \/ Overtaken(a)

Fires == PendingFires /\ BufferedFires

(* The same with and without a leading edge.                               *)
BufferedFiresAlways ==
  \A a \in ThrottleArgs : queued = a ~> late \/ failed \/ Overtaken(a)
=============================================================================
