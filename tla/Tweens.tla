-------------------------------- MODULE Tweens --------------------------------
(***************************************************************************)
(* TweenManager (gui_do/scheduling/tween_manager.py) and a run of an       *)
(* AnimationSequence on it (animation_sequence.py).                        *)
(*                                                                         *)
(* update() runs over the live list of entries.  The functions and         *)
(* callbacks of tweens are the program's code: each is one step or more,   *)
(* in which the program makes and cancels tweens.  Time is counted in      *)
(* frames, values and easing are left out.                                 *)
(***************************************************************************)
EXTENDS Integers, FiniteSets, SequencesExt

CONSTANTS
    Durations,   \* frames a tween of the program may last
    Animation,   \* the steps of the sequence: the durations of each group
    MaxTweens,   \* bound: tweens made
    MaxFrames    \* bound: updates

ASSUME TweensAssumption ==
    /\ Durations \subseteq Nat /\ {MaxTweens, MaxFrames} \subseteq Nat
    /\ \A k \in DOMAIN Animation : Animation[k] \in Seq(Nat) /\ Animation[k] # <<>>

VARIABLES
    tweens,     \* the tweens made, by _next_id; `step` is 0 for the program's
    entries,    \* _entries, by id
    someOff,    \* _has_cancelled
    someDone,   \* had_completions
    entryAt,    \* the place of update() in the entries, 0 outside
    running,    \* the calls under way, the innermost first
    animStep,   \* the step the sequence is at, 0 before start()
    animLeft,   \* remaining_count
    animOff,    \* whether its handle is cancelled
    animDone,   \* history: calls of its done callback
    endedTweens,\* history: the tweens whose on_complete was called, in order
    frames      \* updates so far

animVars  == <<animStep, animLeft, animOff, animDone>>
tweenVars == <<tweens, entries, someOff, someDone, entryAt, running, animVars, endedTweens, frames>>

Ids == DOMAIN tweens
Active(i) == ~tweens[i].complete /\ ~tweens[i].cancelled

(* The program runs between updates, and in the functions and callbacks of *)
(* tweens; "append" and "group" are in the manager and in the sequence.    *)
InProgram ==
    IF running = <<>> THEN entryAt = 0 ELSE running[1].kind \in {"fn", "made", "done"}

-----------------------------------------------------------------------------
(* Calls made by a tween that has come to its end.                         *)

(* Mutant: a group is over with the first of its tweens.                   *)
FirstIsLast(left) == 0

LeftAfter(left) == left - 1

(* on_complete: that of the program; _on_sub_done() and _next() for the    *)
(* sequence, which go on with the next group, or call its done callback.   *)
OnComplete(i, rest) ==
    LET k == tweens[i].step
        done == <<[kind |-> "done", id |-> i]>> \o rest
    IN
    /\ endedTweens' = Append(endedTweens, i)
    /\ IF k = 0 THEN running' = done /\ UNCHANGED animVars
       ELSE /\ animLeft' = LeftAfter(animLeft)
            /\ UNCHANGED animOff
            /\ IF animLeft' > 0 \/ animOff
               THEN running' = rest /\ UNCHANGED <<animStep, animDone>>
               ELSE /\ animStep' = k + 1
                    /\ IF k = Len(Animation)
                       THEN running' = done /\ animDone' = animDone + 1
                       ELSE /\ running' = <<[kind |-> "group", id |-> 0]>> \o rest
                            /\ UNCHANGED animDone

(* tween_fn(): with a duration it is appended at once; without, its        *)
(* function and its on_complete are called before.                         *)
Make(duration, step, rest) ==
    LET i == Len(tweens) + 1
        t == [duration |-> duration, elapsed |-> 0, step |-> step, born |-> frames,
              complete |-> duration = 0 /\ step > 0, cancelled |-> FALSE]
        last == <<[kind |-> "append", id |-> i]>> \o rest
    IN
    /\ Len(tweens) < MaxTweens
    /\ tweens' = Append(tweens, t)
    /\ entries' = IF duration > 0 THEN Append(entries, i) ELSE entries
    /\ running' = IF duration > 0 THEN rest
                  ELSE <<[kind |-> IF step = 0 THEN "made" ELSE "sub", id |-> i]>> \o last

MakeTween(duration) ==
    /\ InProgram
    /\ Make(duration, 0, running)
    /\ UNCHANGED <<someOff, someDone, entryAt, animVars, endedTweens, frames>>

(* start().                                                                *)
StartAnimation ==
    /\ InProgram
    /\ animStep = 0
    /\ animStep' = 1
    /\ running' = <<[kind |-> "group", id |-> 0]>> \o running
    /\ UNCHANGED <<tweens, entries, someOff, someDone, entryAt,
                   animLeft, animOff, animDone, endedTweens, frames>>

(* _run(): the tweens of a group are made one after the other; `id` counts *)
(* those that are.                                                         *)
RunGroup ==
    /\ running # <<>> /\ running[1].kind = "group"
    /\ LET group == Animation[animStep]
           made  == running[1].id
           rest  == Tail(running)
       IN
       /\ animLeft' = IF made = 0 THEN Len(group) ELSE animLeft
       /\ Make(group[made + 1], animStep,
               IF made + 1 = Len(group) THEN rest
               ELSE <<[kind |-> "group", id |-> made + 1]>> \o rest)
    /\ UNCHANGED <<someOff, someDone, entryAt, animStep, animOff, animDone, endedTweens, frames>>

(* The end of a call.  A tween that was cancelled by its own function in   *)
(* its last frame is completed all the same.                               *)
CallEnds ==
    /\ running # <<>>
    /\ LET i    == running[1].id
           rest == Tail(running)
           over == running[1].kind \in {"made", "sub"}
                   \/ (running[1].kind = "fn" /\ tweens[i].elapsed >= tweens[i].duration)
       IN
       /\ running[1].kind # "group"
       /\ IF over
          THEN /\ tweens' = [tweens EXCEPT ![i].complete = TRUE]
               /\ someDone' = (someDone \/ running[1].kind = "fn")
               /\ OnComplete(i, rest)
               /\ UNCHANGED entries
          ELSE /\ entries' = IF running[1].kind = "append" THEN Append(entries, i) ELSE entries
               /\ running' = rest
               /\ UNCHANGED <<tweens, someDone, animVars, endedTweens>>
    /\ UNCHANGED <<someOff, entryAt, frames>>

-----------------------------------------------------------------------------
(* cancel() of a tween of the program, cancel_all().                       *)
CancelTweens(ids) ==
    /\ InProgram
    /\ ids # {}
    /\ tweens' = [i \in Ids |-> IF i \in ids THEN [tweens[i] EXCEPT !.cancelled = TRUE]
                                ELSE tweens[i]]
    /\ someOff' = TRUE
    /\ UNCHANGED <<entries, someDone, entryAt, running, animVars, endedTweens, frames>>

(* AnimationHandle.cancel(): the tween that runs goes on.                  *)
CancelAnimation ==
    /\ InProgram
    /\ animStep > 0 /\ ~animOff
    /\ animOff' = TRUE
    /\ UNCHANGED <<tweens, entries, someOff, someDone, entryAt, running,
                   animStep, animLeft, animDone, endedTweens, frames>>

BeginTweens ==
    /\ entryAt = 0 /\ running = <<>>
    /\ entries # <<>>
    /\ frames < MaxFrames
    /\ entryAt' = 1
    /\ someDone' = FALSE
    /\ UNCHANGED <<tweens, entries, someOff, running, animVars, endedTweens, frames>>

(* The function of a sequence's tween sets an attribute of a target, which *)
(* may be code of the program as well.                                     *)
AdvanceTween ==
    /\ entryAt \in DOMAIN entries
    /\ running = <<>>
    /\ entryAt' = entryAt + 1
    /\ LET i == entries[entryAt]
           elapsed == tweens[i].elapsed + 1
       IN IF ~Active(i) THEN UNCHANGED <<tweens, running>>
          ELSE /\ tweens' = [tweens EXCEPT ![i].elapsed = elapsed]
               /\ running' = <<[kind |-> "fn", id |-> i]>>
    /\ UNCHANGED <<entries, someOff, someDone, animVars, endedTweens, frames>>

(* What is complete or cancelled leaves the list.                          *)
EndTweens ==
    /\ entryAt = Len(entries) + 1
    /\ running = <<>>
    /\ entryAt' = 0
    /\ frames' = frames + 1
    /\ entries' = IF someDone \/ someOff THEN SelectSeq(entries, Active) ELSE entries
    /\ someOff' = FALSE
    /\ UNCHANGED <<tweens, someDone, running, animVars, endedTweens>>

TweensInit ==
    /\ tweens = <<>> /\ entries = <<>> /\ running = <<>> /\ endedTweens = <<>>
    /\ someOff = FALSE /\ someDone = FALSE /\ animOff = FALSE
    /\ entryAt = 0 /\ frames = 0 /\ animStep = 0 /\ animLeft = 0 /\ animDone = 0

TweensNext ==
    \/ \E d \in Durations : MakeTween(d)
    \/ StartAnimation
    \/ RunGroup
    \/ CallEnds
    \/ \E i \in ToSet(entries) : Active(i) /\ tweens[i].step = 0 /\ CancelTweens({i})
    \/ CancelTweens({i \in ToSet(entries) : Active(i)})
    \/ CancelAnimation
    \/ BeginTweens
    \/ AdvanceTween
    \/ EndTweens

TweensSpec == TweensInit /\ [][TweensNext]_tweenVars

-----------------------------------------------------------------------------
TweensTypeOK ==
    /\ tweens \in Seq([duration : Nat, elapsed : 0 .. MaxFrames, step : 0 .. Len(Animation),
                       born : 0 .. MaxFrames, complete : BOOLEAN, cancelled : BOOLEAN])
    /\ {entries, endedTweens} \subseteq Seq(1 .. MaxTweens)
    /\ {someOff, someDone, animOff} \subseteq BOOLEAN
    /\ entryAt \in 0 .. MaxTweens + 1 /\ frames \in 0 .. MaxFrames
    /\ animStep \in 0 .. Len(Animation) + 1 /\ {animLeft, animDone} \subseteq Nat
    /\ \A c \in DOMAIN running : running[c].kind \in {"fn", "made", "sub", "done", "append", "group"}

(* Between updates every active tween is in the list, once, and has been   *)
(* advanced in every update since it was made, that in whose callbacks it  *)
(* was made included; it ends in the frame in which its time is up, and    *)
(* the program is told so once.                                            *)
TweensAdvance ==
    /\ IsInjective(entries)
    /\ IsInjective(endedTweens)
    /\ \A i \in ToSet(endedTweens) : tweens[i].complete
    /\ entryAt = 0 /\ running = <<>> =>
          \A i \in Ids :
              /\ Active(i) =>
                    /\ i \in ToSet(entries)
                    /\ tweens[i].elapsed = frames - tweens[i].born
                    /\ tweens[i].elapsed < tweens[i].duration
              /\ tweens[i].complete => i \in ToSet(endedTweens)

(* The groups of a sequence come one after the other: a tween of a group   *)
(* is made when all of the group before are complete, and the done         *)
(* callback is called once, at the end; both whatever is made and          *)
(* cancelled meanwhile, and also for groups that take no time.             *)
GroupsInOrder ==
    LET Of(k) == {i \in Ids : tweens[i].step = k}
        Over(k) == Cardinality({i \in Of(k) : tweens[i].complete}) = Len(Animation[k])
    IN
    /\ \A k \in 2 .. Len(Animation) : Of(k) # {} => Over(k - 1)
    /\ \A k \in DOMAIN Animation : Cardinality(Of(k)) <= Len(Animation[k])
    /\ animDone <= 1
    /\ animDone = 1 => \A k \in DOMAIN Animation : Over(k)

TweensSafe == TweensAdvance /\ GroupsInOrder
=============================================================================
