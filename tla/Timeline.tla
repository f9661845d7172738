------------------------------- MODULE Timeline -------------------------------
(***************************************************************************)
(* SceneTimeline (gui_do/scheduling/scene_timeline.py): events at times, a *)
(* loop and a region, played, paused, sought and reset.                    *)
(*                                                                         *)
(* The callbacks are the program's code and may call the timeline, so that *)
(* advances are nested.  Which events have been fired is kept by their     *)
(* places in a list that is sorted now and then.  Time is counted in       *)
(* units.                                                                  *)
(***************************************************************************)
EXTENDS Integers, SequencesExt

CONSTANTS
    EventTimes,   \* the times of the events added first, in order of addition
    LaterTimes,   \* those of events that callbacks and the program add
    AfterPlay,    \* the delays given to after()
    LoopInterval, \* of loop_every()
    RegionStart, RegionEnd, \* of between()
    SetDuration,  \* the duration given to the timeline, 0 for none
    Deltas,       \* dt_seconds of update()
    MaxTimed,     \* bound: events
    MaxUpdates,   \* bound: calls of update(), seek() and reset()
    MaxAdvances   \* bound: advances and callbacks under way

ASSUME TimelineAssumption ==
    /\ EventTimes \in Seq(Nat) /\ AfterPlay \in Seq(Nat) /\ LaterTimes \subseteq Nat
    /\ LoopInterval \in Nat \ {0} /\ Deltas \subseteq Nat \ {0}
    /\ {RegionStart, RegionEnd, SetDuration, MaxTimed, MaxUpdates, MaxAdvances} \subseteq Nat

VARIABLES
    events,    \* _events: times, and the order of addition
    fired,     \* _fired: places in events
    sorted,    \* _events_sorted
    resolved,  \* _play_start_extra_events_added
    now,       \* _t
    playing,   \* _playing
    inRegion,  \* active of the region
    nextLoop,  \* next of the loop
    advances,  \* advances and callbacks under way, innermost first
    firings,   \* history: the calls of each event's callback in this play-through
    tooLate,   \* history: the events added when their time was past
    updates,   \* calls so far
    advanced,  \* history: the timeline has advanced since the last reset
    shifted,   \* history: a sort has moved events that were fired
    jumped     \* history: a callback has sought or reset the timeline

timelineVars == <<events, fired, sorted, resolved, now, playing, inRegion, nextLoop, advances,
                  firings, tooLate, updates, advanced, shifted, jumped>>

InCallback == IF advances = <<>> THEN TRUE ELSE advances[1].phase = "callback"
Times == {events[i].time : i \in DOMAIN events}
Greatest(S) == CHOOSE t \in S : \A u \in S : u <= t
Duration == IF SetDuration > 0 THEN SetDuration ELSE IF events = <<>> THEN 0 ELSE Greatest(Times)
Inside(t) == RegionStart <= t /\ t < RegionEnd

Sort(list) ==
    SetToSortSeq(ToSet(list), LAMBDA e, f : e.time < f.time \/ (e.time = f.time /\ e.id < f.id))

(* Sorting leaves _fired as it is.                                         *)
FiredIn(list) == {list[i].id : i \in fired \cap DOMAIN list}
SortEvents(list) ==
    /\ events' = IF sorted THEN list ELSE Sort(list)
    /\ sorted' = TRUE
    /\ shifted' = (shifted \/ FiredIn(events') # FiredIn(list))

-----------------------------------------------------------------------------
(* at(): whether the list is sorted is asked of its last event only.       *)
AddEvent(t) ==
    /\ InCallback
    /\ Len(events) < MaxTimed
    /\ events' = Append(events, [time |-> t, id |-> Len(events) + 1])
    /\ sorted' = (sorted /\ (events = <<>> \/ t >= Last(events).time))
    /\ tooLate' = IF t <= now THEN tooLate \cup {Len(events) + 1} ELSE tooLate
    /\ firings' = Append(firings, 0)
    /\ UNCHANGED <<fired, resolved, now, playing, inRegion, nextLoop, advances,
                   updates, advanced, shifted, jumped>>

(* play(): the delays of after() become events, once until the next reset. *)
PlayTimeline ==
    LET extra == IF resolved THEN <<>>
                 ELSE [i \in DOMAIN AfterPlay |->
                          [time |-> now + AfterPlay[i], id |-> Len(events) + i]]
        list  == events \o extra
    IN
    /\ InCallback
    /\ ~playing
    /\ Len(list) <= MaxTimed
    /\ playing' = TRUE
    /\ IF extra = <<>> THEN SortEvents(events) /\ UNCHANGED <<resolved, firings, tooLate>>
       ELSE /\ resolved' = TRUE
            /\ events' = Sort(list) /\ sorted' = TRUE
            /\ shifted' = (shifted \/ FiredIn(events') # FiredIn(list))
            /\ firings' = firings \o [i \in DOMAIN extra |-> 0]
            /\ tooLate' = tooLate \cup {extra[i].id : i \in {j \in DOMAIN extra : AfterPlay[j] = 0}}
    /\ UNCHANGED <<fired, now, inRegion, nextLoop, advances, updates, advanced, jumped>>

PauseTimeline ==
    /\ InCallback
    /\ playing
    /\ playing' = FALSE
    /\ UNCHANGED <<events, fired, sorted, resolved, now, inRegion, nextLoop, advances,
                   firings, tooLate, updates, advanced, shifted, jumped>>

Counted ==
    /\ InCallback
    /\ updates < MaxUpdates /\ Len(advances) < MaxAdvances
    /\ updates' = updates + 1

(* reset() calls the list sorted, whether it is or not.                    *)
ResetTimeline ==
    /\ Counted
    /\ now' = 0 /\ playing' = FALSE /\ fired' = {} /\ resolved' = FALSE /\ sorted' = TRUE
    /\ nextLoop' = LoopInterval /\ inRegion' = FALSE
    /\ firings' = [i \in DOMAIN firings |-> 0]
    /\ tooLate' = {events[i].id : i \in {j \in DOMAIN events : events[j].time = 0}}
    /\ advanced' = FALSE
    /\ jumped' = (jumped \/ advances # <<>>)
    /\ UNCHANGED <<events, advances, shifted>>

(* _advance(): no further than the duration, where it is complete.         *)
AdvanceTo(to) ==
    LET ends == Duration > 0 /\ to >= Duration
        stop == IF ends THEN Duration ELSE to
    IN
    /\ now' = stop
    /\ advances' = <<[phase |-> "events", from |-> now, to |-> stop, ends |-> ends, at |-> 1]>> \o advances

UpdateTimeline(dt) ==
    /\ Counted /\ advances = <<>>
    /\ playing
    /\ AdvanceTo(now + dt)
    /\ UNCHANGED <<events, fired, sorted, resolved, playing, inRegion, nextLoop,
                   firings, tooLate, advanced, shifted, jumped>>

SeekForward(t) ==
    /\ Counted
    /\ t > now
    /\ SortEvents(events)
    /\ AdvanceTo(t)
    /\ jumped' = (jumped \/ advances # <<>>)
    /\ UNCHANGED <<fired, resolved, playing, inRegion, nextLoop, firings, tooLate, advanced>>

(* _fire_regions() of a seek.                                              *)
SeekRegion(t) ==
    /\ inRegion' = Inside(t)
    /\ advances' = IF inRegion' = inRegion THEN advances
                   ELSE <<[phase |-> "callback"], [phase |-> "sought"]>> \o advances

(* What is after the new time is to be fired again.                        *)
SeekBack(t) ==
    /\ Counted
    /\ t <= now
    /\ LET list == IF sorted THEN events ELSE Sort(events) IN
       /\ events' = list /\ sorted' = TRUE
       /\ fired' = {i \in DOMAIN list : list[i].time <= t}
       /\ firings' = [n \in DOMAIN firings |->
                         IF \E i \in fired' : list[i].id = n THEN firings[n] ELSE 0]
       /\ tooLate' = {n \in tooLate : \E i \in fired' : list[i].id = n}
    /\ now' = t
    /\ SeekRegion(t)
    /\ advanced' = TRUE
    /\ jumped' = (jumped \/ advances # <<>>)
    /\ UNCHANGED <<resolved, playing, nextLoop, shifted>>

-----------------------------------------------------------------------------
Top == advances[1]
Goes(phase) == advances # <<>> /\ Top.phase = phase
Phase(phase) == <<[Top EXCEPT !.phase = phase]>> \o Tail(advances)
Calls(phase) == <<[phase |-> "callback"], [Top EXCEPT !.phase = phase]>> \o Tail(advances)

(* The events in the range, in the order of the list as it is by then.     *)
FireNextEvent ==
    LET due == {i \in DOMAIN events : /\ i >= Top.at /\ i \notin fired
                                      /\ Top.from < events[i].time /\ events[i].time <= Top.to}
        i == CHOOSE j \in due : \A k \in due : j <= k
    IN
    /\ Goes("events")
    /\ IF due = {} THEN advances' = Phase("loops") /\ UNCHANGED <<fired, firings>>
       ELSE /\ fired' = fired \cup {i}
            /\ firings' = [firings EXCEPT ![events[i].id] = @ + 1]
            /\ advances' = <<[phase |-> "callback"], [Top EXCEPT !.at = i + 1]>> \o Tail(advances)
    /\ UNCHANGED <<events, sorted, resolved, now, playing, inRegion, nextLoop,
                   tooLate, updates, advanced, shifted, jumped>>

(* The loop goes on when its callback has returned.                        *)
FireLoop ==
    /\ \/ /\ Goes("loops")
          /\ advances' = IF nextLoop <= Top.to THEN Calls("looped") ELSE Phase("region")
          /\ UNCHANGED nextLoop
       \/ /\ Goes("looped")
          /\ advances' = Phase("loops")
          /\ nextLoop' = nextLoop + LoopInterval
    /\ UNCHANGED <<events, fired, sorted, resolved, now, playing, inRegion,
                   firings, tooLate, updates, advanced, shifted, jumped>>

FireRegion ==
    /\ Goes("region")
    /\ inRegion' = Inside(Top.to)
    /\ advances' = IF inRegion' = inRegion THEN Phase("end") ELSE Calls("end")
    /\ UNCHANGED <<events, fired, sorted, resolved, now, playing, nextLoop,
                   firings, tooLate, updates, advanced, shifted, jumped>>

EndAdvance ==
    /\ Goes("end")
    /\ playing' = (playing /\ ~Top.ends)
    /\ advances' = IF Top.ends THEN Calls("sought") ELSE Tail(advances)
    /\ advanced' = TRUE
    /\ UNCHANGED <<events, fired, sorted, resolved, now, inRegion, nextLoop,
                   firings, tooLate, updates, shifted, jumped>>

TimelineReturns ==
    /\ Goes("callback") \/ Goes("sought")
    /\ advances' = Tail(advances)
    /\ UNCHANGED <<events, fired, sorted, resolved, now, playing, inRegion, nextLoop,
                   firings, tooLate, updates, advanced, shifted, jumped>>

TimelineInit ==
    /\ events = [i \in DOMAIN EventTimes |-> [time |-> EventTimes[i], id |-> i]]
    /\ sorted = \A i \in 2 .. Len(EventTimes) : EventTimes[i - 1] <= EventTimes[i]
    /\ firings = [i \in DOMAIN EventTimes |-> 0]
    /\ tooLate = {i \in DOMAIN EventTimes : EventTimes[i] = 0}
    /\ fired = {} /\ resolved = FALSE /\ now = 0 /\ playing = FALSE /\ inRegion = FALSE
    /\ nextLoop = LoopInterval /\ advances = <<>> /\ updates = 0
    /\ advanced = FALSE /\ shifted = FALSE /\ jumped = FALSE

TimelineNext ==
    \/ \E t \in LaterTimes : AddEvent(t) \/ SeekForward(t) \/ SeekBack(t)
    \/ PlayTimeline
    \/ PauseTimeline
    \/ ResetTimeline
    \/ \E dt \in Deltas : UpdateTimeline(dt)
    \/ FireNextEvent
    \/ FireLoop
    \/ FireRegion
    \/ EndAdvance
    \/ TimelineReturns

TimelineSpec == TimelineInit /\ [][TimelineNext]_timelineVars

-----------------------------------------------------------------------------
TimelineTypeOK ==
    /\ events \in Seq([time : Nat, id : 1 .. MaxTimed]) /\ Len(events) <= MaxTimed
    /\ fired \subseteq DOMAIN events
    /\ {sorted, resolved, playing, inRegion, advanced, shifted, jumped} \subseteq BOOLEAN
    /\ {now, nextLoop} \subseteq Nat /\ updates \in 0 .. MaxUpdates
    /\ firings \in [DOMAIN events -> Nat]
    /\ tooLate \subseteq DOMAIN events
    /\ \A i \in DOMAIN advances :
          advances[i].phase \in {"events", "loops", "looped", "region", "end", "sought", "callback"}

(* Between calls, whatever is added, paused and played in callbacks:       *)
(*  - every event that was not added too late was fired once if its time   *)
(*    has come and not if it has not, also when the timeline was sought    *)
(*    back and forth: unless a sort has moved what was fired;              *)
(*  - the region is active when the time is in it;                         *)
(*  - the loop is ahead of the time;                                       *)
(* all unless a callback has sought or reset the timeline.                 *)
TimelineSafe ==
    advances = <<>> /\ ~jumped =>
        /\ ~shifted =>
              \A i \in DOMAIN events : events[i].id \notin tooLate =>
                  firings[events[i].id] = IF events[i].time <= now THEN 1 ELSE 0
        /\ advanced => inRegion = Inside(now)
        /\ nextLoop > now
=============================================================================
