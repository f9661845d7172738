------------------------ MODULE CooperativeScheduler ------------------------
(***************************************************************************)
(* The generator coroutines of gui_do/scheduling/cooperative_scheduler.py, *)
(* waiting on the events of an EventBus.                                   *)
(*                                                                         *)
(* Everything runs on the frame thread, so the call stack of EventBus also *)
(* holds the frames of update() and of the coroutines being stepped: a     *)
(* coroutine runs until its next yield, and while it runs it may start and *)
(* cancel coroutines, itself included, and use the bus.  One unit of time  *)
(* is one frame: every update() has dt = 1.                                *)
(***************************************************************************)
EXTENDS EventBus, FiniteSets

CONSTANTS
    Cos,           \* the generators the program may start, each at most once
    None,          \* no coroutine, no token
    Kinds,         \* the kinds of token the coroutines yield
    Sleeps,        \* the durations of Sleep tokens
    MaxYields,     \* bound: yields of all the coroutines together
    MaxWaited      \* bound: frames the history counts, above every duration

ASSUME SleepsAssumption == MaxWaited \in Nat \ {0} /\ \A n \in Sleeps : n \in Nat /\ n < MaxWaited

(* The tokens there are.                                                   *)
WaitTokens ==
    [kind : {"pause", "until", "source", "signal"}] \cup [kind : {"sleep"}, seconds : Sleeps]
      \cup [kind : {"event"}, topic : Topics] \cup [kind : {"all"}, of : SUBSET Cos]

ASSUME NoneAssumption == None \notin Cos /\ None \notin WaitTokens

VARIABLES
    status,        \* "new", "running", "complete" or "cancelled"
    token,         \* _wait_state
    elapsed,       \* _wait_elapsed
    triggered,     \* _wait_triggered
    listening,     \* the coroutines subscribed to the observable
    handles,       \* _handles
    pending,       \* _pending_starts
    yields,        \* yields so far
    raised,        \* history: an exception left update()
    due,           \* history: the coroutines update() began with
    visited,       \* history: the ones it has looked at so far
    waited,        \* history: frames begun since the coroutine's yield
    heard          \* history: topics heard since the coroutine's yield

waitVars    == <<token, elapsed, triggered, listening>>
historyVars == <<raised, due, visited, waited, heard>>
coVars      == <<status, waitVars, handles, pending, yields, historyVars>>
coopVars    == <<eventVars, coVars>>

Running(c)  == status[c] = "running"
InStep      == stack # <<>> /\ Head(stack).kind = "step"
InUpdate    == stack # <<>> /\ Head(stack).kind = "update"
Updating    == \E i \in DOMAIN stack : stack[i].kind = "update"
Starting(c) == \E i \in DOMAIN stack :
                  stack[i].kind = "step" /\ stack[i].co = c /\ stack[i].first

-----------------------------------------------------------------------------
(* Waiting.                                                                *)

Pause == [kind |-> "pause"]

(* The tokens a coroutine can yield: a WaitForEvent on the bus, a          *)
(* WaitForSignal on an observable, whose subscribe() returns a function    *)
(* that takes the subscription back, one on an object without subscribe(), *)
(* and anything that is no token.  A handle is known when start() returns. *)
Tokens ==
    {[kind |-> k] : k \in Kinds \cap {"pause", "until", "source", "signal", "other"}}
      \cup [kind : Kinds \cap {"sleep"}, seconds : Sleeps]
      \cup [kind : Kinds \cap {"event"}, topic : Topics]
      \cup [kind : Kinds \cap {"all"},
            of : {{c} : c \in {d \in Cos : status[d] # "new" /\ ~Starting(d)}}]

Timed == {Pause} \cup [kind : {"sleep"}, seconds : Sleeps]

(* The observable's subscribers without the coroutines C.                  *)
(* Mutant: a coroutine that is cleaned up stays subscribed.                *)
StillListening(C) == listening
ListeningNoMore(C) == listening \ C

(* _cleanup_wait() of the coroutines C.  The bus hands out a Subscription, *)
(* which cannot be called: the TypeError is swallowed and the subscription *)
(* stays.                                                                  *)
CleanupWait(C) ==
    /\ token' = [c \in Cos |-> IF c \in C THEN None ELSE token[c]]
    /\ elapsed' = [c \in Cos |-> IF c \in C THEN 0 ELSE elapsed[c]]
    /\ triggered' = [c \in Cos |-> c \notin C /\ triggered[c]]
    /\ listening' = ListeningNoMore(C)

(* _step() after next() returned tok: the wait begins.  A subscribe() that *)
(* fails resumes the coroutine at once.                                    *)
BeginWait(c, tok) ==
    /\ token' = [token EXCEPT ![c] = IF tok.kind = "other" THEN Pause ELSE tok]
    /\ elapsed' = [elapsed EXCEPT ![c] = 0]
    /\ triggered' = [triggered EXCEPT ![c] = (tok.kind = "signal")]
    /\ listening' = IF tok.kind = "source" THEN listening \cup {c} ELSE listening

(* A coroutine that WaitForAll need not wait for any more.                 *)
(* Mutant: one that completed.                                             *)
Completed(c) == status[c] = "complete"
Stopped(c)   == ~Running(c)

(* _try_resume(): which waits are over, now that a frame has passed.       *)
Over(c, holds) ==
    LET tok == token[c] IN
    \/ tok = None
    \/ tok # None /\ tok.kind = "pause"
    \/ tok # None /\ tok.kind = "sleep" /\ elapsed[c] + 1 >= tok.seconds
    \/ tok # None /\ tok.kind \in {"event", "source", "signal"} /\ triggered[c]
    \/ tok # None /\ tok.kind = "until" /\ holds
    \/ tok # None /\ tok.kind = "all" /\ \A d \in tok.of : Stopped(d)

-----------------------------------------------------------------------------
(* The program's calls, between frames, in a handler or in a coroutine.    *)

(* start(): the first step runs inside the call.                           *)
Start(c) ==
    /\ ProgramRuns
    /\ status[c] = "new"
    /\ status' = [status EXCEPT ![c] = "running"]
    /\ stack' = <<[kind |-> "step", co |-> c, first |-> TRUE]>> \o stack
    /\ UNCHANGED <<busVars, ops, yields, waitVars, handles, pending, historyVars>>

(* CoroutineHandle.cancel().  Closing a generator that is executing fails, *)
(* which is ignored: it runs on to its next yield.                         *)
Cancel(c) ==
    /\ ProgramRuns
    /\ Operation
    /\ Running(c) /\ ~Starting(c)
    /\ status' = [status EXCEPT ![c] = "cancelled"]
    /\ CleanupWait({c})
    /\ UNCHANGED <<busVars, yields, stack, handles, pending, historyVars>>

CancelAll ==
    /\ ProgramRuns
    /\ Operation
    /\ LET C == {c \in ToSet(handles) : Running(c)} IN
         /\ status' = [c \in Cos |-> IF c \in C THEN "cancelled" ELSE status[c]]
         /\ CleanupWait(C)
    /\ handles' = <<>>
    /\ UNCHANGED <<busVars, yields, stack, pending, historyVars>>

(* The observable changes: it calls its subscribers, and those whose       *)
(* predicate accepts the value are resumed in the next frame.              *)
Emit ==
    /\ ProgramRuns
    /\ Operation
    /\ \E C \in SUBSET listening \ {{}} :
         triggered' = [c \in Cos |-> triggered[c] \/ c \in C]
    /\ UNCHANGED <<busVars, yields, stack, status, token, elapsed, listening, handles,
                   pending, historyVars>>

-----------------------------------------------------------------------------
(* A coroutine's step.                                                     *)

(* It yields.  Only then does start() place the handle: at once, or when   *)
(* the update() in progress ends, which iterates the list.                 *)
(* Mutant: always at once.                                                 *)
NeverLater  == FALSE
PlacedLater == Updating
StepYields ==
    /\ InStep
    /\ yields < MaxYields /\ yields' = yields + 1
    /\ \E tok \in Tokens :
         LET f == Head(stack)
             placed == f.first /\ Running(f.co) IN
         /\ BeginWait(f.co, tok)
         /\ IF tok.kind = "event"
            THEN /\ Len(info) < MaxSubs
                 /\ DoSubscribe([topic |-> tok.topic, scope |-> NoScope, once |-> FALSE,
                                 handler |-> <<f.co, Len(info)>>], Tail(stack))
            ELSE stack' = Tail(stack) /\ UNCHANGED busVars
         /\ pending' = IF placed /\ PlacedLater THEN Append(pending, f.co) ELSE pending
         /\ handles' = IF placed /\ ~PlacedLater THEN Append(handles, f.co) ELSE handles
    /\ UNCHANGED <<ops, status, historyVars>>

(* It returns or raises, which _step() does not tell apart.                *)
StepEnds ==
    /\ InStep
    /\ LET c == Head(stack).co IN
       status' = [status EXCEPT ![c] = IF Running(c) THEN "complete" ELSE @]
    /\ stack' = Tail(stack)
    /\ UNCHANGED <<busVars, ops, yields, waitVars, handles, pending, historyVars>>

(* The bus calls the handler by which a coroutine waits, or waited: its    *)
(* predicate accepts the event, refuses it, or raises.                     *)
InWakeup == stack # <<>> /\ Head(stack).kind = "wakeup"
Wakeup ==
    /\ InWakeup
    /\ LET s == Head(stack).sub
           c == info[s].handler[1] IN
       \/ /\ triggered' = [triggered EXCEPT ![c] = TRUE]
          /\ heard' = [heard EXCEPT ![c] = @ \cup {info[s].topic}]
          /\ stack' = Tail(stack)
       \/ /\ stack' \in {Tail(stack), Tail(Tail(stack))}
          /\ UNCHANGED <<triggered, heard>>
    /\ UNCHANGED <<busVars, ops, yields, status, token, elapsed, listening, handles, pending,
                   raised, due, visited, waited>>

-----------------------------------------------------------------------------
(* update().  `read` and `write` are the positions of the loop and of the  *)
(* compaction, `cur` the handle being stepped.                             *)

UpdateBegin ==
    /\ stack = <<>>
    /\ IF handles = <<>>
       THEN handles' = pending /\ pending' = <<>> /\ UNCHANGED stack
       ELSE /\ stack' = <<[kind |-> "update", read |-> 0, write |-> 0, cur |-> None]>>
            /\ UNCHANGED <<handles, pending>>
    /\ due' = {c \in ToSet(handles) : Running(c)}
    /\ waited' = [c \in Cos |-> IF token[c] \in Timed /\ waited[c] < MaxWaited
                               THEN waited[c] + 1 ELSE waited[c]]
    /\ UNCHANGED <<busVars, ops, yields, status, waitVars, raised, visited, heard>>

AtHandle  == InUpdate /\ Head(stack).cur = None /\ Head(stack).read < Len(handles)
NextHandle == handles[Head(stack).read + 1]

(* self._handles[write] = handle: the handle stays in the list.            *)
Keep(c, f) ==
    /\ handles' = [handles EXCEPT ![f.write + 1] = c]
    /\ stack' = <<[f EXCEPT !.write = @ + 1, !.cur = None]>> \o Tail(stack)

SkipStopped ==
    /\ AtHandle
    /\ ~Running(NextHandle)
    /\ stack' = [stack EXCEPT ![1].read = @ + 1]
    /\ UNCHANGED <<busVars, ops, coVars>>

Resume ==
    /\ AtHandle
    /\ Running(NextHandle)
    /\ \E holds \in BOOLEAN : Over(NextHandle, holds)
    /\ CleanupWait({NextHandle})
    /\ visited' = visited \cup {NextHandle}
    /\ stack' = <<[kind |-> "step", co |-> NextHandle, first |-> FALSE],
                  [Head(stack) EXCEPT !.read = @ + 1, !.cur = NextHandle]>>
    /\ waited' = [waited EXCEPT ![NextHandle] = 0]
    /\ heard' = [heard EXCEPT ![NextHandle] = {}]
    /\ UNCHANGED <<busVars, ops, yields, status, handles, pending, raised, due>>

WaitOn ==
    /\ AtHandle
    /\ Running(NextHandle)
    /\ \E holds \in BOOLEAN : ~Over(NextHandle, holds)
    /\ elapsed' = [elapsed EXCEPT ![NextHandle] =
                     IF token[NextHandle].kind = "sleep" THEN @ + 1 ELSE @]
    /\ visited' = visited \cup {NextHandle}
    /\ Keep(NextHandle, [Head(stack) EXCEPT !.read = @ + 1])
    /\ UNCHANGED <<busVars, ops, yields, status, token, triggered, listening, pending,
                   raised, due, waited, heard>>

(* The handle that was stepped is kept unless the step ended it.           *)
KeepStepped ==
    /\ InUpdate
    /\ Head(stack).cur # None
    /\ IF Running(Head(stack).cur) THEN Keep(Head(stack).cur, Head(stack))
       ELSE stack' = [stack EXCEPT ![1].cur = None] /\ UNCHANGED handles
    /\ UNCHANGED <<busVars, ops, yields, status, waitVars, pending, historyVars>>

(* What del self._handles[write:] leaves.                                  *)
(* Mutant: the list keeps its length.                                      *)
KeptAll(f) == handles
Kept(f) == SubSeq(handles, 1, IF f.write < Len(handles) THEN f.write ELSE Len(handles))

(* The end of update(): the coroutines started meanwhile join.             *)
UpdateEnd ==
    /\ InUpdate
    /\ Head(stack).cur = None /\ Head(stack).read >= Len(handles)
    /\ handles' = Kept(Head(stack)) \o pending
    /\ pending' = <<>>
    /\ stack' = <<>>
    /\ due' = {} /\ visited' = {}
    /\ UNCHANGED <<busVars, ops, yields, status, waitVars, raised, waited, heard>>

(* A WaitUntil predicate raises through update(): `finally` runs, the      *)
(* compaction is left as it is.                                            *)
UntilRaises ==
    /\ AtHandle
    /\ Running(NextHandle) /\ token[NextHandle] = [kind |-> "until"]
    /\ handles' = handles \o pending
    /\ pending' = <<>>
    /\ stack' = <<>>
    /\ raised' = TRUE
    /\ due' = {} /\ visited' = {}
    /\ UNCHANGED <<busVars, ops, yields, status, waitVars, waited, heard>>

-----------------------------------------------------------------------------

CoopInit ==
    /\ BusInit
    /\ status = [c \in Cos |-> "new"]
    /\ token = [c \in Cos |-> None]
    /\ elapsed = [c \in Cos |-> 0]
    /\ triggered = [c \in Cos |-> FALSE]
    /\ listening = {}
    /\ handles = <<>> /\ pending = <<>> /\ yields = 0
    /\ raised = FALSE /\ due = {} /\ visited = {}
    /\ waited = [c \in Cos |-> 0] /\ heard = [c \in Cos |-> {}]

(* The bus as coroutines use it: unscoped publishes, and handlers of the   *)
(* program that are subscribed for good.                                   *)
BusUse ==
    /\ UNCHANGED coVars
    /\ \/ /\ ProgramRuns /\ Operation /\ Nested < MaxNested
          /\ \E t \in Topics : DoPublish(t, NoScope)
       \/ /\ ProgramRuns /\ Operation /\ Len(info) < MaxSubs
          /\ \E t \in Topics, h \in Handlers :
               DoSubscribe([topic |-> t, scope |-> NoScope, handler |-> h,
                            once |-> FALSE], stack)
       \/ BusStep \/ HandlerEnds

CoopProgram == \/ \E c \in Cos : Start(c) \/ Cancel(c)
               \/ CancelAll \/ Emit

UpdateStep == \/ SkipStopped \/ Resume \/ WaitOn \/ KeepStepped \/ UpdateEnd
              \/ UntilRaises

CoopNext == \/ CoopProgram \/ BusUse
            \/ StepYields \/ StepEnds \/ Wakeup
            \/ UpdateBegin \/ UpdateStep

CoopSpec == CoopInit /\ [][CoopNext]_coopVars

(* The frame loop calls update() for ever, and every call returns: what    *)
(* the program runs on the frame thread ends.                              *)
CoopFairSpec ==
    /\ CoopSpec
    /\ WF_coopVars(UpdateBegin) /\ WF_coopVars(UpdateStep)
    /\ WF_coopVars(StepYields \/ StepEnds \/ Wakeup)
    /\ WF_coopVars(BusStep /\ UNCHANGED coVars)
    /\ WF_coopVars(HandlerEnds /\ UNCHANGED coVars)

-----------------------------------------------------------------------------
(* Properties.                                                             *)

(* The variables keep their types; a coroutine that runs listens to the    *)
(* observable only while that is what it waits for; and pending starts     *)
(* never outlive the update() they were made in.                           *)
CoopTypeOK ==
    /\ status \in [Cos -> {"new", "running", "complete", "cancelled"}]
    /\ elapsed \in [Cos -> Nat]
    /\ triggered \in [Cos -> BOOLEAN]
    /\ listening \subseteq Cos
    /\ \A c \in listening : Running(c) => token[c] = [kind |-> "source"]
    /\ pending # <<>> => Updating
    /\ handles \in Seq(Cos) /\ pending \in Seq(Cos)
    /\ \A c \in Cos : token[c] # None => token[c].kind \in
            {"pause", "sleep", "event", "source", "signal", "until", "all"}

(* Where a running coroutine is held: in the compacted part of the list,   *)
(* being stepped, in the rest of the list, or among the pending starts.    *)
Held == IF ~Updating THEN handles \o pending
        ELSE LET f == Last(stack) IN
             Kept(f) \o (IF f.cur = None THEN <<>> ELSE <<f.cur>>)
                     \o SubSeq(handles, f.read + 1, Len(handles)) \o pending

(* No running coroutine is lost by the compaction, by starts during        *)
(* update() or by cancel_all(), and none is held twice -- as long as no    *)
(* exception has left update().                                            *)
HandlesOnce ==
    ~raised =>
      LET held == Held IN
      /\ \A i, j \in DOMAIN held : Running(held[i]) /\ held[i] = held[j] => i = j
      /\ {c \in ToSet(held) : Running(c)} = {c \in Cos : Running(c) /\ ~Starting(c)}

(* A frame looks at each coroutine it began with, and that still runs,     *)
(* exactly once, and at none started meanwhile; so Pause suspends for      *)
(* exactly one frame and Sleep for exactly its duration -- as long as no   *)
(* exception has left update().                                            *)
Looking     == AtHandle /\ Running(NextHandle)
Resuming(c) == Looking /\ c = NextHandle /\ Len(stack') > Len(stack)
EachFrameOnce ==
    [][~raised' =>
        /\ Looking => NextHandle \in due \ visited
        /\ (Updating /\ stack' = <<>>) => \A c \in due : Running(c) => c \in visited
        /\ \A c \in Cos : Resuming(c) =>
             /\ token[c].kind = "pause" => waited[c] = 1
             /\ token[c].kind = "sleep" =>
                  waited[c] = IF token[c].seconds = 0 THEN 1 ELSE token[c].seconds
      ]_coopVars

(* WaitForEvent suspends until the bus publishes a matching event.         *)
WokenByItsEvent ==
    \A c \in Cos : (triggered[c] /\ token[c] # None /\ token[c].kind = "event")
                      => token[c].topic \in heard[c]

(* A coroutine whose wait is over is resumed: after its one frame, once    *)
(* its event was heard, once every coroutine it waits for has stopped --   *)
(* unless it is cancelled, or an exception leaves update().                *)
Ready(c) ==
    /\ Running(c) /\ token[c] # None
    /\ \/ token[c].kind \in {"pause", "sleep", "signal"}
       \/ token[c].kind \in {"event", "source"} /\ triggered[c]
       \/ token[c].kind = "all" /\ \A d \in token[c].of : ~Running(d)
ReadyResumes == \A c \in Cos : Ready(c) ~> (token[c] = None \/ ~Running(c) \/ raised)
=============================================================================
