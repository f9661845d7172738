---------------------------- MODULE AnimationStates ----------------------------
(***************************************************************************)
(* AnimationStateMachine (gui_do/scheduling/animation_state_machine.py):   *)
(* named states, each with a sequence of animations that is started when   *)
(* the state is, and cancelled, or waited for, when the next one is.       *)
(*                                                                         *)
(* A sequence is what Tweens says of one: its steps end one after the      *)
(* other; cancelled, the step in flight still ends but is not followed by  *)
(* another.  The callbacks of state changes are the program's code and may *)
(* call the machine and raise.                                             *)
(***************************************************************************)
EXTENDS Integers, Sequences

CONSTANTS
    AnimStates,    \* the registered states
    StepsIn,       \* steps of the sequence of each that take time
    NoState,       \* no state
    OnStateChange, \* the number of callbacks of on_state_changed()
    MaxRequests,   \* bound: calls of set_state() and reset()
    MaxTelling     \* bound: calls under way

ASSUME AnimationStatesAssumption ==
    /\ NoState \notin AnimStates
    /\ StepsIn \in [AnimStates -> Nat]
    /\ {OnStateChange, MaxRequests, MaxTelling} \subseteq Nat

VARIABLES
    currentState, \* _current_state
    pendingState, \* _pending_state
    sequences,    \* the sequences started, in order
    current,      \* _current_handle, by its place in them; 0 for None
    stateCalls,   \* the calls of callbacks under way, innermost first
    lastTold,     \* history: the state each callback was told last
    requests,     \* calls so far
    wanted,       \* history: the state asked for last
    ignored,      \* history: the current state was asked for while one was pending
    disturbed     \* history: a callback has called the machine, or raised

animationVars == <<currentState, pendingState, sequences, current, stateCalls, lastTold,
                   requests, wanted, ignored, disturbed>>

Live(i) == sequences[i].left > 0 /\ ~sequences[i].off

TellState(s, at) == IF at <= OnStateChange THEN <<[state |-> s, at |-> at]>> ELSE <<>>

(* The program asks, outside or in a callback, for a state or for none.    *)
Ask(s) ==
    /\ requests < MaxRequests /\ Len(stateCalls) < MaxTelling
    /\ requests' = requests + 1
    /\ wanted' = s
    /\ disturbed' = (disturbed \/ stateCalls # <<>>)

-----------------------------------------------------------------------------
(* _start_state() after `before`: a sequence without steps that take time  *)
(* is over, and its callback called, when start() returns: the handle is   *)
(* set after that.  The callbacks are told next.                           *)
StartState(s, before) ==
    /\ currentState' = s /\ pendingState' = NoState
    /\ sequences' = Append(before, [of |-> s, left |-> StepsIn[s], off |-> FALSE])
    /\ current' = Len(before) + 1
    /\ stateCalls' = TellState(s, 1) \o stateCalls
    /\ lastTold' = IF OnStateChange > 0 THEN [lastTold EXCEPT ![1] = s] ELSE lastTold

(* AnimationHandle.cancel() of the current handle.                         *)
Cancelled == [i \in DOMAIN sequences |->
                 IF i = current THEN [sequences[i] EXCEPT !.off = TRUE] ELSE sequences[i]]

(* set_state(): the mode is that registered for the two states; of these   *)
(* "reverse" is started at once, like "interrupt".                         *)
RequestState(s, waits) ==
    /\ s # currentState
    /\ Ask(s)
    /\ IF waits /\ currentState # NoState /\ current # 0
       THEN pendingState' = s /\ UNCHANGED <<currentState, sequences, current, stateCalls, lastTold>>
       ELSE StartState(s, Cancelled)
    /\ UNCHANGED ignored

(* set_state() of the current state, which leaves what is pending.         *)
RequestSameState ==
    /\ currentState # NoState
    /\ Ask(currentState)
    /\ ignored' = (ignored \/ pendingState # NoState)
    /\ UNCHANGED <<currentState, pendingState, sequences, current, stateCalls, lastTold>>

ResetStates ==
    /\ Ask(NoState)
    /\ sequences' = Cancelled
    /\ current' = 0 /\ currentState' = NoState /\ pendingState' = NoState
    /\ UNCHANGED <<stateCalls, lastTold, ignored>>

(* A step of a sequence ends in the update of the tweens; after the last   *)
(* one _on_sequence_done() is called.                                      *)
SequenceStepEnds(i) ==
    LET after == [sequences EXCEPT ![i].left = @ - 1] IN
    /\ stateCalls = <<>>
    /\ Live(i)
    /\ IF after[i].left = 0 /\ pendingState # NoState
       THEN StartState(pendingState, after)
       ELSE /\ sequences' = after
            /\ current' = IF after[i].left = 0 THEN 0 ELSE current
            /\ UNCHANGED <<currentState, pendingState, stateCalls, lastTold>>
    /\ UNCHANGED <<requests, wanted, ignored, disturbed>>

(* A callback returns and the next is told the state of the call; or it    *)
(* raises, and the rest are not told.                                      *)
StateCallbackEnds(raises) ==
    LET c == stateCalls[1]
        next == IF raises THEN <<>> ELSE TellState(c.state, c.at + 1)
    IN
    /\ stateCalls # <<>>
    /\ stateCalls' = next \o Tail(stateCalls)
    /\ lastTold' = IF next = <<>> THEN lastTold ELSE [lastTold EXCEPT ![c.at + 1] = c.state]
    /\ disturbed' = (disturbed \/ raises)
    /\ UNCHANGED <<currentState, pendingState, sequences, current, requests, wanted, ignored>>

(* The state given as initial_state is current from the start; its         *)
(* sequence is not started.                                                *)
AnimationInit ==
    /\ currentState \in AnimStates \cup {NoState}
    /\ pendingState = NoState
    /\ sequences = <<>> /\ current = 0 /\ stateCalls = <<>> /\ requests = 0
    /\ lastTold = [n \in 1 .. OnStateChange |-> NoState]
    /\ wanted = currentState
    /\ ignored = FALSE /\ disturbed = FALSE

AnimationNext ==
    \/ \E s \in AnimStates, waits \in BOOLEAN : RequestState(s, waits)
    \/ RequestSameState
    \/ ResetStates
    \/ \E i \in DOMAIN sequences : SequenceStepEnds(i)
    \/ \E raises \in BOOLEAN : StateCallbackEnds(raises)

AnimationSpec == AnimationInit /\ [][AnimationNext]_animationVars

-----------------------------------------------------------------------------
AnimationTypeOK ==
    /\ {currentState, pendingState, wanted} \subseteq AnimStates \cup {NoState}
    /\ sequences \in Seq([of : AnimStates, left : Nat, off : BOOLEAN])
    /\ current \in 0 .. Len(sequences)
    /\ stateCalls \in Seq([state : AnimStates, at : 1 .. OnStateChange])
    /\ lastTold \in [1 .. OnStateChange -> AnimStates \cup {NoState}]
    /\ requests \in 0 .. MaxRequests

(* One sequence at most animates, that of the current state, and it is the *)
(* one reset() would cancel; what is pending has one to wait for, unless   *)
(* the current state's took no time; what is pending or else current is    *)
(* what was asked for last, unless that was the current state while        *)
(* another was pending; and the callbacks know the current state, unless   *)
(* one of them has called the machine or raised.                           *)
AnimationSafe ==
    /\ \A i \in DOMAIN sequences : Live(i) => i = current /\ sequences[i].of = currentState
    /\ pendingState # NoState => current # 0 /\ (Live(current) \/ StepsIn[currentState] = 0)
    /\ ~ignored => wanted = IF pendingState = NoState THEN currentState ELSE pendingState
    /\ stateCalls = <<>> /\ ~disturbed /\ sequences # <<>> /\ currentState # NoState =>
          \A n \in DOMAIN lastTold : lastTold[n] = currentState
=============================================================================
