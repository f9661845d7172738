-------------------------------- MODULE Wizard --------------------------------
(***************************************************************************)
(* WizardFlow (gui_do/forms/wizard_flow.py): the steps of a form, advance, *)
(* back, completion and cancellation.                                      *)
(*                                                                         *)
(* The hooks of steps, the observers of the progress and the callbacks are *)
(* the program's code and may advance, go back and cancel before they      *)
(* return.  The data of a step is whether it was submitted; progress is    *)
(* counted in steps.                                                       *)
(***************************************************************************)
EXTENDS Integers, Sequences, FiniteSets

CONSTANTS
    StepsInFlow, \* the number of steps
    MaxMoves,    \* bound: calls of advance() and back()
    MaxHooks     \* bound: calls and hooks under way

ASSUME WizardAssumption ==
    /\ StepsInFlow \in Nat \ {0}
    /\ MaxMoves \in Nat
    /\ MaxHooks \in 1 .. 2 * StepsInFlow  \* below -StepsInFlow _steps[_index] raises

VARIABLES
    stepIndex, \* _index
    submitted, \* the steps of which _step_data is not None
    progress,  \* _progress, of StepsInFlow
    cancelled, \* _cancelled
    moves,     \* calls under way, innermost first: what each does when the
               \* hook it has called returns; "hook" is the hook
    entered,   \* history: the step whose on_enter was called last
    completed, \* history: what was submitted when on_complete was called, if it was
    movesMade, \* calls so far
    reentered  \* history: a hook of validation or leaving has moved

wizardVars == <<stepIndex, submitted, progress, cancelled, moves, entered, completed, movesMade, reentered>>

FlowSteps == 0 .. StepsInFlow - 1
InHook == IF moves = <<>> THEN TRUE ELSE moves[1] = "hook"

(* _steps[-1] is the last step.                                            *)
StepAt(i) == IF i < 0 THEN StepsInFlow + i ELSE i

Hook(then, rest) == <<"hook", then>> \o rest

(* A hook that moves before its caller does.                               *)
Reenters ==
    reentered' = (reentered \/ (Len(moves) > 1 /\ moves[2] \in {"validated", "left", "left back"}))

CanMove == InHook /\ movesMade < MaxMoves /\ Len(moves) < MaxHooks

-----------------------------------------------------------------------------
(* advance() calls on_validate.                                            *)
Advance ==
    /\ CanMove
    /\ movesMade' = movesMade + 1
    /\ moves' = Hook("validated", moves)
    /\ Reenters
    /\ UNCHANGED <<stepIndex, submitted, progress, cancelled, entered, completed>>

(* back() calls on_leave, except at the first step.                        *)
Back ==
    /\ CanMove
    /\ stepIndex > 0
    /\ movesMade' = movesMade + 1
    /\ moves' = Hook("left back", moves)
    /\ Reenters
    /\ UNCHANGED <<stepIndex, submitted, progress, cancelled, entered, completed>>

CancelFlow ==
    /\ InHook
    /\ ~cancelled
    /\ cancelled' = TRUE
    /\ UNCHANGED <<stepIndex, submitted, progress, moves, entered, completed, movesMade, reentered>>

(* on_validate has found errors, or none: the data is stored for the step  *)
(* that is the current one then, and on_leave called.                      *)
Validated(valid) ==
    /\ Len(moves) > 1 /\ moves[1] = "hook" /\ moves[2] = "validated"
    /\ IF valid
       THEN /\ submitted' = submitted \cup {StepAt(stepIndex)}
            /\ moves' = Hook("left", SubSeq(moves, 3, Len(moves)))
       ELSE moves' = SubSeq(moves, 3, Len(moves)) /\ UNCHANGED submitted
    /\ UNCHANGED <<stepIndex, progress, cancelled, entered, completed, movesMade, reentered>>

LastStep(i) == i >= StepsInFlow - 1

(* The observers of the progress are called when it changes.               *)
Progress(now, then, rest) ==
    /\ progress' = now
    /\ moves' = IF now = progress THEN <<then>> \o rest ELSE Hook(then, rest)

(* on_leave has returned: the flow goes on, or is complete.                *)
Left ==
    /\ Len(moves) > 1 /\ moves[1] = "hook" /\ moves[2] \in {"left", "left back"}
    /\ LET rest == SubSeq(moves, 3, Len(moves))
       IN IF moves[2] = "left" /\ LastStep(stepIndex)
          THEN Progress(StepsInFlow, "complete", rest) /\ UNCHANGED stepIndex
          ELSE /\ stepIndex' = IF moves[2] = "left" THEN stepIndex + 1 ELSE stepIndex - 1
               /\ Progress(stepIndex', "enter", rest)
    /\ UNCHANGED <<submitted, cancelled, entered, completed, movesMade, reentered>>

(* The observers have returned: on_enter of what is the current step then, *)
(* or on_complete, is called last.                                         *)
Arrive ==
    /\ \/ /\ moves # <<>> /\ moves[1] \in {"enter", "complete"}
          /\ moves' = Hook("return", Tail(moves))
          /\ entered' = IF moves[1] = "enter" THEN StepAt(stepIndex) ELSE entered
          /\ completed' = IF moves[1] = "complete" THEN completed \cup {submitted} ELSE completed
       \/ /\ Len(moves) > 1 /\ moves[1] = "hook" /\ moves[2] \in {"enter", "complete"}
          /\ moves' = Tail(moves)
          /\ UNCHANGED <<entered, completed>>
    /\ UNCHANGED <<stepIndex, submitted, progress, cancelled, movesMade, reentered>>

HookReturns ==
    /\ Len(moves) > 1 /\ moves[1] = "hook" /\ moves[2] = "return"
    /\ moves' = SubSeq(moves, 3, Len(moves))
    /\ UNCHANGED <<stepIndex, submitted, progress, cancelled, entered, completed, movesMade, reentered>>

WizardInit ==
    /\ stepIndex = 0 /\ progress = 0 /\ entered = 0 /\ movesMade = 0
    /\ submitted = {} /\ completed = {} /\ moves = <<>>
    /\ cancelled = FALSE /\ reentered = FALSE

WizardNext ==
    \/ Advance
    \/ Back
    \/ CancelFlow
    \/ \E valid \in BOOLEAN : Validated(valid)
    \/ Left
    \/ Arrive
    \/ HookReturns

WizardSpec == WizardInit /\ [][WizardNext]_wizardVars

-----------------------------------------------------------------------------
WizardTypeOK ==
    /\ stepIndex \in -StepsInFlow .. StepsInFlow - 1
    /\ submitted \subseteq FlowSteps
    /\ completed \subseteq SUBSET FlowSteps
    /\ progress \in -StepsInFlow .. StepsInFlow
    /\ entered \in FlowSteps
    /\ {cancelled, reentered} \subseteq BOOLEAN
    /\ movesMade \in 0 .. MaxMoves
    /\ moves \in Seq({"hook", "validated", "left", "left back", "enter", "complete", "return"})

(* Unless a hook of validation or leaving moves, the flow stays within its *)
(* steps and completes only when every step was submitted, whatever is     *)
(* done when a step is entered, the progress observed and the flow         *)
(* completed; and between calls the step entered last is the current one   *)
(* and the progress that of it, or of the whole at the last.               *)
WizardSafe ==
    ~reentered =>
        /\ stepIndex \in FlowSteps
        /\ \A done \in completed : done = FlowSteps
        /\ moves = <<>> =>
              /\ entered = stepIndex
              /\ progress = stepIndex \/ (progress = StepsInFlow /\ LastStep(stepIndex))
=============================================================================
