----------------------------- MODULE MCMessages -----------------------------
(* Instances of CooperativeScheduler, with the EventBus it extends, and of *)
(* the runs of FeatureOperations: what goes on over many frames.  A        *)
(* behaviour is one of the module its subject names.                       *)
EXTENDS CooperativeScheduler, FeatureOperations

VARIABLE subject   \* the module whose steps the behaviour takes

messageVars == <<coopVars, opVars, subject>>

MessagesInit ==
    /\ CoopInit /\ OpsInit
    /\ \/ subject = "operations"
       \/ /\ subject = "coroutines"
          /\ policy = [retries |-> 0, delayed |-> FALSE, timeout |-> FALSE]

MessagesNext ==
    /\ UNCHANGED subject
    /\ \/ subject = "coroutines" /\ CoopNext /\ UNCHANGED opVars
       \/ subject = "operations" /\ OpsNext /\ UNCHANGED coopVars

(* The fairness of CoopFairSpec and of OpsSpec, in their own behaviours.   *)
Stepping(A)  == subject = "coroutines" /\ A
Operating(A) == subject = "operations" /\ A
MessagesFairness ==
    /\ WF_coopVars(Stepping(UpdateBegin)) /\ WF_coopVars(Stepping(UpdateStep))
    /\ WF_coopVars(Stepping(StepYields \/ StepEnds \/ Wakeup))
    /\ WF_coopVars(Stepping(BusStep /\ UNCHANGED coVars))
    /\ WF_coopVars(Stepping(HandlerEnds /\ UNCHANGED coVars))
    /\ WF_opVars(Operating(Dispatch)) /\ WF_opVars(Operating(RunFrame))
    /\ \A h \in Handles : SF_opVars(Operating(TimeoutDue(h)))

MessagesSpec == MessagesInit /\ [][MessagesNext]_messageVars /\ MessagesFairness

(* The variables of the modules keep their types.                          *)
MessagesTypeOK == IF subject = "coroutines" THEN CoopTypeOK ELSE OpsTypeOK
=============================================================================
