--------------------------- MODULE OperationsProofs ---------------------------
(***************************************************************************)
(* Proofs about FeatureOperations: what the runs of sagas and workflows    *)
(* have done and undone, that the durable queue keeps what has not ended,  *)
(* and that an operation is settled once; and about RuntimeUpdates: that   *)
(* no event of a pipeline goes astray and that clean values are current.   *)
(***************************************************************************)
EXTENDS FeatureOperations, RuntimeUpdates, SequenceLemmas

USE DEF NoHandle

-----------------------------------------------------------------------------
(* Runs.                                                                   *)

RunRecord ==
    [kind : {"workflow", "saga"}, status : {"none", "running"} \cup Ended,
     step : 1 .. StepCount + 1, handle : Nat, done : Seq(Nat), undone : Seq(Nat)]

(* The steps a run has done when it is at this one.                        *)
InStep(run) ==
    IF run.handle = NoHandle THEN Len(run.done) = run.step - 1
    ELSE Len(run.done) = run.step /\ run.step <= StepCount

(* What is true of a run in every state: it does its steps in order, and   *)
(* counts one as done from the moment its handler has returned.            *)
RunOK(run) ==
    /\ run \in RunRecord
    /\ run.done = [i \in 1 .. Len(run.done) |-> i]
    /\ run.undone = IF run.kind = "saga" /\ run.status = "failed"
                    THEN Reverse(run.done) ELSE <<>>
    /\ run.status = "completed" => Len(run.done) = StepCount
    /\ run.status = "running" => InStep(run)
    /\ run.status = "none" => run.done = <<>> /\ run.step = 1 /\ run.handle = NoHandle

(* A run that is to be pumped is running.                                  *)
RunsInv ==
    /\ DOMAIN runs = Runs /\ runs = [r \in Runs |-> runs[r]]
    /\ \A r \in Runs : RunOK(runs[r])
    /\ unpumped \subseteq {r \in Runs : runs[r].status = "running"}

LEMMA ReverseType ==
    ASSUME NEW s \in Seq(Nat)
    PROVE  Reverse(s) \in Seq(Nat)
  BY DEF Reverse

LEMMA FailedOK ==
    ASSUME NEW run, RunOK(run), run.status = "running"
    PROVE  RunOK(Failed(run))
<1> DEFINE new == Failed(run)
           undone == IF run.kind = "saga" THEN Reverse(run.done) ELSE run.undone
<1>1. run \in RunRecord /\ run.undone = <<>> /\ run.done \in Seq(Nat) /\ run.undone \in Seq(Nat)
  BY DEF RunOK, RunRecord
<1>2. undone \in Seq(Nat)
  BY <1>1, ReverseType
<1>3. new = [run EXCEPT !.status = "failed", !.undone = undone]
  BY <1>1 DEF Failed, Undone, RunRecord
<1>4. /\ new \in RunRecord /\ new.done = run.done /\ new.undone = undone
      /\ new.status = "failed" /\ new.kind = run.kind
  <2> HIDE DEF new, undone
  <2> QED BY <1>1, <1>2, <1>3 DEF RunRecord, Ended
<1> QED
  <2> HIDE DEF new
  <2>1. new.done = [i \in 1 .. Len(new.done) |-> i]
    BY <1>4 DEF RunOK
  <2>2. new.undone = IF new.kind = "saga" /\ new.status = "failed"
                     THEN Reverse(new.done) ELSE <<>>
    BY <1>1, <1>4
  <2>3. RunOK(new)
    BY <1>4, <2>1, <2>2 DEF RunOK
  <2> QED BY <2>3 DEF new

LEMMA AnsweredOK ==
    ASSUME NEW run, RunOK(run), run.status = "running"
    PROVE  RunOK(Answered(run)) /\ Answered(run).handle = NoHandle /\ Answered(run).status # "none"
<1> DEFINE free == [run EXCEPT !.handle = NoHandle]
<1>1. run \in RunRecord /\ StepCount \in Nat \ {0} /\ InStep(run) /\ run.undone = <<>>
      /\ run.done \in Seq(Nat) /\ run.step \in Nat
  BY OperationAssumption DEF RunOK, RunRecord
<1>2. CASE run.handle = NoHandle
  BY <1>2 DEF Answered
<1>3. CASE run.handle # NoHandle /\ opStatus[run.handle] = "completed"
  <2> DEFINE new == [free EXCEPT !.step = @ + 1]
  <2>1. Answered(run) = new
    BY <1>3 DEF Answered
  <2>2. run.step + 1 \in 1 .. StepCount + 1 /\ Len(run.done) = run.step
    BY <1>1, <1>3 DEF InStep, RunRecord
  <2>3. /\ new \in RunRecord /\ new.done = run.done /\ new.undone = run.undone
        /\ new.status = "running" /\ new.kind = run.kind /\ new.handle = NoHandle
        /\ new.step = run.step + 1
    BY <1>1, <2>2 DEF RunRecord
  <2> HIDE DEF new
  <2>4. new.done = [i \in 1 .. Len(new.done) |-> i]
    BY <2>3 DEF RunOK
  <2>5. InStep(new)
    BY <1>1, <2>2, <2>3 DEF InStep
  <2>6. RunOK(new)
    BY <1>1, <2>3, <2>4, <2>5 DEF RunOK
  <2> QED BY <2>1, <2>3, <2>6
<1>4. CASE run.handle # NoHandle /\ opStatus[run.handle] = "cancelled" /\ run.kind = "workflow"
  <2> DEFINE new == [free EXCEPT !.status = "cancelled"]
  <2>1. Answered(run) = new
    BY <1>4 DEF Answered
  <2>3. /\ new \in RunRecord /\ new.done = run.done /\ new.undone = run.undone
        /\ new.status = "cancelled" /\ new.kind = run.kind /\ new.handle = NoHandle
    BY <1>1 DEF RunRecord, Ended
  <2> HIDE DEF new
  <2> QED BY <1>1, <2>1, <2>3 DEF RunOK
<1>5. CASE /\ run.handle # NoHandle /\ opStatus[run.handle] # "completed"
           /\ ~(opStatus[run.handle] = "cancelled" /\ run.kind = "workflow")
  <2> DEFINE undone == IF run.kind = "saga" THEN Reverse(run.done) ELSE run.undone
             new == [free EXCEPT !.status = "failed", !.undone = undone]
  <2>1. Answered(run) = Failed(free)
    BY <1>5 DEF Answered
  <2>a. Failed(free) = new
    BY <1>1 DEF Failed, Undone, RunRecord
  <2>2. undone \in Seq(Nat)
    BY <1>1, ReverseType
  <2>3. /\ new \in RunRecord /\ new.done = run.done /\ new.undone = undone
        /\ new.status = "failed" /\ new.kind = run.kind /\ new.handle = NoHandle
    <3> HIDE DEF undone
    <3> QED BY <1>1, <2>2 DEF RunRecord, Ended
  <2>4. RunOK(new)
    <3> HIDE DEF new
    <3> QED BY <1>1, <2>3 DEF RunOK
  <2> QED BY <2>1, <2>a, <2>3, <2>4
<1> QED BY <1>2, <1>3, <1>4, <1>5

LEMMA UsedType == Used \in Nat /\ Used + 1 # NoHandle
<1>1. IsFiniteSet(Handles) /\ {h \in Handles : opStatus[h] # "unused"} \subseteq Handles
  BY FS_Interval, OperationAssumption DEF Handles
<1>2. IsFiniteSet({h \in Handles : opStatus[h] # "unused"})
  BY <1>1, FS_Subset
<1>3. Used \in Nat
  BY <1>2, FS_CardinalityType DEF Used
<1> QED BY <1>3

(* One step more of a run that has no answer to wait for.                  *)
LEMMA StepOK ==
    ASSUME NEW run, RunOK(run), run.status = "running", run.handle = NoHandle,
           run.step <= StepCount, NEW h \in Nat, h # NoHandle
    PROVE  LET next == [run EXCEPT !.done = Append(@, run.step)] IN
           /\ RunOK([next EXCEPT !.step = @ + 1])
           /\ RunOK([next EXCEPT !.handle = h])
<1> DEFINE done == Append(run.done, run.step)
           n == Len(run.done)
<1>1. /\ run \in RunRecord /\ StepCount \in Nat \ {0} /\ run.undone = <<>>
      /\ run.done \in Seq(Nat) /\ run.step \in Nat /\ n = run.step - 1 /\ n \in Nat
  BY OperationAssumption DEF RunOK, RunRecord, InStep
<1>2. done \in Seq(Nat) /\ Len(done) = run.step
  BY <1>1, AppendProperties
<1>3. done = [i \in 1 .. Len(done) |-> i]
  <2>1. \A i \in 1 .. n : run.done[i] = i
    BY <1>1 DEF RunOK
  <2>2. /\ \A i \in 1 .. n : done[i] = run.done[i]
        /\ done[n + 1] = run.step
    BY <1>1, AppendProperties
  <2>3. \A i \in 1 .. run.step : done[i] = i
    BY <1>1, <2>1, <2>2
  <2>4. done = [i \in 1 .. Len(done) |-> done[i]]
    BY <1>2
  <2> HIDE DEF done
  <2> QED BY <1>2, <2>3, <2>4
<1> DEFINE one == [[run EXCEPT !.done = done] EXCEPT !.step = @ + 1]
           two == [[run EXCEPT !.done = done] EXCEPT !.handle = h]
<1>4. /\ one \in RunRecord /\ one.done = done /\ one.undone = <<>> /\ one.status = "running"
      /\ one.step = run.step + 1 /\ one.handle = NoHandle
  <2> HIDE DEF done
  <2>1. run.step + 1 \in 1 .. StepCount + 1
    BY <1>1
  <2> QED BY <1>1, <1>2, <2>1 DEF RunRecord
<1>5. /\ two \in RunRecord /\ two.done = done /\ two.undone = <<>> /\ two.status = "running"
      /\ two.step = run.step /\ two.handle = h
  <2> HIDE DEF done
  <2> QED BY <1>1, <1>2 DEF RunRecord
<1>6. RunOK(one)
  <2> HIDE DEF one, done
  <2> QED BY <1>1, <1>2, <1>3, <1>4 DEF RunOK, InStep
<1>7. RunOK(two)
  <2> HIDE DEF two, done
  <2> QED BY <1>1, <1>2, <1>3, <1>5 DEF RunOK, InStep
<1> QED BY <1>6, <1>7

LEMMA EndOK ==
    ASSUME NEW run, RunOK(run), run.status = "running", run.handle = NoHandle,
           run.step > StepCount
    PROVE  RunOK([run EXCEPT !.status = "completed"])
<1> DEFINE new == [run EXCEPT !.status = "completed"]
<1>1. /\ run \in RunRecord /\ StepCount \in Nat \ {0} /\ run.undone = <<>>
      /\ run.done \in Seq(Nat) /\ run.step \in 1 .. StepCount + 1 /\ Len(run.done) = run.step - 1
  BY OperationAssumption DEF RunOK, RunRecord, InStep
<1>2. /\ new \in RunRecord /\ new.done = run.done /\ new.undone = run.undone
      /\ new.status = "completed"
  BY <1>1 DEF RunRecord, Ended
<1>3. Len(run.done) = StepCount
  BY <1>1
<1> HIDE DEF new
<1>4. new.done = [i \in 1 .. Len(new.done) |-> i]
  BY <1>2 DEF RunOK
<1>5. RunOK(new)
  BY <1>1, <1>2, <1>3, <1>4 DEF RunOK
<1> QED BY <1>5 DEF new

LEMMA RunsStep == RunsInv /\ [OpsNext]_opVars => RunsInv'
<1> SUFFICES ASSUME RunsInv, [OpsNext]_opVars PROVE RunsInv'
  OBVIOUS
<1> USE DEF opVars, operationVars, queueVars, frameVars
<1>1. ASSUME UNCHANGED <<runs, unpumped>> PROVE RunsInv'
  BY <1>1 DEF RunsInv
<1>2. ASSUME NEW r \in Runs, NEW kind \in {"workflow", "saga"}, StartRun(r, kind) PROVE RunsInv'
  <2> DEFINE new == [runs[r] EXCEPT !.status = "running", !.kind = kind]
  <2>0. runs[r] \in RunRecord /\ RunOK(runs[r])
    BY DEF RunsInv, RunOK
  <2>1. /\ runs[r] \in RunRecord /\ RunOK(runs[r]) /\ runs[r].status = "none"
        /\ runs' = [runs EXCEPT ![r] = new] /\ UNCHANGED unpumped
    <3>1. runs' = [runs EXCEPT ![r].status = "running", ![r].kind = kind]
      BY <1>2 DEF StartRun
    <3> QED BY <1>2, <2>0, <3>1 DEF StartRun
  <2>2. /\ new \in RunRecord /\ new.done = <<>> /\ new.undone = <<>> /\ new.status = "running"
        /\ new.step = 1 /\ new.handle = NoHandle
    BY <2>1 DEF RunOK, RunRecord
  <2>3. RunOK(new)
    <3> HIDE DEF new
    <3>1. Len(<<>>) = 0 /\ <<>> = [i \in 1 .. 0 |-> i]
      OBVIOUS
    <3> QED BY <2>2, <3>1 DEF RunOK, InStep
  <2> HIDE DEF new
  <2> QED BY <2>1, <2>2, <2>3 DEF RunsInv
<1>3. ASSUME NEW admit, BeginRuns(admit) PROVE RunsInv'
  BY <1>3 DEF BeginRuns, RunsInv
<1>4. ASSUME NEW r \in Runs, PumpRun(r) PROVE RunsInv'
  <2> DEFINE old == runs[r]
             run == Answered(old)
             next == [run EXCEPT !.done = Append(@, run.step)]
  <2>1. /\ r \in unpumped /\ unpumped' = unpumped \ {r}
        /\ RunOK(old) /\ old.status = "running"
    BY <1>4 DEF PumpRun, RunsInv
  <2>2. RunOK(run) /\ run.handle = NoHandle /\ run.status # "none"
    BY <2>1, AnsweredOK
  <2>3. ASSUME NEW new, RunOK(new), runs' = [runs EXCEPT ![r] = new]
        PROVE  RunsInv'
    BY <2>1, <2>3 DEF RunsInv
  <2>4. CASE runs' = runs
    BY <2>1, <2>4 DEF RunsInv
  <2>5. CASE /\ run.status # "running" \/ run.step > StepCount
             /\ runs' = [runs EXCEPT ![r] =
                    IF run.status = "running" THEN [run EXCEPT !.status = "completed"]
                    ELSE run]
    <3>1. RunOK(IF run.status = "running" THEN [run EXCEPT !.status = "completed"] ELSE run)
      <4>1. CASE run.status = "running"
        <5> HIDE DEF run
        <5> QED BY <2>2, <2>5, <4>1, EndOK
      <4>2. CASE run.status # "running"
        BY <2>2, <4>2
      <4> QED BY <4>1, <4>2
    <3> HIDE DEF run
    <3> QED BY <2>3, <2>5, <3>1
  <2>6. CASE /\ run.status = "running" /\ run.step <= StepCount
             /\ \/ runs' = [runs EXCEPT ![r] = [next EXCEPT !.step = @ + 1]]
                \/ runs' = [runs EXCEPT ![r] = Failed(run)]
                \/ runs' = [runs EXCEPT ![r] = [next EXCEPT !.handle = Used + 1]]
    <3>1. Used + 1 \in Nat /\ Used + 1 # NoHandle
      BY UsedType
    <3>2. RunOK([next EXCEPT !.step = @ + 1]) /\ RunOK([next EXCEPT !.handle = Used + 1])
      <4> HIDE DEF run
      <4> QED BY <2>2, <2>6, <3>1, StepOK
    <3>3. RunOK(Failed(run))
      <4> HIDE DEF run
      <4> QED BY <2>2, <2>6, FailedOK
    <3> HIDE DEF run
    <3> QED BY <2>3, <2>6, <3>2, <3>3
  <2> QED BY <1>4, <2>4, <2>5, <2>6 DEF PumpRun
<1>5. ASSUME NEW storage, Restart(storage) PROVE RunsInv'
  <2> DEFINE New(r) == [runs[r] EXCEPT !.status = "cancelled", !.handle = NoHandle]
  <2>1. /\ unpumped' = {}
        /\ runs' = [r \in Runs |-> IF runs[r].status = "running" THEN New(r) ELSE runs[r]]
    BY <1>5 DEF Restart
  <2>2. ASSUME NEW r \in Runs, runs[r].status = "running" PROVE RunOK(New(r))
    <3>1. RunOK(runs[r]) /\ runs[r] \in RunRecord /\ runs[r].undone = <<>>
      BY <2>2 DEF RunsInv, RunOK
    <3>2. /\ New(r) \in RunRecord /\ New(r).done = runs[r].done /\ New(r).undone = <<>>
          /\ New(r).status = "cancelled"
      BY <3>1 DEF RunRecord, Ended
    <3> HIDE DEF New
    <3> QED BY <3>1, <3>2 DEF RunOK
  <2>3. \A r \in Runs : RunOK(runs'[r])
    <3> HIDE DEF New
    <3> QED BY <2>1, <2>2 DEF RunsInv
  <2> HIDE DEF New
  <2> QED BY <2>1, <2>3 DEF RunsInv
<1>6. ASSUME RunFrame PROVE RunsInv'
  BY <1>1, <1>3, <1>4, <1>6 DEF RunFrame, BeginFrame, RunTimer, BeginQueue,
     PumpRecord, PumpCalled, EndFrame
<1>7. CASE OpsNext
  BY <1>1, <1>2, <1>5, <1>6, <1>7 DEF OpsNext, Dispatch, SettleLater, Enqueue, Dispose, Crash
<1>8. CASE UNCHANGED opVars
  BY <1>1, <1>8
<1> QED BY <1>7, <1>8

(* A run has done its steps in their order; a saga that has failed has     *)
(* undone exactly those, the last one first (RunsDoAndUndo), for any       *)
(* number of runs, steps, calls, retries and restarts.                     *)
THEOREM RunsInOrder == OpsSpec => []RunsDoAndUndo
<1>1. OpsInit => RunsInv
  <2> SUFFICES ASSUME OpsInit PROVE RunsInv
    OBVIOUS
  <2>1. Len(<<>>) = 0 /\ <<>> = [i \in 1 .. 0 |-> i]
    OBVIOUS
  <2>2. ASSUME NEW r \in Runs PROVE RunOK(runs[r])
    BY <2>1, OperationAssumption DEF OpsInit, RunOK, RunRecord
  <2> QED BY <2>2 DEF OpsInit, RunsInv
<1>2. RunsInv => RunsDoAndUndo
  <2> SUFFICES ASSUME RunsInv, NEW r \in Runs
               PROVE  LET run == runs[r] IN
                      /\ run.done = [i \in 1 .. Len(run.done) |-> i]
                      /\ run.undone = IF run.kind = "saga" /\ run.status = "failed"
                                      THEN Reverse(run.done) ELSE <<>>
                      /\ run.status = "completed" => Len(run.done) = StepCount
                      /\ run.status = "running" =>
                            Len(run.done) = run.step - IF run.handle = NoHandle THEN 1 ELSE 0
    BY DEF RunsDoAndUndo
  <2>1. RunOK(runs[r]) /\ runs[r].step \in Nat
    BY DEF RunsInv, RunOK, RunRecord
  <2> QED BY <2>1 DEF RunOK, InStep
<1> QED BY <1>1, <1>2, RunsStep, PTL DEF OpsSpec

-----------------------------------------------------------------------------
(* Operations.                                                             *)

(* The handles are used in their order, so that a call finds an unused one.*)
StatusInv ==
    /\ opStatus \in [Handles \cup {NoHandle} -> {"unused", "pending"} \cup Settled]
    /\ opStatus[NoHandle] = "unused"
    /\ \E n \in 0 .. MaxCalls : \A h \in Handles : opStatus[h] # "unused" <=> h <= n

(* What is over stays as it is.                                            *)
KeepsSettled ==
    \A h \in Handles : opStatus[h] \in Settled => opStatus'[h] = opStatus[h]

(* Used is the last handle in use.                                         *)
LEMMA UsedIsLast ==
    ASSUME NEW n \in 0 .. MaxCalls, \A h \in Handles : opStatus[h] # "unused" <=> h <= n
    PROVE  Used = n
<1>1. n \in Nat /\ MaxCalls \in Nat
  BY OperationAssumption
<1>2. {h \in Handles : opStatus[h] # "unused"} = 1 .. n
  BY <1>1 DEF Handles
<1>3. Cardinality(1 .. n) = n
  BY <1>1, FS_Interval
<1> QED BY <1>2, <1>3 DEF Used

LEMMA StatusSettled ==
    ASSUME StatusInv, NEW h, NEW status \in Settled, opStatus[h] = "pending",
           opStatus' = [opStatus EXCEPT ![h] = status]
    PROVE  StatusInv' /\ KeepsSettled
<1>1. /\ opStatus' \in [Handles \cup {NoHandle} -> {"unused", "pending"} \cup Settled]
      /\ \A g \in Handles \cup {NoHandle} :
            opStatus'[g] # opStatus[g] => opStatus[g] = "pending" /\ opStatus'[g] \in Settled
  BY DEF StatusInv
<1>2. opStatus'[NoHandle] = "unused"
  BY <1>1 DEF StatusInv
<1>3. \A g \in Handles : opStatus'[g] # "unused" <=> opStatus[g] # "unused"
  BY <1>1 DEF Settled
<1>4. KeepsSettled
  BY <1>1 DEF KeepsSettled, Settled
<1> QED BY <1>1, <1>2, <1>3, <1>4 DEF StatusInv

LEMMA StatusCalled ==
    ASSUME StatusInv, Used < MaxCalls, opStatus' = [opStatus EXCEPT ![Used + 1] = "pending"]
    PROVE  StatusInv' /\ KeepsSettled /\ Used + 1 \in Handles
<1>0. MaxCalls \in Nat
  BY OperationAssumption
<1>1. PICK n \in 0 .. MaxCalls : \A h \in Handles : opStatus[h] # "unused" <=> h <= n
  BY DEF StatusInv
<1>2. Used = n
  BY <1>1, UsedIsLast
<1>3. n + 1 \in Handles /\ n \in Nat /\ n + 1 \in 0 .. MaxCalls /\ opStatus[n + 1] = "unused"
  BY <1>0, <1>1, <1>2 DEF Handles
<1>4. /\ opStatus' \in [Handles \cup {NoHandle} -> {"unused", "pending"} \cup Settled]
      /\ opStatus'[n + 1] = "pending"
      /\ \A g \in Handles \cup {NoHandle} : g # n + 1 => opStatus'[g] = opStatus[g]
  BY <1>2, <1>3 DEF StatusInv
<1>5. opStatus'[NoHandle] = "unused"
  BY <1>3, <1>4 DEF StatusInv, Handles
<1>6. \A h \in Handles : opStatus'[h] # "unused" <=> h <= n + 1
  BY <1>1, <1>3, <1>4 DEF Handles
<1>7. KeepsSettled
  BY <1>3, <1>4 DEF KeepsSettled, Settled
<1> QED BY <1>2, <1>3, <1>4, <1>5, <1>6, <1>7 DEF StatusInv

LEMMA StatusStep == StatusInv /\ [OpsNext]_opVars => StatusInv' /\ KeepsSettled
<1> SUFFICES ASSUME StatusInv, [OpsNext]_opVars PROVE StatusInv' /\ KeepsSettled
  OBVIOUS
<1> USE DEF opVars, operationVars, queueVars, frameVars
<1>1. ASSUME UNCHANGED opStatus PROVE StatusInv' /\ KeepsSettled
  BY <1>1 DEF StatusInv, KeepsSettled
<1>2. ASSUME NEW h, NEW s \in Settled, Settle(h, s) PROVE StatusInv' /\ KeepsSettled
  BY <1>1, <1>2, StatusSettled DEF Settle, Settles
<1>3. CASE Dispatch
  <2> DEFINE h == opNext[1]
  <2>1. PICK final \in {opStatus[h], "pending", "completed", "failed", "cancelled"} :
           /\ opStatus' = [opStatus EXCEPT ![h] = final]
           /\ opStatus[h] = "pending" \/ final = opStatus[h]
    BY <1>3 DEF Dispatch, Settles
  <2>2. CASE final = opStatus[h]
    BY <1>1, <2>1, <2>2 DEF StatusInv
  <2>3. CASE final # opStatus[h]
    <3>1. opStatus[h] = "pending" /\ final \in Settled
      BY <2>1, <2>3 DEF Settled
    <3> HIDE DEF h
    <3> QED BY <2>1, <3>1, StatusSettled
  <2> QED BY <2>2, <2>3
<1>4. ASSUME NEW h, Called(h), Used < MaxCalls, h = Used + 1 PROVE StatusInv' /\ KeepsSettled
  BY <1>4, StatusCalled DEF Called
<1>5. ASSUME NEW storage, Restart(storage) PROVE StatusInv' /\ KeepsSettled
  <2>1. opStatus' = [h \in DOMAIN opStatus |->
             IF opStatus[h] = "pending" THEN "cancelled" ELSE opStatus[h]]
    BY <1>5 DEF Restart
  <2>2. /\ opStatus' \in [Handles \cup {NoHandle} -> {"unused", "pending"} \cup Settled]
        /\ \A g \in Handles \cup {NoHandle} :
              opStatus'[g] # opStatus[g] => opStatus[g] = "pending" /\ opStatus'[g] \in Settled
    BY <2>1 DEF StatusInv, Settled
  <2>3. \A g \in Handles \cup {NoHandle} : opStatus'[g] # "unused" <=> opStatus[g] # "unused"
    BY <2>2 DEF Settled
  <2>4. opStatus'[NoHandle] = "unused"
    BY <2>3 DEF StatusInv
  <2> QED BY <2>2, <2>3, <2>4 DEF StatusInv, KeepsSettled, Settled
<1>6. CASE RunFrame
  <2>1. ASSUME RunTimer PROVE StatusInv' /\ KeepsSettled
    BY <1>1, <1>2, <2>1 DEF RunTimer, Settled
  <2>2. ASSUME NEW r \in Runs, PumpRun(r) PROVE StatusInv' /\ KeepsSettled
    BY <1>1, <1>4, <2>2 DEF PumpRun
  <2>3. ASSUME PumpRecord PROVE StatusInv' /\ KeepsSettled
    BY <1>1, <1>4, <2>3 DEF PumpRecord
  <2> QED BY <1>1, <1>6, <2>1, <2>2, <2>3
          DEF RunFrame, BeginFrame, BeginRuns, BeginQueue, PumpCalled, EndFrame
<1>7. ASSUME NEW h, NEW s \in Ended, SettleLater(h, s) PROVE StatusInv' /\ KeepsSettled
  BY <1>2, <1>7 DEF SettleLater, Ended, Settled
<1>8. CASE OpsNext
  BY <1>1, <1>3, <1>5, <1>6, <1>7, <1>8 DEF OpsNext, StartRun, Enqueue, Dispose, Crash
<1>9. CASE UNCHANGED opVars
  BY <1>1, <1>9
<1> QED BY <1>8, <1>9

LEMMA StatusInit == OpsInit => StatusInv
<1> SUFFICES ASSUME OpsInit PROVE StatusInv
  OBVIOUS
<1>1. 0 \in 0 .. MaxCalls /\ \A h \in Handles : (opStatus[h] # "unused" <=> h <= 0)
  BY OperationAssumption DEF OpsInit, Handles
<1> QED BY <1>1 DEF OpsInit, StatusInv

(* An operation is settled once: a late completion, the timeout or a       *)
(* cancellation of one that is over changes nothing, for any number of     *)
(* operations, retries and restarts.                                       *)
THEOREM SettledForGood == OpsSpec => SettledOnce
<1>1. StatusInv /\ [OpsNext]_opVars =>
          [\A h \in Handles : opStatus[h] \in Settled => opStatus'[h] = opStatus[h]]_opVars
  BY StatusStep DEF KeepsSettled
<1> QED BY <1>1, StatusInit, StatusStep, PTL DEF OpsSpec, SettledOnce

-----------------------------------------------------------------------------
(* The durable queue.                                                      *)

Live(rec) == rec.status \notin Ended

Unfailed(rec) == rec.status # "failed"

(* A list of records that has all those that have not ended.               *)
Holds(recs, Uids) == \A u \in Uids : \E i \in DOMAIN recs : recs[i].uid = u /\ Live(recs[i])

KeysOnce(recs) ==
    \A i, j \in DOMAIN recs :
        recs[i].key = recs[j].key /\ Unfailed(recs[i]) /\ Unfailed(recs[j]) => i = j

RecordStatus == {"unused", "pending", "running"} \cup Settled

QueueRecord ==
    [id : Nat, uid : Nat, key : Keys, status : RecordStatus, handle : 0 .. MaxCalls]

QueueTypes ==
    /\ {records, stored} \subseteq Seq(QueueRecord)
    /\ {counter, enqueued} \subseteq Nat /\ index \in Nat \ {0}

(* The records of the queue and of the storage: only one that runs has a   *)
(* handle, and the storage keeps none.                                     *)
RecordsInv ==
    /\ Holds(records, 1 .. enqueued \ ended) /\ KeysOnce(records)
    /\ Holds(stored, 1 .. enqueued \ ended) /\ KeysOnce(stored)
    /\ \A i \in DOMAIN records : records[i].handle # NoHandle => records[i].status = "running"
    /\ \A i \in DOMAIN stored : stored[i].handle = NoHandle
    /\ at = "called" => index \in DOMAIN records /\ records[index].handle # NoHandle

QueueInv == QueueTypes /\ RecordsInv

(* A record's handle is a handle or none.                                  *)
LEMMA HandleRange == MaxCalls \in Nat /\ 0 \in 0 .. MaxCalls /\ \A h \in Handles : h \in 0 .. MaxCalls
  BY OperationAssumption DEF Handles

(* Trimming removes records that have ended, and leaves the others in      *)
(* their order.                                                            *)
LEMMA TrimmedParts ==
    ASSUME NEW recs \in Seq(QueueRecord)
    PROVE  /\ Trimmed(recs) \in Seq(QueueRecord)
           /\ \A U : Holds(recs, U) => Holds(Trimmed(recs), U)
           /\ KeysOnce(recs) => KeysOnce(Trimmed(recs))
           /\ \A k \in DOMAIN Trimmed(recs) : \E i \in DOMAIN recs : Trimmed(recs)[k] = recs[i]
<1> DEFINE over == Len(recs) - RecordLimit
           Rank(i) == Cardinality({j \in 1 .. i : recs[j].status \in Ended})
           gone == {recs[i] : i \in {i \in DOMAIN recs : recs[i].status \in Ended /\ Rank(i) <= over}}
           left == Trimmed(recs)
<1>1. left = Excluding(recs, gone)
  BY DEF Trimmed
<1>2. \A r \in gone : ~Live(r)
  BY DEF Live
<1> HIDE DEF gone
<1>3. left \in Seq(QueueRecord) /\ \E to : KeptAt(left, recs, gone, Len(recs), to)
  BY <1>1, ExcludingPlaces
<1> HIDE DEF left
<1>4. PICK to : KeptAt(left, recs, gone, Len(recs), to)
  BY <1>3
<1>5. DOMAIN left = 1 .. Len(left) /\ DOMAIN recs = 1 .. Len(recs) /\ Len(left) \in Nat /\ Len(recs) \in Nat
  BY <1>3
<1>6. \A k \in DOMAIN left : to[k] \in DOMAIN recs /\ left[k] = recs[to[k]]
  BY <1>4, <1>5 DEF KeptAt
<1>7. \A k, l \in DOMAIN left : to[k] = to[l] => k = l
  <2> SUFFICES ASSUME NEW k \in DOMAIN left, NEW l \in DOMAIN left, k # l PROVE to[k] # to[l]
    OBVIOUS
  <2>1. k \in 1 .. Len(left) /\ l \in 1 .. Len(left) /\ to[k] \in Nat /\ to[l] \in Nat
    BY <1>5, <1>6
  <2>2. \A m, n \in 1 .. Len(left) : m < n => to[m] < to[n]
    BY <1>4 DEF KeptAt
  <2>3. k < l \/ l < k
    BY <2>1
  <2> QED BY <2>1, <2>2, <2>3
<1>8. \A i \in DOMAIN recs : Live(recs[i]) => \E k \in DOMAIN left : left[k] = recs[i]
  <2> SUFFICES ASSUME NEW i \in DOMAIN recs, Live(recs[i]) PROVE \E k \in DOMAIN left : left[k] = recs[i]
    OBVIOUS
  <2>1. recs[i] \notin gone
    BY <1>2
  <2>2. \E k \in 1 .. Len(left) : to[k] = i
    BY <1>4, <1>5, <2>1 DEF KeptAt
  <2> QED BY <1>5, <1>6, <2>2
<1>9. ASSUME NEW U, Holds(recs, U) PROVE Holds(left, U)
  BY <1>8, <1>9 DEF Holds
<1>10. ASSUME KeysOnce(recs) PROVE KeysOnce(left)
  BY <1>6, <1>7, <1>10 DEF KeysOnce
<1> QED BY <1>3, <1>6, <1>9, <1>10 DEF left

(* What is saved has the same uids, keys and statuses.                     *)
LEMMA SavedParts ==
    ASSUME NEW recs \in Seq(QueueRecord)
    PROVE  /\ Saved(recs) \in Seq(QueueRecord)
           /\ \A U : Holds(recs, U) => Holds(Saved(recs), U)
           /\ KeysOnce(recs) => KeysOnce(Saved(recs))
           /\ \A i \in DOMAIN Saved(recs) : Saved(recs)[i].handle = NoHandle
<1> DEFINE left == Saved(recs)
<1>1. \A i \in DOMAIN recs : recs[i] \in QueueRecord
  OBVIOUS
<1>2. DOMAIN left = DOMAIN recs /\ DOMAIN recs = 1 .. Len(recs) /\ Len(recs) \in Nat
  BY DEF Saved
<1>3. \A i \in DOMAIN recs :
         /\ left[i] \in QueueRecord
         /\ left[i].uid = recs[i].uid /\ left[i].key = recs[i].key
         /\ left[i].status = recs[i].status /\ left[i].handle = NoHandle
  BY <1>1, HandleRange DEF Saved, QueueRecord
<1>4. left \in Seq(QueueRecord)
  <2>1. left = [i \in 1 .. Len(recs) |-> left[i]]
    BY <1>2 DEF Saved
  <2> HIDE DEF left
  <2>2. left \in [1 .. Len(recs) -> QueueRecord]
    BY <1>2, <1>3, <2>1
  <2> QED BY <1>2, <2>2, SeqDef
<1> HIDE DEF left
<1>5. ASSUME NEW U, Holds(recs, U) PROVE Holds(left, U)
  BY <1>2, <1>3, <1>5 DEF Holds, Live
<1>6. ASSUME KeysOnce(recs) PROVE KeysOnce(left)
  BY <1>2, <1>3, <1>6 DEF KeysOnce, Unfailed
<1> QED BY <1>2, <1>3, <1>4, <1>5, <1>6 DEF left

(* The record at index, when its operation is over, ends.                  *)
LEMMA Committed ==
    ASSUME StatusInv, QueueTypes, RecordsInv, index \in DOMAIN records,
           records[index].handle # NoHandle, Commit(index)
    PROVE  /\ records' \in Seq(QueueRecord)
           /\ Holds(records', 1 .. enqueued \ ended') /\ KeysOnce(records')
           /\ Holds(stored, 1 .. enqueued \ ended')
           /\ \A i \in DOMAIN records' :
                 records'[i].handle # NoHandle => records'[i].status = "running"
<1> DEFINE rec == records[index]
           new == [rec EXCEPT !.handle = NoHandle,
                       !.status = IF opStatus[rec.handle] = "timeout" THEN "failed"
                                  ELSE opStatus[rec.handle]]
<1>1. rec \in QueueRecord /\ records \in Seq(QueueRecord) /\ rec.status = "running"
  BY DEF QueueTypes, RecordsInv
<1>2. records' = [records EXCEPT ![index] = new] /\ ended' = ended \cup {rec.uid}
  BY <1>1 DEF Commit, QueueRecord
<1>3. opStatus[rec.handle] \in RecordStatus
  <2>1. MaxCalls \in Nat /\ rec.handle \in 0 .. MaxCalls
    BY <1>1, OperationAssumption DEF QueueRecord
  <2>2. rec.handle \in Handles \cup {NoHandle}
    BY <2>1 DEF Handles
  <2> QED BY <2>2 DEF StatusInv, RecordStatus
<1>4. new \in QueueRecord /\ new.key = rec.key /\ new.uid = rec.uid /\ new.handle = NoHandle
  BY <1>1, <1>3, HandleRange DEF QueueRecord, RecordStatus, Settled
<1> HIDE DEF new
<1>5. /\ records' \in Seq(QueueRecord) /\ DOMAIN records' = DOMAIN records
      /\ records'[index] = new
      /\ \A i \in DOMAIN records : i # index => records'[i] = records[i]
  BY <1>1, <1>2, <1>4
<1>6. Holds(records', 1 .. enqueued \ ended')
  <2> SUFFICES ASSUME NEW u \in 1 .. enqueued, u \notin ended, u # rec.uid
               PROVE  \E i \in DOMAIN records' : records'[i].uid = u /\ Live(records'[i])
    BY <1>2 DEF Holds
  <2>1. PICK i \in DOMAIN records : records[i].uid = u /\ Live(records[i])
    BY DEF RecordsInv, Holds
  <2> QED BY <1>5, <2>1
<1>7. KeysOnce(records')
  <2>1. \A i \in DOMAIN records :
           records'[i].key = records[i].key /\ (Unfailed(records'[i]) => Unfailed(records[i]))
    BY <1>1, <1>4, <1>5 DEF Unfailed
  <2> QED BY <1>5, <2>1 DEF RecordsInv, KeysOnce
<1>8. Holds(stored, 1 .. enqueued \ ended')
  BY <1>2 DEF RecordsInv, Holds
<1>9. \A i \in DOMAIN records' : records'[i].handle # NoHandle => records'[i].status = "running"
  BY <1>4, <1>5 DEF RecordsInv
<1> QED BY <1>5, <1>6, <1>7, <1>8, <1>9

LEMMA QueueStep == QueueInv /\ StatusInv /\ StatusInv' /\ [OpsNext]_opVars => QueueInv'
<1> SUFFICES ASSUME QueueInv, StatusInv, StatusInv', [OpsNext]_opVars PROVE QueueInv'
  OBVIOUS
<1> USE DEF opVars, operationVars, queueVars, frameVars
<1>0. /\ records \in Seq(QueueRecord) /\ stored \in Seq(QueueRecord)
      /\ counter \in Nat /\ enqueued \in Nat /\ index \in Nat \ {0}
      /\ DOMAIN records = 1 .. Len(records) /\ Len(records) \in Nat
  BY DEF QueueInv, QueueTypes
<1>1. ASSUME UNCHANGED <<queueVars, index>>, at' = at \/ at' # "called" PROVE QueueInv'
  BY <1>1 DEF QueueInv, QueueTypes, RecordsInv
<1>2. ASSUME NEW key \in Keys, Enqueue(key) PROVE QueueInv'
  <2> DEFINE rec == [id |-> counter + 1, uid |-> enqueued + 1, key |-> key,
                     status |-> "pending", handle |-> NoHandle]
             more == Append(records, rec)
  <2>1. /\ records' = Trimmed(more) /\ stored' = Saved(records') /\ ~Known(key)
        /\ counter' = counter + 1 /\ enqueued' = enqueued + 1
        /\ UNCHANGED <<ended, index, at>> /\ at # "called"
    BY <1>2 DEF Enqueue
  <2>2. rec \in QueueRecord /\ Live(rec) /\ rec.handle = NoHandle /\ rec.uid = enqueued + 1
        /\ rec.key = key
    BY <1>0, HandleRange DEF QueueRecord, RecordStatus, Live, Ended
  <2> HIDE DEF rec
  <2>3. /\ more \in Seq(QueueRecord) /\ DOMAIN more = 1 .. Len(records) + 1
        /\ \A i \in DOMAIN records : more[i] = records[i]
        /\ more[Len(records) + 1] = rec
    BY <1>0, <2>2, AppendProperties
  <2> HIDE DEF more
  <2>4. Holds(more, 1 .. enqueued' \ ended')
    <3> SUFFICES ASSUME NEW u \in 1 .. enqueued + 1, u \notin ended
                 PROVE  \E i \in DOMAIN more : more[i].uid = u /\ Live(more[i])
      BY <2>1 DEF Holds
    <3>1. CASE u = enqueued + 1
      <4>1. Len(records) + 1 \in DOMAIN more
        BY <1>0, <2>3
      <4> QED BY <2>2, <2>3, <3>1, <4>1
    <3>2. CASE u # enqueued + 1
      <4>1. u \in 1 .. enqueued \ ended
        BY <1>0, <3>2
      <4>2. PICK i \in DOMAIN records : records[i].uid = u /\ Live(records[i])
        BY <4>1 DEF QueueInv, RecordsInv, Holds
      <4> QED BY <1>0, <2>3, <4>2
    <3> QED BY <3>1, <3>2
  <2>5. KeysOnce(more)
    <3> DEFINE last == Len(records) + 1
    <3>1. \A i \in DOMAIN more : i # last => i \in DOMAIN records /\ more[i] = records[i]
      BY <1>0, <2>3
    <3>2. \A i \in DOMAIN records : records[i].key = key => ~Unfailed(records[i])
      BY <2>1 DEF Known, Unfailed
    <3>3. more[last].key = key
      BY <2>2, <2>3
    <3> HIDE DEF last
    <3>4. KeysOnce(records)
      BY DEF QueueInv, RecordsInv
    <3> QED BY <3>1, <3>2, <3>3, <3>4 DEF KeysOnce
  <2>6. \A i \in DOMAIN more : more[i].handle # NoHandle => more[i].status = "running"
    BY <1>0, <2>2, <2>3 DEF QueueInv, RecordsInv
  <2>7. /\ records' \in Seq(QueueRecord) /\ Holds(records', 1 .. enqueued' \ ended')
        /\ KeysOnce(records')
        /\ \A i \in DOMAIN records' : records'[i].handle # NoHandle => records'[i].status = "running"
    BY <2>1, <2>3, <2>4, <2>5, <2>6, TrimmedParts
  <2>8. /\ stored' \in Seq(QueueRecord) /\ Holds(stored', 1 .. enqueued' \ ended')
        /\ KeysOnce(stored') /\ \A i \in DOMAIN stored' : stored'[i].handle = NoHandle
    BY <2>1, <2>7, SavedParts
  <2> QED BY <1>0, <2>1, <2>7, <2>8 DEF QueueInv, QueueTypes, RecordsInv
<1>3. ASSUME NEW admit \in BOOLEAN, BeginQueue(admit) PROVE QueueInv'
  <2>1. UNCHANGED queueVars /\ at' = "queue" /\ index' \in Nat \ {0}
    BY <1>0, <1>3 DEF BeginQueue
  <2> QED BY <2>1 DEF QueueInv, QueueTypes, RecordsInv
<1>4. CASE PumpRecord
  <2>0. /\ at = "queue" /\ index \in DOMAIN records /\ UNCHANGED <<counter, stored, enqueued>>
        /\ records[index] \in QueueRecord
    BY <1>0, <1>4 DEF PumpRecord
  <2>1. CASE UNCHANGED <<records, ended, at>> /\ index' \in {index + 1, Len(records) + 1}
    <3>1. index' \in Nat \ {0}
      BY <1>0, <2>1
    <3> QED BY <2>0, <2>1, <3>1 DEF QueueInv, QueueTypes, RecordsInv
  <2>2. CASE records[index].handle # NoHandle /\ Commit(index) /\ index' = index + 1 /\ at' = at
    <3>1. index' \in Nat \ {0}
      BY <1>0, <2>2
    <3> QED BY <2>0, <2>2, <3>1, Committed DEF QueueInv, QueueTypes, RecordsInv
  <2>3. CASE /\ records[index].status \notin Ended /\ Used < MaxCalls /\ Called(Used + 1)
             /\ records' = [records EXCEPT ![index].handle = Used + 1,
                                           ![index].status = "running"]
             /\ at' = "called" /\ UNCHANGED <<ended, index>>
    <3> DEFINE new == [records[index] EXCEPT !.handle = Used + 1, !.status = "running"]
    <3>1. Used + 1 \in Handles /\ Used + 1 # NoHandle
      BY <2>3, StatusCalled, UsedType DEF Called
    <3>2. records' = [records EXCEPT ![index] = new]
      BY <2>0, <2>3 DEF QueueRecord
    <3>3. /\ new \in QueueRecord /\ new.key = records[index].key /\ new.uid = records[index].uid
          /\ new.handle # NoHandle /\ new.status = "running"
      BY <2>0, <3>1, HandleRange DEF QueueRecord, RecordStatus
    <3> HIDE DEF new
    <3>4. /\ records' \in Seq(QueueRecord) /\ DOMAIN records' = DOMAIN records
          /\ records'[index] = new
          /\ \A i \in DOMAIN records : i # index => records'[i] = records[i]
      BY <1>0, <2>0, <3>2, <3>3
    <3>5. \A i \in DOMAIN records :
             /\ records'[i].key = records[i].key /\ records'[i].uid = records[i].uid
             /\ (Live(records[i]) => Live(records'[i]))
             /\ (Unfailed(records'[i]) => Unfailed(records[i]))
             /\ (records'[i].handle # NoHandle => records'[i].status = "running")
      BY <2>3, <3>3, <3>4 DEF Live, Unfailed, Ended, QueueInv, RecordsInv
    <3>6. Holds(records', 1 .. enqueued' \ ended') /\ KeysOnce(records')
      BY <2>0, <2>3, <3>4, <3>5, SMTT(30) DEF Holds, KeysOnce, QueueInv, RecordsInv
    <3> QED BY <2>0, <2>3, <3>3, <3>4, <3>5, <3>6 DEF QueueInv, QueueTypes, RecordsInv
  <2> QED BY <1>4, <2>1, <2>2, <2>3 DEF PumpRecord
<1>5. CASE PumpCalled
  <2>0. /\ at = "called" /\ at' = "queue" /\ index' = index + 1 /\ index' \in Nat \ {0}
        /\ UNCHANGED <<counter, stored, enqueued>>
        /\ index \in DOMAIN records /\ records[index].handle # NoHandle
    BY <1>0, <1>5 DEF PumpCalled, QueueInv, RecordsInv
  <2>1. CASE UNCHANGED <<records, ended>>
    BY <2>0, <2>1 DEF QueueInv, QueueTypes, RecordsInv
  <2>2. CASE Commit(index)
    BY <2>0, <2>2, Committed DEF QueueInv, QueueTypes, RecordsInv
  <2> QED BY <1>5, <2>1, <2>2 DEF PumpCalled
<1>6. CASE EndFrame
  <2>1. /\ UNCHANGED <<records, counter, enqueued, ended, index>> /\ at' = "idle"
        /\ stored' = Saved(records) \/ stored' = stored
    BY <1>6 DEF EndFrame
  <2>2. /\ stored' \in Seq(QueueRecord) /\ Holds(stored', 1 .. enqueued \ ended)
        /\ KeysOnce(stored') /\ \A i \in DOMAIN stored' : stored'[i].handle = NoHandle
    BY <1>0, <2>1, SavedParts DEF QueueInv, RecordsInv
  <2> QED BY <2>1, <2>2 DEF QueueInv, QueueTypes, RecordsInv
<1>7. ASSUME NEW storage \in Seq(QueueRecord), Restart(storage),
             Holds(storage, 1 .. enqueued \ ended'), KeysOnce(storage),
             \A i \in DOMAIN storage : storage[i].handle = NoHandle
      PROVE  QueueInv'
  <2>1. /\ stored' = storage /\ records' = storage /\ counter' = Len(storage)
        /\ at' = "idle" /\ UNCHANGED <<enqueued, index>>
    BY <1>7 DEF Restart
  <2>2. Len(storage) \in Nat
    OBVIOUS
  <2> QED BY <1>0, <1>7, <2>1, <2>2 DEF QueueInv, QueueTypes, RecordsInv
<1>8. CASE Dispose
  <2> DEFINE Running(i) == opStatus[records[i].handle] = "pending"
             recs == [i \in DOMAIN records |->
                         IF Running(i) THEN [records[i] EXCEPT !.status = "cancelled"]
                         ELSE records[i]]
  <2>1. /\ Restart(Saved(recs))
        /\ ended' = ended \cup {records[i].uid : i \in {j \in DOMAIN records : Running(j)}}
    BY <1>8 DEF Dispose
  <2>2. \A i \in DOMAIN records : records[i] \in QueueRecord
    BY <1>0
  <2>3. \A i \in DOMAIN records : Running(i) => records[i].status = "running"
    BY DEF StatusInv, QueueInv, RecordsInv
  <2>4. \A i \in DOMAIN records :
           /\ recs[i] \in QueueRecord
           /\ recs[i].uid = records[i].uid /\ recs[i].key = records[i].key
           /\ recs[i].status = IF Running(i) THEN "cancelled" ELSE records[i].status
    BY <2>2 DEF QueueRecord, RecordStatus, Settled
  <2>5. recs \in Seq(QueueRecord) /\ DOMAIN recs = DOMAIN records
    <3>1. recs = [i \in 1 .. Len(records) |-> recs[i]]
      BY <1>0
    <3> HIDE DEF recs
    <3>2. recs \in [1 .. Len(records) -> QueueRecord]
      BY <1>0, <2>4, <3>1
    <3> QED BY <1>0, <3>2, SeqDef
  <2> HIDE DEF recs, Running
  <2>6. Holds(recs, 1 .. enqueued \ ended')
    <3> SUFFICES ASSUME NEW u \in 1 .. enqueued, u \notin ended'
                 PROVE  \E i \in DOMAIN recs : recs[i].uid = u /\ Live(recs[i])
      BY DEF Holds
    <3>1. u \notin ended /\ \A i \in DOMAIN records : records[i].uid = u => ~Running(i)
      BY <2>1
    <3>2. PICK i \in DOMAIN records : records[i].uid = u /\ Live(records[i])
      BY <3>1 DEF QueueInv, RecordsInv, Holds
    <3> QED BY <2>4, <2>5, <3>1, <3>2 DEF Live
  <2>7. KeysOnce(recs)
    <3>1. \A i \in DOMAIN records : Unfailed(recs[i]) => Unfailed(records[i])
      BY <2>3, <2>4 DEF Unfailed
    <3> QED BY <2>4, <2>5, <3>1 DEF KeysOnce, QueueInv, RecordsInv
  <2> QED BY <1>7, <2>1, <2>5, <2>6, <2>7, SavedParts
<1>9. CASE Crash
  <2>1. /\ Restart(stored)
        /\ ended' = {u \in ended :
              \A i \in DOMAIN stored : stored[i].uid = u => stored[i].status \in Ended}
    BY <1>9 DEF Crash
  <2>2. Holds(stored, 1 .. enqueued \ ended')
    <3> SUFFICES ASSUME NEW u \in 1 .. enqueued, u \notin ended'
                 PROVE  \E i \in DOMAIN stored : stored[i].uid = u /\ Live(stored[i])
      BY DEF Holds
    <3>1. CASE u \in ended
      BY <2>1, <3>1 DEF Live
    <3>2. CASE u \notin ended
      BY <3>2 DEF QueueInv, RecordsInv, Holds
    <3> QED BY <3>1, <3>2
  <2> QED BY <1>0, <1>7, <2>1, <2>2 DEF QueueInv, RecordsInv
<1>10. CASE RunFrame
  BY <1>1, <1>3, <1>4, <1>5, <1>6, <1>10 DEF RunFrame, BeginFrame, RunTimer, BeginRuns, PumpRun
<1>11. CASE OpsNext
  BY <1>1, <1>2, <1>8, <1>9, <1>10, <1>11 DEF OpsNext, Dispatch, SettleLater, StartRun
<1>12. CASE UNCHANGED opVars
  BY <1>1, <1>12
<1> QED BY <1>11, <1>12

(* What was enqueued and has not ended is in the queue and in the storage, *)
(* and a key has one record that has not failed (DurableKept), for any     *)
(* number of records, whatever the budget, the limits and the restarts.    *)
THEOREM QueueKeeps == OpsSpec => []DurableKept
<1>1. OpsInit => QueueInv
  <2> SUFFICES ASSUME OpsInit PROVE QueueInv
    OBVIOUS
  <2>1. <<>> \in Seq(QueueRecord) /\ DOMAIN <<>> = {} /\ 1 .. 0 = {}
    OBVIOUS
  <2> QED BY <2>1 DEF OpsInit, QueueInv, QueueTypes, RecordsInv, Holds, KeysOnce
<1>2. QueueInv => DurableKept
  <2> SUFFICES ASSUME QueueInv PROVE DurableKept
    OBVIOUS
  <2>1. ASSUME NEW u \in 1 .. enqueued \ ended
        PROVE  \E i \in DOMAIN records, j \in DOMAIN stored :
                  /\ records[i].uid = u /\ stored[j].uid = u
                  /\ {records[i].status, stored[j].status} \cap Ended = {}
    <3>1. PICK i \in DOMAIN records : records[i].uid = u /\ Live(records[i])
      BY DEF QueueInv, RecordsInv, Holds
    <3>2. PICK j \in DOMAIN stored : stored[j].uid = u /\ Live(stored[j])
      BY DEF QueueInv, RecordsInv, Holds
    <3> QED BY <3>1, <3>2 DEF Live
  <2>2. \A i, j \in DOMAIN records :
           records[i].key = records[j].key
           /\ "failed" \notin {records[i].status, records[j].status} => i = j
    BY DEF QueueInv, RecordsInv, KeysOnce, Unfailed
  <2> QED BY <2>1, <2>2 DEF DurableKept
<1> QED BY <1>1, <1>2, StatusInit, StatusStep, QueueStep, PTL DEF OpsSpec

-----------------------------------------------------------------------------
(* The events of a pipeline.                                               *)

Rising(s) == \A i, j \in DOMAIN s : i < j => s[i] < s[j]

Precedes(S, T) == \A x \in S, y \in T : x < y

Reason(why) == {e \in Events : fate[e] = why}

Fates == {"none", "queued", "dropped", "filtered", "throttled",
          "pending", "superseded", "window", "delivered", "lost"}

(* A fate that an event has reached behind the queue and that takes the    *)
(* place of an earlier one in the debounce.                                *)
Onward == {"pending", "superseded", "delivered", "lost"}

EventTypes ==
    /\ {queue, pending, window, delivered} \subseteq Seq(Events)
    /\ Len(queue) <= QueueSize /\ Len(pending) <= 1
    /\ fate \in [Events -> Fates]
    /\ stages \in StageLists
    /\ \E n \in 0 .. EventCount : \A e \in Events : fate[e] = "none" <=> e > n

(* Each place has the events whose fate says so, and a pipeline has one    *)
(* that holds events back.                                                 *)
PlacesInv ==
    /\ ToSet(queue) = Reason("queued") /\ ToSet(pending) = Reason("pending")
    /\ ToSet(window) = Reason("window") /\ ToSet(delivered) = Reason("delivered")
    /\ Has("debounce") => window = <<>>
    /\ ~Has("debounce") => pending = <<>>

OrderInv ==
    /\ Rising(queue) /\ Rising(window) /\ Rising(delivered)
    /\ Precedes(ToSet(delivered), ToSet(window) \cup ToSet(pending) \cup ToSet(queue))
    /\ Precedes(ToSet(window) \cup ToSet(pending), ToSet(queue))

GoneInv ==
    /\ \A e \in Reason("dropped") : e + QueueSize \in Events /\ fate[e + QueueSize] # "none"
    /\ \A e \in Reason("superseded") : \E f \in Events : f > e /\ fate[f] \in Onward

EventsInv == EventTypes /\ PlacesInv /\ OrderInv /\ GoneInv

LEMMA EventsAreNat == Events \subseteq Nat /\ EventCount \in Nat /\ QueueSize \in Nat \ {0}
  BY UpdatesAssumption DEF Events

LEMMA RisingConcat ==
    ASSUME NEW s \in Seq(Events), NEW t \in Seq(Events), Rising(s), Rising(t),
           Precedes(ToSet(s), ToSet(t))
    PROVE  Rising(s \o t)
<1> DEFINE c == s \o t
           m == Len(s)
           n == Len(t)
<1>1. /\ m \in Nat /\ n \in Nat /\ DOMAIN s = 1 .. m /\ DOMAIN t = 1 .. n
      /\ DOMAIN c = 1 .. m + n
      /\ \A i \in 1 .. m + n : c[i] = IF i <= m THEN s[i] ELSE t[i - m]
  BY ConcatProperties
<1>2. /\ \A i \in 1 .. m : s[i] \in ToSet(s) /\ s[i] \in Events
      /\ \A i \in 1 .. n : t[i] \in ToSet(t) /\ t[i] \in Events
  BY <1>1 DEF ToSet
<1> HIDE DEF c, m, n
<1> SUFFICES ASSUME NEW i \in 1 .. m + n, NEW j \in 1 .. m + n, i < j PROVE c[i] < c[j]
  BY <1>1 DEF Rising, c
<1>3. CASE j <= m
  BY <1>1, <1>3 DEF Rising
<1>4. CASE i > m
  <2>1. i - m \in 1 .. n /\ j - m \in 1 .. n /\ i - m < j - m /\ c[i] = t[i - m] /\ c[j] = t[j - m]
    BY <1>1, <1>4
  <2> QED BY <1>1, <2>1 DEF Rising
<1>5. CASE i <= m /\ j > m
  <2>1. i \in 1 .. m /\ j - m \in 1 .. n /\ c[i] = s[i] /\ c[j] = t[j - m]
    BY <1>1, <1>5
  <2> QED BY <1>2, <2>1 DEF Precedes
<1> QED BY <1>1, <1>3, <1>4, <1>5

LEMMA RisingAppend ==
    ASSUME NEW s \in Seq(Events), NEW e \in Events, Rising(s), Precedes(ToSet(s), {e})
    PROVE  /\ Append(s, e) \in Seq(Events) /\ Rising(Append(s, e))
           /\ Len(Append(s, e)) = Len(s) + 1
           /\ ToSet(Append(s, e)) = ToSet(s) \cup {e}
<1> DEFINE c == Append(s, e)
           m == Len(s)
<1>1. /\ m \in Nat /\ DOMAIN s = 1 .. m /\ DOMAIN c = 1 .. m + 1 /\ c \in Seq(Events)
      /\ Len(c) = m + 1 /\ c[m + 1] = e /\ \A i \in 1 .. m : c[i] = s[i] /\ s[i] \in ToSet(s)
  BY AppendProperties DEF ToSet
<1> HIDE DEF c, m
<1>2. \A i \in 1 .. m + 1 : i = m + 1 \/ i \in 1 .. m
  BY <1>1
<1>3. m + 1 \in 1 .. m + 1 /\ \A i \in 1 .. m : i \in 1 .. m + 1
  BY <1>1
<1>4. ToSet(c) = ToSet(s) \cup {e}
  BY <1>1, <1>2, <1>3 DEF ToSet
<1>5. Rising(c)
  <2> SUFFICES ASSUME NEW i \in 1 .. m + 1, NEW j \in 1 .. m + 1, i < j PROVE c[i] < c[j]
    BY <1>1 DEF Rising
  <2>1. i \in 1 .. m
    BY <1>1
  <2>2. CASE j \in 1 .. m
    BY <1>1, <2>1, <2>2 DEF Rising
  <2>3. CASE j = m + 1
    BY <1>1, <2>1, <2>3 DEF Precedes
  <2> QED BY <1>2, <2>2, <2>3
<1> QED BY <1>1, <1>4, <1>5 DEF c, m

LEMMA RisingTail ==
    ASSUME NEW s \in Seq(Events), s # <<>>, Rising(s)
    PROVE  /\ Head(s) \in Events /\ Tail(s) \in Seq(Events) /\ Rising(Tail(s))
           /\ Len(Tail(s)) = Len(s) - 1 /\ Len(s) \in Nat \ {0}
           /\ ToSet(s) = {Head(s)} \cup ToSet(Tail(s))
           /\ Precedes({Head(s)}, ToSet(Tail(s)))
           /\ Head(s) \notin ToSet(Tail(s))
<1> DEFINE c == Tail(s)
           m == Len(s)
<1>1. /\ m \in Nat \ {0} /\ DOMAIN s = 1 .. m /\ c \in Seq(Events) /\ Len(c) = m - 1
      /\ DOMAIN c = 1 .. m - 1 /\ \A i \in 1 .. m - 1 : c[i] = s[i + 1]
      /\ Head(s) = s[1] /\ \A i \in 1 .. m : s[i] \in Events
  OBVIOUS
<1> HIDE DEF c, m
<1>2. \A i \in 1 .. m - 1 : i + 1 \in 1 .. m /\ 1 < i + 1
  BY <1>1
<1>3. \A i \in 1 .. m : i = 1 \/ (i - 1 \in 1 .. m - 1 /\ s[i] = c[i - 1])
  <2> SUFFICES ASSUME NEW i \in 1 .. m, i # 1 PROVE i - 1 \in 1 .. m - 1 /\ s[i] = c[i - 1]
    OBVIOUS
  <2>1. i - 1 \in 1 .. m - 1 /\ (i - 1) + 1 = i
    BY <1>1
  <2> QED BY <1>1, <2>1
<1>4. 1 \in 1 .. m
  BY <1>1
<1>5. ToSet(s) = {Head(s)} \cup ToSet(c)
  <2>1. ToSet(s) \subseteq {Head(s)} \cup ToSet(c)
    <3> SUFFICES ASSUME NEW x \in ToSet(s) PROVE x = s[1] \/ x \in ToSet(c)
      BY <1>1
    <3>1. PICK i \in 1 .. m : x = s[i]
      BY <1>1 DEF ToSet
    <3>2. CASE i # 1
      <4>1. i - 1 \in 1 .. m - 1 /\ x = c[i - 1]
        BY <1>3, <3>1, <3>2
      <4> QED BY <1>1, <4>1 DEF ToSet
    <3> QED BY <3>1, <3>2
  <2>2. {Head(s)} \cup ToSet(c) \subseteq ToSet(s)
    <3>1. s[1] \in ToSet(s)
      BY <1>1, <1>4 DEF ToSet
    <3>2. \A i \in 1 .. m - 1 : c[i] \in ToSet(s)
      BY <1>1, <1>2 DEF ToSet
    <3>3. \A x \in ToSet(c) : x \in ToSet(s)
      BY <1>1, <3>2 DEF ToSet
    <3> QED BY <1>1, <3>1, <3>3
  <2> QED BY <2>1, <2>2
<1>6. Precedes({Head(s)}, ToSet(c))
  <2> SUFFICES ASSUME NEW x \in ToSet(c) PROVE s[1] < x
    BY <1>1 DEF Precedes
  <2>1. PICK i \in 1 .. m - 1 : x = c[i]
    BY <1>1 DEF ToSet
  <2>2. s[1] < s[i + 1]
    BY <1>1, <1>2, <1>4 DEF Rising
  <2> QED BY <1>1, <2>1, <2>2
<1>7. Rising(c)
  <2> SUFFICES ASSUME NEW i \in 1 .. m - 1, NEW j \in 1 .. m - 1, i < j PROVE c[i] < c[j]
    BY <1>1 DEF Rising
  <2>1. i + 1 \in 1 .. m /\ j + 1 \in 1 .. m /\ i + 1 < j + 1
    BY <1>1
  <2> QED BY <1>1, <2>1 DEF Rising
<1>8. Head(s) \notin ToSet(c)
  <2>1. Head(s) \in Nat
    BY <1>1, <1>4, EventsAreNat
  <2> QED BY <1>6, <2>1 DEF Precedes
<1> QED BY <1>1, <1>4, <1>5, <1>6, <1>7, <1>8 DEF c, m

(* A rising sequence has room for its members: the last of n is at least   *)
(* n - 1 more than the first.                                              *)
LEMMA RisingGap ==
    ASSUME NEW s \in Seq(Events), Rising(s)
    PROVE  \A i \in 1 .. Len(s) : s[1] + i <= s[i] + 1
<1> DEFINE m == Len(s)
           Good == {n \in Nat : n + 1 <= m => s[1] + (n + 1) <= s[n + 1] + 1}
<1>1. m \in Nat /\ DOMAIN s = 1 .. m /\ \A i \in 1 .. m : s[i] \in Nat
  <2>1. m \in Nat /\ DOMAIN s = 1 .. m /\ \A i \in 1 .. m : s[i] \in Events
    OBVIOUS
  <2> QED BY <2>1, EventsAreNat
<1> HIDE DEF m
<1>2. 0 \in Good
  <2>1. CASE 1 <= m
    <3>1. 1 \in 1 .. m
      BY <1>1, <2>1
    <3> QED BY <1>1, <3>1
  <2> QED BY <1>1, <2>1
<1>3. ASSUME NEW n \in Nat, n \in Good PROVE n + 1 \in Good
  <2>1. CASE (n + 1) + 1 <= m
    <3>1. n + 1 \in 1 .. m /\ (n + 1) + 1 \in 1 .. m /\ n + 1 < (n + 1) + 1 /\ 1 \in 1 .. m
      BY <1>1, <2>1
    <3>2. s[n + 1] < s[(n + 1) + 1] /\ s[1] \in Nat /\ s[n + 1] \in Nat /\ s[(n + 1) + 1] \in Nat
      BY <1>1, <3>1 DEF Rising
    <3>3. s[1] + (n + 1) <= s[n + 1] + 1
      BY <1>1, <1>3, <3>1
    <3> QED BY <3>2, <3>3
  <2> QED BY <2>1
<1>4. Nat \subseteq Good
  <2> HIDE DEF Good
  <2> QED BY <1>2, <1>3, InductiveSet
<1>5. ASSUME NEW i \in 1 .. m PROVE s[1] + i <= s[i] + 1
  <2>1. i - 1 \in Good /\ (i - 1) + 1 = i /\ i <= m
    <3>1. i - 1 \in Nat
      BY <1>1
    <3> HIDE DEF Good
    <3> QED BY <1>1, <1>4, <3>1
  <2> QED BY <2>1
<1> QED BY <1>5 DEF m

LEMMA GoneKept ==
    ASSUME GoneInv,
           \A f \in Events : fate[f] # "none" => fate'[f] # "none",
           \A f \in Events : fate[f] \in Onward => fate'[f] \in Onward,
           \A e \in Events : fate'[e] = "dropped" /\ fate[e] # "dropped" =>
              e + QueueSize \in Events /\ fate'[e + QueueSize] # "none",
           \A e \in Events : fate'[e] = "superseded" /\ fate[e] # "superseded" =>
              \E f \in Events : f > e /\ fate'[f] \in Onward
    PROVE  GoneInv'
  BY DEF GoneInv, Reason

(* An event is published behind the others, and may drop the oldest.       *)
LEMMA PublishOK == EventsInv /\ Publish => EventsInv'
<1> SUFFICES ASSUME EventsInv, Publish PROVE EventsInv'
  OBVIOUS
<1> DEFINE e == CHOOSE u \in Unpublished : \A v \in Unpublished : u <= v
           full == Len(queue) = QueueSize
           rest == IF full THEN Tail(queue) ELSE queue
           Q == ToSet(queue)
<1>0. EventCount \in Nat /\ QueueSize \in Nat \ {0} /\ Events = 1 .. EventCount
  BY EventsAreNat DEF Events
<1>1. PICK n \in 0 .. EventCount : \A f \in Events : fate[f] = "none" <=> f > n
  BY DEF EventsInv, EventTypes
<1>2. e = n + 1 /\ e \in Events /\ fate[e] = "none"
  <2>1. n \in Nat /\ Unpublished # {} /\ Unpublished \subseteq Events
    BY <1>0 DEF Publish, Unpublished
  <2>2. n + 1 \in Unpublished
    BY <1>0, <1>1, <2>1 DEF Unpublished
  <2>3. \A v \in Unpublished : n + 1 <= v
    BY <1>0, <1>1, <2>1 DEF Unpublished
  <2>4. e \in Unpublished /\ \A v \in Unpublished : e <= v
    BY <2>2, <2>3
  <2>5. e = n + 1
    <3> HIDE DEF e
    <3>1. e \in Events /\ e <= n + 1 /\ n + 1 <= e
      BY <2>1, <2>2, <2>3, <2>4
    <3> QED BY <1>0, <2>1, <3>1
  <2> QED BY <2>1, <2>4, <2>5 DEF Unpublished
<1>3. /\ queue' = Enqueued(e)
      /\ fate' = [f \in Events |-> IF f = e THEN "queued"
                                   ELSE IF full /\ f = Head(queue) THEN "dropped"
                                   ELSE fate[f]]
      /\ UNCHANGED <<stages, pending, window, delivered>>
  BY DEF Publish
<1> HIDE DEF e
<1>4. /\ queue \in Seq(Events) /\ Rising(queue) /\ Len(queue) \in Nat /\ Len(queue) <= QueueSize
      /\ fate \in [Events -> Fates] /\ Q = Reason("queued")
  BY DEF EventsInv, EventTypes, PlacesInv, OrderInv
<1>5. full => /\ queue # <<>> /\ Head(queue) \in Events /\ Tail(queue) \in Seq(Events)
              /\ Rising(Tail(queue)) /\ Len(Tail(queue)) = Len(queue) - 1
              /\ Q = {Head(queue)} \cup ToSet(Tail(queue)) /\ Head(queue) \notin ToSet(Tail(queue))
  <2> SUFFICES ASSUME full PROVE queue # <<>>
    BY <1>4, RisingTail
  <2> QED BY <1>0
<1>6. /\ queue' = Append(rest, e) /\ rest \in Seq(Events) /\ Rising(rest)
      /\ Len(rest) + 1 <= QueueSize /\ Len(rest) \in Nat
      /\ ToSet(rest) = IF full THEN Q \ {Head(queue)} ELSE Q
  <2>1. CASE full
    <3>1. queue' = Append(Tail(queue), e)
      BY <1>0, <1>3, <2>1 DEF Enqueued
    <3> QED BY <1>0, <1>4, <1>5, <2>1, <3>1
  <2>2. CASE ~full
    <3>1. Len(queue) < QueueSize
      BY <1>0, <1>4, <2>2
    <3> QED BY <1>0, <1>3, <1>4, <2>2, <3>1 DEF Enqueued
  <2> QED BY <2>1, <2>2
<1> HIDE DEF rest
<1>7. \A f \in Events : fate[f] # "none" => f < e
  BY <1>0, <1>1, <1>2
<1>8. \A f \in Q : f \in Events /\ fate[f] = "queued" /\ f < e
  BY <1>4, <1>7 DEF Reason
<1>9. /\ queue' \in Seq(Events) /\ Rising(queue') /\ Len(queue') <= QueueSize
      /\ ToSet(queue') = ToSet(rest) \cup {e}
  <2>1. Precedes(ToSet(rest), {e})
    BY <1>6, <1>8 DEF Precedes
  <2> QED BY <1>2, <1>6, <2>1, RisingAppend
<1>10. \A f \in Events :
          fate'[f] = IF f = e THEN "queued"
                     ELSE IF full /\ f = Head(queue) THEN "dropped" ELSE fate[f]
  BY <1>3
<1>11. full => Head(queue) \in Q /\ Head(queue) # e
  BY <1>2, <1>5, <1>8
<1>12. EventTypes'
  <2>1. fate' \in [Events -> Fates]
    BY <1>3, <1>4 DEF Fates
  <2>2. \A f \in Events : fate'[f] = "none" <=> f > n + 1
    <3>1. \A f \in Events : f > n <=> f = n + 1 \/ f > n + 1
      BY <1>0
    <3> QED BY <1>1, <1>2, <1>8, <1>10, <1>11, <3>1
  <2>3. n + 1 \in 0 .. EventCount
    BY <1>0, <1>2
  <2> QED BY <1>3, <1>9, <2>1, <2>2, <2>3 DEF EventsInv, EventTypes
<1>13. PlacesInv'
  <2>1. ToSet(queue') = Reason("queued")'
    BY <1>2, <1>4, <1>6, <1>8, <1>9, <1>10, <1>11 DEF Reason
  <2>2. ASSUME NEW why \in {"pending", "window", "delivered"} PROVE Reason(why)' = Reason(why)
    BY <1>2, <1>8, <1>10, <1>11 DEF Reason
  <2>3. /\ Reason("pending")' = Reason("pending") /\ Reason("window")' = Reason("window")
        /\ Reason("delivered")' = Reason("delivered")
    BY <2>2
  <2> QED BY <1>3, <2>1, <2>3 DEF EventsInv, PlacesInv, Has
<1>14. OrderInv'
  <2>1. \A f \in ToSet(delivered) \cup ToSet(window) \cup ToSet(pending) : f < e
    BY <1>7 DEF EventsInv, PlacesInv, Reason
  <2>2. ToSet(rest) \subseteq Q
    BY <1>6
  <2> QED BY <1>3, <1>9, <2>1, <2>2 DEF EventsInv, OrderInv, Precedes
<1>15. GoneInv'
  <2>1. full => Head(queue) + QueueSize \in Events /\ Head(queue) + QueueSize <= e
    <3> SUFFICES ASSUME full PROVE Head(queue) + QueueSize \in Events /\ Head(queue) + QueueSize <= e
      OBVIOUS
    <3>1. Head(queue) = queue[1] /\ QueueSize \in 1 .. Len(queue) /\ queue[QueueSize] \in Q
      BY <1>0, <1>4, <1>5 DEF ToSet
    <3>2. queue[1] + QueueSize <= queue[QueueSize] + 1
      BY <1>4, <3>1, RisingGap
    <3>3. queue[QueueSize] \in Nat /\ queue[QueueSize] < e /\ queue[1] \in Nat \ {0} /\ e \in Nat
      BY <1>0, <1>2, <1>5, <1>8, <3>1
    <3> QED BY <1>0, <1>2, <3>1, <3>2, <3>3
  <2>2. \A f \in Events : f <= e => fate'[f] # "none"
    BY <1>0, <1>1, <1>2, <1>8, <1>10, <1>11
  <2>3. full => fate'[Head(queue) + QueueSize] # "none"
    BY <2>1, <2>2
  <2>4. \A f \in Events : fate[f] \in Onward => fate'[f] \in Onward
    BY <1>2, <1>8, <1>10, <1>11 DEF Onward
  <2>5. \A f \in Events : fate[f] # "none" => fate'[f] # "none"
    BY <1>10
  <2>6. \A f \in Events : fate'[f] = "dropped" /\ fate[f] # "dropped" =>
              f + QueueSize \in Events /\ fate'[f + QueueSize] # "none"
    BY <1>10, <2>1, <2>3
  <2>7. \A f \in Events : ~(fate'[f] = "superseded" /\ fate[f] # "superseded")
    BY <1>10
  <2>8. GoneInv
    BY DEF EventsInv
  <2> QED BY <2>4, <2>5, <2>6, <2>7, <2>8, GoneKept
<1> QED BY <1>12, <1>13, <1>14, <1>15 DEF EventsInv

(* The next event of the queue goes through the stages.                    *)
LEMMA NextEventOK == EventsInv /\ NextEvent => EventsInv'
<1> SUFFICES ASSUME EventsInv, NextEvent PROVE EventsInv'
  OBVIOUS
<1> DEFINE e == Head(queue)
           D == ToSet(delivered)
           W == ToSet(window)
           P == ToSet(pending)
           Q == ToSet(queue)
           rest == ToSet(Tail(queue))
<1>0. EventCount \in Nat /\ QueueSize \in Nat \ {0} /\ Events \subseteq Nat
  BY EventsAreNat
<1>1. /\ queue \in Seq(Events) /\ window \in Seq(Events) /\ pending \in Seq(Events)
      /\ delivered \in Seq(Events) /\ fate \in [Events -> Fates]
      /\ Len(queue) \in Nat /\ Len(queue) <= QueueSize /\ Len(pending) <= 1
      /\ Rising(queue) /\ Rising(window) /\ Rising(delivered)
      /\ queue # <<>> /\ queue' = Tail(queue) /\ UNCHANGED stages
  BY DEF EventsInv, EventTypes, OrderInv, NextEvent
<1>2. /\ e \in Events /\ Tail(queue) \in Seq(Events) /\ Rising(Tail(queue))
      /\ Len(Tail(queue)) = Len(queue) - 1
      /\ Q = {e} \cup rest /\ e \notin rest /\ Precedes({e}, rest)
  BY <1>1, RisingTail
<1>3. /\ Q = Reason("queued") /\ P = Reason("pending")
      /\ W = Reason("window") /\ D = Reason("delivered")
      /\ (Has("debounce") => window = <<>>) /\ (~Has("debounce") => pending = <<>>)
  BY DEF EventsInv, PlacesInv
<1>4. Precedes(D, W \cup P \cup Q) /\ Precedes(W \cup P, Q)
  BY DEF EventsInv, OrderInv
<1>5. fate[e] = "queued" /\ Q \subseteq Events /\ P \subseteq Events /\ W \subseteq Events /\ D \subseteq Events
  BY <1>2, <1>3 DEF Reason
<1> HIDE DEF e, D, W, P, Q, rest
(* What stays as it is when the step is one of the three kinds below.      *)
<1>6. ASSUME \A f \in Events : fate[f] # "none" <=> fate'[f] # "none",
             fate' \in [Events -> Fates],
             \A f \in Events : fate[f] \in Onward => fate'[f] \in Onward,
             \A f \in Events : fate'[f] = "dropped" => fate[f] = "dropped",
             \A f \in Events : fate'[f] = "superseded" /\ fate[f] # "superseded" =>
                \E g \in Events : g > f /\ fate'[g] \in Onward,
             {window', pending', delivered'} \subseteq Seq(Events), Len(pending') <= 1
      PROVE  EventTypes' /\ GoneInv'
  <2>1. EventTypes'
    <3>1. PICK n \in 0 .. EventCount : \A f \in Events : fate[f] = "none" <=> f > n
      BY DEF EventsInv, EventTypes
    <3>2. \A f \in Events : fate'[f] = "none" <=> f > n
      BY <1>6, <3>1
    <3>3. queue' \in Seq(Events) /\ Len(queue') <= QueueSize
      BY <1>0, <1>1, <1>2
    <3>4. stages' \in StageLists
      BY <1>1 DEF EventsInv, EventTypes
    <3> QED BY <1>6, <3>2, <3>3, <3>4 DEF EventTypes
  <2>2. GoneInv
    BY DEF EventsInv
  <2> QED BY <1>6, <2>1, <2>2, GoneKept
<1>7. Has("debounce")' = Has("debounce")
  BY <1>1 DEF Has
<1>8. ToSet(queue') = rest
  BY <1>1 DEF rest
<1>9. ASSUME NEW why \in {"filtered", "throttled"}, Stopped(e, why), UNCHANGED <<pending, window>>
      PROVE  EventsInv'
  <2>1. fate' = [fate EXCEPT ![e] = why] /\ UNCHANGED delivered
    BY <1>9 DEF Stopped
  <2>2. \A f \in Events : fate'[f] = IF f = e THEN why ELSE fate[f]
    BY <1>1, <1>2, <2>1
  <2>3. fate' \in [Events -> Fates]
    BY <1>1, <1>9, <2>1 DEF Fates
  <2>4. EventTypes' /\ GoneInv'
    <3>1. \A f \in Events : fate[f] # "none" <=> fate'[f] # "none"
      BY <1>5, <1>9, <2>2
    <3>2. \A f \in Events : fate[f] \in Onward => fate'[f] \in Onward
      BY <1>5, <2>2 DEF Onward
    <3>3. \A f \in Events : fate'[f] \in {"dropped", "superseded"} => fate'[f] = fate[f]
      BY <1>9, <2>2
    <3> QED BY <1>1, <1>6, <1>9, <2>1, <2>3, <3>1, <3>2, <3>3
  <2>5. /\ Reason("queued")' = rest /\ Reason("pending")' = P
        /\ Reason("window")' = W /\ Reason("delivered")' = D
    BY <1>2, <1>3, <1>5, <1>9, <2>2 DEF Reason
  <2>6. PlacesInv'
    BY <1>3, <1>7, <1>8, <1>9, <2>1, <2>5 DEF PlacesInv, P, W, D
  <2>7. OrderInv'
    BY <1>1, <1>2, <1>4, <1>8, <1>9, <2>1 DEF OrderInv, Precedes, P, W, D
  <2> QED BY <2>4, <2>6, <2>7 DEF EventsInv
<1>10. CASE /\ Has("debounce") /\ pending' = NowPending(e) /\ UNCHANGED <<window, delivered>>
            /\ fate' = [f \in Events |->
                  IF f = e THEN "pending"
                  ELSE IF fate[f] = "pending" THEN "superseded" ELSE fate[f]]
  <2>1. pending' = <<e>> /\ pending' \in Seq(Events) /\ Len(pending') = 1 /\ ToSet(pending') = {e}
    <3>1. <<e>> \in Seq(Events) /\ Len(<<e>>) = 1 /\ ToSet(<<e>>) = {e}
      BY <1>2 DEF ToSet
    <3> QED BY <1>10, <3>1 DEF NowPending
  <2>2. \A f \in Events : fate'[f] = IF f = e THEN "pending"
                                     ELSE IF fate[f] = "pending" THEN "superseded" ELSE fate[f]
    BY <1>10
  <2>3. fate' \in [Events -> Fates]
    BY <1>1, <1>10 DEF Fates
  <2>4. EventTypes' /\ GoneInv'
    <3>1. \A f \in Events : fate[f] # "none" <=> fate'[f] # "none"
      BY <1>5, <2>2
    <3>2. \A f \in Events : fate[f] \in Onward => fate'[f] \in Onward
      BY <1>5, <2>2 DEF Onward
    <3>3. \A f \in Events : fate'[f] = "dropped" => fate[f] = "dropped"
      BY <2>2
    <3>4. ASSUME NEW f \in Events, fate'[f] = "superseded", fate[f] # "superseded"
          PROVE  \E g \in Events : g > f /\ fate'[g] \in Onward
      <4>1. f \in P
        BY <1>3, <2>2, <3>4 DEF Reason
      <4>2. f < e
        BY <1>2, <1>4, <4>1 DEF Precedes
      <4>3. fate'[e] \in Onward
        BY <1>2, <2>2 DEF Onward
      <4> QED BY <1>0, <1>2, <4>2, <4>3
    <3> QED BY <1>1, <1>6, <1>10, <2>1, <2>3, <3>1, <3>2, <3>3, <3>4
  <2>5. /\ Reason("queued")' = rest /\ Reason("pending")' = {e}
        /\ Reason("window")' = W /\ Reason("delivered")' = D
    BY <1>2, <1>3, <1>5, <2>2 DEF Reason
  <2>6. PlacesInv'
    BY <1>3, <1>7, <1>8, <1>10, <2>1, <2>5 DEF PlacesInv, W, D
  <2>7. OrderInv'
    BY <1>1, <1>2, <1>4, <1>8, <1>10, <2>1 DEF OrderInv, Precedes, W, D
  <2> QED BY <2>4, <2>6, <2>7 DEF EventsInv
<1>11. /\ Append(window, e) \in Seq(Events) /\ Rising(Append(window, e))
       /\ ToSet(Append(window, e)) = W \cup {e}
  <2>1. Precedes(W, {e})
    BY <1>2, <1>4 DEF Precedes
  <2> QED BY <1>1, <1>2, <2>1, RisingAppend DEF W
<1>12. CASE /\ Has("window") /\ Stopped(e, "window") /\ window' = Append(window, e) /\ UNCHANGED pending
  <2>0. ~Has("debounce")
    BY <1>12, UpdatesAssumption DEF Has, EventsInv, EventTypes
  <2>1. fate' = [fate EXCEPT ![e] = "window"] /\ UNCHANGED delivered
    BY <1>12 DEF Stopped
  <2>2. \A f \in Events : fate'[f] = IF f = e THEN "window" ELSE fate[f]
    BY <1>1, <1>2, <2>1
  <2>3. fate' \in [Events -> Fates]
    BY <1>1, <2>1 DEF Fates
  <2>4. EventTypes' /\ GoneInv'
    <3>1. \A f \in Events : fate[f] # "none" <=> fate'[f] # "none"
      BY <1>5, <2>2
    <3>2. \A f \in Events : fate[f] \in Onward => fate'[f] \in Onward
      BY <1>5, <2>2 DEF Onward
    <3>3. \A f \in Events : fate'[f] \in {"dropped", "superseded"} => fate'[f] = fate[f]
      BY <2>2
    <3> QED BY <1>1, <1>6, <1>11, <1>12, <2>1, <2>3, <3>1, <3>2, <3>3
  <2>5. /\ Reason("queued")' = rest /\ Reason("pending")' = P
        /\ Reason("window")' = W \cup {e} /\ Reason("delivered")' = D
    BY <1>2, <1>3, <1>5, <2>2 DEF Reason
  <2>6. PlacesInv'
    BY <1>3, <1>7, <1>8, <1>11, <1>12, <2>0, <2>1, <2>5 DEF PlacesInv, P, D
  <2>7. OrderInv'
    BY <1>1, <1>2, <1>4, <1>8, <1>11, <1>12, <2>1 DEF OrderInv, Precedes, P, D
  <2> QED BY <2>4, <2>6, <2>7 DEF EventsInv
<1>13. CASE /\ ~Has("debounce") /\ Handle(Append(window, e)) /\ window' = <<>> /\ UNCHANGED pending
  <2> DEFINE es == Append(window, e)
  <2>1. /\ fate' = [f \in Events |-> IF f \in W \cup {e} THEN "delivered" ELSE fate[f]]
        /\ delivered' = delivered \o es /\ es \in Seq(Events) /\ Rising(es) /\ ToSet(es) = W \cup {e}
    BY <1>11, <1>13 DEF Handle
  <2> HIDE DEF es
  <2>2. \A f \in Events : fate'[f] = IF f \in W \cup {e} THEN "delivered" ELSE fate[f]
    BY <2>1
  <2>3. fate' \in [Events -> Fates]
    BY <1>1, <2>1 DEF Fates
  <2>a. /\ delivered' \in Seq(Events) /\ ToSet(delivered') = D \cup W \cup {e} /\ Rising(delivered')
    <3>1. Precedes(D, ToSet(es))
      BY <1>2, <1>4, <2>1 DEF Precedes
    <3>2. ToSet(delivered \o es) = D \cup ToSet(es) /\ delivered \o es \in Seq(Events)
      BY <1>1, <2>1, ConcatParts DEF D
    <3>3. Rising(delivered \o es)
      BY <1>1, <2>1, <3>1, RisingConcat DEF D
    <3> QED BY <2>1, <3>2, <3>3
  <2>b. pending = <<>> /\ P = {} /\ ToSet(<<>>) = {} /\ <<>> \in Seq(Events) /\ Rising(<<>>)
    BY <1>3, <1>13 DEF P, ToSet, Rising
  <2>4. EventTypes' /\ GoneInv'
    <3>1. \A f \in Events : fate[f] # "none" <=> fate'[f] # "none"
      BY <1>3, <1>5, <2>2 DEF Reason
    <3>2. \A f \in Events : fate[f] \in Onward => fate'[f] \in Onward
      BY <1>5, <2>2 DEF Onward
    <3>3. \A f \in Events : fate'[f] \in {"dropped", "superseded"} => fate'[f] = fate[f]
      BY <2>2
    <3> QED BY <1>1, <1>6, <1>13, <2>a, <2>b, <2>3, <3>1, <3>2, <3>3
  <2>5. /\ Reason("queued")' = rest /\ Reason("pending")' = P
        /\ Reason("window")' = {} /\ Reason("delivered")' = D \cup W \cup {e}
    BY <1>2, <1>3, <1>5, <2>2 DEF Reason
  <2>6. PlacesInv'
    BY <1>3, <1>7, <1>8, <1>13, <2>a, <2>b, <2>5 DEF PlacesInv, P
  <2>7. OrderInv'
    BY <1>1, <1>2, <1>4, <1>8, <1>13, <2>a, <2>b DEF OrderInv, Precedes, P
  <2> QED BY <2>4, <2>6, <2>7 DEF EventsInv
<1> QED BY <1>9, <1>10, <1>12, <1>13 DEF NextEvent, e

LEMMA OnlyOne ==
    ASSUME NEW X, NEW s \in Seq(X), s # <<>>, Len(s) <= 1
    PROVE  Len(s) = 1 /\ s[1] \in X /\ DOMAIN s = {1}
<1> DEFINE m == Len(s)
<1>1. m \in Nat \ {0} /\ DOMAIN s = 1 .. m /\ \A i \in 1 .. m : s[i] \in X
  OBVIOUS
<1>2. m <= 1
  OBVIOUS
<1> HIDE DEF m
<1>3. m = 1
  BY <1>1, <1>2
<1>4. 1 .. m = {1}
  BY <1>3
<1> QED BY <1>1, <1>3, <1>4 DEF m

(* What is pending is handled, or lost.                                    *)
LEMMA FlushOK == EventsInv /\ Flush => EventsInv'
<1> SUFFICES ASSUME EventsInv, Flush PROVE EventsInv'
  OBVIOUS
<1> DEFINE D == ToSet(delivered)
           W == ToSet(window)
           P == ToSet(pending)
           Q == ToSet(queue)
<1>0. EventCount \in Nat /\ QueueSize \in Nat \ {0} /\ Events \subseteq Nat
  BY EventsAreNat
<1>1. /\ queue \in Seq(Events) /\ window \in Seq(Events) /\ pending \in Seq(Events)
      /\ delivered \in Seq(Events) /\ fate \in [Events -> Fates] /\ Len(pending) <= 1
      /\ Rising(queue) /\ Rising(window) /\ Rising(delivered)
      /\ UNCHANGED <<stages, queue, window>>
  BY DEF EventsInv, EventTypes, OrderInv, Flush
<1>2. /\ Q = Reason("queued") /\ P = Reason("pending")
      /\ W = Reason("window") /\ D = Reason("delivered")
      /\ (Has("debounce") => window = <<>>) /\ (~Has("debounce") => pending = <<>>)
  BY DEF EventsInv, PlacesInv
<1>3. Precedes(D, W \cup P \cup Q) /\ Precedes(W \cup P, Q)
  BY DEF EventsInv, OrderInv
<1>4. CASE UNCHANGED <<pending, fate, delivered>>
  BY <1>1, <1>4 DEF EventsInv, EventTypes, PlacesInv, OrderInv, GoneInv, Reason, Has
<1>5. CASE /\ pending # <<>> /\ pending' = <<>>
           /\ IF admitted THEN Handle(pending)
              ELSE fate' = [fate EXCEPT ![pending[1]] = "lost"] /\ UNCHANGED delivered
  <2>1. /\ Len(pending) = 1 /\ pending[1] \in Events /\ P = {pending[1]} /\ Rising(pending)
        /\ ToSet(<<>>) = {} /\ <<>> \in Seq(Events) /\ Len(<<>>) = 0
    <3>0. pending \in Seq(Events) /\ pending # <<>> /\ Len(pending) <= 1
      BY <1>1, <1>5
    <3>1. Len(pending) = 1
      BY <3>0, OnlyOne
    <3>2. DOMAIN pending = {1}
      BY <3>0, OnlyOne
    <3>3. pending[1] \in Events /\ P = {pending[1]} /\ Rising(pending)
      <4>1. pending[1] \in Events
        BY <3>0, OnlyOne
      <4>2. P = {pending[1]}
        BY <3>2 DEF ToSet
      <4>3. Rising(pending)
        BY <3>2 DEF Rising
      <4> QED BY <4>1, <4>2, <4>3
    <3>4. ToSet(<<>>) = {} /\ <<>> \in Seq(Events) /\ Len(<<>>) = 0
      BY DEF ToSet
    <3> QED BY <3>1, <3>3, <3>4
  <2>2. window = <<>> /\ W = {} /\ Has("debounce")' = Has("debounce") /\ Has("debounce")
    BY <1>1, <1>2, <1>5, <2>1 DEF Has
  <2> DEFINE why == IF admitted THEN "delivered" ELSE "lost"
  <2>3. fate' = [f \in Events |-> IF f \in P THEN why ELSE fate[f]]
    BY <1>1, <1>5, <2>1 DEF Handle
  <2>4. /\ delivered' = IF admitted THEN delivered \o pending ELSE delivered
        /\ delivered' \in Seq(Events) /\ Rising(delivered')
        /\ ToSet(delivered') = IF admitted THEN D \cup P ELSE D
    <3>1. delivered' = IF admitted THEN delivered \o pending ELSE delivered
      BY <1>5 DEF Handle
    <3>2. Precedes(D, P)
      BY <1>3 DEF Precedes
    <3>3. Rising(delivered \o pending)
      BY <1>1, <2>1, <3>2, RisingConcat
    <3>4. delivered \o pending \in Seq(Events) /\ ToSet(delivered \o pending) = D \cup P
      BY <1>1, ConcatParts
    <3> QED BY <1>1, <3>1, <3>3, <3>4
  <2>5. \A f \in Events : fate'[f] = IF f \in P THEN why ELSE fate[f]
    BY <2>3
  <2>6. fate' \in [Events -> Fates] /\ why \in {"delivered", "lost"}
    BY <1>1, <2>3 DEF Fates
  <2>7. \A f \in P : f \in Events /\ fate[f] = "pending"
    BY <1>2 DEF Reason
  <2> HIDE DEF D, W, P, Q, why
  <2>8. /\ \A f \in Events : fate[f] # "none" <=> fate'[f] # "none"
        /\ \A f \in Events : fate[f] \in Onward => fate'[f] \in Onward
        /\ \A f \in Events : fate'[f] \in {"dropped", "superseded"} => fate'[f] = fate[f]
    BY <2>5, <2>6, <2>7 DEF Onward
  <2>9. EventTypes'
    <3>1. PICK n \in 0 .. EventCount : \A f \in Events : fate[f] = "none" <=> f > n
      BY DEF EventsInv, EventTypes
    <3>2. \A f \in Events : fate'[f] = "none" <=> f > n
      BY <2>8, <3>1
    <3>3. stages' \in StageLists /\ Len(queue') <= QueueSize
      BY <1>1 DEF EventsInv, EventTypes
    <3> QED BY <1>1, <1>5, <2>1, <2>4, <2>6, <3>2, <3>3 DEF EventTypes
  <2>10. GoneInv'
    <3>1. GoneInv
      BY DEF EventsInv
    <3> QED BY <2>8, <3>1, GoneKept
  <2>11. /\ Reason("queued")' = Q /\ Reason("pending")' = {} /\ Reason("window")' = W
         /\ Reason("delivered")' = IF admitted THEN D \cup P ELSE D
    BY <1>2, <2>5, <2>6, <2>7 DEF Reason, why
  <2>12. PlacesInv'
    BY <1>1, <1>5, <2>1, <2>2, <2>4, <2>11 DEF PlacesInv, Q, W
  <2>13. OrderInv'
    BY <1>1, <1>3, <1>5, <2>1, <2>2, <2>4 DEF OrderInv, Precedes, Q, W
  <2> QED BY <2>9, <2>10, <2>12, <2>13 DEF EventsInv
<1> QED BY <1>4, <1>5 DEF Flush

LEMMA EventsStep == EventsInv /\ [UpdateNext]_updateVars => EventsInv'
<1> SUFFICES ASSUME EventsInv, [UpdateNext]_updateVars PROVE EventsInv'
  OBVIOUS
<1> USE DEF updateVars, graphVars, pipeVars
<1>1. ASSUME UNCHANGED <<stages, queue, pending, window, fate, delivered>> PROVE EventsInv'
  BY <1>1 DEF EventsInv, EventTypes, PlacesInv, OrderInv, GoneInv, Reason, Has
<1>2. CASE UpdateNext
  BY <1>1, <1>2, PublishOK, NextEventOK, FlushOK
  DEF UpdateNext, Change, BeginPump, BeginUpdate, SkipNode, BeginCompute, EndCompute,
      ComputeRaises, EndPump, HandlerEnds
<1>3. CASE UNCHANGED updateVars
  BY <1>1, <1>3
<1> QED BY <1>2, <1>3

LEMMA EventsInit == UpdateInit => EventsInv
<1> SUFFICES ASSUME UpdateInit PROVE EventsInv
  OBVIOUS
<1>1. /\ <<>> \in Seq(Events) /\ Len(<<>>) = 0 /\ ToSet(<<>>) = {} /\ Rising(<<>>)
  BY DEF ToSet, Rising
<1>2. EventCount \in Nat /\ QueueSize \in Nat \ {0} /\ Events \subseteq Nat /\ Events = 1 .. EventCount
  BY EventsAreNat DEF Events
<1>3. /\ queue = <<>> /\ pending = <<>> /\ window = <<>> /\ delivered = <<>>
      /\ fate = [e \in Events |-> "none"] /\ stages \in StageLists
  BY DEF UpdateInit
<1>4. 0 \in 0 .. EventCount /\ \A e \in Events : (fate[e] = "none" <=> e > 0)
  BY <1>2, <1>3
<1>5. EventTypes
  BY <1>1, <1>2, <1>3, <1>4 DEF EventTypes, Fates
<1>6. \A why \in Fates : why # "none" => Reason(why) = {}
  BY <1>3 DEF Reason
<1>7. PlacesInv /\ OrderInv /\ GoneInv
  BY <1>1, <1>3, <1>6 DEF PlacesInv, OrderInv, GoneInv, Precedes, Fates
<1> QED BY <1>5, <1>7 DEF EventsInv

LEMMA EventsAreAccounted == EventsInv => EventsAccounted
<1> SUFFICES ASSUME EventsInv PROVE EventsAccounted
  OBVIOUS
<1>1. /\ queue \in Seq(Events) /\ window \in Seq(Events) /\ pending \in Seq(Events)
      /\ delivered \in Seq(Events) /\ Len(pending) <= 1
      /\ Rising(queue) /\ Rising(window) /\ Rising(delivered)
  BY DEF EventsInv, EventTypes, OrderInv
<1>2. Rising(pending)
  BY <1>1 DEF Rising
<1> DEFINE D == ToSet(delivered)
           W == ToSet(window)
           P == ToSet(pending)
           Q == ToSet(queue)
           one == delivered \o window
           two == one \o pending
<1>3. Precedes(D, W \cup P \cup Q) /\ Precedes(W \cup P, Q)
  BY DEF EventsInv, OrderInv
<1>4. W = {} \/ P = {}
  BY DEF EventsInv, PlacesInv, ToSet
<1>5. one \in Seq(Events) /\ ToSet(one) = D \cup W /\ Rising(one)
  <2>1. Precedes(D, W)
    BY <1>3 DEF Precedes
  <2>2. Rising(one)
    BY <1>1, <2>1, RisingConcat
  <2> QED BY <1>1, <2>2, ConcatParts
<1> HIDE DEF one
<1>6. two \in Seq(Events) /\ ToSet(two) = D \cup W \cup P /\ Rising(two)
  <2>1. Precedes(ToSet(one), P)
    BY <1>3, <1>4, <1>5 DEF Precedes
  <2>2. Rising(two)
    BY <1>1, <1>2, <1>5, <2>1, RisingConcat
  <2>3. two \in Seq(Events) /\ ToSet(two) = ToSet(one) \cup P
    BY <1>1, <1>5, ConcatParts
  <2> QED BY <1>5, <2>2, <2>3
<1> HIDE DEF two
<1>7. Rising(two \o queue)
  <2>1. Precedes(ToSet(two), Q)
    BY <1>3, <1>6 DEF Precedes
  <2> QED BY <1>1, <1>6, <2>1, RisingConcat
<1> HIDE DEF D, W, P, Q
<1>8. Rising(delivered \o window \o pending \o queue)
  BY <1>7 DEF one, two
<1> QED BY <1>8 DEF EventsInv, PlacesInv, GoneInv, EventsAccounted, Reason, Rising, Onward

-----------------------------------------------------------------------------
(* The graph of derived values.                                            *)

LEMMA NodesAreNat == NodeCount \in Nat \ {0} /\ Nodes = 1 .. NodeCount /\ Nodes \subseteq Nat
  BY UpdatesAssumption DEF Nodes

(* What is reached has what it starts from, is closed, and is the least    *)
(* such set.                                                               *)
LEMMA ReachedStart ==
    ASSUME NEW from \in SUBSET Nodes, NEW through
    PROVE  from \subseteq Reached(from, through) /\ Reached(from, through) \subseteq Nodes
  BY DEF Reached

LEMMA ReachedClosed ==
    ASSUME NEW from, NEW through, NEW d \in through \cap Nodes,
           depends[d] \cap Reached(from, through) # {}
    PROVE  d \in Reached(from, through)
  BY DEF Reached

LEMMA ReachedLeast ==
    ASSUME NEW from, NEW through, NEW S \in SUBSET Nodes, from \subseteq S,
           \A d \in through : depends[d] \cap S # {} => d \in S
    PROVE  Reached(from, through) \subseteq S
  BY DEF Reached

LEMMA AboveType == ASSUME NEW n \in Nodes PROVE n \in Above(n) /\ Above(n) \subseteq Nodes
  BY ReachedStart DEF Above

LEMMA AboveStep ==
    ASSUME NEW n \in Nodes, NEW a \in Nodes, depends[a] \cap Above(n) # {}
    PROVE  a \in Above(n)
  BY ReachedClosed DEF Above

LEMMA AboveAbove ==
    ASSUME NEW n \in Nodes, NEW a \in Above(n)
    PROVE  Above(a) \subseteq Above(n)
<1> DEFINE S == Above(n)
<1>1. S \in SUBSET Nodes /\ a \in Nodes /\ {a} \subseteq S
  BY AboveType
<1>2. \A d \in Nodes : depends[d] \cap S # {} => d \in S
  BY AboveStep
<1>3. Reached({a}, Nodes) \subseteq S
  <2> HIDE DEF S
  <2> QED BY <1>1, <1>2, ReachedLeast
<1> QED BY <1>3 DEF Above

LEMMA ReachedIsAbove ==
    ASSUME NEW n \in Nodes, NEW from \in SUBSET {n}, NEW through \in SUBSET Nodes
    PROVE  Reached(from, through) \subseteq Above(n)
<1>1. Above(n) \in SUBSET Nodes /\ from \subseteq Above(n)
  BY AboveType
<1>2. \A d \in through : depends[d] \cap Above(n) # {} => d \in Above(n)
  BY AboveStep
<1> QED BY <1>1, <1>2, ReachedLeast

(* No node depends on itself.                                              *)
Acyclic ==
    /\ depends \in [Nodes -> SUBSET Nodes]
    /\ \A n \in Nodes : depends[n] \cap Above(n) = {}

(* Of any nodes there is one that depends on none of the others.           *)
LEMMA SomeIsFirst ==
    ASSUME Acyclic, NEW S \in SUBSET Nodes, S # {}
    PROVE  \E n \in S : depends[n] \cap S = {}
<1> DEFINE Below(n) == {m \in Nodes : n \in Above(m)}
           Size(n) == Cardinality(Below(n))
           Sizes == {Size(n) : n \in S}
<1>1. IsFiniteSet(Nodes)
  BY FS_Interval, NodesAreNat
<1>2. \A n \in S : IsFiniteSet(Below(n)) /\ Size(n) \in Nat
  <2> SUFFICES ASSUME NEW n \in S PROVE IsFiniteSet(Below(n)) /\ Size(n) \in Nat
    OBVIOUS
  <2>1. Below(n) \subseteq Nodes
    OBVIOUS
  <2>2. IsFiniteSet(Below(n))
    BY <1>1, <2>1, FS_Subset
  <2> QED BY <2>2, FS_CardinalityType
<1>3. Sizes \in SUBSET Nat /\ Sizes # {}
  BY <1>2
<1>4. PICK n \in S : \A m \in S : Size(n) <= Size(m)
  <2>1. PICK k \in Sizes : \A l \in Sizes : k <= l
    BY <1>3, LeastNatural
  <2> QED BY <2>1
<1>5. ASSUME NEW d \in depends[n] \cap S PROVE FALSE
  <2>1. n \in Nodes /\ d \in Nodes
    BY <1>5 DEF Acyclic
  <2>2. n \in Above(d)
    BY <2>1, <1>5, AboveType, AboveStep
  <2>3. Below(d) \subseteq Below(n)
    <3> SUFFICES ASSUME NEW m \in Nodes, d \in Above(m) PROVE n \in Above(m)
      OBVIOUS
    <3> QED BY <2>1, <1>5, AboveStep
  <2>4. n \in Below(n) /\ n \notin Below(d)
    <3>1. d \notin Above(n)
      BY <2>1, <1>5 DEF Acyclic
    <3> QED BY <2>1, <3>1, AboveType
  <2> QED
    <3> HIDE DEF Below
    <3>1. Cardinality(Below(d)) <= Cardinality(Below(n))
          /\ (Cardinality(Below(d)) = Cardinality(Below(n)) => Below(d) = Below(n))
      BY <1>2, <2>3, FS_Subset
    <3>2. Size(n) <= Size(d) /\ Size(n) \in Nat /\ Size(d) \in Nat
      BY <1>2, <1>4, <1>5
    <3> QED BY <2>4, <3>1, <3>2
<1> QED BY <1>5

(* There is an order, and it is one of all nodes.                          *)
LEMMA OrderExists ==
    ASSUME Acyclic
    PROVE  \E o \in [Nodes -> Nodes] : IsInjective(o) /\ IsOrder(o)
<1> DEFINE Prefixed(o, n) ==
               \A j \in 1 .. n : \A d \in depends[o[j]] : \E i \in 1 .. n : i < j /\ o[i] = d
           Good == {n \in Nat : n <= NodeCount =>
                       \E o \in [1 .. n -> Nodes] : IsInjective(o) /\ Prefixed(o, n)}
<1>0. NodeCount \in Nat \ {0} /\ Nodes = 1 .. NodeCount /\ IsFiniteSet(Nodes)
      /\ Cardinality(Nodes) = NodeCount
  BY NodesAreNat, FS_Interval
<1>1. 0 \in Good
  <2>1. [i \in 1 .. 0 |-> 1] \in [1 .. 0 -> Nodes]
    OBVIOUS
  <2>2. IsInjective([i \in 1 .. 0 |-> 1])
    BY DEF IsInjective
  <2>3. Prefixed([i \in 1 .. 0 |-> 1], 0)
    OBVIOUS
  <2> HIDE DEF Prefixed
  <2> QED BY <2>1, <2>2, <2>3
<1>2. ASSUME NEW n \in Nat, n \in Good PROVE n + 1 \in Good
  <2> SUFFICES ASSUME n + 1 <= NodeCount
               PROVE  \E o \in [1 .. n + 1 -> Nodes] : IsInjective(o) /\ Prefixed(o, n + 1)
    <3> HIDE DEF Prefixed
    <3>1. n + 1 \in Nat
      OBVIOUS
    <3> QED BY <3>1
  <2>0. n <= NodeCount /\ n # NodeCount
    BY <1>0
  <2>1. PICK o \in [1 .. n -> Nodes] : IsInjective(o) /\ Prefixed(o, n)
    BY <1>2, <2>0
  <2> DEFINE R == {o[i] : i \in 1 .. n}
  <2>2. Nodes \ R # {}
    <3>1. o \in Seq(Nodes) /\ Len(o) = n /\ ToSet(o) = R
      BY SeqDef DEF ToSet
    <3>2. Cardinality(R) = n
      BY <2>1, <3>1, DistinctCount
    <3>3. R \subseteq Nodes
      OBVIOUS
    <3> HIDE DEF R
    <3> QED BY <1>0, <2>0, <3>2, <3>3
  <2>3. PICK x \in Nodes \ R : depends[x] \cap (Nodes \ R) = {}
    BY <2>2, SomeIsFirst
  <2> DEFINE p == [i \in 1 .. n + 1 |-> IF i = n + 1 THEN x ELSE o[i]]
  <2>4. /\ p[n + 1] = x /\ \A i \in 1 .. n : i \in 1 .. n + 1 /\ p[i] = o[i] /\ p[i] \in R
        /\ \A i \in 1 .. n + 1 : i = n + 1 \/ i \in 1 .. n
        /\ DOMAIN p = 1 .. n + 1 /\ x \notin R
    OBVIOUS
  <2>5. p \in [1 .. n + 1 -> Nodes]
    <3>1. ASSUME NEW i \in 1 .. n + 1 PROVE p[i] \in Nodes
      <4>1. CASE i \in 1 .. n
        BY <4>1
      <4>2. CASE i = n + 1
        BY <2>4, <4>2
      <4> QED BY <4>1, <4>2
    <3> QED BY <3>1
  <2>6. IsInjective(p)
    <3> HIDE DEF p, R
    <3>1. \A i, j \in 1 .. n : o[i] = o[j] => i = j
      BY <2>1 DEF IsInjective
    <3> QED BY <2>4, <3>1 DEF IsInjective
  <2>7. Prefixed(p, n + 1)
    <3> SUFFICES ASSUME NEW j \in 1 .. n + 1, NEW d \in depends[p[j]]
                 PROVE  \E i \in 1 .. n + 1 : i < j /\ p[i] = d
      OBVIOUS
    <3>1. CASE j \in 1 .. n
      <4>1. PICK i \in 1 .. n : i < j /\ o[i] = d
        BY <2>1, <2>4, <3>1
      <4> QED BY <2>4, <4>1
    <3>2. CASE j = n + 1
      <4>1. d \in Nodes /\ d \in depends[x]
        BY <2>4, <3>2 DEF Acyclic
      <4>2. d \in R
        BY <2>3, <4>1
      <4>3. PICK i \in 1 .. n : o[i] = d
        BY <4>2
      <4> QED BY <2>4, <3>2, <4>3
    <3> QED BY <2>4, <3>1, <3>2
  <2> HIDE DEF p, Prefixed
  <2> QED BY <2>5, <2>6, <2>7
<1>3. Nat \subseteq Good
  <2> HIDE DEF Good
  <2> QED BY <1>1, <1>2, InductiveSet
<1>4. PICK o \in [1 .. NodeCount -> Nodes] : IsInjective(o) /\ Prefixed(o, NodeCount)
  <2>1. NodeCount \in Nat /\ NodeCount <= NodeCount
    BY <1>0
  <2>2. NodeCount \in Good
    <3> HIDE DEF Good
    <3> QED BY <1>3, <2>1
  <2> HIDE DEF Prefixed
  <2> QED BY <2>1, <2>2
<1>5. IsOrder(o)
  <2> SUFFICES ASSUME NEW i \in Nodes, NEW j \in Nodes, o[i] \in depends[o[j]] PROVE i < j
    BY DEF IsOrder
  <2>1. PICK k \in 1 .. NodeCount : k < j /\ o[k] = o[i]
    BY <1>0, <1>4
  <2>2. k = i
    BY <1>0, <1>4, <2>1 DEF IsInjective
  <2> QED BY <2>1, <2>2
<1> QED BY <1>0, <1>4, <1>5

LEMMA OrderParts ==
    ASSUME Acyclic
    PROVE  /\ Order \in [Nodes -> Nodes] /\ IsOrder(Order)
           /\ \A i, j \in Nodes : Order[i] = Order[j] => i = j
           /\ \A n \in Nodes : \E i \in Nodes : Order[i] = n
<1>1. Order \in [Nodes -> Nodes] /\ IsInjective(Order) /\ IsOrder(Order)
  BY OrderExists DEF Order
<1>2. ToSet(Order) = Nodes
  <2>0. NodeCount \in Nat \ {0} /\ Nodes = 1 .. NodeCount /\ IsFiniteSet(Nodes)
        /\ Cardinality(Nodes) = NodeCount
    BY NodesAreNat, FS_Interval
  <2>1. Order \in Seq(Nodes) /\ Len(Order) = NodeCount
    <3>1. Order \in [1 .. NodeCount -> Nodes]
      BY <1>1, <2>0
    <3> QED BY <2>0, <3>1, SeqDef
  <2>2. Cardinality(ToSet(Order)) = NodeCount
    BY <1>1, <2>1, DistinctCount
  <2>3. ToSet(Order) \subseteq Nodes
    BY <1>1 DEF ToSet
  <2> QED BY <2>0, <2>2, <2>3, FS_Subset
<1>3. \A n \in Nodes : \E i \in Nodes : Order[i] = n
  BY <1>1, <1>2 DEF ToSet
<1> QED BY <1>1, <1>3 DEF IsInjective

(* What is above a node comes after it.                                    *)
LEMMA AboveIsLater ==
    ASSUME Acyclic, NEW i \in Nodes, NEW j \in Nodes, Order[i] \in Above(Order[j])
    PROVE  j <= i
<1> DEFINE S == {Order[k] : k \in {k \in Nodes : j <= k}}
<1>1. /\ Order \in [Nodes -> Nodes] /\ IsOrder(Order)
      /\ \A k, l \in Nodes : Order[k] = Order[l] => k = l
      /\ \A n \in Nodes : \E k \in Nodes : Order[k] = n
  BY OrderParts
<1>2. S \in SUBSET Nodes /\ {Order[j]} \subseteq S
  <2>1. j \in Nat /\ j <= j
    BY NodesAreNat
  <2> QED BY <1>1, <2>1
<1>3. ASSUME NEW d \in Nodes, depends[d] \cap S # {} PROVE d \in S
  <2>1. PICK k \in Nodes : j <= k /\ Order[k] \in depends[d]
    BY <1>3
  <2>2. PICK l \in Nodes : Order[l] = d
    BY <1>1
  <2>3. k < l
    BY <1>1, <2>1, <2>2 DEF IsOrder
  <2>4. j <= l
    BY <2>1, <2>3, NodesAreNat
  <2> QED BY <2>2, <2>4
<1>4. Above(Order[j]) \subseteq S
  <2> HIDE DEF S
  <2> QED BY <1>2, <1>3, ReachedLeast DEF Above
<1>5. PICK k \in Nodes : j <= k /\ Order[k] = Order[i]
  BY <1>4
<1> QED BY <1>1, <1>5

(* Of the nodes of K and those above them.                                 *)
AboveSome(K) == {a \in Nodes : \E k \in K : a \in Above(k)}

(* Why n may not reflect m while it is clean: it is above a node of K, or  *)
(* marks do not propagate and m is below it.                               *)
Explained(n, m, K) ==
    \/ n \in AboveSome(K)
    \/ n \in Above(m) /\ ~propagates /\ m # n

GraphTypes ==
    /\ Acyclic
    /\ propagates \in BOOLEAN
    /\ dirty \subseteq Nodes /\ marked \subseteq Nodes /\ missed \subseteq Nodes
    /\ behind \subseteq Nodes \X Nodes
    /\ place \in 1 .. NodeCount + 1
    /\ phase \notin {"pump", "compute"} => place = 1
    /\ phase = "compute" => place \in Nodes /\ Order[place] \in dirty

(* Dirt goes up: a clean node depends on a dirty one only above a node     *)
(* that was cleaned too early.                                             *)
DirtIsClosed ==
    propagates =>
        \A n \in Nodes \ dirty : depends[n] \cap dirty # {} => n \in AboveSome(missed)

CleanExplained ==
    \A n \in Nodes \ dirty : \A m \in Nodes :
        <<n, m>> \in behind => Explained(n, m, missed)

(* What is dirty where the pump has been was marked since.                 *)
PassedExplained ==
    \A i \in Nodes : i < place /\ Order[i] \in dirty => Order[i] \in AboveSome(marked)

(* So the node being computed, dirty still, will be explained when clean.  *)
ComputedExplained ==
    phase = "compute" =>
        \A m \in Nodes : <<Order[place], m>> \in behind =>
            Explained(Order[place], m, missed \cup marked)

GraphInv ==
    GraphTypes /\ DirtIsClosed /\ CleanExplained /\ PassedExplained /\ ComputedExplained

(* The graph is the one it was.                                            *)
LEMMA SameGraph ==
    ASSUME depends' = depends
    PROVE  /\ \A n : Above(n)' = Above(n)
           /\ \A from, through : Reached(from, through)' = Reached(from, through)
           /\ Order' = Order
           /\ Acyclic' <=> Acyclic
<1>1. \A from, through : Reached(from, through)' = Reached(from, through)
  BY DEF Reached
<1>2. \A n : Above(n)' = Above(n)
  BY <1>1 DEF Above
<1>3. \A o : IsOrder(o)' <=> IsOrder(o)
  BY DEF IsOrder
<1>4. Order' = Order
  BY <1>3 DEF Order
<1> QED BY <1>1, <1>2, <1>4 DEF Acyclic

LEMMA AboveSomeStep ==
    ASSUME NEW K \in SUBSET Nodes, NEW a \in Nodes, depends[a] \cap AboveSome(K) # {}
    PROVE  a \in AboveSome(K)
  BY AboveStep DEF AboveSome

LEMMA AboveSomeMore ==
    ASSUME NEW K, NEW L, K \subseteq L
    PROVE  AboveSome(K) \subseteq AboveSome(L)
  BY DEF AboveSome

LEMMA GraphInit == UpdateInit => GraphInv
<1> SUFFICES ASSUME UpdateInit PROVE GraphInv
  OBVIOUS
<1>1. GraphTypes
  BY NodesAreNat DEF UpdateInit, GraphTypes, Acyclic
<1>2. PassedExplained
  BY NodesAreNat DEF UpdateInit, PassedExplained
<1> QED
  BY <1>1, <1>2 DEF UpdateInit, GraphInv, DirtIsClosed, CleanExplained, ComputedExplained

(* What is above a changed node is dirty afterwards, or is above a node    *)
(* that was cleaned too early.                                             *)
LEMMA ChangeReaches ==
    ASSUME GraphTypes, DirtIsClosed, propagates, NEW x \in Nodes
    PROVE  Above(x) \subseteq Marked(x) \cup AboveSome(missed)
<1> DEFINE R == Reached({x} \ dirty, Nodes \ dirty)
           S == Marked(x) \cup AboveSome(missed)
<1>1. /\ dirty \subseteq Nodes /\ missed \in SUBSET Nodes
      /\ depends \in [Nodes -> SUBSET Nodes]
  BY DEF GraphTypes, Acyclic
<1>2. R \subseteq Nodes /\ {x} \ dirty \subseteq R
  BY <1>1, ReachedStart
<1>3. Marked(x) = dirty \cup R
  BY DEF Marked
<1>4. S \in SUBSET Nodes /\ {x} \subseteq S
  BY <1>1, <1>2, <1>3 DEF AboveSome
<1>5. ASSUME NEW d \in Nodes, depends[d] \cap S # {} PROVE d \in S
  <2>1. CASE d \in dirty
    BY <1>3, <2>1
  <2>2. CASE depends[d] \cap AboveSome(missed) # {}
    BY <1>1, <2>2, AboveSomeStep
  <2>3. CASE d \notin dirty /\ depends[d] \cap dirty # {}
    BY <2>3 DEF DirtIsClosed
  <2>4. CASE d \notin dirty /\ depends[d] \cap R # {}
    <3>1. d \in (Nodes \ dirty) \cap Nodes
      BY <2>4
    <3> HIDE DEF S
    <3>2. d \in R
      BY <2>4, <3>1, ReachedClosed
    <3> QED BY <1>3, <3>2 DEF S
  <2> QED BY <1>3, <1>5, <2>1, <2>2, <2>3, <2>4
<1>6. Above(x) \subseteq S
  <2> HIDE DEF S
  <2> QED BY <1>4, <1>5, ReachedLeast DEF Above
<1> QED BY <1>6

LEMMA ChangeOK ==
    ASSUME GraphInv, NEW x \in Nodes, Change(x)
    PROVE  GraphInv'
<1> DEFINE R == Reached({x} \ dirty, Nodes \ dirty)
<1>1. /\ dirty \subseteq Nodes /\ missed \subseteq Nodes /\ marked \subseteq Nodes
      /\ behind \subseteq Nodes \X Nodes /\ Acyclic /\ propagates \in BOOLEAN
      /\ place \in 1 .. NodeCount + 1
      /\ phase = "compute" => place \in Nodes /\ Order[place] \in dirty
      /\ phase # "compute" => place = 1
  BY DEF GraphInv, GraphTypes, Change
<1>2. /\ depends' = depends /\ propagates' = propagates /\ missed' = missed
      /\ place' = place /\ phase' = phase
      /\ dirty' = Marked(x) /\ behind' = behind \cup (Above(x) \X {x})
  BY DEF Change
<1>3. /\ \A n : Above(n)' = Above(n)
      /\ Order' = Order /\ Acyclic'
  BY <1>1, <1>2, SameGraph
<1>4. \A K : AboveSome(K)' = AboveSome(K)
  BY <1>3 DEF AboveSome
<1>5. /\ R \subseteq Above(x) /\ {x} \ dirty \subseteq R
      /\ Above(x) \subseteq Nodes /\ x \in Above(x)
  BY <1>1, AboveType, ReachedStart, ReachedIsAbove
<1>6. /\ dirty \subseteq dirty' /\ dirty' \subseteq dirty \cup Above(x)
      /\ x \in dirty' /\ (propagates => dirty' = dirty \cup R)
  BY <1>2, <1>5 DEF Marked
<1>7. /\ marked \subseteq marked' /\ marked' \subseteq Nodes
      /\ \A j \in Nodes : phase = "compute" /\ j <= place /\ x = Order[j] => x \in marked'
  <2>1. \A j \in Nodes : j <= place => j \in 1 .. place
    BY <1>1, NodesAreNat
  <2> QED BY <1>1, <2>1 DEF Change, Computing
<1>8. \A i \in Nodes : phase = "compute" /\ i <= place /\ Order[i] \in Above(x) => x \in marked'
  <2> SUFFICES ASSUME NEW i \in Nodes, phase = "compute", i <= place, Order[i] \in Above(x)
               PROVE  x \in marked'
    OBVIOUS
  <2>1. PICK j \in Nodes : Order[j] = x
    BY <1>1, OrderParts
  <2>2. j <= i
    BY <1>1, <2>1, AboveIsLater
  <2>3. j <= place
    BY <1>1, <2>2, NodesAreNat
  <2> QED BY <1>7, <2>1, <2>3
<1>9. GraphTypes'
  BY <1>1, <1>2, <1>3, <1>5, <1>6, <1>7 DEF GraphTypes
<1>10. DirtIsClosed'
  <2> SUFFICES ASSUME propagates, NEW n \in Nodes \ dirty', depends[n] \cap dirty' # {}
               PROVE  n \in AboveSome(missed)
    BY <1>2, <1>4 DEF DirtIsClosed
  <2>1. n \in (Nodes \ dirty) \cap Nodes /\ n \notin R
    BY <1>6
  <2>2. depends[n] \cap R = {}
    <3> HIDE DEF R
    <3> QED BY <2>1, ReachedClosed DEF R
  <2>3. depends[n] \cap dirty # {}
    BY <1>6, <2>2
  <2> QED BY <2>1, <2>3 DEF GraphInv, DirtIsClosed
<1>11. CleanExplained'
  <2> SUFFICES ASSUME NEW n \in Nodes \ dirty', NEW m \in Nodes, <<n, m>> \in behind'
               PROVE  n \in AboveSome(missed) \/ (n \in Above(m) /\ ~propagates /\ m # n)
    BY <1>2, <1>3, <1>4 DEF CleanExplained, Explained
  <2>1. CASE <<n, m>> \in behind
    BY <1>6, <2>1 DEF GraphInv, CleanExplained, Explained
  <2>2. CASE m = x /\ n \in Above(x) /\ propagates
    BY <1>2, <2>2, ChangeReaches DEF GraphInv
  <2>3. CASE m = x /\ n \in Above(x) /\ ~propagates
    BY <1>6, <2>3
  <2> QED BY <1>1, <1>2, <2>1, <2>2, <2>3
<1>12. PassedExplained'
  <2> SUFFICES ASSUME NEW i \in Nodes, i < place, Order[i] \in dirty'
               PROVE  Order[i] \in AboveSome(marked')
    BY <1>2, <1>3, <1>4 DEF PassedExplained
  <2>1. AboveSome(marked) \subseteq AboveSome(marked')
    BY <1>7, AboveSomeMore
  <2>2. CASE Order[i] \in dirty
    BY <2>1, <2>2 DEF GraphInv, PassedExplained
  <2>3. CASE Order[i] \in Above(x)
    <3>1. i \in Nat /\ 1 <= i /\ place \in Nat
      BY <1>1, NodesAreNat
    <3>0. phase = "compute" /\ i <= place
      BY <1>1, <3>1
    <3>2. x \in marked' /\ Order[i] \in Nodes
      BY <1>5, <1>8, <2>3, <3>0
    <3> QED BY <2>3, <3>2 DEF AboveSome
  <2> QED BY <1>6, <2>2, <2>3
<1>13. ComputedExplained'
  <2> SUFFICES ASSUME phase = "compute", NEW m \in Nodes, <<Order[place], m>> \in behind'
               PROVE  \/ Order[place] \in AboveSome(missed \cup marked')
                      \/ Order[place] \in Above(m) /\ ~propagates /\ m # Order[place]
    BY <1>2, <1>3, <1>4 DEF ComputedExplained, Explained
  <2>1. AboveSome(missed \cup marked) \subseteq AboveSome(missed \cup marked')
    BY <1>7, AboveSomeMore
  <2>2. CASE <<Order[place], m>> \in behind
    BY <2>1, <2>2 DEF GraphInv, ComputedExplained, Explained
  <2>3. CASE m = x /\ Order[place] \in Above(x)
    <3>0. place \in Nodes /\ Order[place] \in Nodes
      BY <1>1
    <3>1. place \in Nodes /\ place <= place /\ Order[place] \in Nodes
      BY <3>0, NodesAreNat
    <3>2. x \in marked'
      BY <1>8, <2>3, <3>1
    <3> QED BY <2>3, <3>1, <3>2 DEF AboveSome
  <2> QED BY <1>2, <2>2, <2>3
<1> QED BY <1>9, <1>10, <1>11, <1>12, <1>13 DEF GraphInv

(* A node is computed from nodes before it, which were computed or are     *)
(* explained.                                                              *)
LEMMA BeginComputeOK ==
    ASSUME GraphInv, BeginCompute
    PROVE  GraphInv'
<1> DEFINE n == Order[place]
<1>1. /\ dirty \subseteq Nodes /\ missed \subseteq Nodes /\ marked \subseteq Nodes
      /\ behind \subseteq Nodes \X Nodes /\ Acyclic /\ propagates \in BOOLEAN
      /\ place \in 1 .. NodeCount + 1
  BY DEF GraphInv, GraphTypes
<1>2. /\ depends' = depends /\ propagates' = propagates /\ missed' = missed
      /\ place' = place /\ phase' = "compute" /\ dirty' = dirty /\ marked' = marked
      /\ place <= NodeCount /\ n \in dirty
      /\ behind' = {p \in behind : p[1] # n}
            \cup {<<n, m>> : m \in {m \in Nodes : \E d \in depends[n] : <<d, m>> \in behind}}
  BY DEF BeginCompute
<1>3. /\ \A k : Above(k)' = Above(k)
      /\ Order' = Order /\ Acyclic'
  BY <1>1, <1>2, SameGraph
<1>4. \A K : AboveSome(K)' = AboveSome(K)
  BY <1>3 DEF AboveSome
<1>5. place \in Nodes /\ n \in Nodes /\ depends \in [Nodes -> SUBSET Nodes]
  <2>1. NodeCount \in Nat /\ Nodes = 1 .. NodeCount
    BY NodesAreNat
  <2>2. place \in Nodes
    BY <1>1, <1>2, <2>1
  <2> QED BY <1>1, <1>2, <2>2 DEF Acyclic
<1>6. GraphTypes'
  <2>1. behind' \subseteq Nodes \X Nodes
    <3> HIDE DEF n
    <3> QED BY <1>1, <1>2, <1>5
  <2> QED BY <1>1, <1>2, <1>3, <1>5, <2>1 DEF GraphTypes
<1>7. DirtIsClosed' /\ PassedExplained'
  BY <1>2, <1>3, <1>4 DEF GraphInv, DirtIsClosed, PassedExplained
<1>8. CleanExplained'
  <2> SUFFICES ASSUME NEW k \in Nodes \ dirty, NEW m \in Nodes, <<k, m>> \in behind'
               PROVE  k \in AboveSome(missed) \/ (k \in Above(m) /\ ~propagates /\ m # k)
    BY <1>2, <1>3, <1>4 DEF CleanExplained, Explained
  <2>1. <<k, m>> \in behind
    <3> HIDE DEF n
    <3> QED BY <1>2
  <2> QED BY <2>1 DEF GraphInv, CleanExplained, Explained
<1>9. ComputedExplained'
  <2> SUFFICES ASSUME NEW m \in Nodes, <<n, m>> \in behind'
               PROVE  \/ n \in AboveSome(missed \cup marked)
                      \/ n \in Above(m) /\ ~propagates /\ m # n
    BY <1>2, <1>3, <1>4 DEF ComputedExplained, Explained
  <2>1. PICK d \in depends[n] : <<d, m>> \in behind
    <3> HIDE DEF n
    <3> QED BY <1>2
  <2>2. d \in Nodes
    BY <1>5, <2>1
  <2>3. AboveSome(missed) \subseteq AboveSome(missed \cup marked)
        /\ AboveSome(marked) \subseteq AboveSome(missed \cup marked)
    BY AboveSomeMore
  <2>4. CASE d \in AboveSome(missed)
    BY <1>1, <1>5, <2>3, <2>4, AboveSomeStep
  <2>5. CASE d \notin dirty /\ d \in Above(m) /\ ~propagates
    <3>1. n \in Above(m)
      BY <1>5, <2>5, AboveStep
    <3>2. m # n
      BY <1>1, <1>5, <2>5 DEF Acyclic
    <3> QED BY <2>5, <3>1, <3>2
  <2>6. CASE d \in dirty
    <3>1. PICK i \in Nodes : Order[i] = d
      BY <1>1, <2>2, OrderParts
    <3>2. i < place
      BY <1>1, <1>5, <2>1, <3>1, OrderParts DEF IsOrder
    <3>3. d \in AboveSome(marked)
      BY <2>6, <3>1, <3>2 DEF GraphInv, PassedExplained
    <3> QED BY <1>1, <1>5, <2>3, <3>3, AboveSomeStep
  <2>7. d \in dirty \/ Explained(d, m, missed)
    BY <2>1, <2>2 DEF GraphInv, CleanExplained
  <2> QED BY <2>4, <2>5, <2>6, <2>7 DEF Explained
<1> QED BY <1>6, <1>7, <1>8, <1>9 DEF GraphInv

LEMMA EndComputeOK ==
    ASSUME GraphInv, EndCompute
    PROVE  GraphInv'
<1> DEFINE n == Order[place]
<1>1. /\ dirty \subseteq Nodes /\ missed \subseteq Nodes /\ marked \subseteq Nodes
      /\ behind \subseteq Nodes \X Nodes /\ Acyclic /\ propagates \in BOOLEAN
      /\ place \in Nodes /\ n \in dirty /\ phase = "compute"
  BY DEF GraphInv, GraphTypes, EndCompute, Computing
<1>2. /\ depends' = depends /\ propagates' = propagates /\ behind' = behind
      /\ place' = place + 1 /\ phase' = "pump" /\ dirty' = dirty \ {n} /\ marked' = marked
      /\ missed' = IF \E m \in marked : n \in Above(m) THEN missed \cup {n} ELSE missed
  BY DEF EndCompute
<1>3. /\ \A k : Above(k)' = Above(k)
      /\ Order' = Order /\ Acyclic'
  BY <1>1, <1>2, SameGraph
<1>4. \A K : AboveSome(K)' = AboveSome(K)
  BY <1>3 DEF AboveSome
<1>5. n \in Nodes /\ depends \in [Nodes -> SUBSET Nodes] /\ place + 1 \in 1 .. NodeCount + 1
  <2>1. NodeCount \in Nat /\ Nodes = 1 .. NodeCount
    BY NodesAreNat
  <2>2. place + 1 \in 1 .. NodeCount + 1
    BY <1>1, <2>1
  <2> QED BY <1>1, <2>2 DEF Acyclic
<1>6. /\ missed \subseteq missed' /\ missed' \subseteq Nodes
      /\ AboveSome(missed) \subseteq AboveSome(missed')
      /\ n \in AboveSome(marked) => n \in AboveSome(missed')
  <2>1. missed \subseteq missed' /\ missed' \subseteq Nodes
    BY <1>1, <1>2, <1>5
  <2>2. n \in AboveSome(marked) => n \in missed'
    BY <1>2 DEF AboveSome
  <2>3. n \in Above(n)
    BY <1>5, AboveType
  <2>4. n \in AboveSome(marked) => n \in AboveSome(missed')
    <3> HIDE DEF n
    <3> QED BY <1>5, <2>2, <2>3 DEF AboveSome
  <2> QED BY <2>1, <2>4, AboveSomeMore
<1>7. GraphTypes'
  <2>1. dirty' \subseteq Nodes
    BY <1>1, <1>2
  <2> QED BY <1>1, <1>2, <1>3, <1>5, <1>6, <2>1 DEF GraphTypes
<1>8. DirtIsClosed'
  <2> SUFFICES ASSUME propagates, NEW k \in Nodes \ dirty', depends[k] \cap dirty' # {}
               PROVE  k \in AboveSome(missed')
    BY <1>2, <1>4 DEF DirtIsClosed
  <2>1. PICK d \in depends[k] : d \in dirty
    BY <1>2
  <2>2. CASE k \notin dirty
    <3>1. k \in AboveSome(missed)
      BY <2>1, <2>2 DEF GraphInv, DirtIsClosed
    <3> QED BY <1>6, <3>1
  <2>3. CASE k = n
    <3>1. d \in Nodes
      BY <1>1, <2>1
    <3>2. PICK i \in Nodes : Order[i] = d
      BY <1>1, <3>1, OrderParts
    <3>3. i < place
      BY <1>1, <2>1, <2>3, <3>2, OrderParts DEF IsOrder
    <3>4. d \in AboveSome(marked)
      BY <2>1, <3>2, <3>3 DEF GraphInv, PassedExplained
    <3>5. k \in AboveSome(marked)
      BY <1>1, <2>1, <3>4, AboveSomeStep
    <3> QED BY <1>6, <2>3, <3>5
  <2> QED BY <1>2, <2>2, <2>3
<1>9. CleanExplained'
  <2> SUFFICES ASSUME NEW k \in Nodes \ dirty', NEW m \in Nodes, <<k, m>> \in behind
               PROVE  k \in AboveSome(missed') \/ (k \in Above(m) /\ ~propagates /\ m # k)
    BY <1>2, <1>3, <1>4 DEF CleanExplained, Explained
  <2>1. CASE k \notin dirty
    BY <1>6, <2>1 DEF GraphInv, CleanExplained, Explained
  <2>2. CASE k = n
    <3>1. Explained(n, m, missed \cup marked)
      BY <1>1, <2>2 DEF GraphInv, ComputedExplained
    <3>2. AboveSome(missed \cup marked) \subseteq AboveSome(missed) \cup AboveSome(marked)
      BY DEF AboveSome
    <3> HIDE DEF n
    <3> QED BY <1>6, <2>2, <3>1, <3>2 DEF Explained
  <2> QED BY <1>2, <2>1, <2>2
<1>10. PassedExplained'
  <2> SUFFICES ASSUME NEW i \in Nodes, i < place + 1, Order[i] \in dirty'
               PROVE  Order[i] \in AboveSome(marked)
    BY <1>2, <1>3, <1>4 DEF PassedExplained
  <2>1. i # place /\ Order[i] \in dirty
    BY <1>2
  <2>2. i < place
    BY <1>1, <2>1, NodesAreNat
  <2> QED BY <2>1, <2>2 DEF GraphInv, PassedExplained
<1>11. ComputedExplained'
  BY <1>2 DEF ComputedExplained
<1> QED BY <1>7, <1>8, <1>9, <1>10, <1>11 DEF GraphInv

(* A step of the pump that changes no node: the next node, or the end.     *)
LEMMA PumpOK ==
    ASSUME GraphInv, SkipNode \/ ComputeRaises \/ EndPump \/ (\E admit \in BOOLEAN : BeginPump(admit))
    PROVE  GraphInv'
<1>1. /\ dirty \subseteq Nodes /\ missed \subseteq Nodes /\ marked \subseteq Nodes
      /\ behind \subseteq Nodes \X Nodes /\ Acyclic /\ propagates \in BOOLEAN
      /\ place \in 1 .. NodeCount + 1
      /\ phase = "compute" => place \in Nodes /\ Order[place] \in dirty
  BY DEF GraphInv, GraphTypes
<1>2. /\ depends' = depends /\ propagates' = propagates /\ missed' = missed /\ dirty' = dirty
      /\ marked' \subseteq Nodes /\ phase' # "compute"
      /\ phase' \notin {"pump", "compute"} => place' = 1
      /\ \/ behind' = behind
         \/ phase = "compute" /\ behind' = behind \cup ({Order[place]} \X Nodes)
      /\ \/ place' = 1
         \/ place' = place + 1 /\ place <= NodeCount /\ Order[place] \notin dirty
            /\ marked' = marked
  BY <1>1 DEF SkipNode, ComputeRaises, EndPump, EndUpdate, BeginPump, Computing, pipeVars
<1>3. /\ \A k : Above(k)' = Above(k)
      /\ Order' = Order /\ Acyclic'
  BY <1>1, <1>2, SameGraph
<1>4. \A K : AboveSome(K)' = AboveSome(K)
  BY <1>3 DEF AboveSome
<1>5. /\ behind' \subseteq Nodes \X Nodes
      /\ \A k \in Nodes \ dirty : \A m \in Nodes : <<k, m>> \in behind' => <<k, m>> \in behind
  BY <1>1, <1>2
<1>6. place' \in 1 .. NodeCount + 1
  BY <1>1, <1>2, NodesAreNat
<1>7. GraphTypes'
  BY <1>1, <1>2, <1>3, <1>5, <1>6 DEF GraphTypes
<1>8. DirtIsClosed' /\ ComputedExplained'
  BY <1>2, <1>3, <1>4 DEF GraphInv, DirtIsClosed, ComputedExplained
<1>9. CleanExplained'
  <2> SUFFICES ASSUME NEW k \in Nodes \ dirty, NEW m \in Nodes, <<k, m>> \in behind
               PROVE  k \in AboveSome(missed) \/ (k \in Above(m) /\ ~propagates /\ m # k)
    BY <1>2, <1>3, <1>4, <1>5 DEF CleanExplained, Explained
  <2> QED BY DEF GraphInv, CleanExplained, Explained
<1>10. PassedExplained'
  <2>1. CASE place' = 1
    <3>1. \A i \in Nodes : ~(i < 1)
      BY NodesAreNat
    <3> QED BY <2>1, <3>1 DEF PassedExplained
  <2>2. CASE place' = place + 1 /\ Order[place] \notin dirty /\ marked' = marked
    <3> SUFFICES ASSUME NEW i \in Nodes, i < place + 1, Order[i] \in dirty
                 PROVE  Order[i] \in AboveSome(marked)
      BY <1>2, <1>3, <1>4, <2>2 DEF PassedExplained
    <3>1. i # place
      BY <2>2
    <3>2. i < place
      BY <1>1, <3>1, NodesAreNat
    <3> QED BY <3>2 DEF GraphInv, PassedExplained
  <2> QED BY <1>2, <2>1, <2>2
<1> QED BY <1>7, <1>8, <1>9, <1>10 DEF GraphInv

(* A step of the pipeline leaves the graph alone.                          *)
LEMMA PipelineOK ==
    ASSUME GraphInv,
           \/ \E admit \in BOOLEAN : BeginUpdate(admit)
           \/ Publish \/ NextEvent \/ HandlerEnds \/ Flush
           \/ UNCHANGED updateVars
    PROVE  GraphInv'
<1>1. /\ dirty \subseteq Nodes /\ marked \subseteq Nodes /\ Acyclic
      /\ phase \notin {"pump", "compute"} => place = 1
  BY DEF GraphInv, GraphTypes
<1>2. /\ depends' = depends /\ propagates' = propagates /\ missed' = missed /\ dirty' = dirty
      /\ behind' = behind /\ marked' \subseteq Nodes
      /\ place' = place
      /\ \/ marked' = marked
         \/ place = 1
      /\ \/ phase' = phase /\ marked' = marked
         \/ phase' \notin {"pump", "compute"} /\ place = 1
  <2>1. CASE \E admit \in BOOLEAN : BeginUpdate(admit)
    BY <1>1, <2>1 DEF BeginUpdate, graphVars
  <2>2. CASE Publish
    BY <1>1, <2>2 DEF Publish, graphVars
  <2>3. CASE NextEvent
    BY <1>1, <2>3 DEF NextEvent, Stopped, graphVars
  <2>4. CASE HandlerEnds
    BY <1>1, <2>4 DEF HandlerEnds, EndUpdate
  <2>5. CASE Flush
    BY <1>1, <2>5 DEF Flush, graphVars
  <2>6. CASE UNCHANGED updateVars
    BY <1>1, <2>6 DEF updateVars, graphVars
  <2> QED BY <2>1, <2>2, <2>3, <2>4, <2>5, <2>6
<1>3. /\ \A k : Above(k)' = Above(k)
      /\ Order' = Order /\ Acyclic'
  BY <1>1, <1>2, SameGraph
<1>4. \A K : AboveSome(K)' = AboveSome(K)
  BY <1>3 DEF AboveSome
<1>5. GraphTypes'
  BY <1>1, <1>2, <1>3 DEF GraphInv, GraphTypes
<1>6. DirtIsClosed'
  BY <1>2, <1>4 DEF GraphInv, DirtIsClosed
<1>7. CleanExplained'
  BY <1>2, <1>3, <1>4 DEF GraphInv, CleanExplained, Explained
<1>8. PassedExplained'
  <2>1. \A i \in Nodes : ~(i < 1)
    BY NodesAreNat
  <2> QED BY <1>2, <1>3, <1>4, <2>1 DEF GraphInv, PassedExplained
<1>9. ComputedExplained'
  BY <1>2, <1>3, <1>4 DEF GraphInv, ComputedExplained, Explained
<1> QED BY <1>5, <1>6, <1>7, <1>8, <1>9 DEF GraphInv

LEMMA GraphStep == GraphInv /\ [UpdateNext]_updateVars => GraphInv'
<1> SUFFICES ASSUME GraphInv, [UpdateNext]_updateVars PROVE GraphInv'
  OBVIOUS
<1>1. CASE \E n \in Nodes : Change(n)
  BY <1>1, ChangeOK
<1>2. CASE BeginCompute
  BY <1>2, BeginComputeOK
<1>3. CASE EndCompute
  BY <1>3, EndComputeOK
<1>4. CASE SkipNode \/ ComputeRaises \/ EndPump \/ (\E admit \in BOOLEAN : BeginPump(admit))
  BY <1>4, PumpOK
<1>5. CASE \/ \E admit \in BOOLEAN : BeginUpdate(admit)
           \/ Publish \/ NextEvent \/ HandlerEnds \/ Flush
           \/ UNCHANGED updateVars
  BY <1>5, PipelineOK
<1> QED BY <1>1, <1>2, <1>3, <1>4, <1>5 DEF UpdateNext

LEMMA GraphIsCurrent == GraphInv => CleanIsCurrent
<1> SUFFICES ASSUME GraphInv, NEW n \in Nodes \ dirty, NEW m \in Nodes,
                    <<n, m>> \in behind, propagates \/ m = n
             PROVE  \E k \in missed : n \in Above(k)
  BY DEF CleanIsCurrent
<1>1. Explained(n, m, missed)
  BY DEF GraphInv, CleanExplained
<1> QED BY <1>1 DEF Explained, AboveSome

-----------------------------------------------------------------------------
(* Every event that was published is in the one place its fate says and    *)
(* what is handled is handled in the order of publication; a derived value *)
(* that is not dirty is the one its inputs and its dependencies give now,  *)
(* for any graph without cycles, any order of marks and any pumps that     *)
(* stop half-way: ReactiveDependencyGraphRuntime, RecomputeOrchestrator    *)
(* and the event pipelines of runtime_systems.py.                          *)
THEOREM UpdatesAreSafe == UpdateSpec => []UpdatesSafe
<1>1. UpdateInit => EventsInv /\ GraphInv
  BY EventsInit, GraphInit
<1>2. EventsInv /\ GraphInv /\ [UpdateNext]_updateVars => (EventsInv /\ GraphInv)'
  BY EventsStep, GraphStep
<1>3. EventsInv /\ GraphInv => UpdatesSafe
  BY EventsAreAccounted, GraphIsCurrent DEF UpdatesSafe
<1> QED BY <1>1, <1>2, <1>3, PTL DEF UpdateSpec

=============================================================================
