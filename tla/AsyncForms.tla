------------------------------ MODULE AsyncForms ------------------------------
(***************************************************************************)
(* AsyncFormValidator and its AsyncFieldValidators                         *)
(* (gui_do/forms/async_form_validator.py): a field that changes is checked *)
(* by rules at once, and by a function in a thread of its own when it has  *)
(* been left alone for a while.                                            *)
(*                                                                         *)
(* The answers of the threads come at any time and in any order into one   *)
(* slot for each field, which an update empties.  The observers of the     *)
(* validators are the program's code and may change the fields again.      *)
(***************************************************************************)
EXTENDS Integers, FiniteSets

CONSTANTS
    Fields,       \* 1 .. how many validators the form has, in their order
    FieldValues,  \* values of a field
    Malformed,    \* those the local rules refuse
    Taken,        \* those the function refuses
    Debounce,     \* updates before a check is made
    MaxEdits      \* bound: changes of fields

(* The validators are numbered in the order in which they were added.      *)
Numbered(S) == S = 1 .. Cardinality(S)

ASSUME FormsAssumption ==
    /\ {Debounce, MaxEdits, Cardinality(Fields)} \subseteq Nat
    /\ Numbered(Fields)
    /\ Malformed \cup Taken \subseteq FieldValues

VARIABLES
    fieldValue,  \* the value of each field
    localError,  \* fields whose local_error is set
    asyncError,  \* fields whose async_error is set
    validating,  \* fields with is_validating
    anyFlag,     \* is_any_validating
    pendingAsync,\* _time_since_change in updates of the fields with _pending_async
    checkNo,     \* _generation
    threads,     \* checks under way: field, _generation, value
    slot,        \* _result_slot, of the fields that have one: _generation, refused
    turn,        \* the field update() is at, 0 outside
    step,        \* where it is in update() of that validator
    observers,   \* whether observers are being called
    edited,      \* fields that have changed since the start
    closed,      \* whether dispose() was called
    edits        \* changes so far

fieldVars == <<localError, fieldValue, pendingAsync, edited, edits>>
checkVars == <<asyncError, validating, anyFlag, checkNo, threads, slot>>
turnVars  == <<turn, step, observers>>
formVars  == <<fieldVars, checkVars, turnVars, closed>>

Awaiting == DOMAIN pendingAsync
Without(f, x) == [y \in DOMAIN f \ {x} |-> f[y]]
With(f, x, v) == [y \in DOMAIN f \cup {x} |-> IF y = x THEN v ELSE f[y]]

(* is_valid of a field.                                                    *)
Valid(i) == i \notin localError \cup asyncError \cup validating \cup Awaiting

(* The program calls between updates, and in observers.                    *)
ProgramTurn == turn = 0 \/ observers

-----------------------------------------------------------------------------
(* _on_value_changed(), with validate_local().                             *)
Edit(i, v) ==
    /\ ProgramTurn
    /\ edits < MaxEdits /\ edits' = edits + 1
    /\ v # fieldValue[i]
    /\ fieldValue' = [fieldValue EXCEPT ![i] = v]
    /\ edited' = edited \cup {i}
    /\ IF closed THEN UNCHANGED <<localError, pendingAsync>>
       ELSE /\ localError' = IF v \in Malformed THEN localError \cup {i} ELSE localError \ {i}
            /\ pendingAsync' = With(pendingAsync, i, 0)
    /\ UNCHANGED <<checkVars, turnVars, closed>>

(* is_validating changes: _sync_aggregate() and the program are told.      *)
SetValidating(i, on) ==
    /\ validating' = IF on THEN validating \cup {i} ELSE validating \ {i}
    /\ observers' = (validating' # validating)
    /\ anyFlag' = IF observers' /\ ~closed THEN validating' # {} ELSE anyFlag

SetError(i, on) ==
    /\ asyncError' = IF on THEN asyncError \cup {i} ELSE asyncError \ {i}
    /\ observers' = (asyncError' # asyncError)

Go(i, s) == turn' = i /\ step' = s

BeginFormUpdate ==
    /\ turn = 0
    /\ Awaiting # {} \/ DOMAIN slot # {}
    /\ Go(1, "collect")
    /\ UNCHANGED <<fieldVars, checkVars, observers, closed>>

(* _collect_result(): an answer that is not that of the newest check is    *)
(* dropped.                                                                *)
NewestAnswer(i) == slot[i].no = checkNo[i]

CollectResult ==
    /\ step = "collect"
    /\ IF turn \notin DOMAIN slot
       THEN Go(turn, "debounce") /\ UNCHANGED <<checkVars, observers>>
       ELSE /\ slot' = Without(slot, turn)
            /\ UNCHANGED <<asyncError, checkNo, threads>>
            /\ IF NewestAnswer(turn)
               THEN /\ SetValidating(turn, FALSE)
                    /\ Go(turn, IF slot[turn].refused THEN "refused" ELSE "passed")
               ELSE Go(turn, "debounce") /\ UNCHANGED <<validating, anyFlag, observers>>
    /\ UNCHANGED <<fieldVars, closed>>

StoreResult ==
    /\ step \in {"refused", "passed"}
    /\ SetError(turn, step = "refused")
    /\ Go(turn, "debounce")
    /\ UNCHANGED <<fieldVars, validating, anyFlag, checkNo, threads, slot, closed>>

(* The timer; _launch_async_check() reads the value before the observers   *)
(* of is_validating and async_error can change it.                         *)
NextField == IF turn = Cardinality(Fields) THEN Go(0, "") ELSE Go(turn + 1, "collect")

DebounceField ==
    /\ step = "debounce"
    /\ IF turn \notin Awaiting
       THEN /\ NextField /\ observers' = FALSE
            /\ UNCHANGED <<pendingAsync, checkVars>>
       ELSE IF pendingAsync[turn] + 1 < Debounce
       THEN /\ pendingAsync' = [pendingAsync EXCEPT ![turn] = @ + 1]
            /\ NextField /\ observers' = FALSE
            /\ UNCHANGED checkVars
       ELSE /\ pendingAsync' = Without(pendingAsync, turn)
            /\ checkNo' = [checkNo EXCEPT ![turn] = @ + 1]
            /\ threads' = threads \cup {[field |-> turn, no |-> checkNo'[turn],
                                         value |-> fieldValue[turn], started |-> FALSE]}
            /\ SetValidating(turn, TRUE)
            /\ Go(turn, "clear")
            /\ UNCHANGED <<asyncError, slot>>
    /\ UNCHANGED <<localError, fieldValue, edited, edits, closed>>

ClearError ==
    /\ step = "clear"
    /\ SetError(turn, FALSE)
    /\ Go(turn, "start")
    /\ UNCHANGED <<fieldVars, validating, anyFlag, checkNo, threads, slot, closed>>

StartThread ==
    /\ step = "start"
    /\ threads' = {IF t.field = turn THEN [t EXCEPT !.started = TRUE] ELSE t : t \in threads}
    /\ NextField /\ observers' = FALSE
    /\ UNCHANGED <<fieldVars, asyncError, validating, anyFlag, checkNo, slot, closed>>

(* A thread answers, also over the answer of another; a function that      *)
(* raises refuses.                                                         *)
Answer(t) ==
    /\ t.started
    /\ \E raises \in BOOLEAN :
          slot' = With(slot, t.field, [no |-> t.no, refused |-> raises \/ t.value \in Taken])
    /\ threads' = threads \ {t}
    /\ UNCHANGED <<fieldVars, asyncError, validating, anyFlag, checkNo, turnVars, closed>>

(* dispose() of the form.                                                  *)
Close ==
    /\ ProgramTurn
    /\ ~closed /\ closed' = TRUE
    /\ checkNo' = [i \in Fields |-> checkNo[i] + 1]
    /\ UNCHANGED <<fieldVars, asyncError, validating, anyFlag, threads, slot, turnVars>>

FormsInit ==
    /\ \E v \in FieldValues : fieldValue = [i \in Fields |-> v]
    /\ localError = {} /\ asyncError = {} /\ validating = {} /\ anyFlag = FALSE
    /\ pendingAsync = <<>> /\ slot = <<>> /\ threads = {}
    /\ checkNo = [i \in Fields |-> 0]
    /\ turn = 0 /\ step = "" /\ observers = FALSE
    /\ edited = {} /\ closed = FALSE /\ edits = 0

FormsNext ==
    \/ \E i \in Fields, v \in FieldValues : Edit(i, v)
    \/ BeginFormUpdate
    \/ CollectResult
    \/ StoreResult
    \/ DebounceField
    \/ ClearError
    \/ StartThread
    \/ \E t \in threads : Answer(t)
    \/ Close

FormsSpec == FormsInit /\ [][FormsNext]_formVars

-----------------------------------------------------------------------------
FormsTypeOK ==
    /\ fieldValue \in [Fields -> FieldValues]
    /\ localError \cup asyncError \cup validating \cup Awaiting \cup DOMAIN slot \subseteq Fields
    /\ \A i \in Awaiting : pendingAsync[i] \in 0 .. Debounce
    /\ checkNo \in [Fields -> 0 .. MaxEdits + 1]
    /\ turn \in 0 .. Cardinality(Fields)
    /\ {anyFlag, observers, closed} \subseteq BOOLEAN

(* Between updates a field that says it is valid has a value that the      *)
(* rules and the function accept -- whatever was edited meanwhile, also in *)
(* observers, and in whatever order the threads answered --, and the form  *)
(* says that it is validating if one of its fields is.                     *)
FormsSafe ==
    turn = 0 /\ ~closed =>
        /\ \A i \in edited : Valid(i) => fieldValue[i] \notin Malformed \cup Taken
        /\ anyFlag = (validating # {})
=============================================================================
