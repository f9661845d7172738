---------------------------- MODULE ReactiveValues ----------------------------
(***************************************************************************)
(* ObservableValue and ComputedValue (gui_do/data/presentation_model.py)   *)
(* and reactive_batch() (gui_do/data/reactive_batch.py).                   *)
(*                                                                         *)
(* Observers are told one after the other, and may assign values, open     *)
(* batches, subscribe, unsubscribe and raise.  A computed value finds the  *)
(* values it depends on when it is computed; this one reads Second only if *)
(* First is not Off.                                                       *)
(***************************************************************************)
EXTENDS Integers, SequencesExt

CONSTANTS
    First, Second, \* the observable values
    Off,           \* a value of First
    Contents,      \* the values that they may have
    Observers,     \* the program's observers
    OfComputed,    \* those that subscribe to the computed value, the others to First
    Computed,      \* the computed value
    MaxAssigned,   \* bound: assignments
    MaxBlocks,     \* bound: batches
    MaxRaised      \* bound: exceptions

Observables == {First, Second}

ASSUME ReactiveAssumption ==
    /\ First # Second /\ Computed \notin Observables \cup Observers
    /\ OfComputed \subseteq Observers
    /\ {MaxAssigned, MaxBlocks, MaxRaised} \subseteq Nat

Observed(w) == IF w \in OfComputed THEN Computed ELSE First

VARIABLES
    content,     \* _value of each observable
    listeners,   \* _observers of each, and of the computed value
    result,      \* _cached, <<>> while it is _dirty
    batchDepth,  \* _batch_depth
    unsent,      \* _pending
    active,      \* notifications, callbacks, batches and flushes, innermost first
    aware,       \* history: what each observer was last told
    unheard,     \* history: values of which somebody was not told
    broken,      \* history: an exception left a flush
    spent       \* assignments, batches and exceptions so far

reactiveVars == <<content, listeners, result, batchDepth, unsent, active, aware,
                  unheard, broken, spent>>

Frame(kind, of, todo) == [kind |-> kind, of |-> of, todo |-> todo]
Notify(x) == Frame("notify", x, listeners[x])

(* The program is running: between calls, in a callback or in a batch.     *)
Running == IF active = <<>> THEN TRUE ELSE active[1].kind \in {"callback", "block"}
Spend(what, limit) == spent[what] < limit /\ spent' = [spent EXCEPT ![what] = @ + 1]

-----------------------------------------------------------------------------
(* The value setter; a batch notes the observable, once.                   *)
Assign(x, v) ==
    /\ Running /\ v # content[x]
    /\ Spend("assigned", MaxAssigned)
    /\ content' = [content EXCEPT ![x] = v]
    /\ IF batchDepth > 0
       THEN /\ unsent' = IF Contains(unsent, x) THEN unsent ELSE Append(unsent, x)
            /\ UNCHANGED active
       ELSE active' = <<Notify(x)>> \o active /\ UNCHANGED unsent
    /\ UNCHANGED <<listeners, result, batchDepth, aware, unheard, broken>>

ReadBy(c) == IF c[First] = Off THEN {First} ELSE Observables
ResultOf(c) == IF c[First] = Off THEN <<Off>> ELSE <<c[First], c[Second]>>

(* _evaluate(): what is read is a dependency, if it is not one already.    *)
(* Mutant: dependencies are found at the first evaluation only.            *)
TrackedOnce(x) == result = <<>> /\ x \in ReadBy(content)
Tracked(x)     == x \in ReadBy(content)

Evaluate ==
    /\ result' = ResultOf(content)
    /\ listeners' = [x \in DOMAIN listeners |->
                        IF x \in Observables /\ Tracked(x) /\ ~Contains(listeners[x], Computed)
                        THEN Append(listeners[x], Computed) ELSE listeners[x]]

(* The first read of the computed value; later ones find it computed.      *)
ReadComputed ==
    /\ Running /\ result = <<>>
    /\ Evaluate
    /\ UNCHANGED <<content, batchDepth, unsent, active, aware, unheard, broken, spent>>

(* _notify_observers() and _on_dep_changed(): the next one in the copy of  *)
(* the list, which is told the value of the moment.                        *)
TellNext ==
    /\ active # <<>> /\ active[1].kind = "notify"
    /\ LET c    == active[1]
           next == <<[c EXCEPT !.todo = Tail(@)]>> \o Tail(active)
       IN IF c.todo = <<>>
          THEN active' = Tail(active) /\ UNCHANGED <<listeners, result, aware>>
          ELSE IF Head(c.todo) = Computed
          THEN /\ Evaluate
               /\ active' = <<Notify(Computed)>> \o next
               /\ UNCHANGED aware
          ELSE /\ active' = <<Frame("callback", c.of, <<>>)>> \o next
               /\ aware' = IF c.of = Computed THEN aware
                           ELSE [aware EXCEPT ![Head(c.todo)] = content[c.of]]
               /\ UNCHANGED <<listeners, result>>
    /\ UNCHANGED <<content, batchDepth, unsent, unheard, broken, spent>>

ObserverReturns ==
    /\ active # <<>> /\ active[1].kind = "callback"
    /\ active' = Tail(active)
    /\ UNCHANGED <<content, listeners, result, batchDepth, unsent, aware, unheard, broken, spent>>

-----------------------------------------------------------------------------
BeginBatch ==
    /\ Running
    /\ Spend("blocks", MaxBlocks)
    /\ batchDepth' = batchDepth + 1
    /\ active' = <<Frame("block", Computed, <<>>)>> \o active
    /\ UNCHANGED <<content, listeners, result, unsent, aware, unheard, broken>>

EndBatch ==
    /\ active # <<>> /\ active[1].kind = "block"
    /\ batchDepth' = batchDepth - 1
    /\ active' = IF batchDepth' = 0 THEN <<Frame("flush", Computed, <<>>)>> \o Tail(active)
                 ELSE Tail(active)
    /\ UNCHANGED <<content, listeners, result, unsent, aware, unheard, broken, spent>>

(* _flush(): what has been noted, and what was noted meanwhile.            *)
FlushBatch ==
    /\ active # <<>> /\ active[1].kind = "flush"
    /\ LET c == active[1] IN
       IF c.todo # <<>>
       THEN /\ active' = <<Notify(Head(c.todo)), [c EXCEPT !.todo = Tail(@)]>> \o Tail(active)
            /\ UNCHANGED unsent
       ELSE /\ active' = IF unsent = <<>> THEN Tail(active)
                         ELSE <<[c EXCEPT !.todo = unsent]>> \o Tail(active)
            /\ unsent' = <<>>
    /\ UNCHANGED <<content, listeners, result, batchDepth, aware, unheard, broken, spent>>

(* The program raises, and the exception is caught n calls further out.    *)
(* Every batch on the way, and every flush -- of a batch that has been     *)
(* counted down already --, counts down; at 0 what was noted is dropped.   *)
Raise(n) ==
    LET gone   == SubSeq(active, 1, n)
        counts == SelectSeq(gone, LAMBDA c : c.kind \in {"block", "flush"})
        clears == batchDepth \in 1 .. Len(counts)
    IN
    /\ Running /\ n \in DOMAIN active
    /\ IF n = Len(active) THEN TRUE ELSE active[n + 1].kind \in {"callback", "block"}
    /\ Spend("raised", MaxRaised)
    /\ active' = SubSeq(active, n + 1, Len(active))
    /\ batchDepth' = batchDepth - Len(counts)
    /\ unsent' = IF clears THEN <<>> ELSE unsent
    /\ unheard' = unheard \cup (IF clears THEN ToSet(unsent) ELSE {})
                          \cup {gone[i].of : i \in {i \in 1 .. n : gone[i].kind = "notify"}}
                          \cup UNION {ToSet(gone[i].todo) : i \in {i \in 1 .. n : gone[i].kind = "flush"}}
    /\ broken' = (broken \/ \E i \in 1 .. n : gone[i].kind = "flush")
    /\ UNCHANGED <<content, listeners, result, aware>>

SubscribeTo(w) ==
    LET x == Observed(w) IN
    /\ Running /\ ~Contains(listeners[x], w)
    /\ listeners' = [listeners EXCEPT ![x] = Append(@, w)]
    /\ aware' = IF x = Computed THEN aware ELSE [aware EXCEPT ![w] = content[x]]
    /\ UNCHANGED <<content, result, batchDepth, unsent, active, unheard, broken, spent>>

UnsubscribeFrom(w) ==
    /\ Running /\ Contains(listeners[Observed(w)], w)
    /\ listeners' = [listeners EXCEPT ![Observed(w)] = Remove(@, w)]
    /\ UNCHANGED <<content, result, batchDepth, unsent, active, aware, unheard, broken, spent>>

ReactiveInit ==
    /\ content = [x \in Observables |-> Off]
    /\ listeners = [x \in Observables \cup {Computed} |->
                       SetToSeq({w \in Observers : Observed(w) = x})]
    /\ result = <<>> /\ batchDepth = 0 /\ unsent = <<>> /\ active = <<>>
    /\ aware = [w \in Observers |-> Off]
    /\ unheard = {} /\ broken = FALSE
    /\ spent = [assigned |-> 0, blocks |-> 0, raised |-> 0]

ReactiveNext ==
    \/ \E x \in Observables, v \in Contents : Assign(x, v)
    \/ ReadComputed
    \/ TellNext
    \/ ObserverReturns
    \/ BeginBatch
    \/ EndBatch
    \/ FlushBatch
    \/ \E n \in DOMAIN active : Raise(n)
    \/ \E w \in Observers : SubscribeTo(w) \/ UnsubscribeFrom(w)

ReactiveSpec == ReactiveInit /\ [][ReactiveNext]_reactiveVars

-----------------------------------------------------------------------------
ReactiveTypeOK ==
    /\ content \in [Observables -> Contents]
    /\ aware \in [Observers -> Contents]
    /\ IsInjective(unsent) /\ ToSet(unsent) \subseteq Observables
    /\ batchDepth \in -MaxBlocks .. MaxBlocks
    /\ \A x \in DOMAIN listeners : IsInjective(listeners[x])

(* No observer is told anything while a batch is open: a notification      *)
(* comes from a batch only when the outermost one ends.                    *)
OnlyAtExit ==
    \A i, j \in DOMAIN active : i < j /\ active[i].kind = "notify" => active[j].kind # "block"

(* When no call is under way, the observers know the value that they       *)
(* observe and the computed value is that of its dependencies, also those  *)
(* it had not read before, whatever was assigned, batched and subscribed   *)
(* in callbacks; apart from what an exception has kept from them.  And     *)
(* batches hold notifications back until an exception leaves a flush.      *)
ReactiveSafe ==
    /\ ~broken => OnlyAtExit
    /\ active = <<>> =>
          /\ unsent = <<>>
          /\ \A x \in Observables \ unheard, w \in Observers :
                Contains(listeners[x], w) => aware[w] = content[x]
          /\ result # <<>> /\ Observables \cap unheard = {} => result = ResultOf(content)
=============================================================================
