------------------------------ MODULE StateStore ------------------------------
(***************************************************************************)
(* AppStateStore (gui_do/state/app_state_store.py): a state that is        *)
(* patched, its subscribers by key, its selectors, and transactions.       *)
(*                                                                         *)
(* Subscribers are told one after the other and may call the store again   *)
(* before they return, so that calls are nested.  The calls are those of   *)
(* one thread; the keys are those of the initial state, and a selector     *)
(* picks the values of the keys it depends on.                             *)
(***************************************************************************)
EXTENDS Integers, SequencesExt, Functions

CONSTANTS
    StateKeys,   \* the keys of the state
    Values,      \* their values
    Subscribers, \* callbacks of subscribe()
    KeyOf,       \* the key each subscribes to
    Selectors,   \* the selectors, each with one listener
    DependsOn,   \* depends_on of each
    MaxPatches,  \* bound: calls of dispatch() and restore()
    MaxDepth     \* bound: nested calls

ASSUME StoreAssumption ==
    /\ KeyOf \in [Subscribers -> StateKeys]
    /\ DependsOn \in [Selectors -> SUBSET StateKeys]

VARIABLES
    state,       \* _state
    saved,       \* the last snapshot()
    keySubs,     \* _key_subs, lists that change while they are iterated
    cached,      \* _cached of each selector
    batch,       \* _pending_patches, empty without a transaction
    depth,       \* the depth of the open `with` block, 0 without one
    calls,       \* calls of _apply(), restore() and callbacks, innermost first
    known,       \* history: what each subscriber was last told, or could read
                 \* when it subscribed
    patches,     \* calls so far
    passedOver,  \* history: subscribers that a list passed over
    outdated     \* history: a call has told from a copy that was not the state

storeVars == <<state, saved, keySubs, cached, batch, depth, calls, known, patches, passedOver, outdated>>

Missing == {w \in Subscribers : ~Contains(keySubs[KeyOf[w]], w)}

(* The program calls from outside, or in a callback.                       *)
CanCall == IF calls = <<>> THEN TRUE ELSE calls[1].kind = "callback"

Select(s, view) == Restrict(view, DependsOn[s])

-----------------------------------------------------------------------------
(* _apply() under way: the keys that changed, of which the first is being  *)
(* told from place `at` of its list; then the selectors, from place `at`.  *)
(* restore() tells from copies: of the lists, and of the state.            *)
(* Mutant: _apply() tells from a copy too.                                 *)
TellingCopy(keys, new) ==
    [kind |-> "apply", changed |-> keys, keys |-> keys, at |-> 1, list |-> <<>>, copy |-> new]
Telling(keys, new) ==
    [kind |-> "apply", changed |-> keys, keys |-> keys, at |-> 1, list |-> <<>>, copy |-> <<>>]
Restoring(keys, new) ==
    [kind |-> "restore", changed |-> keys, keys |-> keys, at |-> 1,
     list |-> keySubs[Head(keys)], copy |-> new]

ListOf(c) == IF c.kind = "apply" THEN keySubs[Head(c.keys)] ELSE c.list

View(c) == IF c.copy = <<>> THEN state ELSE c.copy

(* A state that restore() replaces is what calls at their selectors go on  *)
(* with: their view is of that dict.                                       *)
Frozen ==
    [i \in DOMAIN calls |->
        IF calls[i].kind = "apply" /\ calls[i].keys = <<>>
        THEN [calls[i] EXCEPT !.kind = "frozen", !.copy = state] ELSE calls[i]]

(* restore(), or a view that it froze, goes on with a copy although the    *)
(* state has changed.                                                      *)
Copies == {"restore", "frozen"}
Outdates ==
    outdated' = (outdated \/ \E i \in DOMAIN calls' :
                                calls'[i].kind \in Copies /\ calls'[i].copy # state')

Changed(patch) == SetToSeq({k \in DOMAIN patch : state[k] # patch[k]})

Apply(patch, under) ==
    /\ state' = [k \in StateKeys |-> IF k \in DOMAIN patch THEN patch[k] ELSE state[k]]
    /\ calls' = IF Changed(patch) = <<>> THEN under ELSE <<Telling(Changed(patch), state')>> \o under

DispatchPatch(patch) ==
    /\ CanCall /\ patches < MaxPatches /\ Len(calls) < MaxDepth
    /\ patches' = patches + 1
    /\ IF depth = 0
       THEN Apply(patch, calls) /\ UNCHANGED batch
       ELSE batch' = Append(batch, patch) /\ UNCHANGED <<state, calls>>
    /\ Outdates
    /\ UNCHANGED <<saved, keySubs, cached, depth, known, passedOver>>

Snapshot ==
    /\ CanCall /\ saved # state
    /\ saved' = state
    /\ UNCHANGED <<state, keySubs, cached, batch, depth, calls, known, patches, passedOver, outdated>>

RestoreState ==
    /\ CanCall /\ patches < MaxPatches /\ Len(calls) < MaxDepth
    /\ patches' = patches + 1
    /\ state' = saved
    /\ calls' = <<Restoring(SetToSeq(StateKeys), saved)>> \o Frozen
    /\ Outdates
    /\ UNCHANGED <<saved, keySubs, cached, batch, depth, known, passedOver>>

BeginTransaction ==
    /\ CanCall /\ depth = 0 /\ patches < MaxPatches
    /\ depth' = Len(calls) + 1
    /\ UNCHANGED <<state, saved, keySubs, cached, batch, calls, known, patches, passedOver, outdated>>

(* The patches are merged, the later over the earlier.                     *)
Merged == FoldLeft(LAMBDA m, p : p @@ m, <<>>, batch)

EndTransaction(commit) ==
    /\ CanCall /\ depth = Len(calls) + 1
    /\ batch' = <<>> /\ depth' = 0
    /\ IF commit /\ batch # <<>> THEN Apply(Merged, calls) ELSE UNCHANGED <<state, calls>>
    /\ Outdates
    /\ UNCHANGED <<saved, keySubs, cached, known, patches, passedOver>>

SubscribeKey(w) ==
    /\ CanCall
    /\ w \in Missing
    /\ keySubs' = [keySubs EXCEPT ![KeyOf[w]] = Append(@, w)]
    /\ known' = [known EXCEPT ![w] = state[KeyOf[w]]]
    /\ passedOver' = passedOver \ {w}
    /\ UNCHANGED <<state, saved, cached, batch, depth, calls, patches, outdated>>

(* Every _apply() that is past the subscriber in its list now passes over  *)
(* the one that moves up.                                                  *)
UnsubscribeKey(w) ==
    LET k == KeyOf[w]
        list == keySubs[k]
        past == {i \in DOMAIN calls :
                    /\ calls[i].kind = "apply" /\ calls[i].keys # <<>> /\ Head(calls[i].keys) = k
                    /\ calls[i].at \in DOMAIN list
                    /\ w \in ToSet(SubSeq(list, 1, calls[i].at - 1))}
    IN
    /\ CanCall
    /\ w \notin Missing
    /\ keySubs' = [keySubs EXCEPT ![k] = Remove(@, w)]
    /\ passedOver' = passedOver \cup {list[calls[i].at] : i \in past}
    /\ UNCHANGED <<state, saved, cached, batch, depth, calls, known, patches, outdated>>

-----------------------------------------------------------------------------
Callback(c) == <<[kind |-> "callback"], c>> \o Tail(calls)

TellSubscriber ==
    /\ calls # <<>> /\ calls[1].kind # "callback" /\ calls[1].keys # <<>>
    /\ LET c    == calls[1]
           k    == Head(c.keys)
           rest == Tail(c.keys)
       IN IF c.at <= Len(ListOf(c))
          THEN /\ known' = [known EXCEPT ![ListOf(c)[c.at]] = View(c)[k]]
               /\ passedOver' = passedOver \ {ListOf(c)[c.at]}
               /\ calls' = Callback([c EXCEPT !.at = @ + 1])
          ELSE /\ calls' = <<[c EXCEPT !.keys = rest, !.at = 1,
                                       !.list = IF c.kind = "restore" /\ rest # <<>>
                                                THEN keySubs[Head(rest)] ELSE <<>>]>> \o Tail(calls)
               /\ UNCHANGED <<known, passedOver>>
    /\ UNCHANGED <<state, saved, keySubs, cached, batch, depth, patches, outdated>>

(* _update() of each selector in turn; its listener is called when what it *)
(* picks has changed.                                                      *)
TellSelector ==
    /\ calls # <<>> /\ calls[1].kind # "callback" /\ calls[1].keys = <<>>
    /\ LET c    == calls[1]
           next == [c EXCEPT !.at = @ + 1]
       IN IF c.at > Len(SetToSeq(Selectors))
          THEN calls' = Tail(calls) /\ UNCHANGED cached
          ELSE LET s   == SetToSeq(Selectors)[c.at]
                   new == Select(s, View(c))
               IN IF DependsOn[s] \cap ToSet(c.changed) # {} /\ new # cached[s]
                  THEN cached' = [cached EXCEPT ![s] = new] /\ calls' = Callback(next)
                  ELSE UNCHANGED cached /\ calls' = <<next>> \o Tail(calls)
    /\ UNCHANGED <<state, saved, keySubs, batch, depth, known, patches, passedOver, outdated>>

(* The block of a `with` in a callback ends in the callback.               *)
CallbackReturns ==
    /\ calls # <<>> /\ calls[1].kind = "callback"
    /\ depth # Len(calls) + 1
    /\ calls' = Tail(calls)
    /\ UNCHANGED <<state, saved, keySubs, cached, batch, depth, known, patches, passedOver, outdated>>

StoreInit ==
    /\ \E v \in Values : state = [k \in StateKeys |-> v]
    /\ saved = state
    /\ keySubs = [k \in StateKeys |-> SetToSeq({w \in Subscribers : KeyOf[w] = k})]
    /\ cached = [s \in Selectors |-> Select(s, state)]
    /\ batch = <<>> /\ depth = 0
    /\ calls = <<>>
    /\ known = [w \in Subscribers |-> state[KeyOf[w]]]
    /\ patches = 0 /\ passedOver = {} /\ outdated = FALSE

StoreNext ==
    \/ \E changed \in SUBSET StateKeys \ {{}} : \E patch \in [changed -> Values] : DispatchPatch(patch)
    \/ Snapshot
    \/ RestoreState
    \/ BeginTransaction
    \/ \E commit \in BOOLEAN : EndTransaction(commit)
    \/ \E w \in Subscribers : SubscribeKey(w) \/ UnsubscribeKey(w)
    \/ TellSubscriber
    \/ TellSelector
    \/ CallbackReturns

StoreSpec == StoreInit /\ [][StoreNext]_storeVars

-----------------------------------------------------------------------------
StoreTypeOK ==
    /\ {state, saved} \subseteq [StateKeys -> Values]
    /\ known \in [Subscribers -> Values]
    /\ \A s \in Selectors : cached[s] \in [DependsOn[s] -> Values]
    /\ depth \in 0 .. Len(calls) + 1
    /\ depth = 0 => batch = <<>>

(* When the outermost call returns, whatever was dispatched, restored,     *)
(* committed, subscribed and unsubscribed in the callbacks, the selectors  *)
(* have the values of the state, and every subscriber knows that of its    *)
(* key: unless its list passed over it, or a call told from a copy that    *)
(* had become stale.                                                       *)
StoreSafe ==
    calls = <<>> /\ ~outdated =>
        /\ \A s \in Selectors : cached[s] = Select(s, state)
        /\ \A w \in Subscribers \ (Missing \cup passedOver) : known[w] = state[KeyOf[w]]
=============================================================================
