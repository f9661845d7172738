------------------------------ MODULE EventBus ------------------------------
(***************************************************************************)
(* The scoped publish-subscribe bus of gui_do/events/event_bus.py.         *)
(*                                                                         *)
(* The bus runs on the frame thread only; what makes it hard is that a     *)
(* handler may itself subscribe, unsubscribe, publish or raise while       *)
(* publish() is iterating.  `stack` is the Python call stack: frames of    *)
(* publish() and of the handlers it calls, the innermost first.            *)
(*                                                                         *)
(* A subscription is known by the number of the subscribe() call that      *)
(* made it.  The three dictionaries of lists are one function `lists`,     *)
(* keyed by <<topic, AllSubs>> (_subscribers), <<topic, NoScope>>              *)
(* (_unscoped_subscribers) and <<topic, scope>>                            *)
(* (_scoped_subscribers_by_topic); a missing key is an empty list.         *)
(***************************************************************************)
EXTENDS Integers, SequencesExt, SequenceFilter

CONSTANTS
    Topics,        \* the topics published on
    Scopes,        \* the scope names
    NoScope,       \* scope=None
    AllSubs,       \* names the list of every subscription of a topic
    Handlers,      \* the program's handler functions
    MaxSubs,       \* bound: subscriptions ever made
    MaxNested,     \* bound: publish() calls in progress
    MaxOps         \* bound: bus operations of the program

ASSUME ScopesAssumption == {NoScope, AllSubs} \cap Scopes = {} /\ NoScope # AllSubs

VARIABLES
    info,          \* the Subscription objects ever made
    lists,         \* the lists of subscriptions
    byScope,       \* _subscriptions_by_scope
    snapshots,     \* _subscriber_snapshots; <<>> when the key is missing
    dirty,         \* _snapshot_dirty_topics
    stack,         \* the call stack, innermost frame first
    ops,           \* operations made so far
    ledger,        \* history: the subscriptions made and not yet taken back
    twins          \* history: two equal subscriptions were held at once

busVars == <<info, lists, byScope, snapshots, dirty, ledger, twins>>
eventVars == <<busVars, stack, ops>>

-----------------------------------------------------------------------------
(* Subscriptions and lists.                                                *)

Ids == 1 .. Len(info)
ScopedIn(sc) == {s \in Ids : info[s].scope = sc}

Key == Topics \X (Scopes \cup {NoScope, AllSubs})

(* The lists a subscription belongs in.                                    *)
(* Mutant: those of an unscoped subscription.                              *)
UnscopedKeys(sub) == {<<sub.topic, AllSubs>>, <<sub.topic, NoScope>>}
SubKeys(sub) == {<<sub.topic, AllSubs>>, <<sub.topic, sub.scope>>}
KeysOf(s)    == SubKeys(info[s])

(* Subscription is a frozen dataclass: two of them are equal when topic,   *)
(* handler and scope are.  once() wraps the handler in a closure of its    *)
(* own, which no other subscription shares.                                *)
Equal(a, b) == a = b \/ (info[a] = info[b] /\ ~info[a].once)

(* A set of subscriptions holds one of several equal ones; discard()       *)
(* removes whichever that is.                                              *)
(* Mutant: the subscription stays in its scope's set.                      *)
DiscardNothing(S, s) == S
SetDiscard(S, s)     == {r \in S : ~Equal(r, s)}

(* What a publish() still has to iterate: the live list of a key, or a     *)
(* sequence that no longer changes.                                        *)
Live(k)       == [key |-> k, held |-> <<>>]
Fixed(q)      == [key |-> <<>>, held |-> q]
Contents(ref) == IF ref.key \in Key THEN lists[ref.key] ELSE ref.held

(* The frames after the dictionaries dropped the lists of DOMAIN held: an  *)
(* iteration over such a list goes on over the object it holds.            *)
Detach(frames, held) ==
    [i \in DOMAIN frames |->
        IF frames[i].kind # "publish" THEN frames[i]
        ELSE [frames[i] EXCEPT
                !.todo = [j \in DOMAIN frames[i].todo |->
                    LET k == frames[i].todo[j].key IN
                    IF k \in DOMAIN held THEN Fixed(held[k])
                                         ELSE frames[i].todo[j]]]]

-----------------------------------------------------------------------------
(* The operations, each the whole method.                                  *)

(* subscribe() and once(): `frames` is the stack it is called with.        *)
DoSubscribe(sub, frames) ==
    LET s == Len(info) + 1 IN
    /\ info' = Append(info, sub)
    /\ lists' = [k \in Key |-> IF k \in SubKeys(sub) THEN Append(lists[k], s)
                                                    ELSE lists[k]]
    /\ byScope' =
         IF sub.scope = NoScope THEN byScope
         ELSE [byScope EXCEPT ![sub.scope] =
                 IF \E r \in @ : info[r] = sub /\ ~sub.once THEN @
                                                           ELSE @ \cup {s}]
    /\ dirty' = dirty \cup {sub.topic}
    /\ ledger' = Append(ledger, s)
    /\ twins' = (twins \/ \E i \in DOMAIN ledger :
                              info[ledger[i]] = sub /\ ~sub.once)
    /\ stack' = frames
    /\ UNCHANGED snapshots

(* unsubscribe(s).  When the topic loses its last subscription its         *)
(* unscoped list is dropped before the subscription is taken out of it.    *)
DoUnsubscribe(s, frames) ==
    LET t == info[s].topic
        removed == [k \in Key |-> IF k \in KeysOf(s) THEN Excluding(lists[k], {s})
                                                     ELSE lists[k]]
        last == removed[<<t, AllSubs>>] = <<>>
        gone == {k \in KeysOf(s) : removed[k] = <<>>}
                  \cup (IF last THEN {<<t, NoScope>>} ELSE {}) IN
    /\ UNCHANGED <<info, twins>>
    /\ ledger' = Excluding(ledger, {s})
    /\ IF ~Contains(lists[<<t, AllSubs>>], s)
       THEN stack' = frames /\ UNCHANGED <<lists, byScope, snapshots, dirty>>
       ELSE /\ lists' = [k \in Key |-> IF k \in gone THEN <<>> ELSE removed[k]]
            /\ byScope' = IF info[s].scope = NoScope THEN byScope
                          ELSE [byScope EXCEPT ![info[s].scope] = SetDiscard(@, s)]
            /\ dirty' = dirty \cup {t}
            /\ snapshots' = IF last THEN [snapshots EXCEPT ![t] = <<>>] ELSE snapshots
            /\ stack' = Detach(frames, [k \in gone |->
                            IF last /\ k = <<t, NoScope>> THEN lists[k] ELSE <<>>])

(* unsubscribe_scope(sc): every topic list is rebuilt without the          *)
(* subscriptions the scope's set names, the scope's own lists are dropped. *)
DoUnsubscribeScope(sc, frames) ==
    LET group  == byScope[sc]
        topics == {t \in {info[s].topic : s \in group} : lists[<<t, AllSubs>>] # <<>>}
        kept   == [t \in topics |-> Excluding(lists[<<t, AllSubs>>], group)]
        emptied == {t \in topics : kept[t] = <<>>}
        gone   == {<<t, sc>> : t \in topics} \cup {<<t, NoScope>> : t \in emptied}
        changed == gone \cup {<<t, AllSubs>> : t \in topics} IN
    /\ UNCHANGED <<info, twins>>
    /\ ledger' = Excluding(ledger, ScopedIn(sc))
    /\ byScope' = [byScope EXCEPT ![sc] = {}]
    /\ lists' = [k \in Key |-> IF k \in gone THEN <<>>
                               ELSE IF k \in changed THEN kept[k[1]]
                               ELSE lists[k]]
    /\ dirty' = dirty \cup topics
    /\ snapshots' = [t \in Topics |-> IF t \in emptied THEN <<>> ELSE snapshots[t]]
    /\ stack' = Detach(frames, [k \in changed |-> lists[k]])

(* History: the subscriptions a publish() of topic t in scope sc is for,   *)
(* in the order of delivery, taken from the ledger.                        *)
Addressed(t, sc) ==
    LET Of(scopes) == Including(ledger, {s \in Ids : /\ info[s].topic = t
                                                     /\ info[s].scope \in scopes})
    IN  IF sc = NoScope THEN Of(Scopes \cup {NoScope})
                        ELSE Of({NoScope}) \o Of({sc})

(* Changes with every subscription made or taken back.                     *)
Counts == <<Len(info), Len(ledger)>>

(* What publish() iterates.  Without a scope: the live list of a single   *)
(* subscriber, else a tuple that is rebuilt when the topic is dirty.  With *)
(* a scope: the live unscoped list, then the live list of the scope.       *)
(* Mutant: the tuple is built once.                                        *)
StaleSnapshot(t) == IF snapshots[t] = <<>> THEN lists[<<t, AllSubs>>] ELSE snapshots[t]
Snapshot(t) == IF t \in dirty \/ snapshots[t] = <<>> THEN lists[<<t, AllSubs>>]
                                                     ELSE snapshots[t]
Walk(k) == IF lists[k] = <<>> THEN <<>> ELSE <<Live(k)>>
Todo(t, sc) ==
    IF sc # NoScope THEN Walk(<<t, NoScope>>) \o Walk(<<t, sc>>)
    ELSE IF lists[<<t, AllSubs>>] = <<>> THEN <<>>
    ELSE IF Len(lists[<<t, AllSubs>>]) = 1 THEN <<Live(<<t, AllSubs>>)>>
    ELSE <<Fixed(Snapshot(t))>>

TakesSnapshot(t, sc) == sc = NoScope /\ Len(lists[<<t, AllSubs>>]) > 1

DoPublish(t, sc) ==
    LET todo == Todo(t, sc) IN
    /\ snapshots' = IF TakesSnapshot(t, sc)
                    THEN [snapshots EXCEPT ![t] = Snapshot(t)] ELSE snapshots
    /\ dirty' = IF TakesSnapshot(t, sc) THEN dirty \ {t} ELSE dirty
    /\ stack' = IF todo = <<>> THEN stack
                ELSE <<[kind |-> "publish", topic |-> t, todo |-> todo, at |-> 0,
                        fixed |-> TakesSnapshot(t, sc), addressed |-> Addressed(t, sc),
                        done |-> <<>>, made |-> Counts]>> \o stack
    /\ UNCHANGED <<info, lists, byScope, ledger, twins>>

-----------------------------------------------------------------------------
(* The iteration.                                                          *)

InPublish == stack # <<>> /\ Head(stack).kind = "publish"
Exhausted(f) == f.at >= Len(Contents(Head(f.todo)))

(* publish() calls the next handler, a handler of the program or the one   *)
(* by which a coroutine waits.  once()'s wrapper unsubscribes before it    *)
(* calls the program's handler.                                            *)
Deliver ==
    /\ InPublish
    /\ ~Exhausted(Head(stack))
    /\ LET f == Head(stack)
           s == Contents(Head(f.todo))[f.at + 1]
           called == <<[kind |-> IF info[s].handler \in Handlers THEN "handler"
                                                            ELSE "wakeup", sub |-> s],
                       [f EXCEPT !.at = @ + 1, !.done = Append(@, s)]>> \o Tail(stack)
       IN  IF info[s].once THEN DoUnsubscribe(s, called)
           ELSE stack' = called /\ UNCHANGED busVars
    /\ UNCHANGED ops

(* A scoped publish() goes on with its second list; else publish() ends.   *)
ListEnds ==
    /\ InPublish
    /\ Exhausted(Head(stack))
    /\ stack' = IF Len(Head(stack).todo) > 1
                THEN [stack EXCEPT ![1].todo = Tail(@), ![1].at = 0]
                ELSE Tail(stack)
    /\ UNCHANGED <<busVars, ops>>

-----------------------------------------------------------------------------
(* The program: what it does between frames, in its handlers and in its   *)
(* coroutines (the "step" frames of CooperativeScheduler).                 *)

InHandler   == stack # <<>> /\ Head(stack).kind = "handler"
ProgramRuns == stack # <<>> => Head(stack).kind \in {"handler", "step"}
Nested      == Len(SelectSeq(stack, LAMBDA f : f.kind = "publish"))

Operation == ops < MaxOps /\ ops' = ops + 1

Subscribe ==
    /\ ProgramRuns
    /\ Operation
    /\ Len(info) < MaxSubs
    /\ \E t \in Topics, sc \in Scopes \cup {NoScope}, h \in Handlers, once \in BOOLEAN :
         DoSubscribe([topic |-> t, scope |-> sc, handler |-> h, once |-> once], stack)

Unsubscribe ==
    /\ ProgramRuns
    /\ Operation
    /\ \E s \in DOMAIN info : info[s].handler \in Handlers /\ DoUnsubscribe(s, stack)

UnsubscribeScope ==
    /\ ProgramRuns
    /\ Operation
    /\ \E sc \in Scopes : DoUnsubscribeScope(sc, stack)

Publish ==
    /\ ProgramRuns
    /\ Operation
    /\ Nested < MaxNested
    /\ \E t \in Topics, sc \in Scopes \cup {NoScope} : DoPublish(t, sc)

(* A handler returns to publish(), or raises: that ends the publish() that *)
(* called it and reaches the code that published, which may catch it or    *)
(* raise in turn.                                                          *)
HandlerEnds ==
    /\ InHandler
    /\ stack' \in {Tail(stack), Tail(Tail(stack))}
    /\ UNCHANGED <<busVars, ops>>

BusInit ==
    /\ info = <<>>
    /\ lists = [k \in Key |-> <<>>]
    /\ byScope = [sc \in Scopes |-> {}]
    /\ snapshots = [t \in Topics |-> <<>>]
    /\ dirty = {}
    /\ ledger = <<>>
    /\ twins = FALSE
    /\ stack = <<>>
    /\ ops = 0

BusStep == Deliver \/ ListEnds

BusNext ==
    \/ Subscribe \/ Unsubscribe \/ UnsubscribeScope \/ Publish
    \/ BusStep \/ HandlerEnds

BusSpec == BusInit /\ [][BusNext]_eventVars

-----------------------------------------------------------------------------
(* Properties.                                                             *)

(* Every list names subscriptions that were made and belong in it, each at *)
(* most once.                                                              *)
BusTypeOK ==
    /\ info \in Seq([topic : Topics, scope : Scopes \cup {NoScope},
                     handler : Handlers, once : BOOLEAN])
    /\ \A k \in Key : /\ IsInjective(lists[k])
                       /\ \A s \in ToSet(lists[k]) :
                            /\ s \in Ids
                            /\ k[1] = info[s].topic /\ k[2] \in {AllSubs, info[s].scope}
    /\ byScope \in [Scopes -> SUBSET Ids]
    /\ dirty \in SUBSET Topics
    /\ \A t \in Topics : IsInjective(snapshots[t])

(* The five dictionaries and sets that unsubscribe() and                   *)
(* unsubscribe_scope() keep in step say the same: every list is the        *)
(* subscriptions made and not taken back, in order, that belong in it, and *)
(* a scope's set names the scope's subscriptions -- as long as no two      *)
(* equal subscriptions are held.                                           *)
ListsAgree ==
    ~twins =>
      /\ \A t \in Topics :
           /\ lists[<<t, AllSubs>>] = Addressed(t, NoScope)
           /\ \A sc \in Scopes \cup {NoScope} :
                lists[<<t, sc>>] = Including(lists[<<t, AllSubs>>], ScopedIn(sc))
      /\ \A sc \in Scopes : byScope[sc] = {s \in ToSet(ledger) : info[s].scope = sc}

(* A publish() never calls a subscription twice; it calls exactly those    *)
(* held when it began, in order, whatever its handlers subscribe,          *)
(* unsubscribe or publish meanwhile, if it iterates a snapshot, and if it  *)
(* iterates live lists that nothing changes under it.                      *)
PublishEnding == InPublish /\ Len(stack') < Len(stack)
DeliveryExact ==
    [][PublishEnding =>
         LET f == Head(stack) IN
         /\ IsInjective(f.done)
         /\ (~twins /\ (f.fixed \/ f.made = Counts)) => f.done = f.addressed]_eventVars

(* "Snapshot for safe iteration (handlers may mutate the subscriber        *)
(* list)": no subscription that is held from the beginning of a publish()  *)
(* to its end is passed over.                                              *)
NoneSkipped ==
    [][PublishEnding =>
         \A i \in DOMAIN Head(stack).addressed :
             LET s == Head(stack).addressed[i] IN
             Contains(ledger, s) => Contains(Head(stack).done, s)]_eventVars
=============================================================================
