------------------------------ MODULE Collections ------------------------------
(***************************************************************************)
(* ObservableList and ObservableDict                                       *)
(* (gui_do/data/observable_collections.py) and the CollectionView that     *)
(* follows a list (gui_do/data/collection_view.py).                        *)
(*                                                                         *)
(* Listeners are told of each change one after the other, and may change   *)
(* the collection, subscribe, unsubscribe and change the view's query.     *)
(* The listener Foremost subscribed first; it keeps a copy by doing what   *)
(* each change says.  A RuntimeError is caught by nobody.                  *)
(***************************************************************************)
EXTENDS Integers, SequencesExt

CONSTANTS
    Followers,      \* listeners of the collection
    Foremost,      \* one of them
    ViewListener,  \* the lambda of bind_observable_list()
    ViewWatchers,  \* subscribers of the view
    NewItems,      \* what is appended, inserted or put in another's place
    NewLists,      \* what a list is extended by or replaced with
    DictKeys, DictValues, NewEntries,
    StartList,     \* the list at first
    StartView,     \* the view's subscribers at first, <<id, subscriber>>
    Filtered,      \* what the view's filter leaves out
    Queries,       \* filters and orders that the view is given
    MaxUses        \* bound: changes, subscriptions and changes of the query

ASSUME CollectionsAssumption ==
    /\ Foremost \in Followers /\ ViewListener \notin Followers
    /\ MaxUses \in Nat

VARIABLES
    collection,  \* "list" or "dict"
    contained,     \* _items or _data
    listening,   \* _listeners
    listeningCopy, copyDirty,  \* _listeners_snapshot, _listeners_dirty
    view,        \* items, filters (whether there is one), order (sort_key and reverse), and the
                 \* _refresh_subscribers: <<id, subscriber>> in the order of their ids
    nextId,      \* _next_sub_id
    going,     \* operations, notifications, refreshes and callbacks, innermost first
    copied,      \* history: what Foremost made of the changes
    inexact,     \* history: they did not say what happened
    found,       \* history: what each listener last found in the collection
    shownTo,     \* history: what each subscriber last found in the view
    overlooked,      \* history: the collection changed while the view was being bound
    cut,         \* history: a RuntimeError left somebody untold
    used         \* bound

collectionVars == <<collection, contained, listening, listeningCopy, copyDirty, view, nextId,
                    going, copied, inexact, found, shownTo, overlooked, cut, used>>
viewOnly == <<view, nextId, shownTo>>

Free == IF going = <<>> THEN TRUE ELSE going[1].op = "callback"
Uses == used < MaxUses /\ used' = used + 1
Doing(op) == \E i \in DOMAIN going : going[i].op = op

-----------------------------------------------------------------------------
(* _notify(): a copy of the listeners, made when they have changed; but    *)
(* the only one is found in the list itself.                               *)
(* Mutant: the copy is made once.                                          *)
Outdated(c)  == copyDirty
NeverMade(c) == copyDirty /\ c = <<>>

Copied == IF Len(listening) > 1 /\ Outdated(listeningCopy) THEN listening ELSE listeningCopy
Notification(change) ==
    [op |-> "notify", change |-> change, next |-> 1, alone |-> Len(listening) = 1, to |-> Copied]

(* The collection is `new`, and everybody is told; `after` is what the     *)
(* operation has still to do.                                              *)
Tells(new, change, after) ==
    /\ contained' = new
    /\ listeningCopy' = Copied /\ copyDirty' = (copyDirty /\ Len(listening) <= 1)
    /\ going' = (IF listening = <<>> THEN <<>> ELSE <<Notification(change)>>) \o after
    /\ overlooked' = (overlooked \/ Doing("bind"))

Says(kind, i, new) == [kind |-> kind, at |-> i, value |-> new]
IsList == collection = "list" /\ Free
IsDict == collection = "dict" /\ Free

ChangeTo(new, change) ==
    /\ Uses
    /\ Tells(new, change, going)
    /\ inexact' = (inexact \/ Doing("sort"))
    /\ UNCHANGED <<collection, listening, viewOnly, copied, found, cut>>

-----------------------------------------------------------------------------
(* ObservableList.                                                         *)
AppendItem(v) == IsList /\ ChangeTo(Append(contained, v), Says("added", Len(contained) + 1, <<v>>))

InsertItem(i, v) == IsList /\ ChangeTo(InsertAt(contained, i, v), Says("added", i, <<v>>))

RemoveItem(i) == IsList /\ ChangeTo(RemoveAt(contained, i), Says("removed", i, <<>>))

ReplaceItem(i, v) == IsList /\ ChangeTo([contained EXCEPT ![i] = v], Says("replaced", i, v))

MovedItem(s, i, j) == InsertAt(RemoveAt(s, i), j, s[i])
MoveItem(i, j) == IsList /\ i # j /\ ChangeTo(MovedItem(contained, i, j), Says("moved", i, j))

(* extend_batched(): one change for all.                                   *)
ExtendBatched(s) == IsList /\ s # <<>> /\ ChangeTo(contained \o s, Says("added", Len(contained) + 1, s))

ClearItems == IsList /\ contained # <<>> /\ ChangeTo(<<>>, Says("cleared", 0, <<>>))

(* set_all() and extend(): the items follow one by one.                    *)
SetAll(s) ==
    /\ IsList /\ Uses
    /\ LET extend == <<[op |-> "extend", todo |-> s]>> \o going IN
       IF contained = <<>> THEN going' = extend /\ UNCHANGED <<contained, listeningCopy, copyDirty, overlooked>>
       ELSE Tells(<<>>, Says("cleared", 0, <<>>), extend)
    /\ inexact' = (inexact \/ Doing("sort"))
    /\ UNCHANGED <<collection, listening, viewOnly, copied, found, cut>>

ExtendStep ==
    /\ going # <<>> /\ going[1].op = "extend"
    /\ LET todo == going[1].todo
           rest == <<[going[1] EXCEPT !.todo = Tail(@)]>> \o Tail(going) IN
       IF todo = <<>> THEN going' = Tail(going) /\ UNCHANGED <<contained, listeningCopy, copyDirty, overlooked>>
       ELSE Tells(Append(contained, Head(todo)), Says("added", Len(contained) + 1, <<Head(todo)>>), rest)
    /\ UNCHANGED <<collection, listening, viewOnly, copied, inexact, found, cut, used>>

(* batch_replace(): CLEARED is all that is said.                           *)
BatchReplace(s) ==
    /\ IsList /\ Uses
    /\ Tells(s, Says("cleared", 0, <<>>), going)
    /\ inexact' = TRUE
    /\ UNCHANGED <<collection, listening, viewOnly, copied, found, cut>>

(* sort(): CLEARED, and an ADDED for each place of the list as it is when  *)
(* the turn comes to it.                                                   *)
SortItems ==
    /\ IsList /\ Uses
    /\ Tells(SortSeq(contained, <), Says("cleared", 0, <<>>), <<[op |-> "sort", next |-> 1]>> \o going)
    /\ inexact' = (inexact \/ Doing("sort"))
    /\ UNCHANGED <<collection, listening, viewOnly, copied, found, cut>>

SortStep ==
    /\ going # <<>> /\ going[1].op = "sort"
    /\ LET i == going[1].next
           rest == <<[going[1] EXCEPT !.next = @ + 1]>> \o Tail(going) IN
       IF i > Len(contained) THEN going' = Tail(going) /\ UNCHANGED <<contained, listeningCopy, copyDirty, overlooked>>
       ELSE Tells(contained, Says("added", i, <<contained[i]>>), rest)
    /\ UNCHANGED <<collection, listening, viewOnly, copied, inexact, found, cut, used>>

-----------------------------------------------------------------------------
(* ObservableDict.                                                         *)
WithEntry(d, k, v) == [x \in DOMAIN d \cup {k} |-> IF x = k THEN v ELSE d[x]]
WithoutKey(d, k) == [x \in DOMAIN d \ {k} |-> d[x]]
EntrySaid(k, v) == Says(IF k \in DOMAIN contained THEN "replaced" ELSE "added", k, v)

SetEntry(k, v) == IsDict /\ ChangeTo(WithEntry(contained, k, v), EntrySaid(k, v))

DeleteEntry(k) == IsDict /\ k \in DOMAIN contained /\ ChangeTo(WithoutKey(contained, k), Says("removed", k, <<>>))

ClearEntries == IsDict /\ contained # <<>> /\ ChangeTo(<<>>, Says("cleared", 0, <<>>))

UpdateEntries(s) ==
    /\ IsDict /\ Uses
    /\ going' = <<[op |-> "update", todo |-> s]>> \o going
    /\ UNCHANGED <<collection, contained, listening, listeningCopy, copyDirty, viewOnly,
                   copied, inexact, found, overlooked, cut>>

UpdateStep ==
    /\ going # <<>> /\ going[1].op = "update"
    /\ LET todo == going[1].todo
           k == Head(todo)[1]  v == Head(todo)[2]
           rest == <<[going[1] EXCEPT !.todo = Tail(@)]>> \o Tail(going) IN
       IF todo = <<>> THEN going' = Tail(going) /\ UNCHANGED <<contained, listeningCopy, copyDirty, overlooked>>
       ELSE Tells(WithEntry(contained, k, v), EntrySaid(k, v), rest)
    /\ UNCHANGED <<collection, listening, viewOnly, copied, inexact, found, cut, used>>

-----------------------------------------------------------------------------
(* The view: what its query makes of the list.                             *)
Queried(v) ==
    LET items  == SelectSeq(contained, LAMBDA x : ~(v.filters /\ x \in Filtered))
        Less(x, y) == IF v.order = "up" THEN x < y ELSE y < x
    IN IF v.order = "none" THEN items ELSE SortSeq(items, Less)

(* refresh(): the items, then the subscribers, found one by one in the     *)
(* dict of them.                                                           *)
Materialized(v) == [v EXCEPT !.items = Queried(v)]

Refreshing(v) ==
    IF v.subscribers = <<>> THEN <<>>
    ELSE <<[op |-> "refresh", size |-> Len(v.subscribers), left |-> Len(v.subscribers), last |-> -1]>>

Refreshed(v, after) ==
    /\ view' = Materialized(v)
    /\ going' = Refreshing(v) \o after

(* The iterator of a dict stops with a RuntimeError when the dict has      *)
(* another size, or holds more than it counted.                            *)
RefreshStep ==
    /\ going # <<>> /\ going[1].op = "refresh"
    /\ LET r == going[1]
           later == SelectSeq(view.subscribers, LAMBDA e : e[1] > r.last)
           fails == r.size # Len(view.subscribers) \/ (later # <<>> /\ r.left = 0)
           next  == <<[r EXCEPT !.left = @ - 1, !.last = Head(later)[1]]>> \o Tail(going)
       IN IF fails
          THEN /\ going' = <<>> /\ cut' = TRUE
               /\ inexact' = (inexact \/ Doing("sort"))
               /\ UNCHANGED shownTo
          ELSE /\ going' = IF later = <<>> THEN Tail(going)
                             ELSE <<[op |-> "callback", who |-> Head(later)[2]]>> \o next
               /\ shownTo' = IF later = <<>> THEN shownTo
                             ELSE [shownTo EXCEPT ![Head(later)[2]] = view.items]
               /\ UNCHANGED <<cut, inexact>>
    /\ UNCHANGED <<collection, contained, listening, listeningCopy, copyDirty, view, nextId,
                   copied, found, overlooked, used>>

(* add_filter(), clear_filters() and set_sort().                           *)
SetQuery(filters, order) ==
    /\ IsList /\ Uses
    /\ Refreshed([view EXCEPT !.filters = filters, !.order = order], going)
    /\ UNCHANGED <<collection, contained, listening, listeningCopy, copyDirty, nextId, copied,
                   inexact, found, shownTo, overlooked, cut>>

(* bind_observable_list(): the view is refreshed before it listens.        *)
BindList ==
    /\ IsList /\ ~Contains(listening, ViewListener) /\ ~Doing("bind")
    /\ Uses
    /\ Refreshed(view, <<[op |-> "bind"]>> \o going)
    /\ overlooked' = FALSE
    /\ UNCHANGED <<collection, contained, listening, listeningCopy, copyDirty, nextId, copied,
                   inexact, found, shownTo, cut>>

BindStep ==
    /\ going # <<>> /\ going[1].op = "bind"
    /\ going' = Tail(going)
    /\ listening' = Append(listening, ViewListener) /\ copyDirty' = TRUE
    /\ UNCHANGED <<collection, contained, listeningCopy, viewOnly, copied, inexact, found, overlooked,
                   cut, used>>

-----------------------------------------------------------------------------
(* Foremost does what it is told.                                          *)
DoneAsSaid(change) ==
    CASE change.kind = "cleared" -> <<>>
      [] collection = "dict" /\ change.kind = "removed" -> WithoutKey(copied, change.at)
      [] collection = "dict" -> WithEntry(copied, change.at, change.value)
      [] change.kind = "added" -> SubSeq(copied, 1, change.at - 1) \o change.value
                                     \o SubSeq(copied, change.at, Len(copied))
      [] change.kind = "removed" -> RemoveAt(copied, change.at)
      [] change.kind = "replaced" -> [copied EXCEPT ![change.at] = change.value]
      [] change.kind = "moved" -> MovedItem(copied, change.at, change.value)

NotifyStep ==
    /\ going # <<>> /\ going[1].op = "notify"
    /\ LET n    == going[1]
           to   == IF n.alone THEN listening ELSE n.to
           rest == <<[n EXCEPT !.next = @ + 1]>> \o Tail(going)
           who  == to[n.next]
       IN IF n.next > Len(to)
          THEN going' = Tail(going) /\ UNCHANGED <<view, copied, found, overlooked>>
          ELSE IF who = ViewListener
          THEN Refreshed(view, rest) /\ overlooked' = FALSE /\ UNCHANGED <<copied, found>>
          ELSE /\ going' = <<[op |-> "callback", who |-> who]>> \o rest
               /\ found' = [found EXCEPT ![who] = contained]
               /\ copied' = IF who = Foremost /\ ~inexact THEN DoneAsSaid(n.change) ELSE copied
               /\ UNCHANGED <<view, overlooked>>
    /\ UNCHANGED <<collection, contained, listening, listeningCopy, copyDirty, nextId, inexact,
                   shownTo, cut, used>>

Returns ==
    /\ going # <<>> /\ going[1].op = "callback"
    /\ going' = Tail(going)
    /\ UNCHANGED <<collection, contained, listening, listeningCopy, copyDirty, viewOnly, copied,
                   inexact, found, overlooked, cut, used>>

(* Who subscribes looks at what there is.                                  *)
Listen(w) ==
    /\ Free /\ ~Contains(listening, w) /\ Uses
    /\ listening' = Append(listening, w) /\ copyDirty' = TRUE
    /\ found' = [found EXCEPT ![w] = contained]
    /\ UNCHANGED <<collection, contained, listeningCopy, viewOnly, going, copied, inexact,
                   overlooked, cut>>

Unlisten(w) ==
    /\ Free /\ w # Foremost /\ Contains(listening, w) /\ Uses
    /\ listening' = SelectSeq(listening, LAMBDA v : v # w) /\ copyDirty' = TRUE
    /\ UNCHANGED <<collection, contained, listeningCopy, viewOnly, going, copied, inexact,
                   found, overlooked, cut>>

Subscribed(v) == {e[2] : e \in ToSet(view.subscribers)}

SubscribeView(w) ==
    /\ IsList /\ w \notin Subscribed(view) /\ Uses
    /\ view' = [view EXCEPT !.subscribers = Append(@, <<nextId, w>>)]
    /\ nextId' = nextId + 1
    /\ shownTo' = [shownTo EXCEPT ![w] = view.items]
    /\ UNCHANGED <<collection, contained, listening, listeningCopy, copyDirty, going, copied,
                   inexact, found, overlooked, cut>>

UnsubscribeView(w) ==
    /\ IsList /\ w \in Subscribed(view) /\ Uses
    /\ view' = [view EXCEPT !.subscribers = SelectSeq(@, LAMBDA e : e[2] # w)]
    /\ UNCHANGED <<collection, contained, listening, listeningCopy, copyDirty, nextId, going,
                   copied, inexact, found, shownTo, overlooked, cut>>

-----------------------------------------------------------------------------
(* Everybody but one watcher subscribed before.                            *)
CollectionsInit ==
    /\ collection \in {"list", "dict"}
    /\ contained = IF collection = "list" THEN StartList ELSE <<>>
    /\ listening \in IF collection = "list" THEN {<<Foremost, ViewListener>>} ELSE {<<Foremost>>}
    /\ listeningCopy = <<>> /\ copyDirty = TRUE
    /\ view = [items |-> IF collection = "list" THEN StartList ELSE <<>>, filters |-> FALSE, order |-> "none",
               subscribers |-> IF collection = "list" THEN StartView ELSE <<>>]
    /\ nextId = Len(StartView)
    /\ going = <<>> /\ copied = contained /\ inexact = FALSE /\ overlooked = FALSE /\ cut = FALSE
    /\ found = [w \in Followers |-> contained]
    /\ shownTo = [w \in ViewWatchers |-> contained]
    /\ used = 0

CollectionsNext ==
    \/ \E v \in NewItems : AppendItem(v)
    \/ \E v \in NewItems : \E i \in DOMAIN contained : InsertItem(i, v) \/ ReplaceItem(i, v)
    \/ \E i \in DOMAIN contained : RemoveItem(i) \/ (\E j \in DOMAIN contained : MoveItem(i, j))
    \/ \E s \in NewLists : ExtendBatched(s) \/ SetAll(s) \/ BatchReplace(s)
    \/ ClearItems \/ SortItems
    \/ \E k \in DictKeys : DeleteEntry(k) \/ (\E v \in DictValues : SetEntry(k, v))
    \/ \E s \in NewEntries : UpdateEntries(s)
    \/ ClearEntries
    \/ \E q \in Queries : SetQuery(q[1], q[2])
    \/ BindList
    \/ \E w \in Followers : Listen(w)
    \/ \E w \in Followers \cup {ViewListener} : Unlisten(w)
    \/ \E w \in ViewWatchers : SubscribeView(w) \/ UnsubscribeView(w)
    \/ NotifyStep \/ ExtendStep \/ SortStep \/ UpdateStep \/ RefreshStep \/ BindStep \/ Returns

CollectionsSpec == CollectionsInit /\ [][CollectionsNext]_collectionVars

-----------------------------------------------------------------------------
CollectionsTypeOK ==
    /\ collection = "list" => contained \in Seq(NewItems \cup ToSet(StartList) \cup UNION {ToSet(s) : s \in NewLists})
    /\ collection = "dict" => DOMAIN contained \subseteq DictKeys
    /\ ToSet(listening) \subseteq Followers \cup {ViewListener} /\ IsInjective(listening)
    /\ \A i \in 1..(Len(view.subscribers) - 1) : view.subscribers[i][1] < view.subscribers[i + 1][1]
    /\ \A e \in ToSet(view.subscribers) : e[1] \in 0..(nextId - 1) /\ e[2] \in ViewWatchers
    /\ \A i \in DOMAIN going :
          going[i].op \in {"notify", "refresh", "bind", "sort", "extend", "update", "callback"}

(* Whoever looks at the collection when told of a change has seen what it  *)
(* is when all is done, although the changes that listeners make reach     *)
(* those behind them in another order -- unless a RuntimeError came first. *)
EveryoneSawLast ==
    going = <<>> /\ ~cut => \A w \in ToSet(listening) \ {ViewListener} : found[w] = contained

(* What a change says is what happened: the first listener's copy, made    *)
(* from changes alone, is the collection -- unless batch_replace() said    *)
(* CLEARED of a list that is not empty, or a sort was cut into.            *)
ChangesSayAll == going = <<>> /\ ~inexact => copied = contained

(* A view that follows a list shows what its query makes of it, and each   *)
(* of its subscribers has seen that -- unless the list changed while the   *)
(* view was being bound.                                                   *)
ViewFollows ==
    going = <<>> /\ ~cut =>
        /\ Contains(listening, ViewListener) /\ ~overlooked => view.items = Queried(view)
        /\ \A w \in Subscribed(view) : shownTo[w] = view.items

(* Collections that change while they say that they changed: see the parts.*)
CollectionsSafe == EveryoneSawLast /\ ChangesSayAll /\ ViewFollows
=============================================================================
