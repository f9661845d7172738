-------------------------------- MODULE Router --------------------------------
(***************************************************************************)
(* Router (gui_do/state/router.py): a history of routes, guards that are   *)
(* asked before it changes, scenes that follow it and listeners that are   *)
(* told.                                                                   *)
(*                                                                         *)
(* Guards and listeners are the program's code and may navigate before     *)
(* they return, so that navigations are nested.  An exception counts for a *)
(* guard as its consent and for a listener as its return.                  *)
(***************************************************************************)
EXTENDS Integers, SequencesExt

CONSTANTS
    Routes,         \* names of routes
    RouteSceneOf,   \* the scene each is registered for
    Nowhere,        \* that of a route that is not registered for a scene the application has
    GuardCount,     \* the guards, asked in their order
    RouteListeners, \* callbacks of on_route_change()
    StartHistories, \* the routes pushed before the behaviour begins
    MaxNavigations, \* bound: calls of push(), pop() and replace()
    MaxRouting      \* bound: calls under way

ASSUME RouterAssumption ==
    /\ Nowhere \notin Routes
    /\ StartHistories \subseteq Seq(Routes)
    /\ \A h \in StartHistories : h # <<>> => RouteSceneOf[h[Len(h)]] # Nowhere
    /\ {GuardCount, MaxNavigations, MaxRouting} \subseteq Nat

VARIABLES
    history,     \* _history: the routes of its entries
    sceneShown,  \* the scene the application shows
    tellList,    \* _on_change, a list that changes while it is iterated
    navs,        \* navigations and callbacks under way, innermost first
    routeTold,   \* history: the route each listener was told last
    navigations, \* calls so far
    skipped,     \* history: listeners that a list passed over, or that came later
    overtaken,   \* history: a listener was told of a route that was not the last any more
    popped       \* history: a guard of pop() has navigated

routerVars == <<history, sceneShown, tellList, navs, routeTold, navigations, skipped, overtaken, popped>>

CanNavigate == IF navs = <<>> THEN TRUE ELSE navs[1].kind = "callback"

Current == IF history = <<>> THEN Nowhere ELSE Last(history)

CallingOut(n) == <<[kind |-> "callback"], n>> \o Tail(navs)

-----------------------------------------------------------------------------
(* push(), replace() and pop() ask the guards first; the route of pop() is *)
(* the one the guards are asked for.                                       *)
Navigate(op, r) ==
    /\ CanNavigate
    /\ navigations < MaxNavigations /\ Len(navs) < MaxRouting
    /\ op = "pop" => Len(history) >= 2 /\ r = history[Len(history) - 1]
    /\ navigations' = navigations + 1
    /\ navs' = <<[kind |-> "guard", op |-> op, route |-> r, at |-> 1, from |-> history]>> \o navs
    /\ UNCHANGED <<history, sceneShown, tellList, routeTold, skipped, overtaken, popped>>

AskGuard ==
    /\ navs # <<>> /\ navs[1].kind = "guard"
    /\ navs[1].at <= GuardCount
    /\ navs' = CallingOut(navs[1])
    /\ UNCHANGED <<history, sceneShown, tellList, routeTold, navigations, skipped, overtaken, popped>>

(* A guard consents, or raises, and the next one is asked; or it refuses.  *)
GuardAnswers(consents) ==
    /\ Len(navs) > 1 /\ navs[1].kind = "callback" /\ navs[2].kind = "guard"
    /\ navs' = IF consents THEN <<[navs[2] EXCEPT !.at = @ + 1]>> \o SubSeq(navs, 3, Len(navs))
               ELSE SubSeq(navs, 3, Len(navs))
    /\ UNCHANGED <<history, sceneShown, tellList, routeTold, navigations, skipped, overtaken, popped>>

HistoryAfter(op, r) ==
    CASE op = "push"    -> Append(history, r)
      [] op = "replace" -> IF history = <<>> THEN <<r>> ELSE Append(Front(history), r)
      [] op = "pop"     -> Front(history)

(* _history.pop() of a history that a guard has emptied raises, and so     *)
(* does the read of the entry that is left of a single one: what called    *)
(* goes on as if nothing was shown or told.                                *)
PopFails(op) == op = "pop" /\ Len(history) < 2

(* The entry is made, the scene switched, the listeners are told next.     *)
EnterRoute ==
    /\ navs # <<>> /\ navs[1].kind = "guard"
    /\ navs[1].at > GuardCount
    /\ LET n   == navs[1]
           now == HistoryAfter(n.op, n.route)
       IN
       /\ popped' = (popped \/ (n.op = "pop" /\ n.from # history))
       /\ IF PopFails(n.op)
          THEN /\ history' = <<>>
               /\ navs' = Tail(navs)
               /\ UNCHANGED sceneShown
          ELSE /\ history' = now
               /\ sceneShown' = IF RouteSceneOf[Last(now)] = Nowhere THEN sceneShown ELSE RouteSceneOf[Last(now)]
               /\ navs' = <<[n EXCEPT !.kind = "tell", !.route = Last(now), !.at = 1, !.from = <<>>]>> \o Tail(navs)
    /\ UNCHANGED <<tellList, routeTold, navigations, skipped, overtaken>>

TellRoute ==
    /\ navs # <<>> /\ navs[1].kind = "tell"
    /\ LET n == navs[1]
           l == tellList[n.at]
       IN IF n.at \in DOMAIN tellList
          THEN /\ routeTold' = [routeTold EXCEPT ![l] = n.route]
               /\ skipped' = skipped \ {l}
               /\ overtaken' = (overtaken \/ Current # n.route)
               /\ navs' = CallingOut([n EXCEPT !.at = @ + 1])
          ELSE navs' = Tail(navs) /\ UNCHANGED <<routeTold, skipped, overtaken>>
    /\ UNCHANGED <<history, sceneShown, tellList, navigations, popped>>

ListenerEnds ==
    /\ Len(navs) > 1 /\ navs[1].kind = "callback" /\ navs[2].kind = "tell"
    /\ navs' = Tail(navs)
    /\ UNCHANGED <<history, sceneShown, tellList, routeTold, navigations, skipped, overtaken, popped>>

(* on_route_change(): appended, so that a navigation under way tells it    *)
(* still.                                                                  *)
Listen(l) ==
    /\ CanNavigate
    /\ ~Contains(tellList, l)
    /\ tellList' = Append(tellList, l)
    /\ skipped' = skipped \cup {l}
    /\ UNCHANGED <<history, sceneShown, navs, routeTold, navigations, overtaken, popped>>

(* What follows in the list moves up, and is passed over by a navigation   *)
(* that is past the one that goes.                                         *)
StopListening(l) ==
    /\ CanNavigate
    /\ Contains(tellList, l)
    /\ tellList' = Remove(tellList, l)
    /\ skipped' = skipped \cup
          {tellList[navs[i].at] : i \in {j \in DOMAIN navs :
              /\ navs[j].kind = "tell" /\ navs[j].at \in DOMAIN tellList
              /\ l \in ToSet(SubSeq(tellList, 1, navs[j].at - 1))}}
    /\ UNCHANGED <<history, sceneShown, navs, routeTold, navigations, overtaken, popped>>

RouterInit ==
    /\ history \in StartHistories
    /\ sceneShown = IF history = <<>> THEN Nowhere ELSE RouteSceneOf[Current]
    /\ tellList = SetToSeq(RouteListeners)
    /\ navs = <<>>
    /\ routeTold = [l \in RouteListeners |-> Current]
    /\ navigations = 0 /\ skipped = {} /\ overtaken = FALSE /\ popped = FALSE

RouterNext ==
    \/ \E op \in {"push", "replace", "pop"}, r \in Routes : Navigate(op, r)
    \/ AskGuard
    \/ \E consents \in BOOLEAN : GuardAnswers(consents)
    \/ EnterRoute
    \/ TellRoute
    \/ ListenerEnds
    \/ \E l \in RouteListeners : Listen(l) \/ StopListening(l)

RouterSpec == RouterInit /\ [][RouterNext]_routerVars

-----------------------------------------------------------------------------
RouterTypeOK ==
    /\ history \in Seq(Routes)
    /\ sceneShown \in {Nowhere} \cup {RouteSceneOf[r] : r \in Routes}
    /\ ToSet(tellList) \subseteq RouteListeners
    /\ routeTold \in [RouteListeners -> Routes \cup {Nowhere}]
    /\ navigations \in 0 .. MaxNavigations
    /\ skipped \subseteq RouteListeners
    /\ \A i \in DOMAIN navs : navs[i].kind \in {"guard", "tell", "callback"}

(* When the outermost navigation has returned, whatever guards and         *)
(* listeners navigated, refused, subscribed and unsubscribed:              *)
(*  - the scene that is shown is that of the current route, if that has    *)
(*    one;                                                                 *)
(*  - every listener was last told of it, unless its list passed over it,  *)
(*    or one of them navigated before the others were told;                *)
(*  - the history is not empty, unless none has been made yet or the       *)
(*    guards of a pop() navigated.                                         *)
RouterSafe ==
    navs = <<>> =>
        /\ history # <<>> /\ RouteSceneOf[Current] # Nowhere => sceneShown = RouteSceneOf[Current]
        /\ history # <<>> /\ ~overtaken =>
              \A l \in ToSet(tellList) \ skipped : routeTold[l] = Current
        /\ history = <<>> => popped \/ sceneShown = Nowhere
=============================================================================
