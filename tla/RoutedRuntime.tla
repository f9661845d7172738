----------------------------- MODULE RoutedRuntime ---------------------------
(***************************************************************************)
(* What one routed feature binds and releases (setup_routed_runtime() and  *)
(* shutdown_routed_runtime(), gui_do/features/data_driven_runtime.py) and  *)
(* the scope that remembers it (FeatureRuntimeScope,                       *)
(* runtime_facilities.py): the detail of what FeatureLifecycle calls       *)
(* bind_runtime() and shutdown_runtime().                                  *)
(*                                                                         *)
(* A setup is a pass over the parts of the feature's specification.  The   *)
(* factories and handlers it calls are the program's code and may raise;   *)
(* so may another feature, after which the program may bind all features   *)
(* again.                                                                  *)
(***************************************************************************)
EXTENDS Integers, SequencesExt, FiniteSets

CONSTANT MaxPasses  \* bound: setups

ASSUME RoutedAssumption == MaxPasses \in Nat

VARIABLES
    holding,     \* what each setup has acquired and not released
    scopes,      \* the scope of each: _cleanups, and whether it is disposed
    scopeAttr,   \* the feature's runtime_scope, as the number of its setup; 0 for None
    tokenAttr,   \* its event subscription
    updateAttr,  \* its _routed_runtime_on_update
    specAttr,    \* whether its _runtime_spec is set
    ownSubs,     \* its _runtime_subscriptions, by setup
    isBound,     \* whether the manager calls it bound
    setupStep,   \* the step the setup under way is at, 0 for none
    disposeStep, \* cleanups still to be called, 0 for no dispose() under way
    failedSetups,\* history: the setups that raised
    overlaid,    \* history: those that another one followed without a shutdown
    lateCleanups \* history: the scopes given a cleanup when it was too late

routedVars == <<holding, scopes, scopeAttr, tokenAttr, updateAttr, specAttr, ownSubs, isBound,
                setupStep, disposeStep, failedSetups, overlaid, lateCleanups>>

(* The parts in their order.  "actions" stands for all that registers and  *)
(* binds actions, which nothing releases.                                  *)
SetupParts == <<"service", "bus", "store", "selector", "observable", "signal",
                "systems", "actions", "event">>
InScope == {"bus", "store", "selector", "observable", "signal", "systems"}

Setups == DOMAIN scopes
ThisSetup == Len(scopes)
Quiet == setupStep = 0 /\ disposeStep = 0

-----------------------------------------------------------------------------
(* A new scope replaces the one the feature has.                           *)
BeginSetup ==
    /\ Quiet
    /\ ThisSetup < MaxPasses
    /\ scopes' = Append(scopes, [cleanups |-> <<>>, disposed |-> FALSE])
    /\ holding' = Append(holding, {})
    /\ scopeAttr' = ThisSetup + 1
    /\ overlaid' = IF scopeAttr # 0 THEN overlaid \cup {scopeAttr} ELSE overlaid
    /\ setupStep' = 1
    /\ UNCHANGED <<tokenAttr, updateAttr, specAttr, ownSubs, isBound, disposeStep,
                   failedSetups, lateCleanups>>

(* A part is acquired and its cleanup remembered before its handler is     *)
(* first called.  A feature whose method observes an observable keeps the  *)
(* subscription itself too when it does not call its scope runtime_scope.  *)
AcquirePart(tracked) ==
    LET part == SetupParts[setupStep]
        all  == [holding EXCEPT ![ThisSetup] = @ \cup {part}]
    IN
    /\ setupStep \in DOMAIN SetupParts
    /\ tracked => part = "observable"
    /\ holding' = all
    /\ scopes' = IF part \in InScope THEN [scopes EXCEPT ![ThisSetup].cleanups = Append(@, part)]
                 ELSE scopes
    /\ tokenAttr' = IF part = "event" THEN ThisSetup ELSE tokenAttr
    /\ updateAttr' = IF part = "systems" THEN ThisSetup ELSE updateAttr
    /\ ownSubs' = IF tracked THEN Append(ownSubs, ThisSetup) ELSE ownSubs
    /\ setupStep' = setupStep + 1
    /\ UNCHANGED <<scopeAttr, specAttr, isBound, disposeStep, failedSetups, overlaid, lateCleanups>>

(* A factory raises, or the handler that a part calls at once; the parts   *)
(* acquired so far stay.                                                   *)
SetupRaises ==
    /\ setupStep # 0
    /\ setupStep' = 0
    /\ failedSetups' = failedSetups \cup {ThisSetup}
    /\ UNCHANGED <<holding, scopes, scopeAttr, tokenAttr, updateAttr, specAttr, ownSubs, isBound,
                   disposeStep, overlaid, lateCleanups>>

EndSetup ==
    /\ setupStep > Len(SetupParts)
    /\ setupStep' = 0
    /\ specAttr' = TRUE
    /\ isBound' = TRUE
    /\ UNCHANGED <<holding, scopes, scopeAttr, tokenAttr, updateAttr, ownSubs, disposeStep,
                   failedSetups, overlaid, lateCleanups>>

-----------------------------------------------------------------------------
WithoutParts(parts, n) == IF n = 0 THEN holding ELSE [holding EXCEPT ![n] = @ \ parts]

(* shutdown_feature_runtime() of a feature that is bound: the event        *)
(* subscription first, then the scope; nothing without a specification.    *)
BeginShutdown ==
    /\ Quiet
    /\ isBound /\ specAttr
    /\ holding' = WithoutParts({"event"}, tokenAttr)
    /\ tokenAttr' = 0
    /\ scopes' = [scopes EXCEPT ![scopeAttr].disposed = TRUE]
    /\ disposeStep' = Len(scopes[scopeAttr].cleanups) + 1
    /\ UNCHANGED <<scopeAttr, updateAttr, specAttr, ownSubs, isBound, setupStep,
                   failedSetups, overlaid, lateCleanups>>

(* dispose() calls the cleanups from the last to the first, whether they   *)
(* raise or not.                                                           *)
CleanUpNext ==
    LET part == scopes[scopeAttr].cleanups[disposeStep - 1] IN
    /\ disposeStep > 1
    /\ holding' = WithoutParts({part}, scopeAttr)
    /\ updateAttr' = IF part = "systems" THEN 0 ELSE updateAttr
    /\ disposeStep' = disposeStep - 1
    /\ UNCHANGED <<scopes, scopeAttr, tokenAttr, specAttr, ownSubs, isBound, setupStep,
                   failedSetups, overlaid, lateCleanups>>

(* The services go last.  The manager also ends what the feature itself    *)
(* has subscribed to; unregister() and a replacement do not.               *)
EndShutdown(byManager) ==
    /\ disposeStep = 1
    /\ LET kept == WithoutParts({"service"}, scopeAttr) IN
       holding' = IF byManager
                   THEN [n \in Setups |-> IF Contains(ownSubs, n) THEN kept[n] \ {"observable"} ELSE kept[n]]
                   ELSE kept
    /\ ownSubs' = IF byManager THEN <<>> ELSE ownSubs
    /\ scopes' = [scopes EXCEPT ![scopeAttr].cleanups = <<>>]
    /\ scopeAttr' = 0 /\ updateAttr' = 0 /\ specAttr' = FALSE /\ isBound' = FALSE
    /\ disposeStep' = 0
    /\ UNCHANGED <<tokenAttr, setupStep, failedSetups, overlaid, lateCleanups>>

(* What the program acquires later, with a cleanup: a scope that is being  *)
(* disposed, or is, takes it and never calls it.                           *)
AcquireLater(n) ==
    /\ setupStep = 0
    /\ n \in Setups \ failedSetups
    /\ "later" \notin holding[n]
    /\ holding' = [holding EXCEPT ![n] = @ \cup {"later"}]
    /\ scopes' = [scopes EXCEPT ![n].cleanups = Append(@, "later")]
    /\ lateCleanups' = IF scopes[n].disposed THEN lateCleanups \cup {n} ELSE lateCleanups
    /\ UNCHANGED <<scopeAttr, tokenAttr, updateAttr, specAttr, ownSubs, isBound,
                   setupStep, disposeStep, failedSetups, overlaid>>

RoutedInit ==
    /\ holding = <<>> /\ scopes = <<>> /\ ownSubs = <<>>
    /\ scopeAttr = 0 /\ tokenAttr = 0 /\ updateAttr = 0 /\ setupStep = 0 /\ disposeStep = 0
    /\ specAttr = FALSE /\ isBound = FALSE
    /\ failedSetups = {} /\ overlaid = {} /\ lateCleanups = {}

RoutedNext ==
    \/ BeginSetup
    \/ \E tracked \in BOOLEAN : AcquirePart(tracked)
    \/ SetupRaises
    \/ EndSetup
    \/ BeginShutdown
    \/ CleanUpNext
    \/ \E byManager \in BOOLEAN : EndShutdown(byManager)
    \/ \E n \in Setups : AcquireLater(n)

RoutedSpec == RoutedInit /\ [][RoutedNext]_routedVars

-----------------------------------------------------------------------------
RoutedTypeOK ==
    /\ Len(scopes) \in 0 .. MaxPasses
    /\ holding \in [Setups -> SUBSET (ToSet(SetupParts) \cup {"later"})]
    /\ \A n \in Setups : /\ ToSet(scopes[n].cleanups) \subseteq InScope \cup {"later"}
                         /\ scopes[n].disposed \in BOOLEAN
    /\ {scopeAttr, tokenAttr, updateAttr} \subseteq Setups \cup {0}
    /\ ownSubs \in Seq(Setups)
    /\ {specAttr, isBound} \subseteq BOOLEAN
    /\ setupStep \in 0 .. Len(SetupParts) + 1
    /\ disposeStep \in 0 .. Len(SetupParts) + 1
    /\ failedSetups \cup overlaid \cup lateCleanups \subseteq Setups

(* - Between calls, what a setup has acquired is still held only if the    *)
(*   feature is bound by it, but for the actions; unless it or one after   *)
(*   it raised, or it was followed by another without a shutdown.          *)
(* - The services of a setup and the bus outlive all that subscribes to    *)
(*   them.                                                                 *)
(* - The manager updates the feature by systems that are not disposed.     *)
RoutedSafe ==
    /\ Quiet =>
          \A n \in Setups \ (failedSetups \cup overlaid) :
              holding[n] \ {"actions"} # {} => (isBound /\ n = scopeAttr) \/ n \in lateCleanups
    /\ \A n \in Setups \ lateCleanups :
          /\ holding[n] \cap (InScope \cup {"later"}) # {} => "service" \in holding[n]
          /\ holding[n] \cap (InScope \ {"bus"}) # {} => "bus" \in holding[n]
    /\ updateAttr # 0 => "systems" \in holding[updateAttr]
=============================================================================
