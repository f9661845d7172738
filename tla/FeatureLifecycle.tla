--------------------------- MODULE FeatureLifecycle ---------------------------
(***************************************************************************)
(* Features and their manager (gui_do/features/feature_lifecycle.py), what *)
(* a routed feature binds and unbinds (data_driven_runtime.py), and the    *)
(* replacement of a feature (FeatureHotSwapManager, runtime_systems.py).   *)
(*                                                                         *)
(* Two instances may have one name, so that one can replace the other or   *)
(* be registered after it.  The program may call the manager between hooks *)
(* and in on_update(); every hook may raise.                               *)
(***************************************************************************)
EXTENDS Integers, FiniteSets, SequencesExt, SequenceFilter

CONSTANTS
    Instances,    \* feature objects
    NameOf,       \* the name of each
    SceneOf,      \* its scene_name, AnyScene for None
    LogicFeatures,\* instances of LogicFeature
    Routed,       \* features that bind and shut down a routed runtime
    Scenes,
    AnyScene

ASSUME FeaturesAssumption ==
    /\ LogicFeatures \subseteq Instances /\ Routed \subseteq Instances
    /\ DOMAIN NameOf = Instances
    /\ SceneOf \in [Instances -> Scenes \cup {AnyScene}]

VARIABLES
    fm,       \* the manager and what its features hold
    scene,    \* active_scene_name
    pass,     \* the entries an update pass has still to visit
    owed      \* history: the features this pass must still update

featureVars == <<fm, scene, pass, owed>>

NamesIn(S) == {NameOf[i] : i \in S}
Names      == NamesIn(Instances)
NotBuilt == <<"not built">>

(* What a routed feature holds: its runtime scope, bindings of actions and *)
(* keys, event subscriptions.                                              *)
SetupOrder == <<"scope", "actions", "events">>

InScene(order, s) == Including(order, {i \in Instances : SceneOf[i] \in {s, AnyScene}})

Registered(m) == ToSet(m.order)
ByName(m, n)  == {i \in Registered(m) : NameOf[i] = n}

(* Mutant: the views of the scenes stay as they were built.                *)
StillBuilt(views) == views

(* _invalidate_scene_feature_views().                                      *)
Invalidated(views) == [s \in Scenes |-> NotBuilt]

-----------------------------------------------------------------------------
(* Registration.                                                           *)

AfterRegister(m, i) ==
    [m EXCEPT !.order = Append(@, i), !.bound = @ \ {NameOf[i]},
              !.views = Invalidated(@)]

WithoutBindings(bindings, n) ==
    {b \in bindings : b.consumer # n /\ b.provider # n}

AfterUnregister(m, i) ==
    [m EXCEPT !.order = Excluding(@, {i}), !.bound = @ \ {NameOf[i]},
              !.bindings = WithoutBindings(@, NameOf[i]),
              !.views = Invalidated(@)]

(* shutdown_routed_runtime(): subscriptions, then the scope.               *)
Released(held) == held \ {"events", "scope"}

(* shutdown_runtime() of features.                                         *)
AfterShutdown(m, S) ==
    [m EXCEPT !.running = @ \ S,
              !.held = [i \in Instances |-> IF i \in S \cap Routed THEN Released(@[i]) ELSE @[i]]]

(* bind_runtime() of features returns: they go through their setups.       *)
AfterBind(m, S) ==
    [m EXCEPT !.running = @ \cup S, !.half = @ \ S, !.bound = @ \cup NamesIn(S),
              !.held = [i \in Instances |-> IF i \in S \cap Routed THEN ToSet(SetupOrder) ELSE @[i]]]

(* It raises, after some steps of the setup.                               *)
HalfBound(m, i, steps) ==
    [m EXCEPT !.half = @ \cup ({i} \cap Routed),
              !.held[i] = IF i \in Routed THEN @ \cup ToSet(SubSeq(SetupOrder, 1, steps)) ELSE @]

(* register().  on_register() may raise; a name is registered once.        *)
Register(i) ==
    /\ ByName(fm, NameOf[i]) = {}
    /\ fm' = AfterRegister(fm, i)
    /\ UNCHANGED <<scene, pass, owed>>

(* unregister(): the runtime is shut down if it is bound.                  *)
ShutForUnregister(m, i) ==
    IF NameOf[i] \in m.bound THEN AfterShutdown(m, {i}) ELSE m

Unregister(i) ==
    /\ i \in Registered(fm)
    /\ \/ /\ fm' = AfterUnregister(ShutForUnregister(fm, i), i)
          /\ owed' = owed \ {i}
       \/ /\ fm' = ShutForUnregister(fm, i)  \* on_unregister() raises
          /\ UNCHANGED owed
    /\ UNCHANGED <<scene, pass>>

-----------------------------------------------------------------------------
(* The runtime of all features.                                            *)

(* bind_runtime(): features in order, up to one whose setup raises.        *)
BindRuntime(upto, steps) ==
    /\ upto \in 0 .. Len(fm.order)
    /\ upto = Len(fm.order) => steps = 0
    /\ LET done == AfterBind(fm, ToSet(SubSeq(fm.order, 1, upto))) IN
       fm' = IF upto = Len(fm.order) THEN done
             ELSE HalfBound(done, fm.order[upto + 1], steps)
    /\ UNCHANGED <<scene, pass, owed>>

(* shutdown_runtime(): bound features in the reverse order, up to one      *)
(* whose shutdown raises.                                                  *)
ShutdownRuntime(upto) ==
    /\ LET bound == Including(Reverse(fm.order), {i \in Instances : NameOf[i] \in fm.bound})
           done  == ToSet(SubSeq(bound, 1, upto))
       IN
       /\ upto \in 0 .. Len(bound)
       /\ fm' = [AfterShutdown(fm, done) EXCEPT !.bound = @ \ NamesIn(done)]
    /\ UNCHANGED <<scene, pass, owed>>

(* FeatureHotSwapManager.replace(): `done` tells how far it got: the old   *)
(* feature unregistered, the new one registered, then bound.               *)
Replace(old, new, done, steps) ==
    /\ old \in Registered(fm)
    /\ new \notin Registered(fm)
    /\ NameOf[new] = NameOf[old]
    /\ LET gone  == AfterUnregister(ShutForUnregister(fm, old), old)
           there == AfterRegister(gone, new)
       IN
       /\ fm' = CASE done = "unregistered" -> gone
                  [] done = "registered"   -> HalfBound(there, new, steps)
                  [] done = "bound"        -> AfterBind(there, {new})
    /\ owed' = owed \ {old}
    /\ UNCHANGED <<scene, pass>>

-----------------------------------------------------------------------------
(* Logic bindings (one alias).                                             *)

BindLogic(consumer, provider) ==
    /\ ByName(fm, consumer) # {}
    /\ ByName(fm, provider) \cap LogicFeatures # {}
    /\ fm' = [fm EXCEPT !.bindings =
                 {b \in @ : b.consumer # consumer}
                 \cup {[consumer |-> consumer, provider |-> provider]}]
    /\ UNCHANGED <<scene, pass, owed>>

UnbindLogic(consumer) ==
    /\ \E b \in fm.bindings : b.consumer = consumer
    /\ fm' = [fm EXCEPT !.bindings = {b \in @ : b.consumer # consumer}]
    /\ UNCHANGED <<scene, pass, owed>>

-----------------------------------------------------------------------------
(* A pass of update_features() over the view of the active scene, which is *)
(* built when it is not there.                                             *)

BeginPass ==
    /\ pass = <<>>
    /\ LET view == IF fm.views[scene] = NotBuilt THEN InScene(fm.order, scene)
                   ELSE fm.views[scene]
       IN  /\ fm' = [fm EXCEPT !.views[scene] = view]
           /\ pass' = view
    /\ owed' = ToSet(InScene(fm.order, scene))
    /\ UNCHANGED <<scene>>

(* on_update() returns; or raises, and the pass is over.                   *)
UpdateFeature ==
    /\ pass # <<>>
    /\ \/ /\ pass' = Tail(pass)
          /\ owed' = owed \ {Head(pass)}
       \/ /\ pass' = <<>>
          /\ owed' = {}
    /\ UNCHANGED <<fm, scene>>

SwitchScene(s) ==
    /\ s # scene
    /\ scene' = s
    /\ UNCHANGED <<fm, pass, owed>>

FeaturesInit ==
    /\ fm = [order |-> <<>>, bound |-> {}, bindings |-> {},
             views |-> [s \in Scenes |-> NotBuilt],
             running |-> {}, half |-> {},
             held |-> [i \in Instances |-> {}]]
    /\ scene \in Scenes
    /\ pass = <<>> /\ owed = {}

FeaturesNext ==
    \/ \E i \in Instances : Register(i) \/ Unregister(i)
    \/ \E upto \in 0 .. Cardinality(Instances) :
          \/ ShutdownRuntime(upto)
          \/ \E steps \in 0 .. Len(SetupOrder) - 1 : BindRuntime(upto, steps)
    \/ \E old, new \in Instances :
          \/ \E done \in {"unregistered", "bound"} : Replace(old, new, done, 0)
          \/ \E steps \in 0 .. Len(SetupOrder) - 1 : Replace(old, new, "registered", steps)
    \/ \E m, n \in Names : BindLogic(m, n)
    \/ \E n \in Names : UnbindLogic(n)
    \/ BeginPass
    \/ UpdateFeature
    \/ \E s \in Scenes : SwitchScene(s)

FeaturesSpec == FeaturesInit /\ [][FeaturesNext]_featureVars

-----------------------------------------------------------------------------
FeaturesTypeOK ==
    /\ fm.order \in Seq(Instances) /\ IsInjective(fm.order)
    /\ fm.bound \subseteq Names
    /\ fm.bindings \subseteq [consumer : Names, provider : Names]
    /\ \A s \in Scenes : fm.views[s] = NotBuilt \/ fm.views[s] \in Seq(Instances)
    /\ {fm.running, fm.half, owed} \subseteq SUBSET Instances
    /\ fm.held \in [Instances -> SUBSET ToSet(SetupOrder)]
    /\ scene \in Scenes
    /\ pass \in Seq(Instances)

(* A pass updates every feature of its scene that is registered when it    *)
(* begins and still is when its turn comes: the view it runs over is that  *)
(* of the features that are registered, in their order, whatever was       *)
(* registered, unregistered or replaced since the view was built.          *)
PassesReachAll ==
    /\ owed \subseteq ToSet(pass)
    /\ \A s \in Scenes : fm.views[s] \in {NotBuilt, InScene(fm.order, s)}

(* A logic binding is between registered features, its provider a logic    *)
(* feature: also when a feature with the same name came instead.           *)
BindingsResolve ==
    \A b \in fm.bindings :
        /\ ByName(fm, b.consumer) # {}
        /\ ByName(fm, b.provider) \cap LogicFeatures # {}

(* A runtime that was bound and not shut down is that of a registered      *)
(* feature which the manager knows to be bound, so that it will be shut    *)
(* down; and only such a runtime, or one whose setup raised, has a scope   *)
(* or event subscriptions.                                                 *)
RuntimesAreKnown ==
    /\ fm.bound \subseteq NamesIn(Registered(fm))
    /\ \A i \in fm.running : i \in Registered(fm) /\ NameOf[i] \in fm.bound
    /\ \A i \in Instances :
          fm.held[i] \cap {"scope", "events"} # {} => i \in fm.running \cup fm.half

LifecycleSafe == PassesReachAll /\ BindingsResolve /\ RuntimesAreKnown

=============================================================================
