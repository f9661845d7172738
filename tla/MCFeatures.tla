------------------------------ MODULE MCFeatures ------------------------------
(* Instances of the modules of features and of what they use: state, data, *)
(* forms and animation.  A behaviour is one of the module, or of the part  *)
(* of it, that its subject names; the rest stays as one of its initial     *)
(* states.                                                                 *)
EXTENDS FeatureOperations, RuntimeUpdates, FeatureLifecycle, UndoHistory,
        StateStore, AsyncForms, DataProvider, ReactiveValues, Tweens,
        AnimationStates, Timeline, Caches, RoutedRuntime, Collections, TLC

CONSTANTS
    a, a2, b,   \* feature instances
    w1, w2      \* callbacks

VARIABLE subject     \* whose steps the behaviour takes

Updates    == {"graph", "pipeline"}
Undoing    == {"history", "contexts"}
Others     == {"queue", "lifecycle", "store", "forms", "provider", "reactive", "tweens",
               "states", "timeline", "cache", "pool", "routed", "collections"}

(* Two features with one name, the other of any scene.                     *)
Names2  == a :> "A" @@ a2 :> "A" @@ b :> "B"
Scenes2 == a :> "s1" @@ a2 :> "s1" @@ b :> "any"

Stages2 == {<<>>, <<"filter", "throttle">>, <<"filter", "debounce">>,
            <<"throttle", "window">>, <<"window">>}

(* Two subscribers of one key, a selector of both keys.                    *)
KeyOf2   == w1 :> "x" @@ w2 :> "x"
Depends2 == "both" :> {"x", "y"}

(* Two tweens at once, then one that takes no time.                        *)
Groups2 == <<<<1, 1>>, <<0>>>>

(* A loop, a region, one callback after a delay, two events out of order.  *)
Times2  == <<1, 4>>
Delays2 == <<2>>

(* Sequences without a step that takes time, with two, with one.           *)
StepsIn2 == "idle" :> 0 @@ "hover" :> 2 @@ "press" :> 1

(* A list whose view nobody is told of at first.                           *)
List2    == <<2>>
View2    == <<>>
Lists2   == {<<3, 1>>}
Entries2 == {<<<<"x", 1>>, <<"y", 2>>>>}
Queries2 == {<<TRUE, "down">>}

laterVars == <<storeVars, formVars, providerVars, reactiveVars, tweenVars>>
firstVars == <<opVars, updateVars, featureVars, undoVars>>
lastVars  == <<animationVars, timelineVars, cacheVars, poolVars, routedVars, collectionVars>>
allVars == <<firstVars, laterVars, lastVars, subject>>

(* A part that is not the subject starts in one of its states.             *)
AllInit ==
    /\ subject \in Updates \cup Undoing \cup Others
    /\ IF subject = "queue" THEN TRUE
       ELSE policy = [retries |-> 0, delayed |-> FALSE, timeout |-> FALSE]
    /\ IF subject = "graph" THEN TRUE ELSE depends = [n \in Nodes |-> {}] /\ propagates = TRUE
    /\ IF subject = "pipeline" THEN TRUE ELSE stages = <<>>
    /\ IF subject = "lifecycle" THEN TRUE ELSE scene = "s1"
    /\ IF subject = "states" THEN TRUE ELSE currentState = NoState
    /\ OpsInit /\ UpdateInit /\ FeaturesInit /\ UndoInit
    /\ StoreInit /\ FormsInit /\ ProviderInit /\ ReactiveInit /\ TweensInit
    /\ AnimationInit /\ TimelineInit /\ CacheInit /\ PoolInit /\ RoutedInit
    /\ IF subject = "collections" THEN TRUE ELSE collection = "dict"
    /\ CollectionsInit
    /\ \A n \in Nodes : depends[n] \subseteq 1 .. n - 1
    /\ ~policy.delayed
    /\ state["x"] = 0
    /\ subject # "forms" => fieldValue[1] = "good"

OpsOf ==
    /\ OpsNext
    /\ UNCHANGED <<updateVars, featureVars, undoVars, laterVars, lastVars, subject>>

UpdatesOf ==
    /\ UpdateNext
    /\ IF subject = "graph" THEN fate' = fate
       ELSE marked' = marked /\ (phase = "compute" \/ dirty' = dirty)
    /\ UNCHANGED <<opVars, featureVars, undoVars, laterVars, lastVars, subject>>

LifecycleOf ==
    /\ FeaturesNext
    /\ UNCHANGED <<opVars, updateVars, undoVars, laterVars, lastVars, subject>>

UndoOf ==
    /\ IF subject = "history" THEN HistoryNext ELSE ContextNext
    /\ UNCHANGED <<opVars, updateVars, featureVars, laterVars, lastVars, subject>>

StoreOf ==
    /\ StoreNext
    /\ UNCHANGED <<firstVars, formVars, providerVars, reactiveVars, tweenVars, lastVars, subject>>

FormsOf ==
    /\ FormsNext
    /\ UNCHANGED <<firstVars, storeVars, providerVars, reactiveVars, tweenVars, lastVars, subject>>

ProviderOf ==
    /\ ProviderNext
    /\ UNCHANGED <<firstVars, storeVars, formVars, reactiveVars, tweenVars, lastVars, subject>>

ReactiveOf ==
    /\ ReactiveNext
    /\ UNCHANGED <<firstVars, storeVars, formVars, providerVars, tweenVars, lastVars, subject>>

TweensOf ==
    /\ TweensNext
    /\ UNCHANGED <<firstVars, storeVars, formVars, providerVars, reactiveVars, lastVars, subject>>

StatesOf ==
    /\ AnimationNext
    /\ UNCHANGED <<firstVars, laterVars, timelineVars, cacheVars, poolVars, routedVars, collectionVars, subject>>

TimelineOf ==
    /\ TimelineNext
    /\ UNCHANGED <<firstVars, laterVars, animationVars, cacheVars, poolVars, routedVars, collectionVars, subject>>

CachesOf ==
    /\ IF subject = "cache" THEN CacheNext /\ UNCHANGED poolVars
       ELSE PoolNext /\ UNCHANGED cacheVars
    /\ UNCHANGED <<firstVars, laterVars, animationVars, timelineVars, routedVars, collectionVars, subject>>

RoutedOf ==
    /\ RoutedNext
    /\ UNCHANGED <<firstVars, laterVars, animationVars, timelineVars, cacheVars, poolVars, collectionVars, subject>>

CollectionsOf ==
    /\ CollectionsNext
    /\ UNCHANGED <<firstVars, laterVars, animationVars, timelineVars, cacheVars, poolVars,
                   routedVars, subject>>

AllNext ==
    \/ subject = "queue" /\ OpsOf
    \/ subject \in Updates /\ UpdatesOf
    \/ subject = "lifecycle" /\ LifecycleOf
    \/ subject \in Undoing /\ UndoOf
    \/ subject = "store" /\ StoreOf
    \/ subject = "forms" /\ FormsOf
    \/ subject = "provider" /\ ProviderOf
    \/ subject = "reactive" /\ ReactiveOf
    \/ subject = "tweens" /\ TweensOf
    \/ subject = "states" /\ StatesOf
    \/ subject = "timeline" /\ TimelineOf
    \/ subject \in {"cache", "pool"} /\ CachesOf
    \/ subject = "routed" /\ RoutedOf
    \/ subject = "collections" /\ CollectionsOf

AllSpec == AllInit /\ [][AllNext]_allVars

(* The variables of the modules keep their types.                          *)
AllTypeOK ==
    CASE subject = "queue"      -> OpsTypeOK
      [] subject \in Updates    -> UpdateTypeOK
      [] subject = "lifecycle"  -> FeaturesTypeOK
      [] subject \in Undoing    -> UndoTypeOK
      [] subject = "store"       -> StoreTypeOK
      [] subject = "forms"       -> FormsTypeOK
      [] subject = "provider"    -> ProviderTypeOK
      [] subject = "reactive"    -> ReactiveTypeOK
      [] subject = "tweens"      -> TweensTypeOK
      [] subject = "states"      -> AnimationTypeOK
      [] subject = "timeline"    -> TimelineTypeOK
      [] subject = "cache"       -> CacheTypeOK
      [] subject = "pool"        -> PoolTypeOK
      [] subject = "routed"      -> RoutedTypeOK
      [] subject = "collections" -> CollectionsTypeOK

(* A feature is started and ended as its manager says, and what it binds   *)
(* is released with it: see LifecycleSafe and RoutedSafe.                  *)
FeaturesSafe == LifecycleSafe /\ RoutedSafe

(* What callbacks do while others are still to be called -- patch and      *)
(* restore the store, assign and batch values, make and cancel tweens, ask *)
(* for animation states, add events to a timeline and play it, change the  *)
(* collection they are told of -- leaves everybody told and every tween,   *)
(* sequence and event in its turn: see StoreSafe, ReactiveSafe, TweensSafe,*)
(* AnimationSafe, TimelineSafe and CollectionsSafe.                        *)
CallbacksSafe == StoreSafe /\ ReactiveSafe /\ TweensSafe /\ AnimationSafe /\ TimelineSafe /\ CollectionsSafe

(* Answers that come late, in any order, or to a question that was         *)
(* withdrawn are not taken for those of the newest question, and threads   *)
(* that use a cache or a pool at once find what was put there: see         *)
(* FormsSafe, ProviderSafe, CacheSafe and PoolSafe.                        *)
AnswersSafe == FormsSafe /\ ProviderSafe /\ CacheSafe /\ PoolSafe
=============================================================================
