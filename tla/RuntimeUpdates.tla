---------------------------- MODULE RuntimeUpdates ----------------------------
(***************************************************************************)
(* The frame update of a feature's runtime systems (runtime_systems.py):   *)
(* an event pipeline, then a graph of derived values.                      *)
(*                                                                         *)
(* QoS limits, budgets and policies may deny each of them its turn in a    *)
(* frame.  A handler or a compute function runs the feature's code, which  *)
(* may publish events and mark nodes of the graph; the feature does both   *)
(* between frames too.  The graph is the one of ReactiveDependencyGraph-   *)
(* Runtime and ProjectionRuntime, or, where marks do not propagate, that   *)
(* of RecomputeOrchestrator.                                               *)
(***************************************************************************)
EXTENDS Integers, FiniteSets, SequencesExt

CONSTANTS
    NodeCount,      \* nodes of the graph, numbered in the order of the spec
    NodesPerUpdate, \* max_nodes_per_update
    EventCount,     \* bound: events published
    QueueSize,      \* max_queue_size of the pipeline
    StageLists,     \* the stages a pipeline may have: filter, throttle, then one that shapes
    Interval,       \* interval_updates of a throttle or debounce stage
    WindowSize      \* window_size of a window stage

ASSUME UpdatesAssumption ==
    /\ {NodeCount, NodesPerUpdate, QueueSize, Interval, WindowSize} \subseteq Nat \ {0}
    /\ EventCount \in Nat
    /\ StageLists \subseteq Seq({"filter", "throttle", "debounce", "window"})
    /\ \A list \in StageLists : ~({"debounce", "window"} \subseteq ToSet(list))

VARIABLES
    depends,     \* depends_on of each node
    propagates,  \* whether a mark reaches the dependents
    dirty,       \* _dirty
    behind,      \* <<n, m>>: the value of n does not reflect what m reads now
    marked,      \* history: nodes marked when the pump had reached or passed them
    missed,      \* history: nodes above these, computed and cleaned all the same
    place,       \* the place of the graph's pump in its order
    budget,      \* the nodes it may still compute
    stages,      \* the pipeline's stages
    queue,       \* its queue
    pending,     \* debounce_pending: <<>> or an event
    dueIn,       \* updates until it is due
    sinceLast,   \* updates since throttle_last_tick, up to Interval
    window,      \* the window
    fate,        \* history: what became of each event
    delivered,   \* history: the events handled, in order
    admitted,    \* whether the system being updated has its turn
    phase        \* what the update is doing

graphVars  == <<depends, propagates, dirty, behind, marked, missed, place, budget>>
pipeVars   == <<stages, queue, pending, dueIn, sinceLast, window, fate, delivered>>
updateVars == <<graphVars, pipeVars, admitted, phase>>

Nodes  == 1 .. NodeCount
Events == 1 .. EventCount

-----------------------------------------------------------------------------
(* The graph.                                                              *)

(* What a walk up from these nodes reaches when it stays in `through`: the *)
(* least set that has them and is closed.                                  *)
Reached(from, through) ==
    LET Closed(S) == \A d \in through : depends[d] \cap S # {} => d \in S
    IN  {n \in Nodes : \A S \in SUBSET Nodes : from \subseteq S /\ Closed(S) => n \in S}

(* The nodes that a change of n concerns: n and what depends on it.        *)
Above(n) == Reached({n}, Nodes)

(* _topological_order(): a node comes after those it depends on.           *)
IsOrder(o) == \A i, j \in Nodes : o[i] \in depends[o[j]] => i < j

Order == CHOOSE o \in [Nodes -> Nodes] : IsInjective(o) /\ IsOrder(o)

(* Mutant: a mark stays with the node.                                     *)
OnlyItself(n) == dirty \cup {n}

(* mark_dirty(): the walk goes up from nodes that were clean.              *)
Marked(n) ==
    dirty \cup IF propagates THEN Reached({n} \ dirty, Nodes \ dirty) ELSE {n}

Computing == phase = "compute"

(* What n reads has changed, and it is marked; by the feature, one of its  *)
(* handlers, or the compute function of a node (which has read its inputs). *)
Change(n) ==
    /\ phase \in {"idle", "handle", "handle_flushed", "compute"}
    /\ dirty' = Marked(n)
    /\ behind' = behind \cup (Above(n) \X {n})
    /\ marked' = IF Computing /\ n \in {Order[i] : i \in 1 .. place}
                 THEN marked \cup {n} ELSE marked
    /\ UNCHANGED <<depends, propagates, missed, place, budget, pipeVars, admitted, phase>>

BeginPump(admit) ==
    /\ phase = "flushed"
    /\ admitted' = admit
    /\ place' = 1
    /\ budget' = IF admit THEN NodesPerUpdate ELSE 0
    /\ marked' = {}
    /\ phase' = "pump"
    /\ UNCHANGED <<depends, propagates, dirty, behind, missed, pipeVars>>

SkipNode ==
    /\ phase = "pump"
    /\ place <= NodeCount
    /\ Order[place] \notin dirty
    /\ place' = place + 1
    /\ UNCHANGED <<depends, propagates, dirty, behind, marked, missed, budget,
                   pipeVars, admitted, phase>>

(* compute() reads its own inputs and the values of what it depends on.    *)
BeginCompute ==
    /\ phase = "pump"
    /\ place <= NodeCount
    /\ budget > 0
    /\ LET n == Order[place] IN
       /\ n \in dirty
       /\ behind' = {p \in behind : p[1] # n}
              \cup {<<n, m>> : m \in {m \in Nodes : \E d \in depends[n] : <<d, m>> \in behind}}
    /\ phase' = "compute"
    /\ UNCHANGED <<depends, propagates, dirty, marked, missed, place, budget, pipeVars, admitted>>

(* The value is stored and n is clean, also if n was marked meanwhile or   *)
(* depends on a node that was marked when the pump had passed it.          *)
EndCompute ==
    /\ Computing
    /\ LET n == Order[place] IN
       /\ dirty' = dirty \ {n}
       /\ missed' = IF \E m \in marked : n \in Above(m) THEN missed \cup {n} ELSE missed
    /\ place' = place + 1
    /\ budget' = budget - 1
    /\ phase' = "pump"
    /\ UNCHANGED <<depends, propagates, behind, marked, pipeVars, admitted>>

EndUpdate ==
    /\ phase' = "idle"
    /\ place' = 1 /\ budget' = 0 /\ marked' = {} /\ admitted' = FALSE

(* compute() raises: the exception ends the update, the value is the old.  *)
ComputeRaises ==
    /\ Computing
    /\ behind' = behind \cup ({Order[place]} \X Nodes)
    /\ EndUpdate
    /\ UNCHANGED <<depends, propagates, dirty, missed, pipeVars>>

EndPump ==
    /\ phase = "pump"
    /\ place <= NodeCount => budget = 0 /\ Order[place] \in dirty
    /\ EndUpdate
    /\ UNCHANGED <<depends, propagates, dirty, behind, missed, pipeVars>>

-----------------------------------------------------------------------------
(* The pipeline.                                                           *)

(* deque(maxlen=...): a full queue drops its oldest event.                 *)
Enqueued(e) ==
    IF Len(queue) < QueueSize THEN Append(queue, e) ELSE Append(Tail(queue), e)

Unpublished == {e \in Events : fate[e] = "none"}

(* publish(): by a source, the feature, or the pipeline's own handler.     *)
Publish ==
    /\ phase \in {"idle", "handle", "handle_flushed"}
    /\ Unpublished # {}
    /\ LET e == CHOOSE u \in Unpublished : \A v \in Unpublished : u <= v IN
       /\ queue' = Enqueued(e)
       /\ fate' = [f \in Events |->
             IF f = e THEN "queued"
             ELSE IF Len(queue) = QueueSize /\ f = Head(queue) THEN "dropped"
             ELSE fate[f]]
    /\ UNCHANGED <<graphVars, stages, pending, dueIn, sinceLast, window,
                   delivered, admitted, phase>>

(* on_update(): the tick.                                                  *)
BeginUpdate(admit) ==
    /\ phase = "idle"
    /\ admitted' = admit
    /\ sinceLast' = IF sinceLast < Interval THEN sinceLast + 1 ELSE Interval
    /\ dueIn' = IF dueIn > 0 THEN dueIn - 1 ELSE 0
    /\ phase' = "events"
    /\ UNCHANGED <<graphVars, stages, queue, pending, window, fate, delivered>>

Has(kind) == kind \in ToSet(stages)

Handle(es) ==
    /\ fate' = [f \in Events |-> IF f \in ToSet(es) THEN "delivered" ELSE fate[f]]
    /\ delivered' = delivered \o es

NowPending(e) == <<e>>

Stopped(e, why) ==
    /\ fate' = [fate EXCEPT ![e] = why]
    /\ UNCHANGED <<delivered, phase>>

(* _apply_stages(): the event goes through the stages, up to one that      *)
(* keeps it.                                                               *)
NextEvent ==
    /\ phase = "events"
    /\ admitted
    /\ queue # <<>>
    /\ queue' = Tail(queue)
    /\ LET e == Head(queue) IN
       \/ /\ Has("filter")
          /\ Stopped(e, "filtered")
          /\ UNCHANGED <<pending, dueIn, sinceLast, window>>
       \/ /\ Has("throttle") /\ sinceLast < Interval
          /\ Stopped(e, "throttled")
          /\ UNCHANGED <<pending, dueIn, sinceLast, window>>
       \/ /\ Has("throttle") => sinceLast = Interval
          /\ sinceLast' = IF Has("throttle") THEN 0 ELSE sinceLast
          /\ \/ /\ Has("debounce")
                /\ pending' = NowPending(e)
                /\ dueIn' = Interval
                /\ fate' = [f \in Events |->
                      IF f = e THEN "pending"
                      ELSE IF fate[f] = "pending" THEN "superseded" ELSE fate[f]]
                /\ UNCHANGED <<window, delivered, phase>>
             \/ /\ Has("window") /\ Len(window) + 1 < WindowSize
                /\ Stopped(e, "window")
                /\ window' = Append(window, e)
                /\ UNCHANGED <<pending, dueIn>>
             \/ /\ ~Has("debounce")
                /\ Has("window") => Len(window) + 1 = WindowSize
                /\ Handle(Append(window, e))
                /\ window' = <<>>
                /\ phase' = "handle"
                /\ UNCHANGED <<pending, dueIn>>
    /\ UNCHANGED <<graphVars, stages, admitted>>

(* The handler returns, or raises and the update is over.                  *)
HandlerEnds ==
    /\ phase \in {"handle", "handle_flushed"}
    /\ \/ /\ phase' = IF phase = "handle" THEN "events" ELSE "flushed"
          /\ UNCHANGED <<marked, place, budget, admitted>>
       \/ EndUpdate
    /\ UNCHANGED <<depends, propagates, dirty, behind, missed, pipeVars>>

(* _flush_debounce_if_due().  What is due is taken whether or not the      *)
(* pipeline has its turn.                                                  *)
Flush ==
    /\ phase = "events"
    /\ ~admitted \/ queue = <<>>
    /\ \/ /\ pending # <<>> /\ dueIn = 0
          /\ pending' = <<>>
          /\ IF admitted THEN Handle(pending) /\ phase' = "handle_flushed"
             ELSE /\ fate' = [fate EXCEPT ![pending[1]] = "lost"]
                  /\ phase' = "flushed"
                  /\ UNCHANGED delivered
       \/ /\ pending = <<>> \/ dueIn > 0
          /\ phase' = "flushed"
          /\ UNCHANGED <<pending, fate, delivered>>
    /\ UNCHANGED <<graphVars, stages, queue, dueIn, sinceLast, window, admitted>>

-----------------------------------------------------------------------------
UpdateInit ==
    /\ depends \in [Nodes -> SUBSET Nodes]
    /\ \A n \in Nodes : depends[n] \cap Above(n) = {}
    /\ propagates \in BOOLEAN
    /\ dirty = Nodes
    /\ behind = Nodes \X Nodes
    /\ marked = {} /\ missed = {}
    /\ place = 1 /\ budget = 0
    /\ stages \in StageLists
    /\ queue = <<>> /\ pending = <<>> /\ window = <<>> /\ delivered = <<>>
    /\ dueIn = 0 /\ sinceLast = Interval
    /\ fate = [e \in Events |-> "none"]
    /\ admitted = FALSE
    /\ phase = "idle"

UpdateNext ==
    \/ \E n \in Nodes : Change(n)
    \/ \E admit \in BOOLEAN : BeginPump(admit) \/ BeginUpdate(admit)
    \/ SkipNode
    \/ BeginCompute
    \/ EndCompute
    \/ ComputeRaises
    \/ EndPump
    \/ Publish
    \/ NextEvent
    \/ HandlerEnds
    \/ Flush

UpdateSpec == UpdateInit /\ [][UpdateNext]_updateVars

-----------------------------------------------------------------------------
UpdateTypeOK ==
    /\ depends \in [Nodes -> SUBSET Nodes] /\ propagates \in BOOLEAN
    /\ {dirty, marked, missed} \subseteq SUBSET Nodes
    /\ behind \subseteq Nodes \X Nodes
    /\ place \in 1 .. NodeCount + 1 /\ budget \in 0 .. NodesPerUpdate
    /\ stages \in StageLists
    /\ {queue, pending, window, delivered} \subseteq Seq(Events)
    /\ Len(queue) <= QueueSize /\ Len(pending) <= 1 /\ Len(window) < WindowSize
    /\ {dueIn, sinceLast} \subseteq 0 .. Interval
    /\ fate \in [Events -> {"none", "queued", "dropped", "filtered", "throttled",
                    "pending", "superseded", "window", "delivered", "lost"}]
    /\ admitted \in BOOLEAN
    /\ phase \in {"idle", "events", "handle", "handle_flushed", "flushed",
                   "pump", "compute"}

(* A node that is not dirty has the value its inputs and its dependencies  *)
(* give now (in RecomputeOrchestrator, its inputs), whatever is marked     *)
(* when, however often a pump stops half-way and whichever nodes raise;    *)
(* except above a node that a compute function marked too late.            *)
CleanIsCurrent ==
    \A n \in Nodes \ dirty, m \in Nodes :
        /\ <<n, m>> \in behind
        /\ propagates \/ m = n
        => \E k \in missed : n \in Above(k)

(* Every event that was published is in one place: in the queue, waiting   *)
(* in a debounce or a window, handled, or gone for the reason its stage    *)
(* gives, a full queue losing the oldest and a debounce all but the last.  *)
(* What is handled is handled once and in the order of publication.        *)
EventsAccounted ==
    LET In(why) == {e \in Events : fate[e] = why}
        Increasing(s) == \A i, j \in DOMAIN s : i < j => s[i] < s[j]
    IN
    /\ ToSet(queue) = In("queued") /\ ToSet(pending) = In("pending")
    /\ ToSet(window) = In("window") /\ ToSet(delivered) = In("delivered")
    /\ Increasing(delivered \o window \o pending \o queue)
    /\ \A e \in In("dropped") : fate[e + QueueSize] # "none"
    /\ \A e \in In("superseded") :
          \E f \in Events : f > e /\ fate[f] \in {"pending", "superseded", "delivered", "lost"}

UpdatesSafe == CleanIsCurrent /\ EventsAccounted

=============================================================================
