---------------------------- MODULE EventBusProofs ----------------------------
(***************************************************************************)
(* The bus and the coroutines, for any topics, scopes, handlers, generators*)
(* and nesting of calls.  EventBus: its tables agree, and every publish()  *)
(* delivers what it was for.  CooperativeScheduler: no running coroutine   *)
(* is lost or held twice, and a frame looks once at each.                  *)
(***************************************************************************)
EXTENDS CooperativeScheduler, SequenceLemmas

-----------------------------------------------------------------------------
(* The inductive invariant.                                                *)

(* A subscription.                                                         *)
Sub == [topic : Topics, scope : Scopes \cup {NoScope}, handler : Handlers \cup (Cos \X Nat),
        once : BOOLEAN]

(* The frames of publish() and of the handlers it calls, I the numbers of  *)
(* the subscriptions; those of coroutines and of update().                 *)
Refs(I) == [key : Key \cup {<<>>}, held : Seq(I)]
Publishing(I) ==
    [kind : {"publish"}, topic : Topics, todo : Seq(Refs(I)), at : Nat,
     fixed : BOOLEAN, addressed : Seq(I), done : Seq(I), made : Nat \X Nat]
Calling(I) == [kind : {"handler", "wakeup"}, sub : I]
Stepping   == [kind : {"step"}, co : Cos, first : BOOLEAN]
UpdateCall == [kind : {"update"}, read : Nat, write : Nat, cur : Cos \cup {None}]
Frames(I)  == Publishing(I) \cup Calling(I) \cup Stepping \cup UpdateCall

BusTypes ==
    /\ info \in Seq(Sub)
    /\ lists \in [Key -> Seq(Ids)]
    /\ byScope \in [Scopes -> SUBSET Ids]
    /\ snapshots \in [Topics -> Seq(Ids)]
    /\ dirty \in SUBSET Topics
    /\ ledger \in Seq(Ids)
    /\ twins \in BOOLEAN

(* The subscriptions that belong in the list of k.                         *)
Members(k) == {s \in Ids : k \in KeysOf(s)}

ListsKept ==
    /\ \A k \in Key : IsInjective(lists[k]) /\ ToSet(lists[k]) \subseteq Members(k)
    /\ \A t \in Topics :
         /\ IsInjective(snapshots[t])
         /\ t \in dirty \/ snapshots[t] = <<>> \/ snapshots[t] = lists[<<t, AllSubs>>]

TablesAgree ==
    ~twins =>
      /\ \A k \in Key : lists[k] = Including(ledger, Members(k))
      /\ \A sc \in Scopes : byScope[sc] = ToSet(ledger) \cap ScopedIn(sc)
      /\ \A r, s \in ToSet(ledger) : info[r] = info[s] /\ ~info[s].once => r = s

(* What is iterated under the frame f of publish(): the first list of its  *)
(* todo, and the second, L the lists of the bus.                           *)
Items(ref, L)   == IF ref.key \in Key THEN L[ref.key] ELSE ref.held
FirstOf(f, L)  == Items(f.todo[1], L)
SecondOf(f, L) == IF Len(f.todo) = 2 THEN Items(f.todo[2], L) ELSE <<>>

Unrepeated(done, at, c, d) ==
    /\ IsInjective(done) /\ IsInjective(c) /\ IsInjective(d)
    /\ \A i \in 1 .. Len(c) : i > at => c[i] \notin ToSet(done)
    /\ ToSet(d) \cap (ToSet(c) \cup ToSet(done)) = {}

Follows(addressed, done, at, c, d) ==
    LET b == Len(done) - at IN
    /\ b >= 0 /\ at <= Len(c)
    /\ Len(addressed) = b + Len(c) + Len(d)
    /\ \A i \in 1 .. Len(done) : addressed[i] = done[i]
    /\ \A i \in 1 .. Len(c) : addressed[b + i] = c[i]
    /\ \A i \in 1 .. Len(d) : addressed[b + Len(c) + i] = d[i]

TodoShape(f) ==
    /\ Len(f.todo) \in {1, 2}
    /\ f.fixed => Len(f.todo) = 1 /\ f.todo[1].key \notin Key
    /\ Len(f.todo) = 2 => /\ f.todo[1].key \in Key => f.todo[1].key[2] = NoScope
                          /\ f.todo[2].key \in Key => f.todo[2].key[2] \in Scopes

Iterating(f, L, counts, tw) ==
    /\ TodoShape(f)
    /\ f.made[1] <= counts[1] /\ (f.made[1] = counts[1] => counts[2] <= f.made[2])
    /\ Unrepeated(f.done, f.at, FirstOf(f, L), SecondOf(f, L))
    /\ ~tw /\ (f.fixed \/ f.made = counts) =>
         Follows(f.addressed, f.done, f.at, FirstOf(f, L), SecondOf(f, L))

(* The call stack: a handler is called by publish().                       *)
CalledBy(frames) ==
    \A i \in 1 .. Len(frames) :
        frames[i].kind \in {"handler", "wakeup"} => i < Len(frames) /\ frames[i + 1].kind = "publish"
Deliveries(frames, L, counts, tw) ==
    /\ CalledBy(frames)
    /\ \A i \in 1 .. Len(frames) :
         frames[i].kind = "publish" => Iterating(frames[i], L, counts, tw)

(* What holds of the bus with `frames` for its call stack.                 *)
BusHolds(frames) ==
    /\ BusTypes /\ ListsKept /\ TablesAgree
    /\ frames \in Seq(Frames(Ids)) /\ Deliveries(frames, lists, Counts, twins)
BusInv == BusHolds(stack)

-----------------------------------------------------------------------------
(* Sequences.                                                              *)

(* Sequences over a set are sequences over a larger one.                   *)
LEMMA MoreTyped ==
    ASSUME NEW X, NEW Y, X \subseteq Y
    PROVE  Seq(X) \subseteq Seq(Y)
<1> SUFFICES ASSUME NEW s \in Seq(X) PROVE s \in Seq(Y)
  OBVIOUS
<1>1. Len(s) \in Nat /\ s \in [1 .. Len(s) -> X]
  OBVIOUS
<1> QED BY <1>1

(* What is left of a sequence is no longer, and shorter if anything went.  *)
LEMMA ExcludingOrder ==
    ASSUME NEW X, NEW s \in Seq(X), NEW S
    PROVE  \E at \in [1 .. Len(Excluding(s, S)) -> 1 .. Len(s)] :
             /\ \A k \in 1 .. Len(Excluding(s, S)) : at[k] >= k /\ Excluding(s, S)[k] = s[at[k]]
             /\ \A k, l \in 1 .. Len(Excluding(s, S)) : k < l => at[k] < at[l]
<1> DEFINE e == Excluding(s, S)
           m == Len(e)
<1>1. e \in Seq(X) /\ \E at : KeptAt(e, s, S, Len(s), at)
  BY ExcludingPlaces
<1>2. m \in Nat /\ Len(s) \in Nat
  BY <1>1
<1> HIDE DEF e
<1>3. PICK at : KeptAt(e, s, S, Len(s), at)
  BY <1>1
<1>4. /\ at \in [1 .. m -> 1 .. Len(s)]
      /\ \A k \in 1 .. m : e[k] = s[at[k]]
      /\ \A k, l \in 1 .. m : k < l => at[k] < at[l]
  BY <1>3 DEF KeptAt
<1> DEFINE G == {k \in Nat : k \in 1 .. m => at[k] >= k}
<1>5. 0 \in G
  OBVIOUS
<1>6. ASSUME NEW k \in Nat, k \in G PROVE k + 1 \in G
  <2> SUFFICES ASSUME k + 1 \in 1 .. m PROVE at[k + 1] >= k + 1
    OBVIOUS
  <2>1. at[k + 1] \in Nat /\ at[k + 1] >= 1
    BY <1>2, <1>4
  <2>2. CASE k = 0
    BY <2>1, <2>2
  <2>3. CASE k # 0
    <3>1. k \in 1 .. m /\ k < k + 1
      BY <2>3, <1>2
    <3>2. at[k] \in Nat /\ at[k] >= k /\ at[k] < at[k + 1]
      BY <3>1, <1>2, <1>4, <1>6
    <3> QED BY <2>1, <3>2
  <2> QED BY <2>2, <2>3
<1>7. Nat \subseteq G
  <2> HIDE DEF G
  <2> QED BY <1>5, <1>6, InductiveSet
<1>8. \A k \in 1 .. m : at[k] >= k
  BY <1>2, <1>7
<1> QED BY <1>4, <1>8 DEF e

(* What is left of a sequence is no longer.                                *)
LEMMA ExcludingLength ==
    ASSUME NEW X, NEW s \in Seq(X), NEW S
    PROVE  /\ Len(Excluding(s, S)) \in Nat /\ Len(Excluding(s, S)) <= Len(s)
           /\ Len(Excluding(s, S)) = Len(s) => ToSet(s) \cap S = {}
<1> DEFINE G == {q \in Seq(X) : /\ Len(Excluding(q, S)) <= Len(q)
                                /\ Len(Excluding(q, S)) = Len(q) => ToSet(q) \cap S = {}}
<1>1. <<>> \in G
  <2>1. Excluding(<<>>, S) = <<>> /\ ToSet(<<>>) = {}
    BY ExcludingEmpty DEF ToSet
  <2> QED BY <2>1
<1>2. ASSUME NEW q \in Seq(X), NEW e \in X, q \in G PROVE Append(q, e) \in G
  <2> DEFINE x == Excluding(q, S)
             r == Append(q, e)
             y == Excluding(r, S)
  <2>1. x \in Seq(X) /\ y = IF e \in S THEN x ELSE Append(x, e)
    BY ExcludingAppend, ExcludingType
  <2>2. r \in Seq(X) /\ ToSet(r) = ToSet(q) \cup {e} /\ Len(r) = Len(q) + 1 /\ Len(q) \in Nat
    BY AppendSet
  <2>3. Len(x) <= Len(q) /\ (Len(x) = Len(q) => ToSet(q) \cap S = {})
    BY <1>2
  <2> HIDE DEF x, y, r
  <2>4. Len(x) \in Nat /\ Len(Append(x, e)) = Len(x) + 1
    BY <2>1
  <2>5. Len(y) <= Len(r) /\ (Len(y) = Len(r) => ToSet(r) \cap S = {})
    <3>1. CASE e \in S
      BY <3>1, <2>1, <2>2, <2>3, <2>4
    <3>2. CASE e \notin S
      BY <3>2, <2>1, <2>2, <2>3, <2>4
    <3> QED BY <3>1, <3>2
  <2> QED BY <2>2, <2>5 DEF x, y, r
<1>3. Seq(X) \subseteq G
  <2> HIDE DEF G
  <2> QED BY <1>1, <1>2, InductiveSequences
<1>4. Excluding(s, S) \in Seq(X)
  BY ExcludingType
<1> QED BY <1>3, <1>4

(* A sequence followed by nothing but a new first element.                 *)
LEMMA PushedOn ==
    ASSUME NEW X, NEW s \in Seq(X), NEW e \in X
    PROVE  /\ <<e>> \o s \in Seq(X) /\ Len(<<e>> \o s) = Len(s) + 1 /\ Len(s) \in Nat
           /\ (<<e>> \o s)[1] = e /\ \A i \in 1 .. Len(s) : (<<e>> \o s)[i + 1] = s[i]
<1>1. <<e>> \in Seq(X) /\ Len(<<e>>) = 1 /\ <<e>>[1] = e /\ Len(s) \in Nat
  OBVIOUS
<1> QED BY <1>1, ConcatProperties

-----------------------------------------------------------------------------
(* Lists under iteration.                                                  *)

(* What a key of `lists` is made of.                                       *)
LEMMA KeyParts ==
    /\ <<>> \notin Key
    /\ \A k \in Key : k = <<k[1], k[2]>> /\ k[1] \in Topics
                      /\ k[2] \in Scopes \cup {NoScope, AllSubs}
    /\ \A t \in Topics, sc \in Scopes \cup {NoScope, AllSubs} : <<t, sc>> \in Key
  BY DEF Key

(* The frames keep their types as subscriptions are made.                  *)
LEMMA MoreFrames ==
    ASSUME NEW I, NEW J, I \subseteq J
    PROVE  Seq(I) \subseteq Seq(J) /\ Frames(I) \subseteq Frames(J) /\ Seq(Frames(I)) \subseteq Seq(Frames(J))
<1>1. Seq(I) \subseteq Seq(J)
  BY MoreTyped
<1>2. Refs(I) \subseteq Refs(J)
  BY <1>1 DEF Refs
<1>3. Seq(Refs(I)) \subseteq Seq(Refs(J))
  BY <1>2, MoreTyped
<1>4. Publishing(I) \subseteq Publishing(J)
  BY <1>1, <1>3 DEF Publishing
<1>5. Frames(I) \subseteq Frames(J)
  BY <1>4 DEF Frames, Calling, Stepping, UpdateCall
<1> QED BY <1>1, <1>5, MoreTyped

(* Elements go out of the lists under iteration: none comes back.          *)
LEMMA UnrepeatedLess ==
    ASSUME NEW X, NEW c \in Seq(X), NEW d \in Seq(X), NEW done \in Seq(X), NEW at \in Nat, NEW S,
           Unrepeated(done, at, c, d),
           NEW c2 \in {c, Excluding(c, S)}, NEW d2 \in {d, Excluding(d, S)}
    PROVE  Unrepeated(done, at, c2, d2)
<1>1. /\ c2 \in Seq(X) /\ IsInjective(c2) /\ ToSet(c2) \subseteq ToSet(c)
      /\ d2 \in Seq(X) /\ IsInjective(d2) /\ ToSet(d2) \subseteq ToSet(d)
  BY DistinctWithout DEF Unrepeated
<1>2. ASSUME NEW i \in 1 .. Len(c2), i > at PROVE c2[i] \notin ToSet(done)
  <2>1. CASE c2 = c
    BY <2>1, <1>2 DEF Unrepeated
  <2>2. CASE c2 = Excluding(c, S)
    <3>1. PICK p \in [1 .. Len(c2) -> 1 .. Len(c)] :
              \A k \in 1 .. Len(c2) : p[k] >= k /\ c2[k] = c[p[k]]
      BY <2>2, ExcludingOrder
    <3>2. Len(c) \in Nat /\ Len(c2) \in Nat
      BY <1>1
    <3>4. p[i] \in 1 .. Len(c) /\ p[i] >= i /\ c2[i] = c[p[i]]
      BY <3>1
    <3>3. p[i] \in 1 .. Len(c) /\ p[i] > at /\ c2[i] = c[p[i]]
      BY <3>2, <3>4, <1>2
    <3> QED BY <3>3 DEF Unrepeated
  <2> QED BY <2>1, <2>2
<1> QED BY <1>1, <1>2 DEF Unrepeated

(* A new subscription goes to the end of one of them.                      *)
LEMMA UnrepeatedMore ==
    ASSUME NEW X, NEW c \in Seq(X), NEW d \in Seq(X), NEW done \in Seq(X), NEW at \in Nat,
           NEW n, n \notin X, Unrepeated(done, at, c, d)
    PROVE  /\ Unrepeated(done, at, Append(c, n), d)
           /\ Unrepeated(done, at, c, Append(d, n))
<1> SUFFICES ASSUME NEW c2 \in {c, Append(c, n)}, NEW d2 \in {d, Append(d, n)}, c2 = c \/ d2 = d
             PROVE  Unrepeated(done, at, c2, d2)
  OBVIOUS
<1> DEFINE Y == X \cup {n}
<1>1. c \in Seq(Y) /\ d \in Seq(Y) /\ done \in Seq(Y) /\ n \in Y
  BY MoreTyped
<1>2. n \notin ToSet(c) /\ n \notin ToSet(d) /\ n \notin ToSet(done)
  BY InSet
<1> HIDE DEF Y
<1>3. /\ IsInjective(c2) /\ IsInjective(d2)
      /\ ToSet(c2) = ToSet(c) \cup (IF c2 = c THEN {} ELSE {n})
      /\ ToSet(d2) = ToSet(d) \cup (IF d2 = d THEN {} ELSE {n})
  <2>1. IsInjective(c) /\ IsInjective(d)
    BY DEF Unrepeated
  <2>2. /\ IsInjective(Append(c, n)) /\ ToSet(Append(c, n)) = ToSet(c) \cup {n}
        /\ IsInjective(Append(d, n)) /\ ToSet(Append(d, n)) = ToSet(d) \cup {n}
    BY <1>1, <1>2, <2>1, DistinctWith
  <2> QED BY <2>1, <2>2
<1>4. ToSet(d2) \cap (ToSet(c2) \cup ToSet(done)) = {}
  BY <1>2, <1>3 DEF Unrepeated
<1>5. ASSUME NEW i \in 1 .. Len(c2), i > at PROVE c2[i] \notin ToSet(done)
  <2>1. CASE c2 = c
    BY <2>1, <1>5 DEF Unrepeated
  <2>2. CASE c2 = Append(c, n)
    <3>1. /\ Len(c) \in Nat /\ Len(c2) = Len(c) + 1 /\ c2[Len(c) + 1] = n
          /\ \A k \in 1 .. Len(c) : c2[k] = c[k]
      BY <2>2, <1>1
    <3>2. i \in 1 .. Len(c) \/ i = Len(c) + 1
      BY <3>1
    <3> QED BY <3>1, <3>2, <1>2, <1>5 DEF Unrepeated
  <2> QED BY <2>1, <2>2
<1> QED BY <1>3, <1>4, <1>5 DEF Unrepeated

(* The lists of a frame.                                                   *)
LEMMA FrameParts ==
    ASSUME NEW I, NEW f \in Publishing(I), NEW L \in [Key -> Seq(I)], TodoShape(f)
    PROVE  /\ f.todo \in Seq(Refs(I)) /\ f.done \in Seq(I) /\ f.at \in Nat /\ f.made \in Nat \X Nat
           /\ DOMAIN f.todo = 1 .. Len(f.todo) /\ Len(f.todo) \in {1, 2}
           /\ \A j \in 1 .. Len(f.todo) : f.todo[j] \in Refs(I) /\ Items(f.todo[j], L) \in Seq(I)
           /\ FirstOf(f, L) \in Seq(I) /\ SecondOf(f, L) \in Seq(I)
           /\ f.kind = "publish" /\ f.addressed \in Seq(I) /\ f.fixed \in BOOLEAN
<1>1. /\ f.todo \in Seq(Refs(I)) /\ f.done \in Seq(I) /\ f.at \in Nat /\ f.made \in Nat \X Nat
      /\ f.kind = "publish" /\ f.addressed \in Seq(I) /\ f.fixed \in BOOLEAN
  BY DEF Publishing
<1>2. Len(f.todo) \in {1, 2}
  BY DEF TodoShape
<1> DEFINE td == f.todo
<1>3. td \in Seq(Refs(I)) /\ Len(td) \in {1, 2}
  BY <1>1, <1>2
<1> HIDE DEF td
<1>4. DOMAIN td = 1 .. Len(td) /\ \A j \in 1 .. Len(td) : td[j] \in Refs(I)
  BY <1>3
<1>5. ASSUME NEW r \in Refs(I) PROVE Items(r, L) \in Seq(I)
  BY DEF Refs, Items
<1>6. 1 \in 1 .. Len(td) /\ (Len(td) = 2 => 2 \in 1 .. Len(td))
  BY <1>3
<1>7. FirstOf(f, L) \in Seq(I) /\ SecondOf(f, L) \in Seq(I)
  BY <1>4, <1>5, <1>6 DEF FirstOf, SecondOf, td
<1> QED BY <1>1, <1>2, <1>4, <1>5, <1>7 DEF td

(* Detach changes the todo of publish() frames only, and of those only the *)
(* lists that were dropped.                                                *)
Detached(r, held) == IF r.key \in DOMAIN held THEN Fixed(held[r.key]) ELSE r
DetachedFrame(f, held) == [f EXCEPT !.todo = [j \in DOMAIN f.todo |-> Detached(f.todo[j], held)]]
(* The frame g is f after the lists were dropped.                          *)
Detaches(f, g, held) ==
    /\ g = [f EXCEPT !.todo = g.todo] /\ Len(g.todo) = Len(f.todo)
    /\ \A j \in 1 .. Len(f.todo) : g.todo[j] = Detached(f.todo[j], held)

(* The frames after the lists of DOMAIN held were dropped.                 *)
LEMMA DetachParts ==
    ASSUME NEW I, NEW frames \in Seq(Frames(I)), NEW D \in SUBSET Key, NEW held \in [D -> Seq(I)]
    PROVE  /\ Detach(frames, held) \in Seq(Frames(I)) /\ Len(Detach(frames, held)) = Len(frames)
           /\ \A i \in 1 .. Len(frames) :
                /\ frames[i].kind # "publish" => Detach(frames, held)[i] = frames[i]
                /\ frames[i].kind = "publish" =>
                     /\ frames[i] \in Publishing(I) /\ Detach(frames, held)[i] \in Publishing(I)
                     /\ Detaches(frames[i], Detach(frames, held)[i], held)
<1> DEFINE new == Detach(frames, held)
<1>1. Len(frames) \in Nat /\ DOMAIN frames = 1 .. Len(frames) /\ \A i \in 1 .. Len(frames) : frames[i] \in Frames(I)
  OBVIOUS
<1>2. \A r \in Refs(I) : Detached(r, held) \in Refs(I)
  BY DEF Refs, Detached, Fixed
<1>3. ASSUME NEW f \in Publishing(I)
      PROVE  LET g == DetachedFrame(f, held) IN
             /\ g \in Publishing(I) /\ g = [f EXCEPT !.todo = g.todo]
             /\ Len(g.todo) = Len(f.todo)
             /\ \A j \in 1 .. Len(f.todo) : g.todo[j] = Detached(f.todo[j], held)
  <2> DEFINE td == [j \in DOMAIN f.todo |-> Detached(f.todo[j], held)]
  <2>1. f.todo \in Seq(Refs(I))
    BY DEF Publishing
  <2>2. Len(f.todo) \in Nat /\ DOMAIN f.todo = 1 .. Len(f.todo) /\ \A j \in 1 .. Len(f.todo) : f.todo[j] \in Refs(I)
    BY <2>1
  <2>4. td \in Seq(Refs(I)) /\ Len(td) = Len(f.todo)
        /\ \A j \in 1 .. Len(f.todo) : td[j] = Detached(f.todo[j], held)
    <3>1. td \in [1 .. Len(f.todo) -> Refs(I)]
      BY <2>2, <1>2
    <3>2. Len(td) = Len(f.todo)
      BY <3>1, <2>2
    <3> QED BY <3>1, <3>2, <2>2
  <2> DEFINE g == DetachedFrame(f, held)
  <2>5. g = [f EXCEPT !.todo = td]
    BY DEF DetachedFrame
  <2> HIDE DEF td, g
  <2>6. g.todo = td /\ g \in Publishing(I)
    BY <2>5, <2>4 DEF Publishing
  <2> QED BY <2>4, <2>5, <2>6 DEF g
<1>4. \A i \in 1 .. Len(frames) : frames[i].kind = "publish" => frames[i] \in Publishing(I)
  BY <1>1 DEF Frames, Calling, Stepping, UpdateCall
<1>5. \A i \in 1 .. Len(frames) :
        new[i] = IF frames[i].kind # "publish" THEN frames[i] ELSE DetachedFrame(frames[i], held)
  BY <1>1 DEF Detach, DetachedFrame, Detached
<1>6. DOMAIN new = 1 .. Len(frames)
  BY <1>1 DEF Detach
<1>7. new = [i \in 1 .. Len(frames) |-> new[i]]
  BY <1>1 DEF Detach
<1> HIDE DEF new
<1>8. ASSUME NEW i \in 1 .. Len(frames)
      PROVE  /\ new[i] \in Frames(I)
             /\ frames[i].kind # "publish" => new[i] = frames[i]
             /\ frames[i].kind = "publish" =>
                  /\ frames[i] \in Publishing(I) /\ new[i] \in Publishing(I)
                  /\ Detaches(frames[i], new[i], held)
  <2>1. CASE frames[i].kind # "publish"
    BY <2>1, <1>1, <1>5
  <2>2. CASE frames[i].kind = "publish"
    <3>1. frames[i] \in Publishing(I)
      BY <2>2, <1>4
    <3>2. new[i] = DetachedFrame(frames[i], held)
      BY <2>2, <1>5
    <3>3. new[i] \in Publishing(I) /\ Detaches(frames[i], new[i], held)
      BY <3>1, <3>2, <1>3 DEF Detaches
    <3> QED BY <2>2, <3>1, <3>3 DEF Frames
  <2> QED BY <2>1, <2>2
<1>9. new \in Seq(Frames(I)) /\ Len(new) = Len(frames)
  <2>1. new \in [1 .. Len(frames) -> Frames(I)]
    BY <1>7, <1>8
  <2> QED BY <2>1, <1>1
<1> QED BY <1>8, <1>9, Zenon DEF new

(* L2 is left of the lists L: those of D are dropped, and what they held   *)
(* while they are iterated is held; subscriptions S may go out of any.     *)
Shrunk(L, L2, D, held, S) ==
    /\ \A k \in D : held[k] \in {L[k], Excluding(L[k], S)}
    /\ \A k \in Key \ D : L2[k] \in {L[k], Excluding(L[k], S)}

Lessened(r, r2, L, L2, D, S) ==
    /\ Items(r2, L2) \in {Items(r, L), Excluding(Items(r, L), S)}
    /\ r.key \notin Key => Items(r2, L2) = Items(r, L)
    /\ L2 = L /\ D = {} => Items(r2, L2) = Items(r, L)
    /\ r2.key \in Key => r2.key = r.key

(* What is iterated under a frame after that.                              *)
LEMMA ItemsLess ==
    ASSUME NEW I, NEW r \in Refs(I), NEW D \in SUBSET Key, NEW held \in [D -> Seq(I)],
           NEW L, NEW L2, NEW S,
           Shrunk(L, L2, D, held, S)
    PROVE  Lessened(r, Detached(r, held), L, L2, D, S)
<1>1. CASE r.key \in D
  <2>1. Detached(r, held) = [key |-> <<>>, held |-> held[r.key]]
    BY <1>1 DEF Detached, Fixed
  <2>2. Items(Detached(r, held), L2) = held[r.key] /\ Items(r, L) = L[r.key]
        /\ r.key \in Key /\ Detached(r, held).key \notin Key
    BY <1>1, <2>1, KeyParts DEF Items
  <2> QED BY <1>1, <2>2 DEF Shrunk, Lessened
<1>2. CASE r.key \notin D
  <2>1. Detached(r, held) = r
    BY <1>2 DEF Detached
  <2> QED BY <1>2, <2>1 DEF Items, Shrunk, Lessened
<1> QED BY <1>1, <1>2

(* Subscriptions S are taken back, if any is held.                         *)
TakenBack(I, L, L2, D, held, S, counts, counts2, tw) ==
    /\ D \in SUBSET Key /\ held \in [D -> Seq(I)]
    /\ L \in [Key -> Seq(I)] /\ L2 \in [Key -> Seq(I)]
    /\ Shrunk(L, L2, D, held, S)
    /\ counts \in Nat \X Nat /\ counts2 \in Nat \X Nat
    /\ counts2[1] = counts[1] /\ counts2[2] <= counts[2]
    /\ ~tw /\ counts2 = counts => L2 = L /\ D = {}

(* A delivery goes on when subscriptions are taken back.                   *)
LEMMA IteratingLess ==
    ASSUME NEW I, NEW L, NEW L2, NEW D, NEW held, NEW S, NEW counts, NEW counts2, NEW tw,
           TakenBack(I, L, L2, D, held, S, counts, counts2, tw),
           NEW f \in Publishing(I), NEW g \in Publishing(I),
           Iterating(f, L, counts, tw), Detaches(f, g, held)
    PROVE  Iterating(g, L2, counts2, tw)
<1>0. L \in [Key -> Seq(I)] /\ D \in SUBSET Key /\ held \in [D -> Seq(I)] /\ Shrunk(L, L2, D, held, S)
  BY DEF TakenBack
<1>1. TodoShape(f) /\ Unrepeated(f.done, f.at, FirstOf(f, L), SecondOf(f, L))
      /\ f.made[1] <= counts[1] /\ (f.made[1] = counts[1] => counts[2] <= f.made[2])
  BY DEF Iterating
<1>2. /\ f.todo \in Seq(Refs(I)) /\ f.done \in Seq(I) /\ f.at \in Nat /\ f.made \in Nat \X Nat
      /\ Len(f.todo) \in {1, 2} /\ \A j \in 1 .. Len(f.todo) : f.todo[j] \in Refs(I)
      /\ FirstOf(f, L) \in Seq(I) /\ SecondOf(f, L) \in Seq(I)
  BY <1>0, <1>1, FrameParts
<1>3. /\ g.done = f.done /\ g.at = f.at /\ g.made = f.made /\ g.fixed = f.fixed
      /\ g.addressed = f.addressed /\ Len(g.todo) = Len(f.todo)
  BY DEF Publishing, Detaches
<1>4. ASSUME NEW j \in 1 .. Len(f.todo) PROVE Lessened(f.todo[j], g.todo[j], L, L2, D, S)
  <2>1. f.todo[j] \in Refs(I) /\ g.todo[j] = Detached(f.todo[j], held)
    BY <1>2 DEF Detaches
  <2>2. Lessened(f.todo[j], Detached(f.todo[j], held), L, L2, D, S)
    BY <1>0, <2>1, ItemsLess, Zenon
  <2> QED BY <2>1, <2>2
<1>5. /\ Lessened(f.todo[1], g.todo[1], L, L2, D, S)
      /\ Len(f.todo) = 2 => Lessened(f.todo[2], g.todo[2], L, L2, D, S)
  <2>1. 1 \in 1 .. Len(f.todo) /\ (Len(f.todo) = 2 => 2 \in 1 .. Len(f.todo))
    <3>1. \A n \in {1, 2} : 1 \in 1 .. n /\ (n = 2 => 2 \in 1 .. n)
      OBVIOUS
    <3> QED BY <3>1, <1>2, Zenon
  <2> QED BY <2>1, <1>4
<1>6. TodoShape(g)
  BY <1>1, <1>3, <1>5 DEF TodoShape, Lessened
<1>7. /\ FirstOf(g, L2) \in {FirstOf(f, L), Excluding(FirstOf(f, L), S)}
      /\ f.todo[1].key \notin Key => FirstOf(g, L2) = FirstOf(f, L)
      /\ L2 = L /\ D = {} => FirstOf(g, L2) = FirstOf(f, L)
  BY <1>5 DEF FirstOf, Lessened
<1>8. /\ SecondOf(g, L2) \in {SecondOf(f, L), Excluding(SecondOf(f, L), S)}
      /\ Len(f.todo) = 1 => SecondOf(g, L2) = SecondOf(f, L)
      /\ L2 = L /\ D = {} => SecondOf(g, L2) = SecondOf(f, L)
  BY <1>3, <1>5 DEF SecondOf, Lessened
<1>9. Unrepeated(g.done, g.at, FirstOf(g, L2), SecondOf(g, L2))
  <2>1. Unrepeated(f.done, f.at, FirstOf(g, L2), SecondOf(g, L2))
    <3>1. /\ FirstOf(f, L) \in Seq(I) /\ SecondOf(f, L) \in Seq(I) /\ f.done \in Seq(I) /\ f.at \in Nat
          /\ Unrepeated(f.done, f.at, FirstOf(f, L), SecondOf(f, L))
          /\ FirstOf(g, L2) \in {FirstOf(f, L), Excluding(FirstOf(f, L), S)}
          /\ SecondOf(g, L2) \in {SecondOf(f, L), Excluding(SecondOf(f, L), S)}
      BY <1>1, <1>2, <1>7, <1>8
    <3> QED BY <3>1, UnrepeatedLess
  <2> QED BY <1>3, <2>1
<1>10. /\ g.made[1] <= counts2[1]
       /\ g.made[1] = counts2[1] => counts2[2] <= g.made[2]
       /\ f.made = counts2 => counts2 = counts
  <2>1. f.made = <<f.made[1], f.made[2]>> /\ counts = <<counts[1], counts[2]>> /\ counts2 = <<counts2[1], counts2[2]>>
        /\ f.made[1] \in Nat /\ f.made[2] \in Nat /\ counts[1] \in Nat /\ counts[2] \in Nat
        /\ counts2[1] \in Nat /\ counts2[2] \in Nat
    BY <1>2 DEF TakenBack
  <2>2. f.made = counts2 => f.made[1] = counts2[1] /\ f.made[2] = counts2[2]
    OBVIOUS
  <2>5. counts2[1] = counts[1] /\ counts2[2] <= counts[2]
    BY DEF TakenBack
  <2>3. g.made[1] <= counts2[1] /\ (g.made[1] = counts2[1] => counts2[2] <= g.made[2])
    BY <1>1, <1>3, <2>1, <2>5
  <2>4. f.made = counts2 => counts2[2] = counts[2]
    BY <1>1, <2>1, <2>2, <2>5
  <2> QED BY <2>1, <2>3, <2>4, <2>5
<1>11. ASSUME ~tw, g.fixed \/ g.made = counts2
       PROVE  Follows(g.addressed, g.done, g.at, FirstOf(g, L2), SecondOf(g, L2))
  <2>1. FirstOf(g, L2) = FirstOf(f, L) /\ SecondOf(g, L2) = SecondOf(f, L)
    <3>1. CASE f.fixed
      BY <3>1, <1>1, <1>7, <1>8 DEF TodoShape
    <3>2. CASE f.made = counts2
      BY <3>2, <1>7, <1>8, <1>10, <1>11 DEF TakenBack
    <3> QED BY <3>1, <3>2, <1>3, <1>11
  <2>2. f.fixed \/ f.made = counts
    BY <1>3, <1>10, <1>11
  <2>3. Follows(f.addressed, f.done, f.at, FirstOf(f, L), SecondOf(f, L))
    BY <1>11, <2>2 DEF Iterating
  <2> QED BY <1>3, <2>1, <2>3
<1> QED BY <1>6, <1>9, <1>10, <1>11 DEF Iterating

(* So do all the deliveries in progress.                                   *)
LEMMA StackLess ==
    ASSUME NEW I, NEW L, NEW L2, NEW D, NEW held, NEW S, NEW counts, NEW counts2, NEW tw,
           TakenBack(I, L, L2, D, held, S, counts, counts2, tw),
           NEW frames \in Seq(Frames(I)), Deliveries(frames, L, counts, tw)
    PROVE  /\ Detach(frames, held) \in Seq(Frames(I))
           /\ Deliveries(Detach(frames, held), L2, counts2, tw)
<1> DEFINE new == Detach(frames, held)
<1>1. /\ new \in Seq(Frames(I)) /\ Len(new) = Len(frames) /\ Len(frames) \in Nat
      /\ \A i \in 1 .. Len(frames) :
           /\ frames[i].kind # "publish" => new[i] = frames[i]
           /\ frames[i].kind = "publish" =>
                frames[i] \in Publishing(I) /\ new[i] \in Publishing(I) /\ Detaches(frames[i], new[i], held)
  <2>1. D \in SUBSET Key /\ held \in [D -> Seq(I)] /\ Len(frames) \in Nat
    BY DEF TakenBack
  <2> QED BY <2>1, DetachParts
<1> HIDE DEF new
<1>2. \A i \in 1 .. Len(frames) : new[i].kind = frames[i].kind
  BY <1>1 DEF Publishing
<1>3. CalledBy(new)
  <2>1. CalledBy(frames)
    BY DEF Deliveries
  <2>2. \A i \in 1 .. Len(frames) : i < Len(frames) => i + 1 \in 1 .. Len(frames)
    BY <1>1
  <2> QED BY <2>1, <2>2, <1>1, <1>2 DEF CalledBy
<1>4. ASSUME NEW i \in 1 .. Len(new), new[i].kind = "publish"
      PROVE  Iterating(new[i], L2, counts2, tw)
  <2>1. i \in 1 .. Len(frames) /\ frames[i].kind = "publish"
    BY <1>1, <1>2, <1>4
  <2>2. Iterating(frames[i], L, counts, tw)
    BY <2>1 DEF Deliveries
  <2>3. frames[i] \in Publishing(I) /\ new[i] \in Publishing(I) /\ Detaches(frames[i], new[i], held)
    BY <1>1, <2>1
  <2> QED BY <2>2, <2>3, IteratingLess
<1>5. Deliveries(new, L2, counts2, tw)
  BY <1>3, <1>4 DEF Deliveries
<1> QED BY <1>1, <1>5 DEF new

(* The new subscription sub, of number n, goes to the end of its lists.    *)
Added(I, L, L2, sub, n, counts, counts2, tw, tw2) ==
    /\ L \in [Key -> Seq(I)] /\ sub \in Sub /\ n \notin I
    /\ L2 = [k \in Key |-> IF k \in SubKeys(sub) THEN Append(L[k], n) ELSE L[k]]
    /\ counts \in Nat \X Nat /\ counts2 \in Nat \X Nat /\ counts[1] < counts2[1]
    /\ tw => tw2

(* A delivery goes on when a subscription is made.                         *)
LEMMA IteratingMore ==
    ASSUME NEW I, NEW L, NEW L2, NEW sub, NEW n, NEW counts, NEW counts2, NEW tw, NEW tw2,
           Added(I, L, L2, sub, n, counts, counts2, tw, tw2),
           NEW f \in Publishing(I), Iterating(f, L, counts, tw)
    PROVE  Iterating(f, L2, counts2, tw2)
<1>1. TodoShape(f) /\ Unrepeated(f.done, f.at, FirstOf(f, L), SecondOf(f, L))
      /\ f.made[1] <= counts[1] /\ (f.made[1] = counts[1] => counts[2] <= f.made[2])
  BY DEF Iterating
<1>2. L \in [Key -> Seq(I)] /\ sub \in Sub /\ n \notin I
  BY DEF Added
<1>3. /\ f.done \in Seq(I) /\ f.at \in Nat /\ f.made \in Nat \X Nat
      /\ Len(f.todo) \in {1, 2}
      /\ FirstOf(f, L) \in Seq(I) /\ SecondOf(f, L) \in Seq(I)
  BY <1>1, <1>2, FrameParts
<1>4. ASSUME NEW r
      PROVE  /\ Items(r, L2) \in {Items(r, L), Append(Items(r, L), n)}
             /\ r.key \notin Key \/ r.key \notin SubKeys(sub) => Items(r, L2) = Items(r, L)
  <2>1. CASE r.key \in Key
    <3>1. L2[r.key] = IF r.key \in SubKeys(sub) THEN Append(L[r.key], n) ELSE L[r.key]
      BY <2>1 DEF Added
    <3> QED BY <2>1, <3>1 DEF Items
  <2>2. CASE r.key \notin Key
    BY <2>2 DEF Items
  <2> QED BY <2>1, <2>2
<1>5. /\ FirstOf(f, L2) \in {FirstOf(f, L), Append(FirstOf(f, L), n)}
      /\ SecondOf(f, L2) \in {SecondOf(f, L), Append(SecondOf(f, L), n)}
      /\ Len(f.todo) = 1 => SecondOf(f, L2) = SecondOf(f, L)
  BY <1>3, <1>4 DEF FirstOf, SecondOf
<1>6. FirstOf(f, L2) = FirstOf(f, L) \/ SecondOf(f, L2) = SecondOf(f, L)
  <2> SUFFICES ASSUME Len(f.todo) = 2, FirstOf(f, L2) # FirstOf(f, L), SecondOf(f, L2) # SecondOf(f, L)
               PROVE  FALSE
    BY <1>3, <1>5
  <2> DEFINE p == f.todo[1].key
             q == f.todo[2].key
  <2>1. p \in Key /\ p \in SubKeys(sub) /\ q \in Key /\ q \in SubKeys(sub)
    BY <1>4 DEF FirstOf, SecondOf
  <2>2. p[2] = NoScope /\ q[2] \in Scopes
    BY <1>1, <2>1 DEF TodoShape
  <2> HIDE DEF p, q
  <2>3. p[2] \in {AllSubs, sub.scope} /\ q[2] \in {AllSubs, sub.scope}
    BY <2>1 DEF SubKeys
  <2> QED BY <2>2, <2>3, ScopesAssumption
<1>7. Unrepeated(f.done, f.at, FirstOf(f, L2), SecondOf(f, L2))
  <2> DEFINE c == FirstOf(f, L)
             d == SecondOf(f, L)
             c2 == FirstOf(f, L2)
             d2 == SecondOf(f, L2)
             done == f.done
             at == f.at
  <2>1. /\ c \in Seq(I) /\ d \in Seq(I) /\ done \in Seq(I) /\ at \in Nat /\ n \notin I
        /\ Unrepeated(done, at, c, d)
        /\ c2 \in {c, Append(c, n)} /\ d2 \in {d, Append(d, n)} /\ (c2 = c \/ d2 = d)
    BY <1>1, <1>2, <1>3, <1>5, <1>6
  <2> HIDE DEF c, d, c2, d2, done, at
  <2>2. Unrepeated(done, at, c2, d2)
    <3>1. Unrepeated(done, at, Append(c, n), d) /\ Unrepeated(done, at, c, Append(d, n))
      BY <2>1, UnrepeatedMore
    <3> QED BY <2>1, <3>1
  <2> QED BY <2>2 DEF c2, d2, done, at
<1>8. f.made[1] < counts2[1] /\ f.made # counts2
  <2>1. counts[1] \in Nat /\ counts2[1] \in Nat /\ counts[1] < counts2[1] /\ f.made[1] \in Nat
    BY <1>3 DEF Added
  <2>2. f.made[1] < counts2[1]
    BY <1>1, <2>1
  <2>3. f.made[1] # counts2[1]
    BY <2>1, <2>2
  <2> QED BY <2>2, <2>3
<1>9. f.made[1] <= counts2[1] /\ (f.made[1] = counts2[1] => counts2[2] <= f.made[2])
  <2>1. counts2[1] \in Nat /\ f.made[1] \in Nat
    BY <1>3 DEF Added
  <2> QED BY <1>8, <2>1
<1>10. ASSUME ~tw2, f.fixed \/ f.made = counts2
       PROVE  Follows(f.addressed, f.done, f.at, FirstOf(f, L2), SecondOf(f, L2))
  <2>1. ~tw /\ f.fixed
    BY <1>8, <1>10 DEF Added
  <2>2. Follows(f.addressed, f.done, f.at, FirstOf(f, L), SecondOf(f, L))
    BY <2>1 DEF Iterating
  <2>3. Len(f.todo) = 1 /\ f.todo[1].key \notin Key
    BY <1>1, <2>1 DEF TodoShape
  <2>4. FirstOf(f, L2) = FirstOf(f, L) /\ SecondOf(f, L2) = SecondOf(f, L)
    BY <2>3, <1>4, <1>5 DEF FirstOf
  <2> QED BY <2>2, <2>4
<1> QED BY <1>1, <1>7, <1>9, <1>10 DEF Iterating

(* So do all the deliveries in progress.                                   *)
LEMMA StackMore ==
    ASSUME NEW I, NEW L, NEW L2, NEW sub, NEW n, NEW counts, NEW counts2, NEW tw, NEW tw2,
           Added(I, L, L2, sub, n, counts, counts2, tw, tw2),
           NEW frames \in Seq(Frames(I)), Deliveries(frames, L, counts, tw)
    PROVE  Deliveries(frames, L2, counts2, tw2)
<1>1. ASSUME NEW i \in 1 .. Len(frames), frames[i].kind = "publish"
      PROVE  Iterating(frames[i], L2, counts2, tw2)
  <2>1. frames[i] \in Publishing(I)
    <3>1. frames[i] \in Frames(I)
      OBVIOUS
    <3> QED BY <3>1, <1>1 DEF Frames, Calling, Stepping, UpdateCall
  <2>2. Iterating(frames[i], L, counts, tw)
    BY <1>1 DEF Deliveries
  <2> QED BY <2>1, <2>2, IteratingMore
<1> QED BY <1>1 DEF Deliveries

(* Taking back what no list holds changes nothing.                         *)
LEMMA StackSame ==
    ASSUME NEW I, NEW frames \in Seq(Frames(I)), NEW L, NEW tw,
           NEW counts \in Nat \X Nat, NEW counts2 \in Nat \X Nat,
           counts2[1] = counts[1], counts2[2] <= counts[2],
           Deliveries(frames, L, counts, tw)
    PROVE  Deliveries(frames, L, counts2, tw)
<1>1. ASSUME NEW i \in 1 .. Len(frames), frames[i].kind = "publish"
      PROVE  Iterating(frames[i], L, counts2, tw)
  <2> DEFINE f == frames[i]
  <2>1. f \in Publishing(I)
    <3>1. frames[i] \in Frames(I)
      OBVIOUS
    <3> QED BY <3>1, <1>1 DEF Frames, Calling, Stepping, UpdateCall
  <2>2. Iterating(f, L, counts, tw)
    BY <1>1 DEF Deliveries
  <2>3. f.made \in Nat \X Nat
    BY <2>1 DEF Publishing
  <2> HIDE DEF f
  <2>4. /\ f.made[1] <= counts[1] /\ (f.made[1] = counts[1] => counts[2] <= f.made[2])
        /\ f.made = <<f.made[1], f.made[2]>> /\ counts = <<counts[1], counts[2]>>
        /\ counts2 = <<counts2[1], counts2[2]>>
        /\ f.made[1] \in Nat /\ f.made[2] \in Nat /\ counts[1] \in Nat /\ counts[2] \in Nat
        /\ counts2[1] \in Nat /\ counts2[2] \in Nat
    BY <2>2, <2>3 DEF Iterating
  <2>5. f.made = counts2 => f.made = counts
    <3>1. f.made = counts2 => f.made[1] = counts2[1] /\ f.made[2] = counts2[2]
      OBVIOUS
    <3>2. f.made = counts2 => f.made[2] = counts[2] /\ f.made[1] = counts[1]
      BY <2>4, <3>1
    <3> QED BY <2>4, <3>2
  <2>6. f.made[1] <= counts2[1] /\ (f.made[1] = counts2[1] => counts2[2] <= f.made[2])
    BY <2>4
  <2>7. Iterating(f, L, counts2, tw)
    BY <2>2, <2>5, <2>6 DEF Iterating
  <2> QED BY <2>7 DEF f
<1> QED BY <1>1 DEF Deliveries

(* A call is made, by publish() or of it.                                  *)
LEMMA StackCall ==
    ASSUME NEW I, NEW frames \in Seq(Frames(I)), NEW L, NEW counts, NEW tw,
           Deliveries(frames, L, counts, tw), NEW e \in Frames(I),
           e.kind = "publish" => Iterating(e, L, counts, tw),
           e.kind \in {"handler", "wakeup"} => frames # <<>> /\ frames[1].kind = "publish"
    PROVE  /\ <<e>> \o frames \in Seq(Frames(I)) /\ <<e>> \o frames # <<>>
           /\ (<<e>> \o frames)[1] = e /\ Len(<<e>> \o frames) = Len(frames) + 1
           /\ Deliveries(<<e>> \o frames, L, counts, tw)
<1> DEFINE new == <<e>> \o frames
<1>1. /\ new \in Seq(Frames(I)) /\ Len(new) = Len(frames) + 1 /\ Len(frames) \in Nat
      /\ new[1] = e /\ \A i \in 1 .. Len(frames) : new[i + 1] = frames[i]
  BY PushedOn
<1> HIDE DEF new
<1>2. \A i \in 1 .. Len(new) : i = 1 \/ (i - 1 \in 1 .. Len(frames) /\ (i - 1) + 1 = i)
  BY <1>1
<1>3. ASSUME NEW i \in 1 .. Len(new)
      PROVE  /\ new[i].kind \in {"handler", "wakeup"} => i < Len(new) /\ new[i + 1].kind = "publish"
             /\ new[i].kind = "publish" => Iterating(new[i], L, counts, tw)
  <2>1. CASE i = 1
    <3>1. frames # <<>> => 1 \in 1 .. Len(frames) /\ 1 < Len(new)
      BY <1>1
    <3> QED BY <1>1, <2>1, <3>1
  <2>2. CASE i # 1
    <3> DEFINE j == i - 1
    <3>1. j \in 1 .. Len(frames) /\ j + 1 = i
      BY <1>2, <2>2
    <3> HIDE DEF j
    <3>2. new[i] = frames[j]
      BY <1>1, <3>1
    <3>3. /\ frames[j].kind \in {"handler", "wakeup"} => j < Len(frames) /\ frames[j + 1].kind = "publish"
          /\ frames[j].kind = "publish" => Iterating(frames[j], L, counts, tw)
      BY <3>1 DEF Deliveries, CalledBy
    <3>4. j < Len(frames) => j + 1 \in 1 .. Len(frames) /\ i < Len(new)
      BY <1>1, <3>1
    <3>5. j < Len(frames) => new[i + 1] = frames[j + 1]
      BY <1>1, <3>1, <3>4
    <3> QED BY <3>2, <3>3, <3>4, <3>5
  <2> QED BY <2>1, <2>2
<1>4. Deliveries(new, L, counts, tw)
  BY <1>3 DEF Deliveries, CalledBy
<1>5. new # <<>>
  BY <1>1
<1> QED BY <1>1, <1>4, <1>5 DEF new

(* The innermost call returns.                                             *)
LEMMA StackReturn ==
    ASSUME NEW I, NEW frames \in Seq(Frames(I)), NEW L, NEW counts, NEW tw,
           Deliveries(frames, L, counts, tw), frames # <<>>
    PROVE  /\ Tail(frames) \in Seq(Frames(I)) /\ Deliveries(Tail(frames), L, counts, tw)
           /\ Head(frames) = frames[1] /\ frames[1] \in Frames(I)
           /\ Len(Tail(frames)) = Len(frames) - 1 /\ Len(frames) \in Nat \ {0}
           /\ frames[1].kind \in {"handler", "wakeup"} => Tail(frames) # <<>>
<1> DEFINE new == Tail(frames)
<1>1. /\ new \in Seq(Frames(I)) /\ Len(new) = Len(frames) - 1 /\ Len(frames) \in Nat \ {0}
      /\ \A i \in 1 .. Len(frames) - 1 : new[i] = frames[i + 1]
      /\ Head(frames) = frames[1] /\ frames[1] \in Frames(I)
  OBVIOUS
<1> HIDE DEF new
<1>2. \A i \in 1 .. Len(new) : i + 1 \in 1 .. Len(frames) /\ new[i] = frames[i + 1]
  BY <1>1
<1>3. ASSUME NEW i \in 1 .. Len(new)
      PROVE  /\ new[i].kind \in {"handler", "wakeup"} => i < Len(new) /\ new[i + 1].kind = "publish"
             /\ new[i].kind = "publish" => Iterating(new[i], L, counts, tw)
  <2> DEFINE j == i + 1
  <2>1. j \in 1 .. Len(frames) /\ new[i] = frames[j]
    BY <1>2
  <2>2. j < Len(frames) => i < Len(new) /\ j \in 1 .. Len(new) /\ new[j] = frames[j + 1]
    BY <1>1, <1>2
  <2> HIDE DEF j
  <2>3. /\ frames[j].kind \in {"handler", "wakeup"} => j < Len(frames) /\ frames[j + 1].kind = "publish"
        /\ frames[j].kind = "publish" => Iterating(frames[j], L, counts, tw)
    BY <2>1 DEF Deliveries, CalledBy
  <2> QED BY <2>1, <2>2, <2>3 DEF j
<1>4. Deliveries(new, L, counts, tw)
  BY <1>3 DEF Deliveries, CalledBy
<1>5. frames[1].kind \in {"handler", "wakeup"} => new # <<>>
  <2>1. 1 \in 1 .. Len(frames)
    BY <1>1
  <2>2. frames[1].kind \in {"handler", "wakeup"} => 1 < Len(frames)
    BY <2>1 DEF Deliveries, CalledBy
  <2>3. new = <<>> => Len(new) = 0
    OBVIOUS
  <2> QED BY <1>1, <2>2, <2>3
<1> QED BY <1>1, <1>4, <1>5 DEF new

-----------------------------------------------------------------------------
(* The operations.                                                         *)

(* Counts counts.                                                          *)
LEMMA CountsType == ASSUME BusTypes PROVE Counts \in Nat \X Nat
  BY DEF Counts, BusTypes

(* A subscription that is held is in the list of its topic.                *)
LEMMA HeldIsListed ==
    ASSUME BusTypes, TablesAgree, ~twins, NEW s \in Ids
    PROVE  s \in ToSet(ledger) <=> s \in ToSet(lists[<<info[s].topic, AllSubs>>])
<1> DEFINE k == <<info[s].topic, AllSubs>>
<1>1. info[s] \in Sub
  BY DEF BusTypes, Ids
<1>2. k \in Key
  BY <1>1, KeyParts DEF Sub
<1>3. s \in Members(k)
  BY DEF Members, KeysOf, SubKeys
<1>4. lists[k] = Including(ledger, Members(k)) /\ ledger \in Seq(Ids)
  BY <1>2 DEF TablesAgree, BusTypes
<1> HIDE DEF k
<1>5. ToSet(lists[k]) = ToSet(ledger) \cap Members(k)
  BY <1>4, IncludingParts
<1>6. s \in ToSet(ledger) <=> s \in ToSet(lists[k])
  BY <1>3, <1>5
<1> QED BY <1>6 DEF k

(* unsubscribe() keeps the tables and the deliveries in step.              *)
LEMMA UnsubscribeKeeps ==
    ASSUME NEW frames, BusHolds(frames), NEW s \in Ids, DoUnsubscribe(s, frames)
    PROVE  BusInv'
<1> DEFINE t == info[s].topic
           all == <<t, AllSubs>>
           none == <<t, NoScope>>
           removed == [k \in Key |-> IF k \in KeysOf(s) THEN Excluding(lists[k], {s}) ELSE lists[k]]
           last == removed[all] = <<>>
           gone == {k \in KeysOf(s) : removed[k] = <<>>} \cup (IF last THEN {none} ELSE {})
           held == [k \in gone |-> IF last /\ k = none THEN lists[k] ELSE <<>>]
<1>1. /\ BusTypes /\ ListsKept /\ TablesAgree
      /\ frames \in Seq(Frames(Ids)) /\ Deliveries(frames, lists, Counts, twins)
  BY DEF BusHolds
<1>2. /\ info \in Seq(Sub) /\ lists \in [Key -> Seq(Ids)] /\ byScope \in [Scopes -> SUBSET Ids]
      /\ snapshots \in [Topics -> Seq(Ids)] /\ dirty \in SUBSET Topics /\ ledger \in Seq(Ids)
      /\ twins \in BOOLEAN /\ Counts \in Nat \X Nat
  BY <1>1, CountsType DEF BusTypes
<1>3. info[s] \in Sub /\ t \in Topics /\ info[s].scope \in Scopes \cup {NoScope}
  <2>1. info[s] \in Sub
    BY <1>2 DEF Ids
  <2> QED BY <2>1 DEF Sub
<1>4. /\ all \in Key /\ none \in Key /\ KeysOf(s) \subseteq Key /\ all \in KeysOf(s)
      /\ KeysOf(s) = {all, <<t, info[s].scope>>}
  BY <1>3, KeyParts DEF KeysOf, SubKeys
<1>5. /\ info' = info /\ twins' = twins /\ ledger' = Excluding(ledger, {s})
      /\ IF ~Contains(lists[all], s)
         THEN stack' = frames /\ UNCHANGED <<lists, byScope, snapshots, dirty>>
         ELSE /\ lists' = [k \in Key |-> IF k \in gone THEN <<>> ELSE removed[k]]
              /\ byScope' = IF info[s].scope = NoScope THEN byScope
                            ELSE [byScope EXCEPT ![info[s].scope] = SetDiscard(@, s)]
              /\ dirty' = dirty \cup {t}
              /\ snapshots' = IF last THEN [snapshots EXCEPT ![t] = <<>>] ELSE snapshots
              /\ stack' = Detach(frames, held)
  BY DEF DoUnsubscribe
<1> DEFINE hit == Contains(lists[all], s)
<1>6. lists[all] \in Seq(Ids) /\ (hit <=> s \in ToSet(lists[all]))
  <2>1. lists[all] \in Seq(Ids)
    BY <1>2, <1>4
  <2> QED BY <2>1 DEF Contains, ToSet
<1>7. ledger' \in Seq(Ids)
      /\ Len(ledger') <= Len(ledger) /\ (Len(ledger') = Len(ledger) => s \notin ToSet(ledger))
      /\ ToSet(ledger') = ToSet(ledger) \ {s}
  BY <1>2, <1>5, ExcludingType, ExcludingLength, ExcludingKeeps
<1>8. Ids' = Ids /\ (\A k \in Key : Members(k)' = Members(k)) /\ (\A sc \in Scopes : ScopedIn(sc)' = ScopedIn(sc))
  BY <1>5 DEF Ids, Members, KeysOf, ScopedIn
<1>9. Counts' \in Nat \X Nat /\ Counts'[1] = Counts[1] /\ Counts'[2] <= Counts[2]
      /\ (Counts' = Counts => s \notin ToSet(ledger))
  BY <1>2, <1>5, <1>7 DEF Counts
<1>10. ~twins => (hit <=> s \in ToSet(ledger))
  BY <1>1, <1>6, HeldIsListed
<1> HIDE DEF hit
<1>11. CASE ~hit
  <2>1. UNCHANGED <<info, lists, byScope, snapshots, dirty, twins>> /\ stack' = frames
    BY <1>5, <1>11 DEF hit
  <2>2. BusTypes'
    BY <1>2, <1>7, <1>8, <2>1 DEF BusTypes
  <2>3. ListsKept'
    BY <1>1, <1>8, <2>1 DEF ListsKept
  <2>4. TablesAgree'
    <3> SUFFICES ASSUME ~twins PROVE TablesAgree'
      BY <2>1 DEF TablesAgree
    <3>1. ledger' = ledger
      <4>1. ToSet(ledger) \cap {s} = {}
        BY <1>10, <1>11
      <4> QED BY <4>1, <1>2, <1>5, ExcludingNothing
    <3> QED BY <1>1, <1>8, <2>1, <3>1 DEF TablesAgree
  <2>5. Deliveries(frames, lists, Counts', twins)
    BY <1>1, <1>2, <1>9, StackSame
  <2> QED BY <1>1, <1>8, <2>1, <2>2, <2>3, <2>4, <2>5 DEF BusInv, BusHolds
<1>12. CASE hit
  <2>1. /\ lists' = [k \in Key |-> IF k \in gone THEN <<>> ELSE removed[k]]
        /\ byScope' = IF info[s].scope = NoScope THEN byScope
                      ELSE [byScope EXCEPT ![info[s].scope] = SetDiscard(@, s)]
        /\ dirty' = dirty \cup {t}
        /\ snapshots' = IF last THEN [snapshots EXCEPT ![t] = <<>>] ELSE snapshots
        /\ stack' = Detach(frames, held)
    BY <1>5, <1>12 DEF hit
  <2>2. \A k \in Key : removed[k] = IF k \in KeysOf(s) THEN Excluding(lists[k], {s}) ELSE lists[k]
    OBVIOUS
  <2> HIDE DEF removed
  <2>14. last <=> removed[all] = <<>>
    OBVIOUS
  <2> HIDE DEF last
  <2>3. \A k \in gone : (k = none /\ last) \/ (k \in KeysOf(s) /\ removed[k] = <<>>)
    OBVIOUS
  <2>4. \A k \in gone : held[k] = IF last /\ k = none THEN lists[k] ELSE <<>>
    OBVIOUS
  <2>5. /\ gone \subseteq Key /\ gone \subseteq KeysOf(s) \cup {none}
        /\ DOMAIN held = gone /\ held = [k \in gone |-> held[k]]
    BY <1>4
  <2> HIDE DEF gone, held
  <2>6. \A k \in Key : /\ removed[k] \in Seq(Ids) /\ ToSet(removed[k]) \subseteq ToSet(lists[k])
                       /\ IsInjective(removed[k])
    <3>1. ASSUME NEW k \in Key
          PROVE  /\ removed[k] \in Seq(Ids) /\ ToSet(removed[k]) \subseteq ToSet(lists[k])
                 /\ IsInjective(removed[k])
      <4>1. lists[k] \in Seq(Ids) /\ IsInjective(lists[k])
        BY <1>1, <1>2 DEF ListsKept
      <4> QED BY <4>1, <2>2, DistinctWithout
    <3> QED BY <3>1
  <2>7. \A k \in Key : lists'[k] = IF k \in gone THEN <<>> ELSE removed[k]
    BY <2>1
  <2>8. ToSet(<<>>) = {} /\ IsInjective(<<>>) /\ <<>> \in Seq(Ids)
    BY DEF ToSet, IsInjective
  <2>9. lists' \in [Key -> Seq(Ids)]
    <3>1. \A k \in Key : lists'[k] \in Seq(Ids)
      BY <2>6, <2>7, <2>8
    <3> QED BY <2>1, <3>1
  <2>10. BusTypes'
    <3>1. snapshots' \in [Topics -> Seq(Ids)]
      BY <1>2, <2>1, <2>8
    <3>2. byScope' \in [Scopes -> SUBSET Ids]
      BY <1>2, <2>1 DEF SetDiscard
    <3>3. dirty' \in SUBSET Topics
      BY <1>2, <1>3, <2>1
    <3> QED BY <1>2, <1>5, <1>7, <1>8, <2>9, <3>1, <3>2, <3>3 DEF BusTypes
  <2>11. ListsKept'
    <3>1. ASSUME NEW k \in Key
          PROVE  IsInjective(lists'[k]) /\ ToSet(lists'[k]) \subseteq Members(k)
      <4>1. ToSet(lists[k]) \subseteq Members(k)
        BY <1>1 DEF ListsKept
      <4> QED BY <4>1, <2>6, <2>7, <2>8
    <3>2. ASSUME NEW u \in Topics
          PROVE  /\ IsInjective(snapshots'[u])
                 /\ u \in dirty' \/ snapshots'[u] = <<>> \/ snapshots'[u] = lists'[<<u, AllSubs>>]
      <4>1. /\ IsInjective(snapshots[u])
            /\ u \in dirty \/ snapshots[u] = <<>> \/ snapshots[u] = lists[<<u, AllSubs>>]
        BY <1>1 DEF ListsKept
      <4>2. CASE u = t
        <5>1. snapshots'[u] \in {snapshots[u], <<>>}
          BY <1>2, <2>1
        <5> QED BY <4>1, <4>2, <5>1, <2>1, <2>8
      <4>3. CASE u # t
        <5>1. snapshots'[u] = snapshots[u]
          BY <4>3, <1>2, <2>1
        <5>2. <<u, AllSubs>> \in Key /\ <<u, AllSubs>> \notin KeysOf(s) /\ <<u, AllSubs>> # none
          BY <4>3, <1>4, KeyParts
        <5>3. lists'[<<u, AllSubs>>] = lists[<<u, AllSubs>>]
          BY <5>2, <2>2, <2>5, <2>7
        <5> QED BY <4>1, <5>1, <5>3, <2>1
      <4> QED BY <4>2, <4>3
    <3> QED BY <1>8, <3>1, <3>2 DEF ListsKept
  <2>12. TablesAgree'
    <3> SUFFICES ASSUME ~twins PROVE TablesAgree'
      BY <1>5 DEF TablesAgree
    <3>1. /\ \A k \in Key : lists[k] = Including(ledger, Members(k))
          /\ \A sc \in Scopes : byScope[sc] = ToSet(ledger) \cap ScopedIn(sc)
          /\ \A q, r \in ToSet(ledger) : info[q] = info[r] /\ ~info[r].once => q = r
      BY <1>1 DEF TablesAgree
    <3>2. ASSUME NEW k \in Key PROVE removed[k] = Including(ledger', Members(k))
      <4>1. Including(ledger', Members(k)) = Excluding(lists[k], {s})
        BY <1>2, <1>5, <3>1, IncludingExcluding
      <4>2. CASE k \in KeysOf(s)
        BY <4>1, <4>2, <2>2
      <4>3. CASE k \notin KeysOf(s)
        <5>1. s \notin Members(k)
          BY <4>3 DEF Members
        <5>2. ToSet(lists[k]) \subseteq Members(k) /\ lists[k] \in Seq(Ids)
          BY <1>1, <1>2 DEF ListsKept
        <5>3. Excluding(lists[k], {s}) = lists[k]
          BY <5>1, <5>2, ExcludingNothing
        <5> QED BY <4>1, <4>3, <5>3, <2>2
      <4> QED BY <4>2, <4>3
    <3>3. last => removed[none] = <<>>
      <4> SUFFICES ASSUME last PROVE removed[none] = <<>>
        OBVIOUS
      <4>1. ToSet(ledger') \cap Members(all) = {}
        BY <1>4, <1>7, <2>14, <3>2, IncludingParts
      <4>2. Members(none) \subseteq Members(all)
        BY DEF Members, KeysOf, SubKeys
      <4>3. ToSet(ledger') \cap Members(none) = {}
        BY <4>1, <4>2
      <4>4. removed[none] = Including(ledger', Members(none))
        BY <1>4, <3>2
      <4> QED BY <1>7, <4>3, <4>4, IncludingParts
    <3>4. \A k \in Key : lists'[k] = Including(ledger', Members(k))
      BY <2>3, <2>7, <3>2, <3>3
    <3>5. ASSUME NEW sc \in Scopes PROVE byScope'[sc] = ToSet(ledger') \cap ScopedIn(sc)
      <4>1. byScope[sc] = ToSet(ledger) \cap ScopedIn(sc)
        BY <3>1
      <4>2. CASE sc = info[s].scope
        <5>1. byScope'[sc] = SetDiscard(byScope[sc], s)
          BY <4>2, <1>2, <2>1, ScopesAssumption
        <5>2. s \in ToSet(ledger)
          BY <1>10, <1>12
        <5>3. \A r \in byScope[sc] : Equal(r, s) <=> r = s
          BY <3>1, <4>1, <5>2 DEF Equal
        <5>4. byScope'[sc] = byScope[sc] \ {s}
          BY <5>1, <5>3 DEF SetDiscard
        <5> QED BY <4>1, <5>4, <1>7
      <4>3. CASE sc # info[s].scope
        <5>1. byScope'[sc] = byScope[sc]
          BY <4>3, <1>2, <2>1
        <5>2. s \notin ScopedIn(sc)
          BY <4>3 DEF ScopedIn
        <5> QED BY <4>1, <5>1, <5>2, <1>7
      <4> QED BY <4>2, <4>3
    <3>6. \A q, r \in ToSet(ledger') : info[q] = info[r] /\ ~info[r].once => q = r
      BY <1>7, <3>1
    <3> QED BY <1>5, <1>8, <3>4, <3>5, <3>6 DEF TablesAgree
  <2>13. stack' \in Seq(Frames(Ids)) /\ Deliveries(stack', lists', Counts', twins)
    <3>1. held \in [gone -> Seq(Ids)]
      <4>1. \A k \in gone : held[k] \in Seq(Ids)
        BY <1>2, <2>4, <2>5, <2>8
      <4> QED BY <2>5, <4>1
    <3>2. Shrunk(lists, lists', gone, held, {s})
      BY <2>2, <2>3, <2>4, <2>5, <2>7 DEF Shrunk
    <3>3. ~twins => Counts' # Counts
      BY <1>9, <1>10, <1>12
    <3>4. TakenBack(Ids, lists, lists', gone, held, {s}, Counts, Counts', twins)
      BY <1>2, <1>9, <2>5, <2>9, <3>1, <3>2, <3>3 DEF TakenBack
    <3> QED BY <1>1, <2>1, <3>4, StackLess
  <2> QED BY <1>5, <1>8, <2>10, <2>11, <2>12, <2>13 DEF BusInv, BusHolds
<1> QED BY <1>11, <1>12

(* A sequence without elements is empty.                                   *)
LEMMA NoElements == ASSUME NEW X, NEW q \in Seq(X), ToSet(q) = {} PROVE q = <<>>
<1>1. DOMAIN q = 1 .. Len(q) /\ Len(q) \in Nat /\ \A i \in 1 .. Len(q) : q[i] \in ToSet(q)
  BY InSet
<1>2. Len(q) = 0
  <2>1. Len(q) # 0 => 1 \in 1 .. Len(q)
    BY <1>1
  <2> QED BY <1>1, <2>1
<1> QED BY <1>2

(* unsubscribe_scope() takes all its subscriptions out of every table.     *)
LEMMA UnsubscribeScopeKeeps ==
    ASSUME NEW frames, BusHolds(frames), NEW sc \in Scopes, DoUnsubscribeScope(sc, frames)
    PROVE  BusInv'
<1> DEFINE All(u) == <<u, AllSubs>>
           group == byScope[sc]
           topics == {t \in {info[s].topic : s \in group} : lists[All(t)] # <<>>}
           kept == [t \in topics |-> Excluding(lists[All(t)], group)]
           emptied == {t \in topics : kept[t] = <<>>}
           gone == {<<t, sc>> : t \in topics} \cup {<<t, NoScope>> : t \in emptied}
           changed == gone \cup {All(t) : t \in topics}
           held == [k \in changed |-> lists[k]]
<1>1. /\ BusTypes /\ ListsKept /\ TablesAgree
      /\ frames \in Seq(Frames(Ids)) /\ Deliveries(frames, lists, Counts, twins)
  BY DEF BusHolds
<1>2. /\ info \in Seq(Sub) /\ lists \in [Key -> Seq(Ids)] /\ byScope \in [Scopes -> SUBSET Ids]
      /\ snapshots \in [Topics -> Seq(Ids)] /\ dirty \in SUBSET Topics /\ ledger \in Seq(Ids)
      /\ twins \in BOOLEAN /\ Counts \in Nat \X Nat
  BY <1>1, CountsType DEF BusTypes
<1>3. /\ UNCHANGED <<info, twins>> /\ ledger' = Excluding(ledger, ScopedIn(sc))
      /\ byScope' = [byScope EXCEPT ![sc] = {}]
      /\ lists' = [k \in Key |-> IF k \in gone THEN <<>>
                                 ELSE IF k \in changed THEN kept[k[1]] ELSE lists[k]]
      /\ dirty' = dirty \cup topics
      /\ snapshots' = [t \in Topics |-> IF t \in emptied THEN <<>> ELSE snapshots[t]]
      /\ stack' = Detach(frames, held)
  BY DEF DoUnsubscribeScope
<1>4. group \subseteq Ids /\ \A s \in Ids : info[s] \in Sub /\ info[s].topic \in Topics
  <2>1. \A s \in Ids : info[s] \in Sub
    BY <1>2 DEF Ids
  <2> QED BY <1>2, <2>1 DEF Sub
<1>5. /\ topics \subseteq Topics /\ emptied \subseteq topics
      /\ \A t \in topics : kept[t] = Excluding(lists[All(t)], group) /\ lists[All(t)] # <<>>
      /\ \A t \in emptied : kept[t] = <<>>
      /\ \A s \in group : lists[All(info[s].topic)] # <<>> => info[s].topic \in topics
  BY <1>4
<1>6. group = {} => topics = {}
  OBVIOUS
<1> HIDE DEF topics, kept
<1>7. \A t \in Topics : kept[t] = <<>> /\ t \in topics => t \in emptied
  OBVIOUS
<1> HIDE DEF emptied
<1>8. /\ \A t \in Topics : /\ All(t) \notin gone
                           /\ All(t) \in changed <=> t \in topics
                           /\ t \in topics => <<t, sc>> \in gone
      /\ \A k \in gone : k[1] \in topics /\ (k[2] = sc \/ (k[2] = NoScope /\ k[1] \in emptied))
      /\ \A k \in changed : k \in gone \/ (k[1] \in topics /\ k = All(k[1]))
      /\ gone \subseteq Key /\ changed \subseteq Key /\ gone \subseteq changed
      /\ topics = {} => gone = {} /\ changed = {}
  <2>1. sc # AllSubs /\ NoScope # AllSubs
    BY ScopesAssumption
  <2>2. gone \subseteq Key /\ changed \subseteq Key
    BY <1>5, KeyParts
  <2>3. /\ \A t \in Topics : All(t) \notin gone
        /\ \A k \in gone : k[1] \in topics /\ (k[2] = sc \/ (k[2] = NoScope /\ k[1] \in emptied))
    BY <1>5, <2>1
  <2>4. \A t \in Topics : All(t) \in changed <=> t \in topics
    BY <2>3
  <2>5. \A k \in changed : k \in gone \/ (k[1] \in topics /\ k = All(k[1]))
    OBVIOUS
  <2> QED BY <1>5, <2>2, <2>3, <2>4, <2>5
<1>9. DOMAIN held = changed /\ \A k \in changed : held[k] = lists[k]
  OBVIOUS
<1>10. held \in [changed -> Seq(Ids)]
  BY <1>2, <1>8
<1> HIDE DEF held, gone, changed, group
<1>11. \A k \in Key : All(k[1]) \in Key /\ lists[k] \in Seq(Ids) /\ IsInjective(lists[k])
                      /\ ToSet(lists[k]) \subseteq Members(k)
  BY <1>1, <1>2, KeyParts DEF ListsKept
<1>12. \A k \in Key : lists'[k] = IF k \in gone THEN <<>>
                                  ELSE IF k \in changed THEN Excluding(lists[k], group) ELSE lists[k]
  <2> SUFFICES ASSUME NEW k \in Key
               PROVE  lists'[k] = IF k \in gone THEN <<>>
                                  ELSE IF k \in changed THEN Excluding(lists[k], group) ELSE lists[k]
    OBVIOUS
  <2>1. lists'[k] = IF k \in gone THEN <<>> ELSE IF k \in changed THEN kept[k[1]] ELSE lists[k]
    BY <1>3
  <2>2. CASE k \in changed /\ k \notin gone
    <3>1. k[1] \in topics /\ k = All(k[1])
      BY <1>8, <2>2
    <3>2. kept[k[1]] = Excluding(lists[k], group)
      BY <1>5, <3>1
    <3> QED BY <2>1, <2>2, <3>2
  <2>3. CASE k \notin changed \/ k \in gone
    BY <2>1, <2>3
  <2> QED BY <2>2, <2>3
<1>13. ToSet(<<>>) = {} /\ IsInjective(<<>>) /\ <<>> \in Seq(Ids)
  BY DEF ToSet, IsInjective
<1>14. \A k \in Key : /\ lists'[k] \in Seq(Ids) /\ IsInjective(lists'[k])
                      /\ ToSet(lists'[k]) \subseteq ToSet(lists[k])
  <2> SUFFICES ASSUME NEW k \in Key
               PROVE  /\ lists'[k] \in Seq(Ids) /\ IsInjective(lists'[k])
                      /\ ToSet(lists'[k]) \subseteq ToSet(lists[k])
    OBVIOUS
  <2>1. /\ Excluding(lists[k], group) \in Seq(Ids) /\ IsInjective(Excluding(lists[k], group))
        /\ ToSet(Excluding(lists[k], group)) \subseteq ToSet(lists[k])
    <3>1. lists[k] \in Seq(Ids) /\ IsInjective(lists[k])
      BY <1>11
    <3> QED BY <3>1, DistinctWithout
  <2> QED BY <2>1, <1>11, <1>12, <1>13
<1>15. lists' \in [Key -> Seq(Ids)]
  BY <1>3, <1>14
<1>16. /\ ledger' \in Seq(Ids) /\ ToSet(ledger') = ToSet(ledger) \ ScopedIn(sc)
       /\ Len(ledger') <= Len(ledger)
       /\ Len(ledger') = Len(ledger) => ToSet(ledger) \cap ScopedIn(sc) = {}
  BY <1>2, <1>3, ExcludingType, ExcludingLength, ExcludingKeeps
<1>17. Ids' = Ids /\ (\A k \in Key : Members(k)' = Members(k)) /\ (\A c \in Scopes : ScopedIn(c)' = ScopedIn(c))
  BY <1>3 DEF Ids, Members, KeysOf, ScopedIn
<1>18. Counts' \in Nat \X Nat /\ Counts'[1] = Counts[1] /\ Counts'[2] <= Counts[2]
      /\ (Counts' = Counts => ToSet(ledger) \cap ScopedIn(sc) = {})
  BY <1>2, <1>3, <1>16 DEF Counts
<1>19. BusTypes'
  <2>1. snapshots' \in [Topics -> Seq(Ids)]
    BY <1>2, <1>3, <1>13
  <2>2. byScope' \in [Scopes -> SUBSET Ids]
    BY <1>2, <1>3
  <2>3. dirty' \in SUBSET Topics
    BY <1>2, <1>3, <1>5
  <2> QED BY <1>2, <1>3, <1>15, <1>16, <1>17, <2>1, <2>2, <2>3 DEF BusTypes
<1>20. ListsKept'
  <2>1. ASSUME NEW u \in Topics
        PROVE  /\ IsInjective(snapshots'[u])
               /\ u \in dirty' \/ snapshots'[u] = <<>> \/ snapshots'[u] = lists'[All(u)]
    <3>1. /\ IsInjective(snapshots[u])
          /\ u \in dirty \/ snapshots[u] = <<>> \/ snapshots[u] = lists[All(u)]
      BY <1>1 DEF ListsKept
    <3>2. snapshots'[u] = IF u \in emptied THEN <<>> ELSE snapshots[u]
      BY <1>3
    <3>3. u \notin topics => lists'[All(u)] = lists[All(u)]
      BY <1>8, <1>12, KeyParts
    <3> QED BY <1>3, <1>13, <3>1, <3>2, <3>3
  <2> QED BY <1>11, <1>14, <1>17, <2>1 DEF ListsKept
<1>21. ~twins => group = ToSet(ledger) \cap ScopedIn(sc)
  BY <1>1 DEF TablesAgree, group
<1>22. TablesAgree'
  <2> SUFFICES ASSUME ~twins PROVE TablesAgree'
    BY <1>3 DEF TablesAgree
  <2>1. /\ \A k \in Key : lists[k] = Including(ledger, Members(k))
        /\ \A c \in Scopes : byScope[c] = ToSet(ledger) \cap ScopedIn(c)
        /\ \A q, r \in ToSet(ledger) : info[q] = info[r] /\ ~info[r].once => q = r
        /\ group = ToSet(ledger) \cap ScopedIn(sc)
    BY <1>1, <1>21 DEF TablesAgree
  <2>2. ledger' = Excluding(ledger, group)
    BY <1>2, <1>3, <2>1, ExcludingSame
  <2>3. \A k \in Key : Including(ledger', Members(k)) = Excluding(lists[k], group)
    BY <1>2, <2>1, <2>2, IncludingExcluding
  <2>4. \A s \in group : info[s].topic \in topics
    <3> SUFFICES ASSUME NEW s \in group PROVE info[s].topic \in topics
      OBVIOUS
    <3>1. s \in ToSet(lists[All(info[s].topic)])
      BY <1>1, <1>4, <2>1, HeldIsListed
    <3>2. lists[All(info[s].topic)] # <<>>
      BY <3>1, <1>13
    <3> QED BY <1>5, <3>2
  <2>5. \A k \in Key : ToSet(lists[k]) = ToSet(ledger) \cap Members(k)
    BY <1>2, <2>1, IncludingParts
  <2>6. ASSUME NEW k \in Key PROVE lists'[k] = Excluding(lists[k], group)
    <3>1. ToSet(Excluding(lists[k], group)) = ToSet(lists[k]) \ group /\ Excluding(lists[k], group) \in Seq(Ids)
      BY <1>11, DistinctWithout
    <3>2. CASE k \in gone
      <4>1. ToSet(lists[k]) \subseteq group
        <5>1. CASE k[2] = sc
          <6>1. Members(k) \subseteq ScopedIn(sc)
            BY <5>1, ScopesAssumption DEF Members, KeysOf, SubKeys, ScopedIn
          <6> QED BY <2>1, <2>5, <6>1
        <5>2. CASE k[2] = NoScope /\ k[1] \in emptied
          <6>1. Members(k) \subseteq Members(All(k[1]))
            BY KeyParts DEF Members, KeysOf, SubKeys
          <6>2. Excluding(lists[All(k[1])], group) = <<>>
            BY <1>5, <5>2
          <6>3. ToSet(lists[All(k[1])]) \ group = {}
            BY <1>11, <1>13, <6>2, DistinctWithout
          <6> QED BY <1>11, <2>5, <6>1, <6>3
        <5> QED BY <1>8, <3>2, <5>1, <5>2
      <4>2. Excluding(lists[k], group) = <<>>
        BY <3>1, <4>1, NoElements
      <4> QED BY <1>12, <3>2, <4>2
    <3>3. CASE k \in changed /\ k \notin gone
      BY <1>12, <3>3
    <3>4. CASE k \notin changed
      <4>1. ASSUME NEW x \in ToSet(lists[k]), x \in group PROVE FALSE
        <5>1. x \in Members(k) /\ x \in ScopedIn(sc)
          BY <1>11, <2>1, <4>1
        <5>2. k \in {All(info[x].topic), <<info[x].topic, sc>>}
          BY <5>1 DEF Members, KeysOf, SubKeys, ScopedIn
        <5>3. info[x].topic \in topics /\ info[x].topic \in Topics
          BY <1>5, <2>4, <4>1
        <5> QED BY <1>8, <3>4, <5>2, <5>3
      <4>2. Excluding(lists[k], group) = lists[k]
        BY <1>11, <4>1, ExcludingNothing
      <4> QED BY <1>8, <1>12, <3>4, <4>2
    <3> QED BY <3>2, <3>3, <3>4
  <2>7. ASSUME NEW c \in Scopes PROVE byScope'[c] = ToSet(ledger') \cap ScopedIn(c)
    <3>1. CASE c = sc
      BY <3>1, <1>2, <1>3, <1>16
    <3>2. CASE c # sc
      <4>1. byScope'[c] = byScope[c] /\ ScopedIn(c) \cap ScopedIn(sc) = {}
        BY <3>2, <1>2, <1>3 DEF ScopedIn
      <4> QED BY <1>16, <2>1, <4>1
    <3> QED BY <3>1, <3>2
  <2>8. \A q, r \in ToSet(ledger') : info[q] = info[r] /\ ~info[r].once => q = r
    BY <1>16, <2>1
  <2> QED BY <1>3, <1>17, <2>3, <2>6, <2>7, <2>8 DEF TablesAgree
<1>23. stack' \in Seq(Frames(Ids)) /\ Deliveries(stack', lists', Counts', twins)
  <2>1. Shrunk(lists, lists', changed, held, group)
    BY <1>8, <1>9, <1>12 DEF Shrunk
  <2>2. ~twins /\ Counts' = Counts => lists' = lists /\ changed = {}
    <3> SUFFICES ASSUME ~twins, Counts' = Counts PROVE lists' = lists /\ changed = {}
      OBVIOUS
    <3>1. changed = {}
      BY <1>6, <1>8, <1>18, <1>21
    <3>2. \A k \in Key : lists'[k] = lists[k]
      BY <3>1, <1>8, <1>12
    <3> QED BY <3>1, <3>2, <1>2, <1>15
  <2>3. TakenBack(Ids, lists, lists', changed, held, group, Counts, Counts', twins)
    BY <1>2, <1>8, <1>10, <1>15, <1>18, <2>1, <2>2 DEF TakenBack
  <2> QED BY <1>1, <1>3, <2>3, StackLess
<1> QED BY <1>3, <1>17, <1>19, <1>20, <1>22, <1>23 DEF BusInv, BusHolds

(* subscribe() and once() put a subscription at the end of its lists.      *)
LEMMA SubscribeKeeps ==
    ASSUME NEW frames, BusHolds(frames), NEW sub \in Sub, DoSubscribe(sub, frames)
    PROVE  BusInv'
<1> DEFINE n == Len(info) + 1
           I == Ids
           J == I \cup {n}
<1>1. /\ BusTypes /\ ListsKept /\ TablesAgree
      /\ frames \in Seq(Frames(I)) /\ Deliveries(frames, lists, Counts, twins)
  BY DEF BusHolds
<1>2. /\ info \in Seq(Sub) /\ lists \in [Key -> Seq(I)] /\ byScope \in [Scopes -> SUBSET I]
      /\ snapshots \in [Topics -> Seq(I)] /\ dirty \in SUBSET Topics /\ ledger \in Seq(I)
      /\ twins \in BOOLEAN /\ Counts \in Nat \X Nat /\ Len(info) \in Nat /\ Len(ledger) \in Nat
  BY <1>1, CountsType DEF BusTypes
<1>3. /\ info' = Append(info, sub)
      /\ lists' = [k \in Key |-> IF k \in SubKeys(sub) THEN Append(lists[k], n) ELSE lists[k]]
      /\ byScope' = IF sub.scope = NoScope THEN byScope
                    ELSE [byScope EXCEPT ![sub.scope] =
                            IF \E r \in @ : info[r] = sub /\ ~sub.once THEN @ ELSE @ \cup {n}]
      /\ dirty' = dirty \cup {sub.topic}
      /\ ledger' = Append(ledger, n)
      /\ twins' = (twins \/ \E i \in DOMAIN ledger : info[ledger[i]] = sub /\ ~sub.once)
      /\ stack' = frames
      /\ snapshots' = snapshots
  BY DEF DoSubscribe
<1>4. /\ Ids' = J /\ n \notin I /\ I \subseteq J /\ n \in J
      /\ info' \in Seq(Sub) /\ info'[n] = sub /\ \A s \in I : info'[s] = info[s]
      /\ Len(info') = n
  BY <1>2, <1>3 DEF Ids
<1>5. sub.topic \in Topics /\ sub.scope \in Scopes \cup {NoScope} /\ sub.once \in BOOLEAN
  BY DEF Sub
<1> HIDE DEF n, I, J
<1>6. Seq(I) \subseteq Seq(J) /\ Seq(Frames(I)) \subseteq Seq(Frames(J))
  BY <1>4, MoreFrames
<1>7. \A k \in Key : lists'[k] = IF k \in SubKeys(sub) THEN Append(lists[k], n) ELSE lists[k]
  BY <1>3
<1>8. \A k \in Key : Members(k)' = Members(k) \cup (IF k \in SubKeys(sub) THEN {n} ELSE {})
  <2>1. \A k \in Key : Members(k)' = {s \in J : k \in SubKeys(info'[s])}
    BY <1>4 DEF Members, KeysOf
  <2>2. \A k \in Key : Members(k) = {s \in I : k \in SubKeys(info[s])}
    BY DEF Members, KeysOf, I
  <2> QED BY <1>4, <2>1, <2>2 DEF J
<1>9. \A k \in Key : /\ lists[k] \in Seq(I) /\ IsInjective(lists[k]) /\ ToSet(lists[k]) \subseteq Members(k)
                     /\ ToSet(lists[k]) \subseteq I
  BY <1>1, <1>2, InSet DEF ListsKept
<1>10. \A k \in Key : /\ lists'[k] \in Seq(J) /\ IsInjective(lists'[k])
                      /\ ToSet(lists'[k]) \subseteq Members(k)'
  <2> SUFFICES ASSUME NEW k \in Key
               PROVE  lists'[k] \in Seq(J) /\ IsInjective(lists'[k]) /\ ToSet(lists'[k]) \subseteq Members(k)'
    OBVIOUS
  <2>1. lists[k] \in Seq(J) /\ n \notin ToSet(lists[k]) /\ IsInjective(lists[k])
    BY <1>4, <1>6, <1>9
  <2>2. /\ Append(lists[k], n) \in Seq(J) /\ IsInjective(Append(lists[k], n))
        /\ ToSet(Append(lists[k], n)) = ToSet(lists[k]) \cup {n}
    BY <1>4, <2>1, DistinctWith
  <2> QED BY <1>7, <1>8, <1>9, <2>1, <2>2
<1>11. lists' \in [Key -> Seq(J)]
  BY <1>3, <1>10
<1>12. ledger \in Seq(J) /\ ledger' \in Seq(J) /\ ToSet(ledger') = ToSet(ledger) \cup {n} /\ Len(ledger') = Len(ledger) + 1
       /\ ToSet(ledger) \subseteq I
  <2>1. ledger \in Seq(J) /\ ToSet(ledger) \subseteq I
    BY <1>2, <1>6, InSet
  <2> QED BY <1>3, <1>4, <2>1, AppendSet
<1>13. BusTypes'
  <2>1. byScope' \in [Scopes -> SUBSET J]
    <3>1. CASE sub.scope = NoScope
      BY <3>1, <1>2, <1>3, <1>4
    <3>2. CASE sub.scope # NoScope
      <4> DEFINE b == IF \E r \in byScope[sub.scope] : info[r] = sub /\ ~sub.once
                      THEN byScope[sub.scope] ELSE byScope[sub.scope] \cup {n}
      <4>1. b \in SUBSET J /\ byScope' = [byScope EXCEPT ![sub.scope] = b]
        BY <3>2, <1>2, <1>3, <1>4, <1>5
      <4> HIDE DEF b
      <4> QED BY <1>2, <1>4, <4>1
    <3> QED BY <3>1, <3>2
  <2>2. snapshots' \in [Topics -> Seq(J)] /\ dirty' \in SUBSET Topics /\ twins' \in BOOLEAN
    BY <1>2, <1>3, <1>5, <1>6
  <2> QED BY <1>4, <1>11, <1>12, <2>1, <2>2 DEF BusTypes
<1>14. ListsKept'
  <2>1. ASSUME NEW u \in Topics
        PROVE  /\ IsInjective(snapshots'[u])
               /\ u \in dirty' \/ snapshots'[u] = <<>> \/ snapshots'[u] = lists'[<<u, AllSubs>>]
    <3>1. /\ IsInjective(snapshots[u])
          /\ u \in dirty \/ snapshots[u] = <<>> \/ snapshots[u] = lists[<<u, AllSubs>>]
      BY <1>1 DEF ListsKept
    <3>2. u # sub.topic => lists'[<<u, AllSubs>>] = lists[<<u, AllSubs>>]
      BY <1>7, KeyParts DEF SubKeys
    <3> QED BY <1>3, <3>1, <3>2
  <2> QED BY <1>10, <2>1 DEF ListsKept
<1>15. TablesAgree'
  <2> SUFFICES ASSUME ~twins' PROVE TablesAgree'
    BY DEF TablesAgree
  <2>1. /\ ~twins
        /\ \A k \in Key : lists[k] = Including(ledger, Members(k))
        /\ \A c \in Scopes : byScope[c] = ToSet(ledger) \cap ScopedIn(c)
        /\ \A q, r \in ToSet(ledger) : info[q] = info[r] /\ ~info[r].once => q = r
    BY <1>1, <1>3 DEF TablesAgree
  <2>2. \A r \in ToSet(ledger) : ~(info[r] = sub /\ ~sub.once)
    BY <1>3 DEF ToSet
  <2>3. ASSUME NEW k \in Key PROVE lists'[k] = Including(ledger', Members(k)')
    <3>1. Including(ledger', Members(k)') = IF n \in Members(k)' THEN Append(Including(ledger, Members(k)'), n)
                                            ELSE Including(ledger, Members(k)')
      BY <1>3, <1>4, <1>12, IncludingAppend
    <3>2. n \in Members(k)' <=> k \in SubKeys(sub)
      <4>1. n \notin Members(k)
        BY <1>4 DEF Members, I
      <4> QED BY <1>8, <4>1
    <3>3. Including(ledger, Members(k)') = lists[k]
      <4>1. \A x \in ToSet(ledger) : x \in Members(k)' <=> x \in Members(k)
        BY <1>4, <1>8, <1>12
      <4> QED BY <1>12, <2>1, <4>1, IncludingSame
    <3> QED BY <1>7, <3>1, <3>2, <3>3
  <2>4. ASSUME NEW c \in Scopes PROVE byScope'[c] = ToSet(ledger') \cap ScopedIn(c)'
    <3>1. ScopedIn(c)' = ScopedIn(c) \cup (IF sub.scope = c THEN {n} ELSE {})
      BY <1>4 DEF ScopedIn, I, J
    <3>2. byScope[c] = ToSet(ledger) \cap ScopedIn(c) /\ n \notin ToSet(ledger) /\ n \notin ScopedIn(c)
      BY <1>4, <1>12, <2>1 DEF ScopedIn, I
    <3>3. CASE c = sub.scope
      <4>1. ~\E r \in byScope[c] : info[r] = sub /\ ~sub.once
        BY <2>2, <3>2
      <4>2. byScope'[c] = byScope[c] \cup {n}
        BY <3>3, <4>1, <1>2, <1>3, ScopesAssumption
      <4> QED BY <1>12, <3>1, <3>2, <3>3, <4>2
    <3>4. CASE c # sub.scope
      <4>1. byScope'[c] = byScope[c]
        BY <3>4, <1>2, <1>3
      <4> QED BY <1>12, <3>1, <3>2, <3>4, <4>1
    <3> QED BY <3>3, <3>4
  <2>5. ASSUME NEW q \in ToSet(ledger'), NEW r \in ToSet(ledger'), info'[q] = info'[r], ~info'[r].once
        PROVE  q = r
    <3>1. CASE q \in ToSet(ledger) /\ r \in ToSet(ledger)
      BY <3>1, <1>4, <1>12, <2>1, <2>5
    <3>2. CASE q = n /\ r \in ToSet(ledger)
      BY <3>2, <1>4, <1>12, <2>2, <2>5
    <3>3. CASE q \in ToSet(ledger) /\ r = n
      BY <3>3, <1>4, <1>12, <2>2, <2>5
    <3> QED BY <1>12, <3>1, <3>2, <3>3
  <2> QED BY <2>3, <2>4, <2>5 DEF TablesAgree
<1>16. stack' \in Seq(Frames(J)) /\ Deliveries(stack', lists', Counts', twins')
  <2>1. Counts' \in Nat \X Nat /\ Counts[1] < Counts'[1]
    BY <1>2, <1>4, <1>12 DEF Counts, n
  <2>2. Added(I, lists, lists', sub, n, Counts, Counts', twins, twins')
    BY <1>2, <1>3, <1>4, <2>1 DEF Added
  <2> QED BY <1>1, <1>3, <1>6, <2>2, StackMore
<1> QED BY <1>4, <1>13, <1>14, <1>15, <1>16 DEF BusInv, BusHolds

(* publish() begins to iterate what it was called for.                     *)
LEMMA PublishKeeps ==
    ASSUME BusInv, ProgramRuns, NEW t \in Topics, NEW sc \in Scopes \cup {NoScope}, DoPublish(t, sc)
    PROVE  BusInv'
<1> DEFINE todo == Todo(t, sc)
           takes == TakesSnapshot(t, sc)
           all == <<t, AllSubs>>
           none == <<t, NoScope>>
           for == Addressed(t, sc)
           frame == [kind |-> "publish", topic |-> t, todo |-> todo, at |-> 0,
                     fixed |-> takes, addressed |-> for, done |-> <<>>, made |-> Counts]
<1>1. /\ BusTypes /\ ListsKept /\ TablesAgree
      /\ stack \in Seq(Frames(Ids)) /\ Deliveries(stack, lists, Counts, twins)
  BY DEF BusHolds, BusInv
<1>2. /\ info \in Seq(Sub) /\ lists \in [Key -> Seq(Ids)] /\ byScope \in [Scopes -> SUBSET Ids]
      /\ snapshots \in [Topics -> Seq(Ids)] /\ dirty \in SUBSET Topics /\ ledger \in Seq(Ids)
      /\ twins \in BOOLEAN /\ Counts \in Nat \X Nat
  BY <1>1, CountsType DEF BusTypes
<1>3. /\ UNCHANGED <<info, lists, byScope, ledger, twins>>
      /\ snapshots' = IF takes THEN [snapshots EXCEPT ![t] = Snapshot(t)] ELSE snapshots
      /\ dirty' = IF takes THEN dirty \ {t} ELSE dirty
      /\ stack' = IF todo = <<>> THEN stack ELSE <<frame>> \o stack
  BY DEF DoPublish
<1>4. all \in Key /\ none \in Key /\ <<t, sc>> \in Key
  BY KeyParts
<1>5. \A k \in Key : lists[k] \in Seq(Ids) /\ IsInjective(lists[k]) /\ ToSet(lists[k]) \subseteq Members(k)
  BY <1>1, <1>2 DEF ListsKept
<1>6. Snapshot(t) = lists[all] \/ (Snapshot(t) = snapshots[t] /\ t \notin dirty /\ snapshots[t] # <<>>)
  BY DEF Snapshot
<1>7. Snapshot(t) = lists[all]
  BY <1>1, <1>6 DEF ListsKept
<1>8. takes => sc = NoScope /\ Len(lists[all]) > 1
  BY DEF TakesSnapshot
<1>9. Ids' = Ids /\ (\A k \in Key : Members(k)' = Members(k)) /\ (\A c \in Scopes : ScopedIn(c)' = ScopedIn(c))
      /\ Counts' = Counts
  BY <1>3 DEF Ids, Members, KeysOf, ScopedIn, Counts
<1>10. BusTypes'
  <2>1. snapshots' \in [Topics -> Seq(Ids)]
    <3>1. lists[all] \in Seq(Ids)
      BY <1>4, <1>5
    <3> QED BY <1>2, <1>3, <1>7, <3>1
  <2> QED BY <1>2, <1>3, <1>9, <2>1 DEF BusTypes
<1>11. ListsKept'
  <2>1. ASSUME NEW u \in Topics
        PROVE  /\ IsInjective(snapshots'[u])
               /\ u \in dirty' \/ snapshots'[u] = <<>> \/ snapshots'[u] = lists'[<<u, AllSubs>>]
    <3>1. /\ IsInjective(snapshots[u])
          /\ u \in dirty \/ snapshots[u] = <<>> \/ snapshots[u] = lists[<<u, AllSubs>>]
      BY <1>1 DEF ListsKept
    <3>2. CASE takes /\ u = t
      <4>1. snapshots'[u] = lists[all]
        BY <3>2, <1>2, <1>3, <1>7
      <4> QED BY <3>2, <4>1, <1>3, <1>4, <1>5
    <3>3. CASE ~(takes /\ u = t)
      <4>1. snapshots'[u] = snapshots[u] /\ (u \in dirty' <=> u \in dirty)
        BY <3>3, <1>2, <1>3
      <4> QED BY <3>1, <4>1, <1>3
    <3> QED BY <3>2, <3>3
  <2> QED BY <1>3, <1>5, <1>9, <2>1 DEF ListsKept
<1>12. TablesAgree'
  BY <1>1, <1>3, <1>9 DEF TablesAgree
<1> HIDE DEF todo, takes, for
<1>13. ASSUME todo # <<>> PROVE frame \in Publishing(Ids) /\ Iterating(frame, lists, Counts, twins)
  <2>1. for \in Seq(Ids)
    <3>1. \A S : Including(ledger, S) \in Seq(Ids)
      BY <1>2, IncludingParts
    <3>2. \A a, b \in Seq(Ids) : a \o b \in Seq(Ids)
      OBVIOUS
    <3> QED BY <3>1, <3>2 DEF for, Addressed
  <2> DEFINE lis == lists[all]
             c1 == lists[none]
             c2 == lists[<<t, sc>>]
             Scoped(scopes) == Including(ledger, {s \in Ids : info[s].topic = t /\ info[s].scope \in scopes})
  <2>2. lis \in Seq(Ids) /\ c1 \in Seq(Ids) /\ c2 \in Seq(Ids) /\ IsInjective(lis) /\ IsInjective(c1) /\ IsInjective(c2)
    BY <1>4, <1>5
  <2>3. sc # NoScope => ToSet(c1) \cap ToSet(c2) = {}
    <3>1. sc # NoScope => Members(none) \cap Members(<<t, sc>>) = {}
      BY ScopesAssumption DEF Members, KeysOf, SubKeys
    <3> QED BY <3>1, <1>4, <1>5
  <2>4. ~twins => IF sc = NoScope THEN for = lis ELSE for = c1 \o c2
    <3> SUFFICES ASSUME ~twins PROVE IF sc = NoScope THEN for = lis ELSE for = c1 \o c2
      OBVIOUS
    <3>1. \A k \in Key : lists[k] = Including(ledger, Members(k))
      BY <1>1 DEF TablesAgree
    <3>2. \A s \in Ids : info[s].scope \in Scopes \cup {NoScope}
      <4>1. \A s \in Ids : info[s] \in Sub
        BY <1>2 DEF Ids
      <4> QED BY <4>1 DEF Sub
    <3>3. {s \in Ids : info[s].topic = t /\ info[s].scope \in Scopes \cup {NoScope}} = Members(all)
      BY <3>2, ScopesAssumption DEF Members, KeysOf, SubKeys
    <3>4. \A c \in Scopes \cup {NoScope} :
             {s \in Ids : info[s].topic = t /\ info[s].scope \in {c}} = Members(<<t, c>>)
      BY <3>2, ScopesAssumption DEF Members, KeysOf, SubKeys
    <3>5. for = IF sc = NoScope THEN Scoped(Scopes \cup {NoScope}) ELSE Scoped({NoScope}) \o Scoped({sc})
      BY DEF for, Addressed
    <3> QED BY <1>4, <3>1, <3>3, <3>4, <3>5
  <2> HIDE DEF lis, c1, c2
  <2>5. /\ todo \in Seq(Refs(Ids)) /\ Len(todo) \in {1, 2}
        /\ takes => Len(todo) = 1 /\ todo[1].key \notin Key
        /\ Len(todo) = 2 => todo[1].key = none /\ todo[2].key = <<t, sc>> /\ sc \in Scopes
        /\ FirstOf(frame, lists) \in Seq(Ids) /\ SecondOf(frame, lists) \in Seq(Ids)
        /\ IsInjective(FirstOf(frame, lists)) /\ IsInjective(SecondOf(frame, lists))
        /\ ToSet(SecondOf(frame, lists)) \cap ToSet(FirstOf(frame, lists)) = {}
        /\ FirstOf(frame, lists) \o SecondOf(frame, lists) = IF sc = NoScope THEN lis ELSE c1 \o c2
    <3>1. \A k \in Key : /\ Live(k) \in Refs(Ids) /\ Live(k).key = k /\ Items(Live(k), lists) = lists[k]
                          /\ <<Live(k)>> \in Seq(Refs(Ids)) /\ Len(<<Live(k)>>) = 1 /\ <<Live(k)>>[1] = Live(k)
      BY DEF Live, Refs, Items
    <3>2. \A q \in Seq(Ids) : /\ Fixed(q) \in Refs(Ids) /\ Fixed(q).key \notin Key /\ Items(Fixed(q), lists) = q
                               /\ <<Fixed(q)>> \in Seq(Refs(Ids)) /\ Len(<<Fixed(q)>>) = 1 /\ <<Fixed(q)>>[1] = Fixed(q)
      BY KeyParts DEF Fixed, Refs, Items
    <3>3. frame.todo = todo
      OBVIOUS
    <3> HIDE DEF frame
    <3>4. \A q \in Seq(Ids) : q \o <<>> = q /\ <<>> \o q = q
      OBVIOUS
    <3>5. ToSet(<<>>) = {} /\ IsInjective(<<>>) /\ <<>> \in Seq(Ids)
      BY DEF ToSet, IsInjective
    <3>6. CASE sc = NoScope
      <4>1. lis # <<>> /\ todo = IF Len(lis) = 1 THEN <<Live(all)>> ELSE <<Fixed(lis)>>
        BY <1>7, <1>13, <3>6 DEF todo, Todo, lis
      <4>2. takes => Len(lis) # 1
        <5> SUFFICES ASSUME takes PROVE Len(lis) # 1
          OBVIOUS
        <5>1. Len(lis) > 1
          BY <1>8 DEF lis
        <5>2. \A n \in Nat : n > 1 => n # 1
          OBVIOUS
        <5>3. Len(lis) \in Nat
          BY <2>2
        <5> QED BY <5>1, <5>2, <5>3, Zenon
      <4>3. todo \in Seq(Refs(Ids)) /\ Len(todo) = 1 /\ (takes => todo[1].key \notin Key)
            /\ Items(todo[1], lists) = lis
        BY <1>4, <2>2, <3>1, <3>2, <4>1, <4>2 DEF lis
      <4>4. FirstOf(frame, lists) = lis /\ SecondOf(frame, lists) = <<>>
        BY <3>3, <4>3 DEF FirstOf, SecondOf
      <4> QED BY <2>2, <3>4, <3>5, <3>6, <4>3, <4>4
    <3>7. CASE sc # NoScope
      <4>1. todo = Walk(none) \o Walk(<<t, sc>>) /\ ~takes /\ sc \in Scopes
        BY <3>7, <1>8 DEF todo, Todo
      <4>2. CASE c1 = <<>>
        <5>1. c2 # <<>> /\ todo = <<Live(<<t, sc>>)>>
          BY <1>4, <1>13, <3>1, <4>1, <4>2 DEF Walk, c1, c2
        <5>2. todo \in Seq(Refs(Ids)) /\ Len(todo) = 1 /\ Items(todo[1], lists) = c2
          BY <1>4, <3>1, <5>1 DEF c2
        <5>3. FirstOf(frame, lists) = c2 /\ SecondOf(frame, lists) = <<>>
          BY <3>3, <5>2 DEF FirstOf, SecondOf
        <5> QED BY <2>2, <3>4, <3>5, <3>7, <4>1, <4>2, <5>2, <5>3
      <4>3. CASE c1 # <<>> /\ c2 = <<>>
        <5>1. todo = <<Live(none)>>
          BY <1>4, <3>1, <4>1, <4>3 DEF Walk, c1, c2
        <5>2. todo \in Seq(Refs(Ids)) /\ Len(todo) = 1 /\ Items(todo[1], lists) = c1
          BY <1>4, <3>1, <5>1 DEF c1
        <5>3. FirstOf(frame, lists) = c1 /\ SecondOf(frame, lists) = <<>>
          BY <3>3, <5>2 DEF FirstOf, SecondOf
        <5> QED BY <2>2, <3>4, <3>5, <3>7, <4>1, <4>3, <5>2, <5>3
      <4>4. CASE c1 # <<>> /\ c2 # <<>>
        <5>1. todo = <<Live(none)>> \o <<Live(<<t, sc>>)>>
          BY <4>1, <4>4 DEF Walk, c1, c2
        <5>2. todo \in Seq(Refs(Ids)) /\ Len(todo) = 2 /\ todo[1] = Live(none) /\ todo[2] = Live(<<t, sc>>)
          <6>1. Live(none) \in Refs(Ids) /\ Live(<<t, sc>>) \in Refs(Ids)
            BY <1>4, <3>1
          <6>2. /\ <<Live(<<t, sc>>)>> \in Seq(Refs(Ids)) /\ Len(<<Live(<<t, sc>>)>>) = 1
                /\ <<Live(<<t, sc>>)>>[1] = Live(<<t, sc>>)
            BY <1>4, <3>1
          <6>3. /\ todo \in Seq(Refs(Ids)) /\ Len(todo) = 1 + 1 /\ todo[1] = Live(none)
                /\ \A i \in 1 .. 1 : todo[i + 1] = <<Live(<<t, sc>>)>>[i]
            BY <5>1, <6>1, <6>2, PushedOn
          <6>4. todo[1 + 1] = Live(<<t, sc>>)
            BY <6>2, <6>3
          <6> QED BY <6>3, <6>4
        <5>3. FirstOf(frame, lists) = c1 /\ SecondOf(frame, lists) = c2
              /\ todo[1].key = none /\ todo[2].key = <<t, sc>>
          BY <1>4, <3>1, <3>3, <5>2 DEF FirstOf, SecondOf, c1, c2
        <5> QED BY <2>2, <2>3, <3>7, <4>1, <5>2, <5>3
      <4> QED BY <4>2, <4>3, <4>4
    <3> QED BY <3>6, <3>7
  <2>6. frame \in Publishing(Ids)
    <3>1. takes \in BOOLEAN
      BY DEF takes, TakesSnapshot
    <3>2. <<>> \in Seq(Ids) /\ 0 \in Nat
      OBVIOUS
    <3> QED BY <1>2, <1>13, <2>1, <2>5, <3>1, <3>2 DEF Publishing
  <2>7. TodoShape(frame)
    BY <2>5, ScopesAssumption DEF TodoShape
  <2>8. Unrepeated(<<>>, 0, FirstOf(frame, lists), SecondOf(frame, lists))
    <3>1. ToSet(<<>>) = {} /\ IsInjective(<<>>)
      BY DEF ToSet, IsInjective
    <3> QED BY <2>5, <3>1 DEF Unrepeated
  <2>9. ~twins => Follows(for, <<>>, 0, FirstOf(frame, lists), SecondOf(frame, lists))
    <3> SUFFICES ASSUME ~twins PROVE Follows(for, <<>>, 0, FirstOf(frame, lists), SecondOf(frame, lists))
      OBVIOUS
    <3> HIDE DEF frame
    <3> DEFINE c == FirstOf(frame, lists)
               d == SecondOf(frame, lists)
    <3>1. c \in Seq(Ids) /\ d \in Seq(Ids) /\ for = c \o d
      BY <2>4, <2>5
    <3> HIDE DEF c, d
    <3>2. /\ Len(c) \in Nat /\ Len(d) \in Nat /\ Len(for) = Len(c) + Len(d)
          /\ \A i \in 1 .. Len(c) + Len(d) : for[i] = IF i <= Len(c) THEN c[i] ELSE d[i - Len(c)]
      BY <3>1, ConcatProperties
    <3>3. \A i \in 1 .. Len(d) : Len(c) + i \in 1 .. Len(c) + Len(d) /\ ~(Len(c) + i <= Len(c))
                                 /\ (Len(c) + i) - Len(c) = i
      BY <3>2
    <3>4. \A i \in 1 .. Len(d) : for[Len(c) + i] = d[i]
      BY <3>2, <3>3
    <3>5. \A i \in 1 .. Len(c) : for[i] = c[i]
      BY <3>2
    <3>6. Len(<<>>) - 0 = 0
      OBVIOUS
    <3>7. \A i \in 1 .. Len(c) : 0 + i = i
      BY <3>2
    <3>8. \A i \in 1 .. Len(d) : 0 + Len(c) + i = Len(c) + i
      BY <3>2
    <3>9. Follows(for, <<>>, 0, c, d)
      BY <3>2, <3>4, <3>5, <3>6, <3>7, <3>8 DEF Follows
    <3> QED BY <3>9 DEF c, d
  <2>10. Counts[1] <= Counts[1] /\ (Counts[1] = Counts[1] => Counts[2] <= Counts[2])
    BY <1>2
  <2> QED BY <2>6, <2>7, <2>8, <2>9, <2>10 DEF Iterating
<1>14. stack' \in Seq(Frames(Ids)) /\ Deliveries(stack', lists', Counts', twins')
  <2>1. CASE todo = <<>>
    BY <2>1, <1>1, <1>3, <1>9
  <2>2. CASE todo # <<>>
    <3> HIDE DEF frame
    <3>1. stack' = <<frame>> \o stack /\ frame \in Frames(Ids) /\ frame.kind = "publish"
          /\ Iterating(frame, lists, Counts, twins)
      BY <1>3, <1>13, <2>2 DEF Frames, Publishing
    <3>2. stack' \in Seq(Frames(Ids)) /\ Deliveries(stack', lists, Counts, twins)
      BY <1>1, <3>1, StackCall
    <3> QED BY <1>3, <1>9, <3>2
  <2> QED BY <2>1, <2>2
<1> QED BY <1>9, <1>10, <1>11, <1>12, <1>14 DEF BusInv, BusHolds

(* A sequence whose first element is replaced.                             *)
LEMMA HeadReplaced ==
    ASSUME NEW X, NEW s \in Seq(X), s # <<>>, NEW e \in X, NEW r,
           r = [s EXCEPT ![1] = e]
    PROVE  r = <<e>> \o Tail(s)
<1> DEFINE q == <<e>> \o Tail(s)
<1>1. /\ Len(s) \in Nat \ {0} /\ Tail(s) \in Seq(X) /\ Len(Tail(s)) = Len(s) - 1
      /\ DOMAIN s = 1 .. Len(s) /\ \A i \in 1 .. Len(s) - 1 : Tail(s)[i] = s[i + 1]
  OBVIOUS
<1>2. /\ q \in Seq(X) /\ Len(q) = Len(s) /\ q[1] = e /\ \A i \in 1 .. Len(s) - 1 : q[i + 1] = Tail(s)[i]
  BY <1>1, PushedOn
<1> HIDE DEF q
<1>3. r = [i \in 1 .. Len(s) |-> IF i = 1 THEN e ELSE s[i]]
  BY <1>1
<1>4. q = [i \in 1 .. Len(q) |-> q[i]]
  BY <1>2
<1>5. ASSUME NEW i \in 1 .. Len(s) PROVE q[i] = IF i = 1 THEN e ELSE s[i]
  <2>1. CASE i = 1
    BY <1>2, <2>1
  <2>2. CASE i # 1
    <3> DEFINE j == i - 1
    <3>1. j \in 1 .. Len(s) - 1 /\ j + 1 = i
      BY <1>1, <2>2
    <3> HIDE DEF j
    <3>2. q[j + 1] = s[j + 1]
      BY <1>1, <1>2, <3>1
    <3> QED BY <2>2, <3>1, <3>2
  <2> QED BY <2>1, <2>2
<1>6. r = q
  BY <1>2, <1>3, <1>4, <1>5
<1> QED BY <1>6 DEF q

(* Two elements put before a sequence come there one by one.               *)
LEMMA TwoPushed ==
    ASSUME NEW X, NEW s \in Seq(X), NEW d \in X, NEW e \in X
    PROVE  <<d, e>> \o s = <<d>> \o (<<e>> \o s)
<1>1. <<d>> \in Seq(X) /\ <<e>> \in Seq(X)
  OBVIOUS
<1>2. <<d>> \o <<e>> = <<d, e>>
  <2>1. <<d>> \o <<e>> = Append(<<d>>, e)
    BY <1>1, AppendIsConcat
  <2>2. Append(<<d>>, e) = <<d, e>>
    <3>1. <<d, e>> \in Seq(X) /\ Len(<<d, e>>) = 2 /\ <<d, e>>[1] = d /\ <<d, e>>[2] = e
      OBVIOUS
    <3>2. Append(<<d>>, e) \in Seq(X) /\ Len(Append(<<d>>, e)) = 2 /\ Append(<<d>>, e)[1] = d /\ Append(<<d>>, e)[2] = e
      <4>1. Len(<<d>>) = 1 /\ <<d>>[1] = d /\ 1 \in 1 .. 1
        OBVIOUS
      <4>2. /\ Append(<<d>>, e) \in Seq(X) /\ Len(Append(<<d>>, e)) = 1 + 1
            /\ \A i \in 1 .. 1 : Append(<<d>>, e)[i] = <<d>>[i]
            /\ Append(<<d>>, e)[1 + 1] = e
        BY <1>1, <4>1, AppendProperties
      <4> QED BY <4>1, <4>2
    <3>3. \A i \in 1 .. 2 : i = 1 \/ i = 2
      OBVIOUS
    <3>4. \A i \in 1 .. 2 : Append(<<d>>, e)[i] = <<d, e>>[i]
      BY <3>1, <3>2, <3>3
    <3> QED BY <3>1, <3>2, <3>4, SeqEqual
  <2> QED BY <2>1, <2>2
<1>3. (<<d>> \o <<e>>) \o s = <<d>> \o (<<e>> \o s)
  BY <1>1, ConcatAssociative
<1> QED BY <1>2, <1>3

(* The frame of a publish() that runs.                                     *)
LEMMA InnermostPublish ==
    ASSUME BusInv, InPublish
    PROVE  LET f == Head(stack)
               c == FirstOf(f, lists) IN
           /\ stack \in Seq(Frames(Ids)) /\ stack # <<>> /\ lists \in [Key -> Seq(Ids)]
           /\ f = stack[1] /\ f \in Publishing(Ids) /\ Iterating(f, lists, Counts, twins)
           /\ Contents(Head(f.todo)) = c /\ c \in Seq(Ids) /\ f.at \in Nat /\ f.todo \in Seq(Refs(Ids))
           /\ Tail(stack) \in Seq(Frames(Ids)) /\ Len(Tail(stack)) = Len(stack) - 1 /\ Len(stack) \in Nat \ {0}
           /\ Deliveries(Tail(stack), lists, Counts, twins)
<1> DEFINE f == Head(stack)
<1>1. stack \in Seq(Frames(Ids)) /\ stack # <<>> /\ f.kind = "publish" /\ lists \in [Key -> Seq(Ids)]
      /\ Deliveries(stack, lists, Counts, twins)
  BY DEF BusInv, BusHolds, BusTypes, InPublish
<1>2. /\ f = stack[1] /\ f \in Frames(Ids) /\ Len(stack) \in Nat \ {0}
      /\ Tail(stack) \in Seq(Frames(Ids)) /\ Len(Tail(stack)) = Len(stack) - 1
      /\ Deliveries(Tail(stack), lists, Counts, twins)
  BY <1>1, StackReturn
<1>3. f \in Publishing(Ids)
  BY <1>1, <1>2 DEF Frames, Calling, Stepping, UpdateCall
<1>4. Iterating(f, lists, Counts, twins)
  <2>1. 1 \in 1 .. Len(stack)
    BY <1>2
  <2> QED BY <1>1, <1>2, <2>1 DEF Deliveries
<1>5. TodoShape(f)
  BY <1>4 DEF Iterating
<1> HIDE DEF f
<1>6. FirstOf(f, lists) \in Seq(Ids) /\ f.at \in Nat /\ f.todo \in Seq(Refs(Ids)) /\ Len(f.todo) \in {1, 2}
  BY <1>1, <1>3, <1>5, FrameParts
<1>7. Head(f.todo) = f.todo[1]
  OBVIOUS
<1>8. Contents(Head(f.todo)) = FirstOf(f, lists)
  BY <1>7 DEF Contents, FirstOf, Items
<1> QED BY <1>1, <1>2, <1>3, <1>4, <1>6, <1>8 DEF f

(* publish() calls the next subscription.                                  *)
Called(f, s) == [f EXCEPT !.at = @ + 1, !.done = Append(@, s)]
LEMMA NextCalled ==
    ASSUME NEW I, NEW f \in Publishing(I), NEW L \in [Key -> Seq(I)], NEW counts, NEW tw,
           Iterating(f, L, counts, tw), NEW s, f.at < Len(FirstOf(f, L)), s = FirstOf(f, L)[f.at + 1],
           NEW g, g = Called(f, s)
    PROVE  s \in I /\ g \in Publishing(I) /\ Iterating(g, L, counts, tw)
<1> DEFINE c == FirstOf(f, L)
           d == SecondOf(f, L)
           done == f.done
           at == f.at
           new == Append(done, s)
<1>1. TodoShape(f) /\ Unrepeated(done, at, c, d)
      /\ f.made[1] <= counts[1] /\ (f.made[1] = counts[1] => counts[2] <= f.made[2])
  BY DEF Iterating
<1>2. done \in Seq(I) /\ at \in Nat /\ c \in Seq(I) /\ d \in Seq(I) /\ at < Len(c) /\ s = c[at + 1]
  BY <1>1, FrameParts
<1>3. /\ g.todo = f.todo /\ g.fixed = f.fixed /\ g.addressed = f.addressed /\ g.made = f.made
      /\ g.at = at + 1 /\ g.done = new
  BY DEF Publishing, Called
<1>4. TodoShape(g) /\ FirstOf(g, L) = c /\ SecondOf(g, L) = d
  BY <1>1, <1>3 DEF TodoShape, FirstOf, SecondOf
<1> HIDE DEF c, d, done, at, new
<1>5. Len(c) \in Nat /\ Len(done) \in Nat /\ DOMAIN c = 1 .. Len(c) /\ at + 1 \in 1 .. Len(c)
  BY <1>2
<1>6. s \in I /\ s \in ToSet(c)
  BY <1>2, <1>5, InSet
<1>7. s \notin ToSet(done)
  <2>1. at + 1 > at
    BY <1>2
  <2> QED BY <1>1, <1>2, <1>5, <2>1 DEF Unrepeated
<1>8. new \in Seq(I) /\ IsInjective(new) /\ ToSet(new) = ToSet(done) \cup {s} /\ Len(new) = Len(done) + 1
      /\ new[Len(done) + 1] = s /\ \A i \in 1 .. Len(done) : new[i] = done[i]
  <2>1. IsInjective(done)
    BY <1>1 DEF Unrepeated
  <2>2. new \in Seq(I) /\ IsInjective(new) /\ ToSet(new) = ToSet(done) \cup {s}
    BY <1>2, <1>6, <1>7, <2>1, DistinctWith DEF new
  <2> QED BY <1>2, <1>6, <2>2 DEF new
<1>9. Unrepeated(new, at + 1, c, d)
  <2>1. ASSUME NEW i \in 1 .. Len(c), i > at + 1 PROVE c[i] \notin ToSet(new)
    <3>1. i > at /\ i # at + 1
      BY <1>2, <1>5, <2>1
    <3>2. c[i] # s
      BY <1>1, <1>2, <1>5, <3>1 DEF Unrepeated, IsInjective
    <3> QED BY <1>1, <1>8, <3>1, <3>2 DEF Unrepeated
  <2>2. ToSet(d) \cap (ToSet(c) \cup ToSet(new)) = {}
    BY <1>1, <1>6, <1>8 DEF Unrepeated
  <2> QED BY <1>1, <1>8, <2>1, <2>2 DEF Unrepeated
<1>10. ASSUME ~tw, g.fixed \/ g.made = counts PROVE Follows(f.addressed, new, at + 1, c, d)
  <2> DEFINE b == Len(done) - at
             a == f.addressed
  <2>1. Follows(f.addressed, done, at, c, d)
    BY <1>3, <1>10 DEF Iterating, c, d, done, at
  <2>2. /\ b >= 0 /\ Len(a) = b + Len(c) + Len(d)
        /\ \A i \in 1 .. Len(done) : a[i] = done[i]
        /\ \A i \in 1 .. Len(c) : a[b + i] = c[i]
        /\ \A i \in 1 .. Len(d) : a[b + Len(c) + i] = d[i]
    BY <2>1 DEF Follows
  <2>3. Len(new) - (at + 1) = b /\ at + 1 <= Len(c) /\ b + (at + 1) = Len(done) + 1
    BY <1>2, <1>5, <1>8
  <2> HIDE DEF b, a
  <2>4. a[b + (at + 1)] = s
    BY <1>2, <1>5, <2>2
  <2>5. \A i \in 1 .. Len(new) : a[i] = new[i]
    <3>1. \A i \in 1 .. Len(new) : i \in 1 .. Len(done) \/ i = Len(done) + 1
      BY <1>5, <1>8
    <3> QED BY <1>8, <2>2, <2>3, <2>4, <3>1
  <2>6. Follows(a, new, at + 1, c, d)
    BY <2>2, <2>3, <2>5 DEF Follows
  <2> QED BY <2>6 DEF a
<1>11. g \in Publishing(I)
  <2>1. at + 1 \in Nat
    BY <1>2
  <2> QED BY <1>8, <2>1 DEF Publishing, Called, new, done, at
<1>12. Iterating(g, L, counts, tw)
  BY <1>1, <1>3, <1>4, <1>9, <1>10 DEF Iterating
<1> QED BY <1>6, <1>11, <1>12

(* A frame whose list is exhausted goes on with the next.                  *)
LEMMA NextList ==
    ASSUME NEW I, NEW f \in Publishing(I), NEW L \in [Key -> Seq(I)], NEW counts, NEW tw,
           Iterating(f, L, counts, tw), f.at >= Len(FirstOf(f, L)), Len(f.todo) > 1,
           NEW g, g = [f EXCEPT !.todo = Tail(@), !.at = 0]
    PROVE  g \in Publishing(I) /\ Iterating(g, L, counts, tw)
<1> DEFINE c == FirstOf(f, L)
           d == SecondOf(f, L)
           done == f.done
           at == f.at
           td == f.todo
<1>1. TodoShape(f) /\ Unrepeated(done, at, c, d)
      /\ f.made[1] <= counts[1] /\ (f.made[1] = counts[1] => counts[2] <= f.made[2])
  BY DEF Iterating
<1>2. done \in Seq(I) /\ at \in Nat /\ c \in Seq(I) /\ d \in Seq(I) /\ at >= Len(c)
      /\ td \in Seq(Refs(I)) /\ Len(td) \in {1, 2}
  BY <1>1, FrameParts
<1>3. /\ g.todo = Tail(td) /\ g.fixed = f.fixed /\ g.addressed = f.addressed /\ g.made = f.made
      /\ g.at = 0 /\ g.done = done
  BY DEF Publishing
<1>4. Len(td) = 2
  <2>1. \A n \in {1, 2} : n > 1 => n = 2
    OBVIOUS
  <2> QED BY <1>2, <2>1
<1>5. ~f.fixed
  BY <1>1, <1>4 DEF TodoShape
<1>6. d = Items(td[2], L)
  BY <1>4 DEF SecondOf
<1> HIDE DEF c, d, done, at, td
<1>7. Tail(td) \in Seq(Refs(I)) /\ Len(Tail(td)) = 1 /\ Tail(td)[1] = td[2]
  <2>1. Len(td) # 0 /\ 1 \in 1 .. Len(td) - 1 /\ Len(td) - 1 = 1
    BY <1>4
  <2>2. td # <<>>
    BY <2>1
  <2>3. /\ Tail(td) \in Seq(Refs(I)) /\ Len(Tail(td)) = Len(td) - 1
        /\ \A i \in 1 .. Len(td) - 1 : Tail(td)[i] = td[i + 1]
    BY <1>2, <2>2
  <2>4. Tail(td)[1] = td[1 + 1]
    BY <2>1, <2>3
  <2> QED BY <2>1, <2>3, <2>4
<1>8. TodoShape(g) /\ FirstOf(g, L) = d /\ SecondOf(g, L) = <<>>
  <2>1. Len(g.todo) = 1 /\ g.todo[1] = td[2] /\ ~g.fixed
    BY <1>3, <1>5, <1>7
  <2>3. Len(g.todo) \in {1, 2} /\ Len(g.todo) # 2
    <3>1. 1 # 2
      OBVIOUS
    <3> QED BY <2>1, <3>1, Zenon
  <2>2. TodoShape(g)
    BY <2>1, <2>3, Zenon DEF TodoShape
  <2> QED BY <1>6, <2>1, <2>2, <2>3, Zenon DEF FirstOf, SecondOf
<1>9. Unrepeated(done, 0, d, <<>>)
  <2>1. ToSet(<<>>) = {} /\ IsInjective(<<>>)
    BY DEF ToSet, IsInjective
  <2>2. \A i \in 1 .. Len(d) : d[i] \in ToSet(d)
    BY <1>2, InSet
  <2>3. \A i \in 1 .. Len(d) : d[i] \notin ToSet(done)
    BY <1>1, <2>2 DEF Unrepeated
  <2> QED BY <1>1, <2>1, <2>3 DEF Unrepeated
<1>10. ASSUME ~tw, g.fixed \/ g.made = counts PROVE Follows(f.addressed, done, 0, d, <<>>)
  <2> DEFINE b == Len(done) - at
             a == f.addressed
  <2>1. Follows(f.addressed, done, at, c, d)
    BY <1>3, <1>10 DEF Iterating, c, d, done, at
  <2>2. /\ b >= 0 /\ Len(a) = b + Len(c) + Len(d) /\ at <= Len(c)
        /\ \A i \in 1 .. Len(done) : a[i] = done[i]
        /\ \A i \in 1 .. Len(d) : a[b + Len(c) + i] = d[i]
    BY <2>1 DEF Follows
  <2>3. Len(c) \in Nat /\ Len(d) \in Nat /\ Len(done) \in Nat /\ Len(<<>>) = 0 /\ at \in Nat
    BY <1>2
  <2>4. b + Len(c) = Len(done)
    BY <1>2, <2>2, <2>3
  <2> HIDE DEF b, a
  <2>5. /\ Len(done) - 0 = Len(done) /\ Len(done) >= 0 /\ 0 <= Len(d)
        /\ Len(done) + Len(d) + 0 = Len(done) + Len(d)
    BY <2>3
  <2>6. Follows(a, done, 0, d, <<>>)
    BY <2>2, <2>3, <2>4, <2>5 DEF Follows
  <2> QED BY <2>6 DEF a
<1>11. g \in Publishing(I)
  BY <1>7 DEF Publishing, td
<1>12. Iterating(g, L, counts, tw)
  BY <1>1, <1>3, <1>8, <1>9, <1>10 DEF Iterating
<1> QED BY <1>11, <1>12

(* Nothing happens to the bus but to its call stack.                       *)
LEMMA SameBus ==
    ASSUME BusHolds(stack'), UNCHANGED <<info, lists, byScope, snapshots, dirty, ledger, twins>>
    PROVE  BusInv'
<1>1. Ids' = Ids /\ (\A k \in Key : Members(k)' = Members(k)) /\ (\A sc \in Scopes : ScopedIn(sc)' = ScopedIn(sc))
      /\ Counts' = Counts
  BY DEF Ids, Members, KeysOf, ScopedIn, Counts
<1>2. BusTypes' /\ ListsKept' /\ TablesAgree'
  BY <1>1 DEF BusHolds, BusTypes, ListsKept, TablesAgree
<1> QED BY <1>1, <1>2 DEF BusHolds, BusInv

(* unsubscribe() leaves the calls in progress.                             *)
LEMMA UnsubscribeLength ==
    ASSUME NEW X, NEW frames \in Seq(X), NEW s, DoUnsubscribe(s, frames)
    PROVE  Len(stack') = Len(frames)
<1>1. \A held : DOMAIN Detach(frames, held) = DOMAIN frames
  BY DEF Detach
<1>2. stack' = frames \/ \E held : stack' = Detach(frames, held)
  BY DEF DoUnsubscribe
<1>3. ASSUME NEW held, stack' = Detach(frames, held) PROVE Len(stack') = Len(frames)
  <2>1. DOMAIN stack' = 1 .. Len(frames) /\ Len(frames) \in Nat
    BY <1>1, <1>3
  <2> QED BY <2>1
<1> QED BY <1>2, <1>3

(* A publish() calls a handler: the frames of both are pushed.             *)
LEMMA CallPushed ==
    ASSUME NEW I, NEW frames \in Seq(Frames(I)), NEW L, NEW counts, NEW tw,
           Deliveries(frames, L, counts, tw),
           NEW g \in Publishing(I), Iterating(g, L, counts, tw), NEW h \in Calling(I)
    PROVE  /\ <<h, g>> \o frames \in Seq(Frames(I)) /\ Len(<<h, g>> \o frames) = Len(frames) + 2
           /\ Deliveries(<<h, g>> \o frames, L, counts, tw)
<1> DEFINE new == <<g>> \o frames
           called == <<h>> \o new
<1>1. /\ g \in Frames(I) /\ g.kind = "publish"
      /\ h \in Frames(I) /\ h.kind # "publish"
  BY DEF Frames, Publishing, Calling, Stepping, UpdateCall
<1>2. /\ new \in Seq(Frames(I)) /\ new # <<>> /\ new[1] = g /\ Len(new) = Len(frames) + 1
      /\ Deliveries(new, L, counts, tw)
  BY <1>1, StackCall
<1>3. <<h, g>> \o frames = called
  BY <1>1, TwoPushed
<1> HIDE DEF new
<1>4. called \in Seq(Frames(I)) /\ Len(called) = Len(new) + 1 /\ Deliveries(called, L, counts, tw)
  BY <1>1, <1>2, StackCall
<1>5. Len(frames) \in Nat
  OBVIOUS
<1> HIDE DEF called
<1>6. Len(called) = Len(frames) + 2
  BY <1>2, <1>4, <1>5
<1> QED BY <1>3, <1>4, <1>6

(* The stack with which the next handler is called.                        *)
Calls(s, called) ==
    /\ s = Contents(Head(Head(stack).todo))[Head(stack).at + 1]
    /\ called = <<[kind |-> IF info[s].handler \in Handlers THEN "handler" ELSE "wakeup", sub |-> s],
                  Called(Head(stack), s)>> \o Tail(stack)
LEMMA CallMade ==
    ASSUME BusInv, InPublish, ~Exhausted(Head(stack)), NEW s, NEW called, Calls(s, called)
    PROVE  s \in Ids /\ BusHolds(called) /\ Len(called) = Len(stack) + 1
<1> DEFINE f == Head(stack)
           c == FirstOf(f, lists)
           h == [kind |-> IF info[s].handler \in Handlers THEN "handler" ELSE "wakeup", sub |-> s]
           g == Called(f, s)
<1>1. /\ f \in Publishing(Ids) /\ Iterating(f, lists, Counts, twins) /\ lists \in [Key -> Seq(Ids)]
      /\ Contents(Head(f.todo)) = c /\ c \in Seq(Ids) /\ f.at \in Nat
      /\ Tail(stack) \in Seq(Frames(Ids)) /\ Len(Tail(stack)) = Len(stack) - 1 /\ Len(stack) \in Nat \ {0}
      /\ Deliveries(Tail(stack), lists, Counts, twins)
  BY InnermostPublish
<1>2. f.at < Len(c) /\ s = c[f.at + 1]
  <2>1. ~(f.at >= Len(c))
    BY <1>1 DEF Exhausted
  <2>2. Len(c) \in Nat
    BY <1>1
  <2>3. f.at < Len(c)
    BY <1>1, <2>1, <2>2
  <2>4. s = c[f.at + 1]
    BY <1>1 DEF Calls
  <2> QED BY <2>3, <2>4
<1>3. called = <<h, g>> \o Tail(stack)
  BY DEF Calls
<1> HIDE DEF f, g, h
<1>4. s \in Ids /\ g \in Publishing(Ids) /\ Iterating(g, lists, Counts, twins)
  <2>1. f \in Publishing(Ids) /\ Iterating(f, lists, Counts, twins) /\ lists \in [Key -> Seq(Ids)]
        /\ f.at < Len(FirstOf(f, lists)) /\ s = FirstOf(f, lists)[f.at + 1]
    BY <1>1, <1>2
  <2>2. g = Called(f, s)
    BY DEF g
  <2> QED BY <2>1, <2>2, NextCalled
<1>5. h \in Calling(Ids)
  BY <1>4 DEF Calling, h
<1>6. /\ <<h, g>> \o Tail(stack) \in Seq(Frames(Ids))
      /\ Len(<<h, g>> \o Tail(stack)) = Len(Tail(stack)) + 2
      /\ Deliveries(<<h, g>> \o Tail(stack), lists, Counts, twins)
  <2>1. Tail(stack) \in Seq(Frames(Ids)) /\ Deliveries(Tail(stack), lists, Counts, twins)
    BY <1>1
  <2> QED BY <1>4, <1>5, <2>1, CallPushed
<1>7. Len(called) = Len(stack) + 1
  BY <1>1, <1>3, <1>6
<1>8. BusTypes /\ ListsKept /\ TablesAgree
  BY DEF BusInv, BusHolds
<1> QED BY <1>3, <1>4, <1>6, <1>7, <1>8 DEF BusHolds

(* Deliver calls a handler, and takes a once() subscription back first.    *)
LEMMA DeliverCalls ==
    ASSUME BusInv, Deliver
    PROVE  \E s \in Ids : \E called :
             /\ BusHolds(called) /\ Len(called) = Len(stack) + 1
             /\ IF info[s].once THEN DoUnsubscribe(s, called) ELSE stack' = called /\ UNCHANGED busVars
<1> DEFINE f == Head(stack)
           s == Contents(Head(f.todo))[f.at + 1]
           called == <<[kind |-> IF info[s].handler \in Handlers THEN "handler" ELSE "wakeup", sub |-> s],
                       [f EXCEPT !.at = @ + 1, !.done = Append(@, s)]>> \o Tail(stack)
<1>1. /\ InPublish /\ ~Exhausted(f)
      /\ IF info[s].once THEN DoUnsubscribe(s, called) ELSE stack' = called /\ UNCHANGED busVars
  BY DEF Deliver
<1>2. Calls(s, called)
  BY DEF Calls, Called
<1> HIDE DEF f, s, called
<1>3. ~Exhausted(Head(stack))
  BY <1>1 DEF f
<1>4. s \in Ids /\ BusHolds(called) /\ Len(called) = Len(stack) + 1
  BY <1>1, <1>2, <1>3, CallMade
<1> QED BY <1>1, <1>4

(* Deliver keeps the tables and the deliveries in step.                    *)
LEMMA DeliverKeeps == ASSUME BusInv, Deliver PROVE BusInv'
<1>1. PICK s \in Ids : \E called :
             /\ BusHolds(called) /\ Len(called) = Len(stack) + 1
             /\ IF info[s].once THEN DoUnsubscribe(s, called) ELSE stack' = called /\ UNCHANGED busVars
  BY DeliverCalls
<1>2. PICK called :
             /\ BusHolds(called) /\ Len(called) = Len(stack) + 1
             /\ IF info[s].once THEN DoUnsubscribe(s, called) ELSE stack' = called /\ UNCHANGED busVars
  BY <1>1
<1>3. CASE info[s].once
  BY <1>2, <1>3, UnsubscribeKeeps
<1>4. CASE ~info[s].once
  <2>1. stack' = called /\ UNCHANGED busVars
    BY <1>2, <1>4
  <2>2. UNCHANGED <<info, lists, byScope, snapshots, dirty, ledger, twins>>
    BY <2>1 DEF busVars
  <2> QED BY <1>2, <2>1, <2>2, SameBus
<1> QED BY <1>3, <1>4

(* A publish() that goes on with its next list, or ends, does so too.      *)
LEMMA ListEndsKeeps == ASSUME BusInv, ListEnds PROVE BusInv'
<1> DEFINE f == Head(stack)
           c == FirstOf(f, lists)
           g == [f EXCEPT !.todo = Tail(@), !.at = 0]
<1>1. /\ InPublish /\ Exhausted(f) /\ UNCHANGED <<info, lists, byScope, snapshots, dirty, ledger, twins>>
      /\ stack' = IF Len(f.todo) > 1 THEN [stack EXCEPT ![1].todo = Tail(@), ![1].at = 0] ELSE Tail(stack)
  BY DEF ListEnds, busVars
<1>2. /\ stack \in Seq(Frames(Ids)) /\ stack # <<>> /\ f = stack[1]
      /\ f \in Publishing(Ids) /\ Iterating(f, lists, Counts, twins) /\ lists \in [Key -> Seq(Ids)]
      /\ Contents(Head(f.todo)) = c /\ c \in Seq(Ids) /\ f.at \in Nat
      /\ Tail(stack) \in Seq(Frames(Ids))
      /\ Deliveries(Tail(stack), lists, Counts, twins)
  BY <1>1, InnermostPublish
<1>3. stack' \in Seq(Frames(Ids)) /\ Deliveries(stack', lists, Counts, twins)
  <2>1. CASE ~(Len(f.todo) > 1)
    BY <1>1, <1>2, <2>1
  <2>2. CASE Len(f.todo) > 1
    <3>1. stack' = [stack EXCEPT ![1] = [stack[1] EXCEPT !.todo = Tail(@), !.at = 0]]
      BY <1>1, <2>2
    <3>2. stack' = [stack EXCEPT ![1] = g]
      BY <1>2, <3>1
    <3>3. g \in Publishing(Ids) /\ Iterating(g, lists, Counts, twins)
      <4>1. f.at >= Len(c)
        BY <1>1, <1>2 DEF Exhausted
      <4> HIDE DEF f
      <4> QED BY <1>2, <2>2, <4>1, NextList
    <3> HIDE DEF f, g
    <3>4. g \in Frames(Ids) /\ g.kind = "publish"
      BY <3>3 DEF Frames, Publishing
    <3>5. stack' = <<g>> \o Tail(stack)
      BY <1>2, <3>2, <3>4, HeadReplaced
    <3> QED BY <1>2, <3>3, <3>4, <3>5, StackCall
  <2> QED BY <2>1, <2>2
<1>4. BusHolds(stack')
  BY <1>3 DEF BusInv, BusHolds
<1> QED BY <1>1, <1>4, SameBus

(* So does a handler that returns or raises.                               *)
LEMMA HandlerEndsKeeps == ASSUME BusInv, HandlerEnds PROVE BusInv'
<1>1. /\ stack # <<>> /\ Head(stack).kind = "handler" /\ stack' \in {Tail(stack), Tail(Tail(stack))}
      /\ UNCHANGED <<info, lists, byScope, snapshots, dirty, ledger, twins>>
  BY DEF HandlerEnds, InHandler, busVars
<1>2. stack \in Seq(Frames(Ids)) /\ Deliveries(stack, lists, Counts, twins)
  BY DEF BusInv, BusHolds
<1>3. /\ Tail(stack) \in Seq(Frames(Ids)) /\ Deliveries(Tail(stack), lists, Counts, twins)
      /\ Tail(stack) # <<>>
  <2>1. /\ Tail(stack) \in Seq(Frames(Ids)) /\ Deliveries(Tail(stack), lists, Counts, twins)
        /\ Head(stack) = stack[1] /\ (stack[1].kind \in {"handler", "wakeup"} => Tail(stack) # <<>>)
    BY <1>1, <1>2, StackReturn
  <2> QED BY <1>1, <2>1
<1>4. Tail(Tail(stack)) \in Seq(Frames(Ids)) /\ Deliveries(Tail(Tail(stack)), lists, Counts, twins)
  BY <1>3, StackReturn
<1>5. BusHolds(stack')
  BY <1>1, <1>3, <1>4 DEF BusInv, BusHolds
<1> QED BY <1>1, <1>5, SameBus

(* The bus begins without subscriptions or calls.                          *)
LEMMA BusInvInit == BusInit => BusInv
<1> SUFFICES ASSUME BusInit PROVE BusInv
  OBVIOUS
<1>1. /\ info = <<>> /\ lists = [k \in Key |-> <<>>] /\ byScope = [sc \in Scopes |-> {}]
      /\ snapshots = [t \in Topics |-> <<>>] /\ dirty = {} /\ ledger = <<>> /\ twins = FALSE /\ stack = <<>>
  BY DEF BusInit
<1>2. ToSet(<<>>) = {} /\ IsInjective(<<>>) /\ Len(<<>>) = 0 /\ \A X : <<>> \in Seq(X)
  BY DEF ToSet, IsInjective
<1>3. BusTypes
  BY <1>1, <1>2 DEF BusTypes
<1>4. ListsKept
  BY <1>1, <1>2 DEF ListsKept
<1>5. TablesAgree
  <2>1. \A S : Including(<<>>, S) = <<>>
    BY <1>2, IncludingIs, ExcludingEmpty
  <2> QED BY <1>1, <1>2, <2>1 DEF TablesAgree
<1>6. Deliveries(stack, lists, Counts, twins) /\ stack \in Seq(Frames(Ids))
  BY <1>1, <1>2 DEF Deliveries, CalledBy
<1> QED BY <1>3, <1>4, <1>5, <1>6 DEF BusInv, BusHolds

(* Every step of the bus keeps the tables and the deliveries in step.      *)
LEMMA BusInvStep == BusInv /\ [BusNext]_eventVars => BusInv'
<1> SUFFICES ASSUME BusInv, [BusNext]_eventVars PROVE BusInv'
  OBVIOUS
<1>1. BusHolds(stack) /\ info \in Seq(Sub)
  BY DEF BusInv, BusHolds, BusTypes
<1>2. CASE Subscribe
  <2>1. PICK t \in Topics, sc \in Scopes \cup {NoScope}, h \in Handlers, once \in BOOLEAN :
          DoSubscribe([topic |-> t, scope |-> sc, handler |-> h, once |-> once], stack)
    BY <1>2 DEF Subscribe
  <2> DEFINE sub == [topic |-> t, scope |-> sc, handler |-> h, once |-> once]
  <2>2. sub \in Sub /\ DoSubscribe(sub, stack)
    BY <2>1 DEF Sub
  <2> HIDE DEF sub
  <2> QED BY <1>1, <2>2, SubscribeKeeps
<1>3. CASE Unsubscribe
  <2>1. PICK s \in DOMAIN info : DoUnsubscribe(s, stack)
    BY <1>3 DEF Unsubscribe
  <2>2. s \in Ids
    BY <1>1 DEF Ids
  <2> QED BY <1>1, <2>1, <2>2, UnsubscribeKeeps
<1>4. CASE UnsubscribeScope
  BY <1>1, <1>4, UnsubscribeScopeKeeps DEF UnsubscribeScope
<1>5. CASE Publish
  <2>1. PICK t \in Topics, sc \in Scopes \cup {NoScope} : DoPublish(t, sc)
    BY <1>5 DEF Publish
  <2>2. ProgramRuns
    BY <1>5 DEF Publish
  <2> QED BY <1>1, <2>1, <2>2, PublishKeeps
<1>6. CASE Deliver
  BY <1>6, DeliverKeeps
<1>7. CASE ListEnds
  BY <1>7, ListEndsKeeps
<1>8. CASE HandlerEnds
  BY <1>8, HandlerEndsKeeps
<1>9. CASE UNCHANGED eventVars
  <2>1. UNCHANGED <<info, lists, byScope, snapshots, dirty, ledger, twins>> /\ stack' = stack
    BY <1>9 DEF eventVars, busVars
  <2> QED BY <1>1, <2>1, SameBus
<1> QED BY <1>2, <1>3, <1>4, <1>5, <1>6, <1>7, <1>8, <1>9 DEF BusNext, BusStep

(* The tables of the bus agree: every list is what is left of the ledger   *)
(* of its subscriptions.                                                   *)
LEMMA InvAgrees == BusInv => ListsAgree
<1> SUFFICES ASSUME BusInv, ~twins PROVE ListsAgree
  BY DEF ListsAgree
<1>1. /\ info \in Seq(Sub) /\ ledger \in Seq(Ids)
      /\ \A k \in Key : lists[k] = Including(ledger, Members(k))
      /\ \A sc \in Scopes : byScope[sc] = ToSet(ledger) \cap ScopedIn(sc)
  BY DEF BusInv, BusHolds, BusTypes, TablesAgree
<1>2. \A s \in Ids : info[s].scope \in Scopes \cup {NoScope}
  <2>1. \A s \in Ids : info[s] \in Sub
    BY <1>1 DEF Ids
  <2> QED BY <2>1 DEF Sub
<1>3. ASSUME NEW t \in Topics PROVE lists[<<t, AllSubs>>] = Addressed(t, NoScope)
  <2>1. {s \in Ids : info[s].topic = t /\ info[s].scope \in Scopes \cup {NoScope}} = Members(<<t, AllSubs>>)
    BY <1>2, ScopesAssumption DEF Members, KeysOf, SubKeys
  <2>2. Addressed(t, NoScope) =
          Including(ledger, {s \in Ids : info[s].topic = t /\ info[s].scope \in Scopes \cup {NoScope}})
    BY DEF Addressed
  <2> QED BY <1>1, <2>1, <2>2, KeyParts
<1>4. ASSUME NEW t \in Topics, NEW sc \in Scopes \cup {NoScope}
      PROVE  lists[<<t, sc>>] = Including(lists[<<t, AllSubs>>], ScopedIn(sc))
  <2>1. Members(<<t, AllSubs>>) \cap ScopedIn(sc) = Members(<<t, sc>>)
    BY <1>2, ScopesAssumption DEF Members, KeysOf, SubKeys, ScopedIn
  <2>2. lists[<<t, AllSubs>>] = Including(ledger, Members(<<t, AllSubs>>))
        /\ lists[<<t, sc>>] = Including(ledger, Members(<<t, sc>>))
    BY <1>1, KeyParts
  <2>3. ledger \in Seq(Ids)
    BY <1>1
  <2>4. Including(Including(ledger, Members(<<t, AllSubs>>)), ScopedIn(sc))
          = Including(ledger, Members(<<t, AllSubs>>) \cap ScopedIn(sc))
    BY <2>3, IncludingTwice
  <2> QED BY <2>1, <2>2, <2>4
<1>5. \A sc \in Scopes : byScope[sc] = {s \in ToSet(ledger) : info[s].scope = sc}
  <2>1. ToSet(ledger) \subseteq Ids
    BY <1>1, InSet
  <2> QED BY <1>1, <2>1 DEF ScopedIn
<1> QED BY <1>3, <1>4, <1>5 DEF ListsAgree

(* Whatever the handlers subscribe, take back and publish in the middle of *)
(* a publish(), the topic lists, the lists by scope and the sets of the    *)
(* scopes are those of the subscriptions made and not taken back, in order *)
(* (EventBus.subscribe(), unsubscribe(), unsubscribe_scope()).             *)
THEOREM TablesSaySame == BusSpec => []ListsAgree
<1>1. BusSpec => []BusInv
  BY BusInvInit, BusInvStep, PTL DEF BusSpec
<1> QED BY <1>1, InvAgrees, PTL

(* A publish() ends with the end of its last list, where it has called     *)
(* those it was for.                                                       *)
LEMMA EndsExact ==
    ASSUME BusInv, [BusNext]_eventVars, PublishEnding
    PROVE  LET f == Head(stack) IN
           /\ IsInjective(f.done)
           /\ (~twins /\ (f.fixed \/ f.made = Counts)) => f.done = f.addressed
<1> DEFINE f == Head(stack)
           c == FirstOf(f, lists)
           d == SecondOf(f, lists)
<1>1. InPublish /\ Len(stack') < Len(stack) /\ ~ProgramRuns /\ ~InHandler
  BY DEF PublishEnding, InPublish, ProgramRuns, InHandler
<1>2. /\ stack \in Seq(Frames(Ids)) /\ stack # <<>> /\ f = stack[1]
      /\ f \in Publishing(Ids) /\ Iterating(f, lists, Counts, twins) /\ lists \in [Key -> Seq(Ids)]
      /\ Contents(Head(f.todo)) = c /\ c \in Seq(Ids) /\ f.at \in Nat /\ Len(stack) \in Nat \ {0}
  BY <1>1, InnermostPublish
<1>3. ~Deliver
  <2> SUFFICES ASSUME Deliver PROVE FALSE
    OBVIOUS
  <2>1. PICK s \in Ids : \E called :
             /\ BusHolds(called) /\ Len(called) = Len(stack) + 1
             /\ IF info[s].once THEN DoUnsubscribe(s, called) ELSE stack' = called /\ UNCHANGED busVars
    BY DeliverCalls
  <2>2. PICK called :
             /\ BusHolds(called) /\ Len(called) = Len(stack) + 1
             /\ IF info[s].once THEN DoUnsubscribe(s, called) ELSE stack' = called /\ UNCHANGED busVars
    BY <2>1
  <2>3. called \in Seq(Frames(Ids))
    BY <2>2 DEF BusHolds
  <2>4. DoUnsubscribe(s, called) => Len(stack') = Len(called)
    BY <2>3, UnsubscribeLength
  <2> QED BY <1>1, <1>2, <2>1, <2>2, <2>4
<1>4. ListEnds
  <2>1. ~UNCHANGED eventVars
    <3>1. stack' # stack
      BY <1>1, <1>2
    <3> QED BY <3>1 DEF eventVars
  <2>2. ~Subscribe /\ ~Unsubscribe /\ ~UnsubscribeScope /\ ~Publish /\ ~HandlerEnds
    BY <1>1 DEF Subscribe, Unsubscribe, UnsubscribeScope, Publish, HandlerEnds
  <2> QED BY <1>3, <2>1, <2>2 DEF BusNext, BusStep
<1>5. f.at >= Len(c) /\ ~(Len(f.todo) > 1)
  <2>1. Exhausted(f) /\ stack' = IF Len(f.todo) > 1 THEN [stack EXCEPT ![1].todo = Tail(@), ![1].at = 0]
                                                    ELSE Tail(stack)
    BY <1>4 DEF ListEnds
  <2>2. f.at >= Len(c)
    BY <1>2, <2>1 DEF Exhausted
  <2>3. ASSUME Len(f.todo) > 1 PROVE FALSE
    <3>1. stack' = [stack EXCEPT ![1] = [stack[1] EXCEPT !.todo = Tail(@), !.at = 0]]
      BY <2>1, <2>3
    <3>2. Len(stack') = Len(stack)
      BY <1>2, <3>1
    <3> QED BY <1>1, <1>2, <3>2
  <2> QED BY <2>2, <2>3
<1> HIDE DEF f
<1>6. TodoShape(f) /\ Unrepeated(f.done, f.at, c, d)
  BY <1>2 DEF Iterating
<1>7. d = <<>>
  <2>1. \A n \in {1, 2} : ~(n > 1) => n # 2
    OBVIOUS
  <2>2. Len(f.todo) \in {1, 2}
    BY <1>6 DEF TodoShape
  <2>3. Len(f.todo) # 2
    BY <1>5, <2>1, <2>2
  <2> QED BY <2>3 DEF SecondOf
<1>8. f.done \in Seq(Ids) /\ f.addressed \in Seq(Ids)
  BY <1>2 DEF Publishing
<1>9. ASSUME ~twins, f.fixed \/ f.made = Counts PROVE f.done = f.addressed
  <2> DEFINE b == Len(f.done) - f.at
  <2>1. Follows(f.addressed, f.done, f.at, c, d)
    BY <1>2, <1>9 DEF Iterating
  <2>2. /\ f.at <= Len(c) /\ Len(f.addressed) = b + Len(c) + Len(d)
        /\ \A i \in 1 .. Len(f.done) : f.addressed[i] = f.done[i]
    BY <2>1 DEF Follows
  <2>3. Len(c) \in Nat /\ Len(d) = 0 /\ Len(f.done) \in Nat /\ Len(f.addressed) \in Nat
    BY <1>2, <1>7, <1>8
  <2>4. Len(f.done) = Len(f.addressed)
    BY <1>2, <1>5, <2>2, <2>3
  <2> QED BY <1>8, <2>2, <2>4, SeqEqual
<1>10. IsInjective(f.done)
  BY <1>6 DEF Unrepeated
<1> QED BY <1>9, <1>10 DEF f

(* A publish() never calls a subscription twice, and calls exactly those   *)
(* it was for, in order, if it iterates a snapshot or lists that nothing   *)
(* changed under it (EventBus.publish()).                                  *)
THEOREM DeliversExactly == BusSpec => DeliveryExact
<1>1. BusSpec => []BusInv
  BY BusInvInit, BusInvStep, PTL DEF BusSpec
<1> DEFINE Exact == PublishEnding =>
             LET f == Head(stack) IN
             /\ IsInjective(f.done)
             /\ (~twins /\ (f.fixed \/ f.made = Counts)) => f.done = f.addressed
<1>2. BusInv /\ [BusNext]_eventVars => [Exact]_eventVars
  BY EndsExact
<1>3. BusSpec => [][Exact]_eventVars
  <2> HIDE DEF Exact
  <2> QED BY <1>1, <1>2, PTL DEF BusSpec
<1> QED BY <1>3 DEF DeliveryExact

-----------------------------------------------------------------------------
(* Coroutines: the inductive invariant.                                    *)

(* The coroutines that are being stepped, those in their first step, and   *)
(* the call of update(): one that has not begun, if there is none.         *)
Steps(frames)  == {frames[i].co : i \in {j \in 1 .. Len(frames) : frames[j].kind = "step"}}
Firsts(frames) == {frames[i].co : i \in {j \in 1 .. Len(frames) :
                                           frames[j].kind = "step" /\ frames[j].first}}
HasUpdate(frames) == \E i \in 1 .. Len(frames) : frames[i].kind = "update"
Loop(frames) == IF HasUpdate(frames) THEN Last(frames)
                ELSE [kind |-> "update", read |-> 0, write |-> 0, cur |-> None]

(* None is being stepped twice, and update() is the outermost call.        *)
StackShape(frames) ==
    /\ \A i, j \in 1 .. Len(frames) :
         frames[i].kind = "step" /\ frames[j].kind = "step" /\ frames[i].co = frames[j].co => i = j
    /\ \A i \in 1 .. Len(frames) : frames[i].kind = "update" => i = Len(frames)

(* What follows is said of the coroutines S being stepped, those F of them *)
(* in their first step, and, if U, the call f of update().                 *)
CoTypes ==
    /\ status \in [Cos -> {"new", "running", "complete", "cancelled"}]
    /\ token \in [Cos -> WaitTokens \cup {None}]
    /\ elapsed \in [Cos -> Nat] /\ waited \in [Cos -> Nat]
    /\ triggered \in [Cos -> BOOLEAN]
    /\ listening \subseteq Cos
    /\ handles \in Seq(Cos) /\ pending \in Seq(Cos)
    /\ due \subseteq Cos /\ visited \subseteq Cos

(* What is listed was started, and its first step is over.                 *)
Known(S, F) ==
    /\ \A c \in S : status[c] # "new"
    /\ \A c \in ToSet(handles) \cup ToSet(pending) \cup due : status[c] # "new" /\ c \notin F

(* The positions of update(), and the handle it steps.                     *)
Looping(F, U, f) ==
    /\ handles = <<>> \/ (f.write <= f.read /\ f.read <= Len(handles))
    /\ f.cur # None =>
         /\ status[f.cur] # "new" /\ f.cur \notin F
         /\ Running(f.cur) => f.write < f.read /\ f.read <= Len(handles) /\ handles[f.read] = f.cur
    /\ ~U => pending = <<>> /\ due = {} /\ visited = {}

(* What a coroutine waits for, and that it waits for nothing in a step.    *)
Waits(S) ==
    /\ \A c \in Cos : status[c] = "new" => token[c] = None /\ waited[c] = 0 /\ c \notin listening
    /\ \A c \in Cos \ S : Running(c) => token[c] # None
    /\ \A c \in S : waited[c] = 0 /\ (Running(c) => token[c] = None) /\ c \notin due \ visited
    /\ \A c \in listening : Running(c) => token[c] = [kind |-> "source"]

(* The positions at which handles are live.                                *)
LiveAt(f) == {i \in 1 .. Len(handles) : i <= f.write \/ i > f.read}

(* Every running coroutine has one place.                                  *)
Apart(f) ==
    /\ \A i, j \in LiveAt(f) : Running(handles[i]) /\ handles[i] = handles[j] => i = j
    /\ \A i, j \in 1 .. Len(pending) : Running(pending[i]) /\ pending[i] = pending[j] => i = j
    /\ \A i \in LiveAt(f), j \in 1 .. Len(pending) : Running(handles[i]) => handles[i] # pending[j]
    /\ f.cur # None /\ Running(f.cur) => /\ \A i \in LiveAt(f) : handles[i] # f.cur
                                         /\ f.cur \notin ToSet(pending)
Placed(F, f) ==
    \A c \in Cos : Running(c) =>
        \/ c \in F \/ c = f.cur \/ c \in ToSet(pending)
        \/ \E i \in LiveAt(f) : handles[i] = c

(* What update() has still to look at in this frame.                       *)
Ahead(U, f) ==
    U =>
      /\ \A i \in f.read + 1 .. Len(handles) : Running(handles[i]) => handles[i] \in due \ visited
      /\ \A c \in due \ visited : Running(c) => \E i \in f.read + 1 .. Len(handles) : handles[i] = c

(* The frames counted by the history are those the scheduler has counted.  *)
Counted ==
    \A c \in Cos : Running(c) /\ token[c] \in Timed =>
        /\ waited[c] = IF c \in due \ visited THEN elapsed[c] + 1 ELSE elapsed[c]
        /\ token[c].kind = "pause" => elapsed[c] = 0
        /\ token[c].kind = "sleep" => elapsed[c] = 0 \/ elapsed[c] < token[c].seconds

CoHolds(S, F, U, f) ==
    /\ CoTypes /\ Known(S, F) /\ Looping(F, U, f) /\ Waits(S)
    /\ ~raised => Apart(f) /\ Placed(F, f) /\ Ahead(U, f) /\ Counted

CoopInv ==
    /\ BusInv /\ StackShape(stack)
    /\ CoHolds(Steps(stack), Firsts(stack), HasUpdate(stack), Loop(stack))

-----------------------------------------------------------------------------
(* Coroutines: the call stack.                                             *)

(* N is the stack F under a call e.                                        *)
Under(F, e, N) ==
    /\ Steps(N) = Steps(F) \cup (IF e.kind = "step" THEN {e.co} ELSE {})
    /\ Firsts(N) = Firsts(F) \cup (IF e.kind = "step" /\ e.first THEN {e.co} ELSE {})
    /\ HasUpdate(N) <=> (HasUpdate(F) \/ e.kind = "update")
    /\ Last(N) = IF F = <<>> THEN e ELSE Last(F)
    /\ StackShape(N) <=> /\ StackShape(F)
                         /\ e.kind = "step" => e.co \notin Steps(F)
                         /\ e.kind = "update" => F = <<>>
    /\ HasUpdate(F) => F # <<>>

(* A call is put on the stack.                                             *)
LEMMA CallOnStack ==
    ASSUME NEW I, NEW F \in Seq(Frames(I)), NEW e \in Frames(I)
    PROVE  Under(F, e, <<e>> \o F)
<1> DEFINE N == <<e>> \o F
           n == Len(F)
<1>1. /\ N \in Seq(Frames(I)) /\ Len(N) = n + 1 /\ n \in Nat
      /\ N[1] = e /\ \A i \in 1 .. n : N[i + 1] = F[i]
  BY PushedOn
<1>2. /\ \A i \in 1 .. n : i + 1 \in 1 .. Len(N) /\ i + 1 # 1
      /\ \A i \in 1 .. Len(N) : i # 1 => i - 1 \in 1 .. n /\ (i - 1) + 1 = i
      /\ 1 \in 1 .. Len(N)
  BY <1>1
<1>3. /\ \A i \in 1 .. Len(N) : N[i] = e \/ \E j \in 1 .. n : N[i] = F[j]
      /\ \A j \in 1 .. n : \E i \in 1 .. Len(N) : N[i] = F[j]
      /\ \E i \in 1 .. Len(N) : N[i] = e
  <2>1. ASSUME NEW i \in 1 .. Len(N), i # 1 PROVE \E j \in 1 .. n : N[i] = F[j]
    <3> DEFINE j == i - 1
    <3>1. j \in 1 .. n /\ j + 1 = i
      BY <1>2, <2>1
    <3> HIDE DEF j
    <3> QED BY <1>1, <3>1
  <2> QED BY <1>1, <1>2, <2>1
<1> HIDE DEF N, n
<1>4. Steps(N) = Steps(F) \cup (IF e.kind = "step" THEN {e.co} ELSE {})
  <2>1. \A c : c \in Steps(N) <=> \E i \in 1 .. Len(N) : N[i].kind = "step" /\ N[i].co = c
    BY DEF Steps
  <2>2. \A c : c \in Steps(F) <=> \E i \in 1 .. n : F[i].kind = "step" /\ F[i].co = c
    BY DEF Steps, n
  <2>3. \A c : c \in Steps(N) <=> c \in Steps(F) \/ (e.kind = "step" /\ c = e.co)
    <3> SUFFICES ASSUME NEW c PROVE c \in Steps(N) <=> c \in Steps(F) \/ (e.kind = "step" /\ c = e.co)
      OBVIOUS
    <3>1. ASSUME c \in Steps(N) PROVE c \in Steps(F) \/ (e.kind = "step" /\ c = e.co)
      <4>1. PICK i \in 1 .. Len(N) : N[i].kind = "step" /\ N[i].co = c
        BY <2>1, <3>1
      <4>2. N[i] = e \/ \E j \in 1 .. n : N[i] = F[j]
        BY <1>3
      <4> QED BY <2>2, <4>1, <4>2
    <3>2. ASSUME c \in Steps(F) PROVE c \in Steps(N)
      <4>1. PICK j \in 1 .. n : F[j].kind = "step" /\ F[j].co = c
        BY <2>2, <3>2
      <4>2. PICK i \in 1 .. Len(N) : N[i] = F[j]
        BY <1>3
      <4> QED BY <2>1, <4>1, <4>2
    <3>3. ASSUME e.kind = "step", c = e.co PROVE c \in Steps(N)
      <4>1. PICK i \in 1 .. Len(N) : N[i] = e
        BY <1>3
      <4> QED BY <2>1, <3>3, <4>1
    <3> QED BY <3>1, <3>2, <3>3
  <2> QED BY <2>3
<1>5. Firsts(N) = Firsts(F) \cup (IF e.kind = "step" /\ e.first THEN {e.co} ELSE {})
  <2>1. \A c : c \in Firsts(N) <=> \E i \in 1 .. Len(N) : N[i].kind = "step" /\ N[i].first /\ N[i].co = c
    BY DEF Firsts
  <2>2. \A c : c \in Firsts(F) <=> \E i \in 1 .. n : F[i].kind = "step" /\ F[i].first /\ F[i].co = c
    BY DEF Firsts, n
  <2>3. \A c : c \in Firsts(N) <=> c \in Firsts(F) \/ (e.kind = "step" /\ e.first /\ c = e.co)
    <3> SUFFICES ASSUME NEW c PROVE c \in Firsts(N) <=> c \in Firsts(F) \/ (e.kind = "step" /\ e.first /\ c = e.co)
      OBVIOUS
    <3>1. ASSUME c \in Firsts(N) PROVE c \in Firsts(F) \/ (e.kind = "step" /\ e.first /\ c = e.co)
      <4>1. PICK i \in 1 .. Len(N) : N[i].kind = "step" /\ N[i].first /\ N[i].co = c
        BY <2>1, <3>1
      <4>2. N[i] = e \/ \E j \in 1 .. n : N[i] = F[j]
        BY <1>3
      <4> QED BY <2>2, <4>1, <4>2
    <3>2. ASSUME c \in Firsts(F) PROVE c \in Firsts(N)
      <4>1. PICK j \in 1 .. n : F[j].kind = "step" /\ F[j].first /\ F[j].co = c
        BY <2>2, <3>2
      <4>2. PICK i \in 1 .. Len(N) : N[i] = F[j]
        BY <1>3
      <4> QED BY <2>1, <4>1, <4>2
    <3>3. ASSUME e.kind = "step" /\ e.first, c = e.co PROVE c \in Firsts(N)
      <4>1. PICK i \in 1 .. Len(N) : N[i] = e
        BY <1>3
      <4> QED BY <2>1, <3>3, <4>1
    <3> QED BY <3>1, <3>2, <3>3
  <2> QED BY <2>3
<1>6. HasUpdate(N) <=> (HasUpdate(F) \/ e.kind = "update")
  BY <1>3 DEF HasUpdate, n
<1>7. Last(N) = IF F = <<>> THEN e ELSE Last(F)
  <2>1. CASE F = <<>>
    BY <1>1, <2>1 DEF Last, n
  <2>2. CASE F # <<>>
    <3>1. n \in 1 .. n
      BY <1>1, <2>2 DEF n
    <3> QED BY <1>1, <2>2, <3>1 DEF Last, n
  <2> QED BY <2>1, <2>2
<1>8. HasUpdate(F) => F # <<>>
  BY DEF HasUpdate
<1>9. ASSUME StackShape(N)
      PROVE  StackShape(F) /\ (e.kind = "step" => e.co \notin Steps(F)) /\ (e.kind = "update" => F = <<>>)
  <2>1. ASSUME NEW i \in 1 .. n, NEW j \in 1 .. n,
               F[i].kind = "step", F[j].kind = "step", F[i].co = F[j].co
        PROVE  i = j
    <3>1. /\ N[i + 1].kind = "step" /\ N[j + 1].kind = "step" /\ N[i + 1].co = N[j + 1].co
          /\ i + 1 \in 1 .. Len(N) /\ j + 1 \in 1 .. Len(N)
      BY <1>1, <1>2, <2>1
    <3>2. i + 1 = j + 1
      BY <1>9, <3>1 DEF StackShape
    <3> QED BY <3>2
  <2>2. ASSUME NEW i \in 1 .. n, F[i].kind = "update" PROVE i = n
    <3>1. i + 1 = Len(N)
      BY <1>1, <1>2, <1>9, <2>2 DEF StackShape
    <3> QED BY <1>1, <3>1
  <2>3. ASSUME e.kind = "step", e.co \in Steps(F) PROVE FALSE
    <3>1. PICK i \in 1 .. n : F[i].kind = "step" /\ F[i].co = e.co
      BY <2>3 DEF Steps, n
    <3>2. i + 1 = 1
      BY <1>1, <1>2, <1>9, <2>3, <3>1 DEF StackShape
    <3> QED BY <1>2, <3>2
  <2>4. ASSUME e.kind = "update" PROVE F = <<>>
    <3>1. 1 = Len(N)
      BY <1>1, <1>2, <1>9, <2>4 DEF StackShape
    <3>2. n = 0
      BY <1>1, <3>1
    <3> QED BY <3>2 DEF n
  <2> QED BY <2>1, <2>2, <2>3, <2>4 DEF StackShape, n
<1>10. ASSUME StackShape(F), e.kind = "step" => e.co \notin Steps(F), e.kind = "update" => F = <<>>
       PROVE  StackShape(N)
  <2>1. ASSUME NEW i \in 1 .. Len(N), NEW j \in 1 .. Len(N),
               N[i].kind = "step", N[j].kind = "step", N[i].co = N[j].co
        PROVE  i = j
    <3>1. CASE i # 1 /\ j # 1
      <4> DEFINE p == i - 1
                 q == j - 1
      <4>1. p \in 1 .. n /\ p + 1 = i /\ q \in 1 .. n /\ q + 1 = j
        BY <1>2, <3>1
      <4> HIDE DEF p, q
      <4>2. p = q
        BY <1>1, <1>10, <2>1, <4>1 DEF StackShape, n
      <4> QED BY <4>1, <4>2
    <3>2. ASSUME NEW k \in 1 .. Len(N), k # 1, N[k].kind = "step", e.kind = "step", N[k].co = e.co
          PROVE  FALSE
      <4> DEFINE p == k - 1
      <4>1. p \in 1 .. n /\ p + 1 = k
        BY <1>2, <3>2
      <4> HIDE DEF p
      <4>2. F[p].kind = "step" /\ F[p].co = e.co
        BY <1>1, <3>2, <4>1
      <4>3. e.co \in Steps(F)
        BY <4>1, <4>2 DEF Steps, n
      <4> QED BY <1>10, <3>2, <4>3
    <3> QED BY <1>1, <2>1, <3>1, <3>2
  <2>2. ASSUME NEW i \in 1 .. Len(N), N[i].kind = "update" PROVE i = Len(N)
    <3>1. CASE i = 1
      <4>1. n = 0
        BY <1>1, <1>10, <2>2, <3>1 DEF n
      <4> QED BY <1>1, <3>1, <4>1
    <3>2. CASE i # 1
      <4> DEFINE p == i - 1
      <4>1. p \in 1 .. n /\ p + 1 = i
        BY <1>2, <3>2
      <4> HIDE DEF p
      <4>2. p = n
        BY <1>1, <1>10, <2>2, <4>1 DEF StackShape, n
      <4> QED BY <1>1, <4>1, <4>2
    <3> QED BY <3>1, <3>2
  <2> QED BY <2>1, <2>2 DEF StackShape
<1> QED BY <1>4, <1>5, <1>6, <1>7, <1>8, <1>9, <1>10 DEF Under, N

(* The stack is the innermost call on the others.                          *)
LEMMA StackParts ==
    ASSUME NEW I, NEW F \in Seq(Frames(I)), F # <<>>
    PROVE  /\ Head(F) \in Frames(I) /\ Tail(F) \in Seq(Frames(I)) /\ F = <<Head(F)>> \o Tail(F)
           /\ Under(Tail(F), Head(F), F)
<1>1. Head(F) \in Frames(I) /\ Tail(F) \in Seq(Frames(I))
  OBVIOUS
<1>2. F = <<Head(F)>> \o Tail(F)
  <2> DEFINE N == <<Head(F)>> \o Tail(F)
             n == Len(F)
  <2>1. /\ N \in Seq(Frames(I)) /\ Len(N) = Len(Tail(F)) + 1 /\ N[1] = Head(F)
        /\ \A i \in 1 .. Len(Tail(F)) : N[i + 1] = Tail(F)[i]
    BY <1>1, PushedOn
  <2>2. n \in Nat \ {0} /\ Len(Tail(F)) = n - 1 /\ Head(F) = F[1] /\ \A i \in 1 .. n - 1 : Tail(F)[i] = F[i + 1]
    OBVIOUS
  <2> HIDE DEF N, n
  <2>3. \A i \in 1 .. n : N[i] = F[i]
    <3>1. ASSUME NEW i \in 1 .. n, i # 1 PROVE N[i] = F[i]
      <4> DEFINE p == i - 1
      <4>1. p \in 1 .. n - 1 /\ p + 1 = i
        BY <2>2, <3>1
      <4> HIDE DEF p
      <4> QED BY <2>1, <2>2, <4>1
    <3> QED BY <2>1, <2>2, <3>1
  <2>4. Len(N) = Len(F)
    BY <2>1, <2>2 DEF n
  <2>5. N = F
    BY <2>1, <2>3, <2>4, SeqEqual DEF n
  <2> QED BY <2>5 DEF N
<1>3. Under(Tail(F), Head(F), <<Head(F)>> \o Tail(F))
  BY <1>1, CallOnStack
<1> QED BY <1>1, <1>2, <1>3

(* Two stacks with the same calls of coroutines and of update().           *)
Alike(F, N) ==
    /\ Steps(N) = Steps(F) /\ Firsts(N) = Firsts(F)
    /\ HasUpdate(N) = HasUpdate(F) /\ (StackShape(N) <=> StackShape(F))
    /\ StackShape(F) => Loop(N) = Loop(F)

LEMMA AlikeTwice == ASSUME NEW F, NEW M, NEW N, Alike(F, M), Alike(M, N) PROVE Alike(F, N)
  BY DEF Alike

(* A call of the bus, or of a handler, changes none of them.               *)
LEMMA BusCallAlike ==
    ASSUME NEW I, NEW F \in Seq(Frames(I)), NEW e \in Frames(I), e.kind \in {"publish", "handler", "wakeup"}
    PROVE  Alike(F, <<e>> \o F)
<1> DEFINE N == <<e>> \o F
<1>1. Under(F, e, N)
  BY CallOnStack
<1> HIDE DEF N
<1>2. HasUpdate(N) = HasUpdate(F)
  BY <1>1, Zenon DEF Under, HasUpdate
<1>3. Steps(N) = Steps(F) /\ Firsts(N) = Firsts(F) /\ (StackShape(N) <=> StackShape(F))
  BY <1>1 DEF Under
<1>4. Loop(N) = Loop(F)
  BY <1>1, <1>2 DEF Under, Loop
<1> QED BY <1>2, <1>3, <1>4 DEF Alike, N

LEMMA BusReturnAlike ==
    ASSUME NEW I, NEW F \in Seq(Frames(I)), F # <<>>, Head(F).kind \in {"publish", "handler", "wakeup"}
    PROVE  Alike(F, Tail(F)) /\ Tail(F) \in Seq(Frames(I))
<1>1. Head(F) \in Frames(I) /\ Tail(F) \in Seq(Frames(I)) /\ F = <<Head(F)>> \o Tail(F)
  BY StackParts
<1> DEFINE e == Head(F)
           T == Tail(F)
<1> HIDE DEF e, T
<1>2. Alike(T, <<e>> \o T)
  BY <1>1, BusCallAlike DEF e, T
<1>3. Alike(T, F)
  BY <1>1, <1>2 DEF e, T
<1>4. Alike(F, T)
  BY <1>3 DEF Alike
<1> QED BY <1>1, <1>4 DEF T

(* Nor does a change of what is iterated.                                  *)
LEMMA KindsAlike ==
    ASSUME NEW I, NEW F \in Seq(Frames(I)), NEW N \in Seq(Frames(I)), Len(N) = Len(F),
           \A i \in 1 .. Len(F) : /\ N[i].kind = F[i].kind
                                  /\ F[i].kind # "publish" => N[i] = F[i]
    PROVE  Alike(F, N)
<1>1. /\ \A i \in 1 .. Len(F) : F[i].kind # "publish" => N[i] = F[i]
      /\ \A i \in 1 .. Len(F) : N[i].kind = F[i].kind
      /\ 1 .. Len(N) = 1 .. Len(F) /\ Len(F) \in Nat
  OBVIOUS
<1>2. Steps(N) = Steps(F)
  <2>1. \A c : c \in Steps(N) <=> \E i \in 1 .. Len(F) : N[i].kind = "step" /\ N[i].co = c
    BY <1>1 DEF Steps
  <2>2. \A c : c \in Steps(F) <=> \E i \in 1 .. Len(F) : F[i].kind = "step" /\ F[i].co = c
    BY DEF Steps
  <2>3. \A c : c \in Steps(N) <=> c \in Steps(F)
    BY <1>1, <2>1, <2>2
  <2> QED BY <2>3
<1>3. Firsts(N) = Firsts(F)
  <2>1. \A c : c \in Firsts(N) <=> \E i \in 1 .. Len(F) : N[i].kind = "step" /\ N[i].first /\ N[i].co = c
    BY <1>1 DEF Firsts
  <2>2. \A c : c \in Firsts(F) <=> \E i \in 1 .. Len(F) : F[i].kind = "step" /\ F[i].first /\ F[i].co = c
    BY DEF Firsts
  <2>3. \A c : c \in Firsts(N) <=> c \in Firsts(F)
    BY <1>1, <2>1, <2>2
  <2> QED BY <2>3
<1>4. HasUpdate(N) = HasUpdate(F)
  <2>1. HasUpdate(N) <=> HasUpdate(F)
    BY <1>1 DEF HasUpdate
  <2> QED BY <2>1, Zenon DEF HasUpdate
<1>5. StackShape(N) <=> StackShape(F)
  BY <1>1 DEF StackShape
<1>6. ASSUME StackShape(F) PROVE Loop(N) = Loop(F)
  <2>1. CASE HasUpdate(F)
    <3>1. PICK i \in 1 .. Len(F) : F[i].kind = "update"
      BY <2>1 DEF HasUpdate
    <3>2. Last(N) = N[Len(F)] /\ Last(F) = F[Len(F)] /\ Len(F) \in 1 .. Len(F)
      BY <1>1, <3>1 DEF Last
    <3>3. F[Len(F)].kind # "publish"
      BY <1>6, <3>1 DEF StackShape
    <3> QED BY <1>1, <1>4, <3>2, <3>3 DEF Loop
  <2>2. CASE ~HasUpdate(F)
    BY <1>4, <2>2 DEF Loop
  <2> QED BY <2>1, <2>2
<1> QED BY <1>2, <1>3, <1>4, <1>5, <1>6 DEF Alike

(* unsubscribe() drops lists under iterations.                             *)
LEMMA UnsubscribeAlike ==
    ASSUME NEW frames, BusHolds(frames), NEW s, DoUnsubscribe(s, frames), BusInv'
    PROVE  Alike(frames, stack')
<1>1. frames \in Seq(Frames(Ids))
  BY DEF BusHolds
<1>2. stack' = frames \/ \E held : stack' = Detach(frames, held)
  BY DEF DoUnsubscribe
<1>3. Ids' = Ids
  BY DEF DoUnsubscribe, Ids
<1>4. stack' \in Seq(Frames(Ids))
  BY <1>3 DEF BusInv, BusHolds
<1>5. CASE stack' = frames
  BY <1>5 DEF Alike
<1>6. ASSUME NEW held, stack' = Detach(frames, held) PROVE Alike(frames, stack')
  <2>1. Len(frames) \in Nat /\ DOMAIN frames = 1 .. Len(frames) /\ \A i \in 1 .. Len(frames) : frames[i] \in Frames(Ids)
    BY <1>1
  <2>2. DOMAIN stack' = 1 .. Len(frames)
    BY <1>6, <2>1 DEF Detach
  <2>3. Len(stack') = Len(frames)
    BY <2>1, <2>2
  <2>4. ASSUME NEW i \in 1 .. Len(frames)
        PROVE  /\ stack'[i].kind = frames[i].kind
               /\ frames[i].kind # "publish" => stack'[i] = frames[i]
    <3>1. CASE frames[i].kind # "publish"
      BY <1>6, <2>1, <3>1 DEF Detach
    <3>2. CASE frames[i].kind = "publish"
      <4>1. frames[i] \in Publishing(Ids)
        BY <2>1, <3>2 DEF Frames, Calling, Stepping, UpdateCall
      <4>2. stack'[i].kind = "publish"
        BY <1>6, <2>1, <3>2, <4>1 DEF Detach, Publishing
      <4> QED BY <3>2, <4>2
    <3> QED BY <3>1, <3>2
  <2> QED BY <1>1, <1>4, <2>3, <2>4, KindsAlike
<1> QED BY <1>2, <1>5, <1>6

(* publish() calls a handler.                                              *)
LEMMA CalledAlike ==
    ASSUME BusInv, InPublish, NEW s, NEW called, Calls(s, called), BusHolds(called)
    PROVE  Alike(stack, called)
<1> DEFINE T == Tail(stack)
           h == [kind |-> IF info[s].handler \in Handlers THEN "handler" ELSE "wakeup", sub |-> s]
           g == Called(Head(stack), s)
<1>1. /\ called = <<h, g>> \o T /\ h.kind \in {"handler", "wakeup"}
      /\ stack # <<>> /\ Head(stack).kind = "publish"
      /\ stack \in Seq(Frames(Ids)) /\ called \in Seq(Frames(Ids))
  <2>1. called = <<h, g>> \o T
    BY Zenon DEF Calls
  <2>2. h.kind \in {"handler", "wakeup"}
    OBVIOUS
  <2>3. stack \in Seq(Frames(Ids)) /\ called \in Seq(Frames(Ids))
    BY DEF BusInv, BusHolds
  <2> QED BY <2>1, <2>2, <2>3 DEF InPublish
<1>2. Head(stack) \in Frames(Ids) /\ T \in Seq(Frames(Ids)) /\ Alike(stack, T)
  BY <1>1, StackParts, BusReturnAlike
<1>3. g.kind = "publish"
  <2>1. Head(stack) \in Publishing(Ids)
    BY <1>1, <1>2 DEF Frames, Calling, Stepping, UpdateCall
  <2> QED BY <2>1 DEF Called, Publishing
<1> HIDE DEF T, h, g
<1>4. called = <<h>> \o (<<g>> \o T)
  BY <1>1, <1>2, TwoPushed
<1>5. h \in Frames(Ids) /\ g \in Frames(Ids)
  <2> DEFINE two == <<h, g>>
  <2>1. Len(two) = 2 /\ two[1] = h /\ two[2] = g /\ two \in Seq({h, g}) /\ T \in Seq(Frames(Ids))
    BY <1>2
  <2>2. /\ Len(two \o T) = Len(two) + Len(T) /\ \A i \in 1 .. Len(two) : (two \o T)[i] = two[i]
    BY <1>2
  <2>3. Len(T) \in Nat
    BY <1>2
  <2> HIDE DEF two
  <2>4. 1 \in 1 .. Len(called) /\ 2 \in 1 .. Len(called) /\ called[1] = h /\ called[2] = g
    BY <1>1, <2>1, <2>2, <2>3 DEF two
  <2> QED BY <1>1, <2>4
<1>6. Alike(T, <<g>> \o T) /\ <<g>> \o T \in Seq(Frames(Ids))
  BY <1>2, <1>3, <1>5, BusCallAlike, PushedOn
<1>7. Alike(<<g>> \o T, called)
  <2> DEFINE F == <<g>> \o T
  <2>1. F \in Seq(Frames(Ids))
    BY <1>6
  <2> HIDE DEF F
  <2>2. Alike(F, <<h>> \o F)
    BY <1>1, <1>5, <2>1, BusCallAlike
  <2> QED BY <1>4, <2>2 DEF F
<1> QED BY <1>2, <1>6, <1>7, AlikeTwice

LEMMA DeliverAlike == ASSUME BusInv, Deliver PROVE Alike(stack, stack')
<1>1. BusInv'
  BY DeliverKeeps
<1> DEFINE f == Head(stack)
           s == Contents(Head(f.todo))[f.at + 1]
           called == <<[kind |-> IF info[s].handler \in Handlers THEN "handler" ELSE "wakeup", sub |-> s],
                       [f EXCEPT !.at = @ + 1, !.done = Append(@, s)]>> \o Tail(stack)
<1>3. /\ InPublish /\ ~Exhausted(f)
      /\ IF info[s].once THEN DoUnsubscribe(s, called) ELSE stack' = called /\ UNCHANGED busVars
  BY DEF Deliver
<1>6. Calls(s, called)
  BY DEF Calls, Called
<1> HIDE DEF s, called
<1>7. BusHolds(called)
  BY <1>3, <1>6, CallMade
<1> HIDE DEF f
<1>4. BusHolds(called) /\ Alike(stack, called)
  BY <1>3, <1>6, <1>7, CalledAlike
<1>5. CASE info[s].once
  <2>1. Alike(called, stack')
    BY <1>1, <1>3, <1>4, <1>5, UnsubscribeAlike
  <2> QED BY <1>4, <2>1, AlikeTwice
<1> QED BY <1>3, <1>4, <1>5

(* publish() begins.                                                       *)
LEMMA PublishAlike ==
    ASSUME BusInv, BusInv', NEW t, NEW sc, DoPublish(t, sc)
    PROVE  Alike(stack, stack')
<1>1. /\ stack' = stack \/ \E e : e.kind = "publish" /\ stack' = <<e>> \o stack
      /\ Ids' = Ids
  BY DEF DoPublish, Ids
<1>2. stack \in Seq(Frames(Ids)) /\ stack' \in Seq(Frames(Ids))
  BY <1>1 DEF BusInv, BusHolds
<1>3. CASE stack' = stack
  BY <1>3 DEF Alike
<1>4. ASSUME NEW e, e.kind = "publish", stack' = <<e>> \o stack PROVE Alike(stack, stack')
  <2>1. 1 \in 1 .. Len(stack') /\ stack'[1] = e
    <3>1. <<e>> \in Seq({e}) /\ Len(<<e>>) = 1 /\ <<e>>[1] = e /\ Len(stack) \in Nat
      BY <1>2
    <3> QED BY <1>2, <1>4, <3>1
  <2>2. e \in Frames(Ids)
    BY <1>2, <2>1
  <2> QED BY <1>2, <1>4, <2>2, BusCallAlike
<1> QED BY <1>1, <1>3, <1>4

(* publish() goes on with its second list, or ends.                        *)
LEMMA ListEndsAlike == ASSUME BusInv, ListEnds PROVE Alike(stack, stack')
<1>1. /\ stack # <<>> /\ Head(stack).kind = "publish" /\ Ids' = Ids
      /\ \/ stack' = Tail(stack)
         \/ stack' = [stack EXCEPT ![1].todo = Tail(@), ![1].at = 0]
  BY DEF ListEnds, InPublish, busVars, Ids
<1>2. BusInv'
  BY ListEndsKeeps
<1>3. stack \in Seq(Frames(Ids)) /\ stack' \in Seq(Frames(Ids))
  BY <1>1, <1>2 DEF BusInv, BusHolds
<1>4. CASE stack' = Tail(stack)
  BY <1>1, <1>3, <1>4, BusReturnAlike
<1>5. CASE stack' = [stack EXCEPT ![1].todo = Tail(@), ![1].at = 0]
  <2> DEFINE g == [stack[1] EXCEPT !.todo = Tail(@), !.at = 0]
  <2>1. stack' = [stack EXCEPT ![1] = g]
    BY <1>5
  <2>2. Len(stack) \in Nat \ {0} /\ DOMAIN stack = 1 .. Len(stack) /\ stack[1] = Head(stack) /\ stack[1] \in Frames(Ids)
    BY <1>1, <1>3
  <2>3. stack[1] \in Publishing(Ids)
    BY <1>1, <2>2 DEF Frames, Calling, Stepping, UpdateCall
  <2>4. g.kind = "publish"
    BY <2>3 DEF Publishing
  <2> HIDE DEF g
  <2>5. Len(stack') = Len(stack)
    BY <2>1, <2>2
  <2>6. \A i \in 1 .. Len(stack) : stack'[i] = IF i = 1 THEN g ELSE stack[i]
    BY <2>1, <2>2
  <2>7. \A i \in 1 .. Len(stack) : /\ stack'[i].kind = stack[i].kind
                                   /\ stack[i].kind # "publish" => stack'[i] = stack[i]
    BY <1>1, <2>2, <2>4, <2>6
  <2> QED BY <1>3, <2>5, <2>7, KindsAlike
<1> QED BY <1>1, <1>4, <1>5

(* A handler returns or raises, the one by which a coroutine waits too.    *)
LEMMA CallEndsAlike ==
    ASSUME BusInv, stack # <<>>, Head(stack).kind \in {"handler", "wakeup"},
           stack' \in {Tail(stack), Tail(Tail(stack))},
           UNCHANGED <<info, lists, byScope, snapshots, dirty, ledger, twins>>
    PROVE  Alike(stack, stack') /\ BusInv'
<1>1. stack \in Seq(Frames(Ids)) /\ Deliveries(stack, lists, Counts, twins)
  BY DEF BusInv, BusHolds
<1>2. /\ Tail(stack) \in Seq(Frames(Ids)) /\ Tail(stack) # <<>> /\ Head(Tail(stack)).kind = "publish"
      /\ Deliveries(Tail(stack), lists, Counts, twins)
  <2>1. /\ Len(stack) \in Nat \ {0} /\ Head(stack) = stack[1] /\ 1 \in 1 .. Len(stack)
    BY <1>1
  <2>2. 1 < Len(stack) /\ stack[2].kind = "publish"
    <3>1. 1 < Len(stack) /\ stack[1 + 1].kind = "publish"
      BY <1>1, <2>1 DEF Deliveries, CalledBy
    <3> QED BY <3>1
  <2>3. Tail(stack) \in Seq(Frames(Ids)) /\ Len(Tail(stack)) = Len(stack) - 1 /\ Tail(stack)[1] = stack[2]
    BY <1>1, <2>1, <2>2
  <2>4. Tail(stack) # <<>> /\ Head(Tail(stack)) = Tail(stack)[1]
    <3> DEFINE T == Tail(stack)
    <3>1. T \in Seq(Frames(Ids)) /\ Len(T) > 0
      BY <2>1, <2>2, <2>3
    <3> HIDE DEF T
    <3>2. T # <<>> /\ Head(T) = T[1]
      BY <3>1
    <3> QED BY <3>2 DEF T
  <2>5. Deliveries(Tail(stack), lists, Counts, twins)
    BY <1>1, StackReturn
  <2> QED BY <2>2, <2>3, <2>4, <2>5
<1>3. Tail(Tail(stack)) \in Seq(Frames(Ids)) /\ Deliveries(Tail(Tail(stack)), lists, Counts, twins)
  BY <1>2, StackReturn
<1>4. Alike(stack, Tail(stack)) /\ Alike(Tail(stack), Tail(Tail(stack)))
  <2>1. Alike(stack, Tail(stack))
    BY <1>1, BusReturnAlike
  <2>2. Alike(Tail(stack), Tail(Tail(stack)))
    <3> DEFINE T == Tail(stack)
    <3>1. T \in Seq(Frames(Ids)) /\ T # <<>> /\ Head(T).kind = "publish"
      BY <1>2
    <3> HIDE DEF T
    <3>2. Alike(T, Tail(T))
      BY <3>1, BusReturnAlike
    <3> QED BY <3>2 DEF T
  <2> QED BY <2>1, <2>2
<1>5. BusHolds(stack')
  BY <1>1, <1>2, <1>3 DEF BusInv, BusHolds
<1>6. Alike(stack, stack')
  <2>1. Alike(stack, Tail(Tail(stack)))
    BY <1>4, AlikeTwice
  <2>2. stack' = Tail(stack) \/ stack' = Tail(Tail(stack))
    OBVIOUS
  <2> QED BY <1>4, <2>1, <2>2, Zenon
<1> QED BY <1>5, <1>6, SameBus

-----------------------------------------------------------------------------
(* Coroutines: what holds of S, F, U and f.                                *)

(* The calls in progress are of coroutines and of update().                *)
LEMMA CallsTyped ==
    ASSUME BusInv, StackShape(stack)
    PROVE  /\ Steps(stack) \subseteq Cos /\ Firsts(stack) \subseteq Steps(stack)
           /\ Loop(stack) \in UpdateCall /\ HasUpdate(stack) \in BOOLEAN
           /\ ~HasUpdate(stack) => Loop(stack) = [kind |-> "update", read |-> 0, write |-> 0, cur |-> None]
<1>1. stack \in Seq(Frames(Ids))
  BY DEF BusInv, BusHolds
<1>2. \A i \in 1 .. Len(stack) : stack[i] \in Frames(Ids)
  BY <1>1
<1>3. Steps(stack) \subseteq Cos
  <2> SUFFICES ASSUME NEW i \in 1 .. Len(stack), stack[i].kind = "step" PROVE stack[i].co \in Cos
    BY DEF Steps
  <2> QED BY <1>2 DEF Frames, Publishing, Calling, Stepping, UpdateCall
<1>4. Firsts(stack) \subseteq Steps(stack)
  BY DEF Steps, Firsts
<1>5. Loop(stack) \in UpdateCall
  <2>1. CASE HasUpdate(stack)
    <3>1. PICK i \in 1 .. Len(stack) : stack[i].kind = "update"
      BY <2>1 DEF HasUpdate
    <3>2. Loop(stack) = stack[i]
      BY <2>1, <3>1 DEF StackShape, Loop, Last
    <3> QED BY <1>2, <3>1, <3>2 DEF Frames, Publishing, Calling, Stepping, UpdateCall
  <2>2. CASE ~HasUpdate(stack)
    BY <2>2 DEF Loop, UpdateCall
  <2> QED BY <2>1, <2>2
<1>6. HasUpdate(stack) \in BOOLEAN
  BY DEF HasUpdate
<1> QED BY <1>3, <1>4, <1>5, <1>6 DEF Loop

(* From what holds of the calls after a step.                              *)
LEMMA CoopInvNext ==
    ASSUME NEW S, NEW F, NEW U, NEW f, BusInv', StackShape(stack'), CoHolds(S, F, U, f)',
           S = Steps(stack'), F = Firsts(stack'), U = HasUpdate(stack'), f = Loop(stack')
    PROVE  CoopInv'
<1>1. Known(Steps(stack), Firsts(stack))' /\ Waits(Steps(stack))'
  BY DEF CoHolds, Known, Waits
<1>2. Looping(Firsts(stack), HasUpdate(stack), Loop(stack))'
  BY DEF CoHolds, Looping
<1>3. ~raised' => Apart(Loop(stack))' /\ Placed(Firsts(stack), Loop(stack))'
  BY DEF CoHolds, Apart, Placed, LiveAt
<1>4. ~raised' => Ahead(HasUpdate(stack), Loop(stack))' /\ Counted'
  BY DEF CoHolds, Ahead
<1>5. CoHolds(Steps(stack), Firsts(stack), HasUpdate(stack), Loop(stack))'
  BY <1>1, <1>2, <1>3, <1>4 DEF CoHolds
<1> QED BY <1>5 DEF CoopInv

(* What holds stays true while no coroutine's state changes.               *)
LEMMA CoHoldsSame ==
    ASSUME NEW S, NEW F, NEW U, NEW f, CoHolds(S, F, U, f), UNCHANGED coVars
    PROVE  CoHolds(S, F, U, f)'
<1>1. UNCHANGED <<status, token, elapsed, listening, handles, pending, raised, due, visited, waited>>
      /\ triggered' = triggered
  BY DEF coVars, waitVars, historyVars
<1>2. /\ CoTypes' = CoTypes /\ Known(S, F)' = Known(S, F) /\ Looping(F, U, f)' = Looping(F, U, f)
      /\ Waits(S)' = Waits(S) /\ Apart(f)' = Apart(f) /\ Placed(F, f)' = Placed(F, f)
      /\ Ahead(U, f)' = Ahead(U, f) /\ Counted' = Counted
  BY <1>1 DEF CoTypes, Known, Looping, Waits, Apart, Placed, Ahead, Counted, Running, LiveAt
<1> QED BY <1>1, <1>2 DEF CoHolds

CallsOK(S, F, f) == S \subseteq Cos /\ F \subseteq S /\ f \in UpdateCall

(* Places that are apart stay so when no more of their coroutines run.     *)
LEMMA ApartLess ==
    ASSUME NEW f, Apart(f), CoTypes, handles' = handles, pending' = pending,
           \A c \in ToSet(handles) \cup ToSet(pending) : Running(c)' => Running(c),
           f.cur # None => (Running(f.cur)' => Running(f.cur))
    PROVE  Apart(f)'
<1>1. LiveAt(f)' = LiveAt(f)
  BY DEF LiveAt
<1>2. /\ \A i \in LiveAt(f) : handles[i] \in ToSet(handles)
      /\ \A j \in 1 .. Len(pending) : pending[j] \in ToSet(pending)
  BY InSet DEF LiveAt, CoTypes
<1>3. \A i \in LiveAt(f) : Running(handles[i])' => Running(handles[i])
  BY <1>2
<1>4. \A j \in 1 .. Len(pending) : Running(pending[j])' => Running(pending[j])
  BY <1>2
<1> DEFINE Ran(c) == Running(c)
           Runs(c) == Running(c)'
<1>5. /\ \A i \in LiveAt(f) : Runs(handles[i]) => Ran(handles[i])
      /\ \A j \in 1 .. Len(pending) : Runs(pending[j]) => Ran(pending[j])
      /\ f.cur # None => (Runs(f.cur) => Ran(f.cur))
  BY <1>3, <1>4
<1>6. /\ \A i, j \in LiveAt(f) : Ran(handles[i]) /\ handles[i] = handles[j] => i = j
      /\ \A i, j \in 1 .. Len(pending) : Ran(pending[i]) /\ pending[i] = pending[j] => i = j
      /\ \A i \in LiveAt(f), j \in 1 .. Len(pending) : Ran(handles[i]) => handles[i] # pending[j]
      /\ f.cur # None /\ Ran(f.cur) => /\ \A i \in LiveAt(f) : handles[i] # f.cur
                                       /\ f.cur \notin ToSet(pending)
  BY DEF Apart
<1> HIDE DEF Ran, Runs
<1>7. /\ \A i, j \in LiveAt(f) : Runs(handles[i]) /\ handles[i] = handles[j] => i = j
      /\ \A i, j \in 1 .. Len(pending) : Runs(pending[i]) /\ pending[i] = pending[j] => i = j
      /\ \A i \in LiveAt(f), j \in 1 .. Len(pending) : Runs(handles[i]) => handles[i] # pending[j]
      /\ f.cur # None /\ Runs(f.cur) => /\ \A i \in LiveAt(f) : handles[i] # f.cur
                                        /\ f.cur \notin ToSet(pending)
  BY <1>5, <1>6
<1> QED BY <1>1, <1>7 DEF Apart, Runs

(* A coroutine starts: it is new to every list.                            *)
LEMMA StartHolds ==
    ASSUME NEW S, NEW F, NEW U, NEW f, CallsOK(S, F, f), CoHolds(S, F, U, f),
           NEW c \in Cos, status[c] = "new", status' = [status EXCEPT ![c] = "running"],
           UNCHANGED <<token, elapsed, triggered, listening, handles, pending, raised, due, visited, waited>>
    PROVE  c \notin S /\ CoHolds(S \cup {c}, F \cup {c}, U, f)'
<1>1. /\ CoTypes /\ Known(S, F) /\ Looping(F, U, f) /\ Waits(S)
      /\ ~raised => Apart(f) /\ Placed(F, f) /\ Ahead(U, f) /\ Counted
  BY DEF CoHolds
<1>2. /\ status'[c] = "running" /\ \A d \in Cos \ {c} : status'[d] = status[d]
      /\ status' \in [Cos -> {"new", "running", "complete", "cancelled"}]
  BY <1>1 DEF CoTypes
<1>3. CoTypes'
  BY <1>1, <1>2 DEF CoTypes
<1>4. /\ c \notin S /\ c \notin ToSet(handles) /\ c \notin ToSet(pending) /\ c \notin due
      /\ token[c] = None /\ waited[c] = 0 /\ c \notin listening
      /\ f.cur # c
  <2>1. f.cur \in Cos \cup {None} /\ c # None
    BY NoneAssumption DEF CallsOK, UpdateCall
  <2> QED BY <1>1, <2>1 DEF Known, Looping, Waits
<1>5. /\ ToSet(handles) \subseteq Cos /\ ToSet(pending) \subseteq Cos /\ due \subseteq Cos
      /\ \A i \in 1 .. Len(handles) : handles[i] \in ToSet(handles)
      /\ \A i \in 1 .. Len(pending) : pending[i] \in ToSet(pending)
  BY <1>1, InSet DEF CoTypes
<1>6. Known(S \cup {c}, F \cup {c})'
  <2>1. S \subseteq Cos
    BY DEF CallsOK
  <2> QED BY <1>1, <1>2, <1>4, <1>5, <2>1 DEF Known
<1>7. Looping(F \cup {c}, U, f)'
  <2>1. f.cur \in Cos \cup {None}
    BY DEF CallsOK, UpdateCall
  <2> QED BY <1>1, <1>2, <1>4, <2>1 DEF Looping, Running
<1>8. Waits(S \cup {c})'
  <2>1. S \subseteq Cos /\ listening \subseteq Cos
    BY <1>1 DEF CallsOK, CoTypes
  <2> QED BY <1>1, <1>2, <1>4, <2>1 DEF Waits, Running
<1>9. ASSUME ~raised' PROVE Apart(f)' /\ Placed(F \cup {c}, f)' /\ Ahead(U, f)' /\ Counted'
  <2>1. Apart(f) /\ Placed(F, f) /\ Ahead(U, f) /\ Counted /\ f.cur \in Cos \cup {None}
    BY <1>1, <1>9 DEF CallsOK, UpdateCall
  <2>2. LiveAt(f)' = LiveAt(f) /\ \A i \in LiveAt(f) : handles[i] \in ToSet(handles)
    BY <1>5 DEF LiveAt
  <2>3. Apart(f)'
    <3>1. \A d \in Cos : d # c => (Running(d)' => Running(d))
      BY <1>2 DEF Running
    <3> QED BY <2>1, <3>1, <1>1, <1>4, <1>5, ApartLess
  <2>4. Placed(F \cup {c}, f)'
    BY <2>1, <2>2, <1>2 DEF Placed, Running
  <2>5. Ahead(U, f)'
    <3>1. \A i \in f.read + 1 .. Len(handles) : i \in 1 .. Len(handles)
      BY <1>1 DEF CallsOK, UpdateCall, CoTypes
    <3> QED BY <2>1, <3>1, <1>2, <1>4, <1>5 DEF Ahead, Running
  <2>6. Counted'
    <3>1. None \notin Timed
      BY NoneAssumption DEF Timed, WaitTokens, Pause
    <3> QED BY <2>1, <3>1, <1>2, <1>4 DEF Counted, Running
  <2> QED BY <2>3, <2>4, <2>5, <2>6
<1> QED BY <1>3, <1>4, <1>6, <1>7, <1>8, <1>9 DEF CoHolds

(* Coroutines C that run are cancelled, none of them in its first step.    *)
LEMMA CancelHolds ==
    ASSUME NEW S, NEW F, NEW U, NEW f, CallsOK(S, F, f), CoHolds(S, F, U, f),
           NEW C \in SUBSET Cos, \A c \in C : Running(c) /\ c \notin F,
           status' = [c \in Cos |-> IF c \in C THEN "cancelled" ELSE status[c]],
           CleanupWait(C), UNCHANGED <<pending, raised, due, visited, waited>>,
           handles' = handles \/ (handles' = <<>> /\ \A c \in ToSet(handles) : Running(c) => c \in C)
    PROVE  CoHolds(S, F, U, f)'
<1>1. /\ CoTypes /\ Known(S, F) /\ Looping(F, U, f) /\ Waits(S)
      /\ ~raised => Apart(f) /\ Placed(F, f) /\ Ahead(U, f) /\ Counted
  BY DEF CoHolds
<1>2. /\ \A c \in Cos : status'[c] = IF c \in C THEN "cancelled" ELSE status[c]
      /\ \A c \in Cos : token'[c] = IF c \in C THEN None ELSE token[c]
      /\ \A c \in Cos : elapsed'[c] = IF c \in C THEN 0 ELSE elapsed[c]
      /\ listening' \subseteq listening
      /\ \A c \in Cos : Running(c)' <=> Running(c) /\ c \notin C
  BY DEF CleanupWait, ListeningNoMore, Running
<1>3. /\ CoTypes' /\ ToSet(handles') \subseteq ToSet(handles)
      /\ ToSet(handles) \subseteq Cos /\ ToSet(pending) \subseteq Cos /\ due \subseteq Cos
  <2>1. /\ status' \in [Cos -> {"new", "running", "complete", "cancelled"}]
        /\ token' \in [Cos -> WaitTokens \cup {None}] /\ elapsed' \in [Cos -> Nat]
        /\ triggered' \in [Cos -> BOOLEAN] /\ listening' \subseteq Cos
    BY <1>1 DEF CleanupWait, ListeningNoMore, CoTypes
  <2>2. ToSet(handles) \subseteq Cos /\ ToSet(pending) \subseteq Cos
    BY <1>1, InSet DEF CoTypes
  <2>3. <<>> \in Seq(Cos) /\ ToSet(<<>>) = {}
    BY NoElements DEF ToSet
  <2>4. handles' \in Seq(Cos) /\ ToSet(handles') \subseteq ToSet(handles)
    BY <1>1, <2>3 DEF CoTypes
  <2> QED BY <1>1, <2>1, <2>2, <2>4 DEF CoTypes
<1>4. \A c \in C : status[c] # "new"
  BY DEF Running
<1>5. Known(S, F)'
  BY <1>1, <1>2, <1>3 DEF Known, CallsOK
<1>6. Looping(F, U, f)'
  <2>1. f.cur # None => (status'[f.cur] # "new" /\ f.cur \notin F)
    BY <1>1, <1>2 DEF Looping, CallsOK, UpdateCall
  <2>2. ASSUME f.cur # None, Running(f.cur)'
        PROVE  f.write < f.read /\ f.read <= Len(handles') /\ handles'[f.read] = f.cur
    <3>1. f.cur \in Cos /\ Running(f.cur) /\ f.cur \notin C
      BY <1>2, <2>2 DEF CallsOK, UpdateCall
    <3>2. f.write < f.read /\ f.read <= Len(handles) /\ handles[f.read] = f.cur
      BY <1>1, <2>2, <3>1 DEF Looping
    <3>3. f.read \in 1 .. Len(handles)
      BY <3>2 DEF CallsOK, UpdateCall
    <3>4. f.cur \in ToSet(handles)
      BY <1>1, <3>2, <3>3, InSet DEF CoTypes
    <3> QED BY <3>1, <3>2, <3>4
  <2>3. handles' = <<>> \/ (f.write <= f.read /\ f.read <= Len(handles'))
    BY <1>1 DEF Looping
  <2> QED BY <1>1, <2>1, <2>2, <2>3 DEF Looping
<1>7. Waits(S)'
  BY <1>1, <1>2, <1>4 DEF Waits, CallsOK, CoTypes
<1>8. ASSUME ~raised' PROVE Apart(f)' /\ Placed(F, f)' /\ Ahead(U, f)' /\ Counted'
  <2>1. Apart(f) /\ Placed(F, f) /\ Ahead(U, f) /\ Counted
    BY <1>1, <1>8
  <2>2. Counted'
    BY <2>1, <1>2 DEF Counted
  <2>3. CASE handles' = handles
    <3>1. Apart(f)'
      BY <1>1, <1>2, <1>3, <2>1, <2>3, ApartLess DEF CallsOK, UpdateCall
    <3>2. Placed(F, f)'
      BY <1>2, <2>1, <2>3 DEF Placed, LiveAt
    <3>3. Ahead(U, f)'
      <4>1. \A i \in f.read + 1 .. Len(handles) : handles[i] \in Cos
        BY <1>1 DEF CallsOK, UpdateCall, CoTypes
      <4> QED BY <4>1, <1>2, <1>3, <2>1, <2>3 DEF Ahead
    <3> QED BY <2>2, <3>1, <3>2, <3>3
  <2>4. CASE handles' = <<>> /\ \A c \in ToSet(handles) : Running(c) => c \in C
    <3>1. Len(handles') = 0 /\ (\A i \in 1 .. 0 : FALSE) /\ LiveAt(f)' = {}
      BY <2>4 DEF LiveAt
    <3>2. \A i \in 1 .. Len(handles) : handles[i] \in ToSet(handles)
      BY <1>1, InSet DEF CoTypes
    <3>3. \A c \in Cos : Running(c)' => Running(c) /\ c \notin ToSet(handles)
      BY <1>2, <2>4
    <3>4. f.cur # None => ~Running(f.cur)'
      <4> SUFFICES ASSUME f.cur # None, Running(f.cur)' PROVE FALSE
        OBVIOUS
      <4>1. f.cur \in Cos /\ Running(f.cur)
        BY <3>3 DEF CallsOK, UpdateCall
      <4>2. f.read \in 1 .. Len(handles) /\ handles[f.read] = f.cur
        BY <4>1, <1>1 DEF Looping, CallsOK, UpdateCall
      <4> QED BY <3>2, <3>3, <4>1, <4>2
    <3>5. Apart(f)'
      <4>1. \A j \in 1 .. Len(pending) : Running(pending[j])' => Running(pending[j])
        BY <1>1, <3>3 DEF CoTypes
      <4>2. \A i, j \in 1 .. Len(pending) : Running(pending[i])' /\ pending[i] = pending[j] => i = j
        BY <2>1, <4>1 DEF Apart
      <4> QED BY <3>1, <3>4, <4>2 DEF Apart
    <3>6. Placed(F, f)'
      BY <2>1, <3>1, <3>2, <3>3, <3>4 DEF Placed, LiveAt
    <3>7. Ahead(U, f)'
      <4>1. f.read \in Nat /\ \A i \in f.read + 1 .. Len(handles) : i \in 1 .. Len(handles)
        BY <1>1 DEF CallsOK, UpdateCall, CoTypes
      <4>2. \A i \in f.read + 1 .. Len(handles') : FALSE
        BY <3>1, <4>1
      <4>3. \A c \in due \ visited : ~Running(c)' \/ ~U
        BY <2>1, <1>3, <3>2, <3>3, <4>1 DEF Ahead
      <4> QED BY <4>2, <4>3 DEF Ahead
    <3> QED BY <2>2, <3>5, <3>6, <3>7
  <2> QED BY <2>3, <2>4
<1> QED BY <1>3, <1>5, <1>6, <1>7, <1>8 DEF CoHolds

(* A coroutine yields: it begins to wait, and if this was its first step   *)
(* its handle is placed.                                                   *)
LEMMA YieldHolds ==
    ASSUME NEW S, NEW F, NEW U, NEW f, CallsOK(S, F, f), CoHolds(S, F, U, f),
           U \in BOOLEAN, ~U => f.read = 0 /\ f.write = 0 /\ f.cur = None,
           NEW c \in S, NEW tok \in Tokens, BeginWait(c, tok),
           pending' = IF c \in F /\ Running(c) /\ U THEN Append(pending, c) ELSE pending,
           handles' = IF c \in F /\ Running(c) /\ ~U THEN Append(handles, c) ELSE handles,
           UNCHANGED <<status, raised, due, visited, waited>>
    PROVE  CoHolds(S \ {c}, F \ {c}, U, f)'
<1>1. /\ CoTypes /\ Known(S, F) /\ Looping(F, U, f) /\ Waits(S)
      /\ ~raised => Apart(f) /\ Placed(F, f) /\ Ahead(U, f) /\ Counted
  BY DEF CoHolds
<1>2. /\ handles \in Seq(Cos) /\ pending \in Seq(Cos) /\ c \in Cos
      /\ Len(handles) \in Nat /\ Len(pending) \in Nat
      /\ f.read \in Nat /\ f.write \in Nat /\ f.cur \in Cos \cup {None}
      /\ S \subseteq Cos /\ F \subseteq S /\ due \subseteq Cos
  BY <1>1 DEF CoTypes, CallsOK, UpdateCall
<1>3. /\ \A d : Running(d)' <=> Running(d)
      /\ \A d \in Cos : status'[d] = status[d]
  BY DEF Running
<1>4. tok.kind = "other" \/ tok \in WaitTokens
  BY DEF Tokens, WaitTokens
<1>5. /\ token'[c] \in WaitTokens /\ elapsed'[c] = 0 /\ token'[c] # None
      /\ \A d \in Cos \ {c} : token'[d] = token[d] /\ elapsed'[d] = elapsed[d]
      /\ listening' \subseteq listening \cup {c} /\ listening \subseteq listening'
      /\ c \in listening' => c \in listening \/ token'[c] = [kind |-> "source"]
  <2>1. Pause \in WaitTokens
    BY DEF Pause, WaitTokens
  <2>2. token'[c] = IF tok.kind = "other" THEN Pause ELSE tok
    BY <1>1, <1>2 DEF BeginWait, CoTypes
  <2>3. tok.kind = "source" => tok = [kind |-> "source"]
    BY DEF Tokens
  <2> QED BY <1>1, <1>2, <1>4, <2>1, <2>2, <2>3, NoneAssumption DEF BeginWait, CoTypes
<1>6. /\ ToSet(handles') \subseteq ToSet(handles) \cup {c} /\ handles' \in Seq(Cos)
      /\ ToSet(pending') \subseteq ToSet(pending) \cup {c} /\ pending' \in Seq(Cos)
  BY <1>2, AppendSet
<1>7. CoTypes'
  <2>1. token' \in [Cos -> WaitTokens \cup {None}] /\ elapsed' \in [Cos -> Nat]
    BY <1>1, <1>2, <1>5 DEF BeginWait, CoTypes
  <2>2. triggered' \in [Cos -> BOOLEAN] /\ listening' \subseteq Cos
    BY <1>1, <1>2, <1>5 DEF BeginWait, CoTypes
  <2> QED BY <1>1, <1>6, <2>1, <2>2 DEF CoTypes
<1>8. status[c] # "new"
  BY <1>1 DEF Known
<1>9. Known(S \ {c}, F \ {c})'
  BY <1>1, <1>2, <1>3, <1>6, <1>8 DEF Known
<1>10. Looping(F \ {c}, U, f)'
  <2>1. CASE handles' = handles
    BY <2>1, <1>1, <1>2, <1>3 DEF Looping
  <2>2. CASE handles' # handles
    <3>1. ~U /\ handles' = Append(handles, c) /\ pending' = pending
      BY <2>2
    <3>2. f.write <= f.read /\ f.read <= Len(handles') /\ f.cur = None
      BY <1>2, <3>1
    <3> QED BY <3>1, <3>2, <1>1 DEF Looping
  <2> QED BY <2>1, <2>2
<1>11. Waits(S \ {c})'
  <2>1. ASSUME NEW d \in Cos, status[d] = "new"
        PROVE  token'[d] = None /\ waited[d] = 0 /\ d \notin listening'
    BY <1>1, <1>5, <1>8, <2>1 DEF Waits
  <2>2. ASSUME NEW d \in Cos \ (S \ {c}), Running(d) PROVE token'[d] # None
    BY <1>1, <1>5, <2>2 DEF Waits
  <2>3. ASSUME NEW d \in S \ {c}
        PROVE  waited[d] = 0 /\ (Running(d) => token'[d] = None) /\ d \notin due \ visited
    BY <1>1, <1>2, <1>5 DEF Waits
  <2>4. ASSUME NEW d \in listening', Running(d) PROVE token'[d] = [kind |-> "source"]
    <3>1. CASE d = c
      <4>1. token[c] = None
        BY <1>1, <2>4, <3>1 DEF Waits
      <4>2. [kind |-> "source"] # None
        BY NoneAssumption DEF WaitTokens
      <4> QED BY <1>1, <1>5, <2>4, <3>1, <4>1, <4>2 DEF Waits
    <3>2. CASE d # c
      BY <1>1, <1>5, <2>4, <3>2 DEF Waits, CoTypes
    <3> QED BY <3>1, <3>2
  <2> QED BY <1>3, <2>1, <2>2, <2>3, <2>4 DEF Waits
<1>12. ASSUME ~raised' PROVE Apart(f)' /\ Placed(F \ {c}, f)' /\ Ahead(U, f)' /\ Counted'
  <2>1. Apart(f) /\ Placed(F, f) /\ Ahead(U, f) /\ Counted
    BY <1>1, <1>12
  <2>2. Counted'
    <3>1. ASSUME NEW d \in Cos, Running(d), token'[d] \in Timed
          PROVE  /\ waited[d] = IF d \in due \ visited THEN elapsed'[d] + 1 ELSE elapsed'[d]
                 /\ token'[d].kind = "pause" => elapsed'[d] = 0
                 /\ token'[d].kind = "sleep" => elapsed'[d] = 0 \/ elapsed'[d] < token'[d].seconds
      <4>1. CASE d = c
        BY <1>1, <1>5, <4>1 DEF Waits
      <4>2. CASE d # c
        BY <1>5, <2>1, <3>1, <4>2 DEF Counted
      <4> QED BY <4>1, <4>2
    <3> QED BY <1>3, <3>1 DEF Counted
  <2>3. CASE handles' = handles /\ pending' = pending
    <3>1. Apart(f)'
      BY <1>1, <1>3, <2>1, <2>3, ApartLess
    <3>2. c \in F => ~Running(c) \/ c \in ToSet(pending) \/ \E i \in LiveAt(f) : handles[i] = c
      <4>1. Append(pending, c) # pending /\ Append(handles, c) # handles
        BY <1>2
      <4> QED BY <2>3, <4>1
    <3>3. Placed(F \ {c}, f)'
      BY <1>3, <2>1, <2>3, <3>2 DEF Placed, LiveAt
    <3>4. Ahead(U, f)'
      BY <1>3, <2>1, <2>3 DEF Ahead
    <3> QED BY <2>2, <3>1, <3>3, <3>4
  <2>4. CASE c \in F /\ Running(c) /\ U
    <3>1. handles' = handles /\ pending' = Append(pending, c)
      BY <2>4
    <3>2. c \notin ToSet(handles) /\ c \notin ToSet(pending) /\ f.cur # c
      BY <1>1, <1>2, <2>4, NoneAssumption DEF Known, Looping
    <3>3. /\ Len(pending') = Len(pending) + 1 /\ pending'[Len(pending) + 1] = c
          /\ \A i \in 1 .. Len(pending) : pending'[i] = pending[i]
          /\ ToSet(pending') = ToSet(pending) \cup {c}
      BY <1>2, <3>1, AppendSet
    <3>4. /\ LiveAt(f)' = LiveAt(f)
          /\ \A i \in LiveAt(f) : handles[i] # c
          /\ \A i \in 1 .. Len(pending) : pending[i] # c
      BY <1>2, <3>1, <3>2, InSet DEF LiveAt
    <3>5. \A i \in 1 .. Len(pending') : i \in 1 .. Len(pending) \/ i = Len(pending) + 1
      BY <1>2, <3>3
    <3>6. Apart(f)'
      <4>1. \A i, j \in 1 .. Len(pending') : Running(pending'[i]) /\ pending'[i] = pending'[j] => i = j
        BY <2>1, <3>3, <3>4, <3>5 DEF Apart
      <4>2. \A i \in LiveAt(f), j \in 1 .. Len(pending') : Running(handles[i]) => handles[i] # pending'[j]
        BY <2>1, <3>3, <3>4, <3>5 DEF Apart
      <4> QED BY <1>3, <2>1, <3>1, <3>2, <3>3, <3>4, <4>1, <4>2 DEF Apart
    <3>7. Placed(F \ {c}, f)'
      BY <1>3, <2>1, <3>1, <3>3, <3>4 DEF Placed
    <3>8. Ahead(U, f)'
      BY <1>3, <2>1, <3>1 DEF Ahead
    <3> QED BY <2>2, <3>6, <3>7, <3>8
  <2>5. CASE c \in F /\ Running(c) /\ ~U
    <3>1. handles' = Append(handles, c) /\ pending' = pending /\ pending = <<>>
      BY <1>1, <2>5 DEF Looping
    <3>2. c \notin ToSet(handles) /\ f.cur = None /\ f.read = 0
      BY <1>1, <2>5 DEF Known
    <3>3. /\ Len(handles') = Len(handles) + 1 /\ handles'[Len(handles) + 1] = c
          /\ \A i \in 1 .. Len(handles) : handles'[i] = handles[i]
      BY <1>2, <3>1
    <3>4. LiveAt(f) = 1 .. Len(handles) /\ LiveAt(f)' = 1 .. Len(handles')
      BY <1>2, <3>1, <3>2, <3>3 DEF LiveAt
    <3>5. /\ \A i \in 1 .. Len(handles) : handles[i] # c
          /\ \A i \in 1 .. Len(handles') : i \in 1 .. Len(handles) \/ i = Len(handles) + 1
          /\ \A i \in 1 .. Len(handles) + 1 : i \in 1 .. Len(handles')
          /\ Len(handles) + 1 \in 1 .. Len(handles') /\ Len(pending) = 0
          /\ \A i \in 1 .. 0 : FALSE
      BY <1>2, <3>1, <3>2, <3>3, InSet
    <3>6. Apart(f)'
      <4>1. \A i, j \in 1 .. Len(handles') : Running(handles'[i]) /\ handles'[i] = handles'[j] => i = j
        BY <2>1, <3>3, <3>4, <3>5 DEF Apart
      <4> QED BY <1>3, <3>1, <3>2, <3>4, <3>5, <4>1 DEF Apart
    <3>7. Placed(F \ {c}, f)'
      <4>1. \A i \in 1 .. Len(handles) : i \in 1 .. Len(handles')
        BY <1>2, <3>3
      <4> QED BY <1>3, <2>1, <3>1, <3>3, <3>4, <3>5, <4>1 DEF Placed
    <3>8. Ahead(U, f)'
      BY <2>5 DEF Ahead
    <3> QED BY <2>2, <3>6, <3>7, <3>8
  <2>6. (handles' = handles /\ pending' = pending) \/ (c \in F /\ Running(c))
    OBVIOUS
  <2> QED BY <2>3, <2>4, <2>5, <2>6
<1> QED BY <1>7, <1>9, <1>10, <1>11, <1>12 DEF CoHolds

(* A coroutine returns or raises.                                          *)
LEMMA EndHolds ==
    ASSUME NEW S, NEW F, NEW U, NEW f, CallsOK(S, F, f), CoHolds(S, F, U, f),
           NEW c \in S, status' = [status EXCEPT ![c] = IF Running(c) THEN "complete" ELSE @],
           UNCHANGED <<token, elapsed, triggered, listening, handles, pending, raised, due, visited, waited>>
    PROVE  CoHolds(S \ {c}, F \ {c}, U, f)'
<1>1. /\ CoTypes /\ Known(S, F) /\ Looping(F, U, f) /\ Waits(S)
      /\ ~raised => Apart(f) /\ Placed(F, f) /\ Ahead(U, f) /\ Counted
  BY DEF CoHolds
<1>2. /\ handles \in Seq(Cos) /\ pending \in Seq(Cos) /\ c \in Cos
      /\ ToSet(handles) \subseteq Cos /\ ToSet(pending) \subseteq Cos
      /\ f.read \in Nat /\ f.write \in Nat /\ f.cur \in Cos \cup {None}
      /\ S \subseteq Cos /\ F \subseteq S /\ due \subseteq Cos /\ listening \subseteq Cos
  BY <1>1, InSet DEF CoTypes, CallsOK, UpdateCall
<1>3. /\ \A d \in Cos : Running(d)' <=> Running(d) /\ d # c
      /\ \A d \in Cos : (status'[d] = "new") <=> (status[d] = "new")
  BY <1>1, <1>2 DEF Running, CoTypes
<1>4. CoTypes'
  BY <1>1, <1>2 DEF CoTypes
<1>5. Known(S \ {c}, F \ {c})'
  BY <1>1, <1>2, <1>3 DEF Known
<1>6. Looping(F \ {c}, U, f)'
  BY <1>1, <1>2, <1>3 DEF Looping
<1>7. Waits(S \ {c})'
  BY <1>1, <1>2, <1>3 DEF Waits
<1>8. ASSUME ~raised' PROVE Apart(f)' /\ Placed(F \ {c}, f)' /\ Ahead(U, f)' /\ Counted'
  <2>1. Apart(f) /\ Placed(F, f) /\ Ahead(U, f) /\ Counted
    BY <1>1, <1>8
  <2>2. Apart(f)'
    BY <1>1, <1>2, <1>3, <2>1, ApartLess
  <2>3. Placed(F \ {c}, f)'
    BY <1>3, <2>1 DEF Placed, LiveAt
  <2>4. Ahead(U, f)'
    <3>1. \A i \in f.read + 1 .. Len(handles) : handles[i] \in Cos
      BY <1>2
    <3> QED BY <1>2, <1>3, <2>1, <3>1 DEF Ahead
  <2>5. Counted'
    BY <1>3, <2>1 DEF Counted
  <2> QED BY <2>2, <2>3, <2>4, <2>5
<1> QED BY <1>4, <1>5, <1>6, <1>7, <1>8 DEF CoHolds

(* update() begins, with handles to look at or without.                    *)
LEMMA BeginHolds ==
    ASSUME NEW f, f = [kind |-> "update", read |-> 0, write |-> 0, cur |-> None],
           CoHolds({}, {}, FALSE, f), NEW U \in BOOLEAN,
           IF handles = <<>> THEN handles' = pending /\ pending' = <<>> /\ U = FALSE
                             ELSE UNCHANGED <<handles, pending>> /\ U = TRUE,
           due' = {c \in ToSet(handles) : Running(c)},
           waited' = [c \in Cos |-> IF token[c] \in Timed /\ waited[c] < MaxWaited
                                   THEN waited[c] + 1 ELSE waited[c]],
           UNCHANGED <<status, token, elapsed, triggered, listening, raised, visited>>
    PROVE  CoHolds({}, {}, U, f)'
<1>1. /\ CoTypes /\ Known({}, {}) /\ Looping({}, FALSE, f) /\ Waits({})
      /\ ~raised => Apart(f) /\ Placed({}, f) /\ Ahead(FALSE, f) /\ Counted
      /\ f.cur = None /\ f.read = 0 /\ f.write = 0
  BY DEF CoHolds
<1>2. /\ pending = <<>> /\ due = {} /\ visited = {} /\ handles' = handles /\ pending' = pending
      /\ handles \in Seq(Cos) /\ Len(handles) \in Nat /\ ToSet(handles) \subseteq Cos
      /\ \A i \in 1 .. Len(handles) : handles[i] \in ToSet(handles)
  BY <1>1, InSet DEF Looping, CoTypes
<1>3. /\ \A d : Running(d)' <=> Running(d)
      /\ \A d \in Cos : waited[d] \in Nat /\ waited'[d] \in Nat
      /\ \A d \in Cos : token[d] \notin Timed => waited'[d] = waited[d]
      /\ \A d \in Cos : token[d] \in Timed /\ waited[d] < MaxWaited => waited'[d] = waited[d] + 1
  BY <1>1 DEF CoTypes, Running
<1>4. CoTypes'
  BY <1>1, <1>2, <1>3 DEF CoTypes
<1>5. Known({}, {})' /\ Looping({}, U, f)'
  <2>1. handles = <<>> => ToSet(handles) = {}
    BY NoElements DEF ToSet
  <2> QED BY <1>1, <1>2, <2>1 DEF Known, Looping
<1>6. Waits({})'
  <2>1. None \notin Timed
    BY NoneAssumption DEF Timed, WaitTokens, Pause
  <2> QED BY <1>1, <1>3, <2>1 DEF Waits
<1>7. ASSUME ~raised' PROVE Apart(f)' /\ Placed({}, f)' /\ Ahead(U, f)' /\ Counted'
  <2>1. Apart(f) /\ Placed({}, f) /\ Counted /\ LiveAt(f) = 1 .. Len(handles)
    BY <1>1, <1>2, <1>7 DEF LiveAt
  <2>2. \A c \in Cos : Running(c) => c \in ToSet(handles) /\ \E i \in 1 .. Len(handles) : handles[i] = c
    BY <1>1, <1>2, <2>1, NoElements, NoneAssumption DEF Placed, ToSet
  <2>3. Apart(f)'
    BY <1>1, <1>2, <1>3, <2>1, ApartLess
  <2>4. Placed({}, f)'
    BY <1>2, <1>3, <2>1 DEF Placed, LiveAt
  <2>5. Ahead(U, f)'
    <3>1. f.read + 1 = 1
      BY <1>1
    <3> QED BY <1>2, <1>3, <2>2, <3>1 DEF Ahead
  <2>6. Counted'
    <3> SUFFICES ASSUME NEW c \in Cos, Running(c), token[c] \in Timed
                 PROVE  /\ waited'[c] = elapsed[c] + 1
                        /\ token[c].kind = "pause" => elapsed[c] = 0
                        /\ token[c].kind = "sleep" => elapsed[c] = 0 \/ elapsed[c] < token[c].seconds
      BY <1>2, <1>3, <2>2 DEF Counted
    <3>1. /\ waited[c] = elapsed[c]
          /\ token[c].kind = "pause" => elapsed[c] = 0
          /\ token[c].kind = "sleep" => elapsed[c] = 0 \/ elapsed[c] < token[c].seconds
      BY <1>2, <2>1 DEF Counted
    <3>2. token[c].kind = "pause" \/ (token[c].kind = "sleep" /\ token[c].seconds \in Sleeps)
      BY DEF Timed, Pause
    <3>3. waited[c] < MaxWaited
      <4>1. elapsed[c] \in Nat
        BY <1>1 DEF CoTypes
      <4> QED BY <3>1, <3>2, <4>1, SleepsAssumption
    <3> QED BY <1>3, <3>1, <3>3
  <2> QED BY <2>3, <2>4, <2>5, <2>6
<1> QED BY <1>4, <1>5, <1>6, <1>7 DEF CoHolds

(* update() passes over a handle that has stopped.                         *)
LEMMA SkipHolds ==
    ASSUME NEW f \in UpdateCall, NEW g \in UpdateCall, CoHolds({}, {}, TRUE, f),
           f.cur = None, f.read < Len(handles), ~Running(handles[f.read + 1]),
           g.read = f.read + 1, g.write = f.write, g.cur = None,
           UNCHANGED <<status, token, elapsed, triggered, listening, handles, pending, raised, due, visited, waited>>
    PROVE  CoHolds({}, {}, TRUE, g)'
<1>1. /\ CoTypes /\ Known({}, {}) /\ Looping({}, TRUE, f) /\ Waits({})
      /\ ~raised => Apart(f) /\ Placed({}, f) /\ Ahead(TRUE, f) /\ Counted
  BY DEF CoHolds
<1>2. f.read \in Nat /\ f.write \in Nat /\ Len(handles) \in Nat /\ handles # <<>>
  <2>1. handles \in Seq(Cos) /\ f.read \in Nat /\ f.write \in Nat
    BY <1>1 DEF CoTypes, UpdateCall
  <2> QED BY <2>1
<1>3. \A d : Running(d)' <=> Running(d)
  BY DEF Running
<1>4. CoTypes' /\ Known({}, {})' /\ Waits({})'
  BY <1>1, <1>3 DEF CoTypes, Known, Waits
<1>5. Looping({}, TRUE, g)'
  BY <1>1, <1>2 DEF Looping
<1>6. ASSUME ~raised' PROVE Apart(g)' /\ Placed({}, g)' /\ Ahead(TRUE, g)' /\ Counted'
  <2>1. Apart(f) /\ Placed({}, f) /\ Ahead(TRUE, f) /\ Counted
    BY <1>1, <1>6
  <2>2. /\ LiveAt(g)' \subseteq LiveAt(f)
        /\ \A i \in LiveAt(f) : i \in LiveAt(g)' \/ i = f.read + 1
    BY <1>2 DEF LiveAt
  <2>3. Apart(g)'
    BY <1>3, <2>1, <2>2 DEF Apart
  <2>4. Placed({}, g)'
    BY <1>3, <2>1, <2>2 DEF Placed
  <2>5. Ahead(TRUE, g)'
    <3>1. \A i \in 1 .. Len(handles) : i \in f.read + 1 .. Len(handles) <=> i = f.read + 1 \/ i \in g.read + 1 .. Len(handles)
      BY <1>2
    <3>2. \A i \in f.read + 1 .. Len(handles) : i \in 1 .. Len(handles)
      BY <1>2
    <3>3. \A i \in g.read + 1 .. Len(handles) : i \in f.read + 1 .. Len(handles)
      BY <1>2
    <3> QED BY <1>3, <2>1, <3>1, <3>2, <3>3 DEF Ahead
  <2>6. Counted'
    BY <1>3, <2>1 DEF Counted
  <2> QED BY <2>3, <2>4, <2>5, <2>6
<1> QED BY <1>4, <1>5, <1>6 DEF CoHolds

(* update() resumes the coroutine it looks at.                             *)
LEMMA ResumeHolds ==
    ASSUME NEW f \in UpdateCall, NEW g \in UpdateCall, CoHolds({}, {}, TRUE, f),
           f.cur = None, f.read < Len(handles), NEW c, c = handles[f.read + 1], Running(c),
           g.read = f.read + 1, g.write = f.write, g.cur = c,
           CleanupWait({c}), visited' = visited \cup {c}, waited' = [waited EXCEPT ![c] = 0],
           UNCHANGED <<status, handles, pending, raised, due>>
    PROVE  c \in Cos /\ CoHolds({c}, {}, TRUE, g)'
<1>1. /\ CoTypes /\ Known({}, {}) /\ Looping({}, TRUE, f) /\ Waits({})
      /\ ~raised => Apart(f) /\ Placed({}, f) /\ Ahead(TRUE, f) /\ Counted
  BY DEF CoHolds
<1>2. /\ f.read \in Nat /\ f.write \in Nat /\ handles \in Seq(Cos) /\ Len(handles) \in Nat
      /\ handles # <<>> /\ f.read + 1 \in 1 .. Len(handles) /\ c \in Cos /\ c \in ToSet(handles)
      /\ c # None
  <2>1. handles \in Seq(Cos) /\ f.read \in Nat /\ f.write \in Nat
    BY <1>1 DEF CoTypes, UpdateCall
  <2>2. f.read + 1 \in 1 .. Len(handles)
    BY <2>1
  <2>3. c \in Cos /\ c \in ToSet(handles)
    BY <2>1, <2>2, InSet
  <2> QED BY <2>1, <2>2, <2>3, NoneAssumption
<1>3. /\ \A d : Running(d)' <=> Running(d)
      /\ token'[c] = None /\ waited'[c] = 0 /\ c \notin listening' /\ listening' \subseteq listening
      /\ \A d \in Cos \ {c} : token'[d] = token[d] /\ elapsed'[d] = elapsed[d] /\ waited'[d] = waited[d]
  BY <1>1, <1>2 DEF Running, CleanupWait, ListeningNoMore, CoTypes
<1>4. CoTypes'
  <2>1. /\ token' \in [Cos -> WaitTokens \cup {None}] /\ elapsed' \in [Cos -> Nat]
        /\ triggered' \in [Cos -> BOOLEAN] /\ listening' \subseteq Cos
    BY <1>1 DEF CleanupWait, ListeningNoMore, CoTypes
  <2> QED BY <1>1, <1>2, <2>1 DEF CoTypes
<1>5. Known({c}, {})'
  BY <1>1, <1>2 DEF Known
<1>6. Looping({}, TRUE, g)'
  <2>1. f.write <= f.read
    BY <1>1, <1>2 DEF Looping
  <2>2. g.write < g.read /\ g.read <= Len(handles) /\ handles[g.read] = c
    BY <1>2, <2>1
  <2>3. status[c] # "new"
    BY <1>1, <1>2 DEF Known
  <2>4. g.write <= g.read
    BY <1>2, <2>1
  <2> QED BY <1>1, <2>2, <2>3, <2>4 DEF Looping
<1>7. Waits({c})'
  <2>1. status[c] # "new" /\ listening \subseteq Cos
    BY <1>1, <1>2 DEF Known, CoTypes
  <2> QED BY <1>1, <1>2, <1>3, <2>1 DEF Waits
<1>8. ASSUME ~raised' PROVE Apart(g)' /\ Placed({}, g)' /\ Ahead(TRUE, g)' /\ Counted'
  <2>1. Apart(f) /\ Placed({}, f) /\ Ahead(TRUE, f) /\ Counted
    BY <1>1, <1>8
  <2>2. /\ LiveAt(g)' \subseteq LiveAt(f) /\ f.read + 1 \in LiveAt(f) /\ f.read + 1 \notin LiveAt(g)'
        /\ \A i \in LiveAt(f) : i \in LiveAt(g)' \/ i = f.read + 1
    <3>1. f.write <= f.read
      BY <1>1, <1>2 DEF Looping
    <3> QED BY <1>2, <3>1 DEF LiveAt
  <2>3. Apart(g)'
    <3>1. \A i \in LiveAt(g)' : handles[i] # c
      BY <2>1, <2>2 DEF Apart
    <3>2. c \notin ToSet(pending)
      <4>1. \A j \in 1 .. Len(pending) : pending[j] # c
        BY <2>1, <2>2 DEF Apart
      <4> QED BY <1>1, <4>1, InSet DEF CoTypes
    <3> QED BY <1>3, <2>1, <2>2, <3>1, <3>2 DEF Apart
  <2>4. Placed({}, g)'
    BY <1>3, <2>1, <2>2, NoneAssumption DEF Placed
  <2>5. Ahead(TRUE, g)'
    <3>1. \A i \in g.read + 1 .. Len(handles) : i \in f.read + 1 .. Len(handles) /\ i # f.read + 1 /\ i \in LiveAt(f)
      BY <1>2 DEF LiveAt
    <3>2. \A i \in f.read + 1 .. Len(handles) : i = f.read + 1 \/ i \in g.read + 1 .. Len(handles)
      BY <1>2
    <3>3. \A i \in g.read + 1 .. Len(handles) : Running(handles[i]) => handles[i] # c
      BY <2>1, <2>2, <3>1 DEF Apart
    <3>4. \A i \in g.read + 1 .. Len(handles) : Running(handles[i]) => handles[i] \in due \ (visited \cup {c})
      BY <2>1, <3>1, <3>3 DEF Ahead
    <3>5. \A d \in due \ (visited \cup {c}) : Running(d) => \E i \in g.read + 1 .. Len(handles) : handles[i] = d
      BY <2>1, <3>2 DEF Ahead
    <3> QED BY <1>3, <3>4, <3>5 DEF Ahead
  <2>6. Counted'
    <3>1. None \notin Timed
      BY NoneAssumption DEF Timed, WaitTokens, Pause
    <3> QED BY <1>3, <2>1, <3>1 DEF Counted
  <2> QED BY <2>3, <2>4, <2>5, <2>6
<1> QED BY <1>2, <1>4, <1>5, <1>6, <1>7, <1>8 DEF CoHolds

(* The handle of c is kept at the next position of the compaction; what    *)
(* that makes of the list.                                                 *)
Keeping(f, g, c) ==
    /\ f.write < g.read /\ g.read <= Len(handles) /\ f.write <= f.read /\ f.read <= g.read
    /\ g.write = f.write + 1 /\ g.cur = None
    /\ handles' = [handles EXCEPT ![f.write + 1] = c]

Compacted(f, g, c) ==
    /\ handles' \in Seq(Cos) /\ Len(handles') = Len(handles) /\ Len(handles) \in Nat
    /\ f.write + 1 \in 1 .. Len(handles) /\ f.write \in Nat /\ f.read \in Nat /\ g.read \in Nat
    /\ \A i \in 1 .. Len(handles) : handles'[i] = IF i = f.write + 1 THEN c ELSE handles[i]
    /\ ToSet(handles') \subseteq ToSet(handles) \cup {c}
    /\ LiveAt(g)' \subseteq {f.write + 1} \cup LiveAt(f) /\ f.write + 1 \in LiveAt(g)'
    /\ \A i \in LiveAt(f) : i \in LiveAt(g)' \/ i \in f.read + 1 .. g.read
    /\ \A i \in LiveAt(g)' : i # f.write + 1 => i \notin f.read + 1 .. g.read
    /\ g.write <= g.read

LEMMA KeepingParts ==
    ASSUME NEW f \in UpdateCall, NEW g \in UpdateCall, NEW c \in Cos, handles \in Seq(Cos), Keeping(f, g, c)
    PROVE  Compacted(f, g, c)
<1>1. /\ f.write \in Nat /\ f.read \in Nat /\ g.read \in Nat /\ g.write \in Nat
      /\ handles' = [handles EXCEPT ![f.write + 1] = c]
      /\ f.write < g.read /\ g.read <= Len(handles) /\ f.read <= g.read /\ f.write <= f.read /\ g.write = f.write + 1
  BY DEF Keeping, UpdateCall
<1>2. /\ handles' \in Seq(Cos) /\ Len(handles') = Len(handles) /\ Len(handles) \in Nat
      /\ f.write + 1 \in 1 .. Len(handles)
      /\ \A i \in 1 .. Len(handles) : handles'[i] = IF i = f.write + 1 THEN c ELSE handles[i]
  BY <1>1
<1>3. ToSet(handles') \subseteq ToSet(handles) \cup {c}
  BY <1>2, InSet
<1>4. /\ LiveAt(g)' \subseteq {f.write + 1} \cup LiveAt(f) /\ f.write + 1 \in LiveAt(g)'
      /\ \A i \in LiveAt(f) : i \in LiveAt(g)' \/ i \in f.read + 1 .. g.read
      /\ g.write <= g.read
  BY <1>1, <1>2 DEF LiveAt
<1>5. \A i \in LiveAt(g)' : i # f.write + 1 => i \notin f.read + 1 .. g.read
  BY <1>1, <1>2 DEF LiveAt
<1> QED BY <1>1, <1>2, <1>3, <1>4, <1>5 DEF Compacted

(* update() looks at a coroutine that waits on.                            *)
LEMMA WaitHolds ==
    ASSUME NEW f \in UpdateCall, NEW g \in UpdateCall, CoHolds({}, {}, TRUE, f),
           f.cur = None, f.read < Len(handles), NEW c, c = handles[f.read + 1], Running(c),
           g.read = f.read + 1, g.write = f.write + 1, g.cur = None,
           handles' = [handles EXCEPT ![f.write + 1] = c],
           \E holds \in BOOLEAN : ~Over(c, holds),
           elapsed' = [elapsed EXCEPT ![c] = IF token[c].kind = "sleep" THEN @ + 1 ELSE @],
           visited' = visited \cup {c},
           UNCHANGED <<status, token, triggered, listening, pending, raised, due, waited>>
    PROVE  CoHolds({}, {}, TRUE, g)'
<1>1. /\ CoTypes /\ Known({}, {}) /\ Looping({}, TRUE, f) /\ Waits({})
      /\ ~raised => Apart(f) /\ Placed({}, f) /\ Ahead(TRUE, f) /\ Counted
  BY DEF CoHolds
<1>2. /\ f.read \in Nat /\ f.write \in Nat /\ handles \in Seq(Cos) /\ Len(handles) \in Nat
      /\ handles # <<>> /\ f.read + 1 \in 1 .. Len(handles) /\ c \in Cos /\ c \in ToSet(handles)
      /\ c # None /\ f.write <= f.read
  <2>1. handles \in Seq(Cos) /\ f.read \in Nat /\ f.write \in Nat
    BY <1>1 DEF CoTypes, UpdateCall
  <2>2. f.read + 1 \in 1 .. Len(handles) /\ handles # <<>>
    BY <2>1
  <2>3. c \in Cos /\ c \in ToSet(handles)
    BY <2>1, <2>2, InSet
  <2> QED BY <1>1, <2>1, <2>2, <2>3, NoneAssumption DEF Looping
<1>3. Keeping(f, g, c)
  BY <1>2 DEF Keeping
<1>4. /\ handles' \in Seq(Cos) /\ Len(handles') = Len(handles)
      /\ f.write + 1 \in 1 .. Len(handles)
      /\ \A i \in 1 .. Len(handles) : handles'[i] = IF i = f.write + 1 THEN c ELSE handles[i]
      /\ ToSet(handles') \subseteq ToSet(handles) \cup {c}
      /\ LiveAt(g)' \subseteq {f.write + 1} \cup LiveAt(f) /\ f.write + 1 \in LiveAt(g)'
      /\ \A i \in LiveAt(f) : i \in LiveAt(g)' \/ i \in f.read + 1 .. g.read
      /\ \A i \in LiveAt(g)' : i # f.write + 1 => i \notin f.read + 1 .. g.read
      /\ g.write <= g.read
  <2>1. c \in Cos /\ handles \in Seq(Cos)
    BY <1>2
  <2>2. Compacted(f, g, c)
    BY <1>3, <2>1, KeepingParts
  <2> QED BY <2>2 DEF Compacted
<1>5. /\ \A d : Running(d)' <=> Running(d)
      /\ \A d \in Cos \ {c} : elapsed'[d] = elapsed[d]
      /\ elapsed'[c] = IF token[c].kind = "sleep" THEN elapsed[c] + 1 ELSE elapsed[c]
      /\ \A d \in Cos : elapsed[d] \in Nat
  BY <1>1, <1>2 DEF Running, CoTypes
<1>6. CoTypes'
  <2>1. elapsed' \in [Cos -> Nat]
    <3> DEFINE n == IF token[c].kind = "sleep" THEN elapsed[c] + 1 ELSE elapsed[c]
    <3>1. elapsed' = [elapsed EXCEPT ![c] = n] /\ elapsed \in [Cos -> Nat]
      BY <1>1 DEF CoTypes
    <3>2. n \in Nat
      BY <1>2, <3>1
    <3> HIDE DEF n
    <3> QED BY <3>1, <3>2
  <2> QED BY <1>1, <1>2, <1>4, <2>1 DEF CoTypes
<1>7. Known({}, {})' /\ Looping({}, TRUE, g)' /\ Waits({})'
  <2>1. Known({}, {})'
    BY <1>1, <1>2, <1>4 DEF Known
  <2>2. Looping({}, TRUE, g)'
    BY <1>2, <1>4 DEF Looping
  <2>3. Waits({})'
    BY <1>1, <1>5 DEF Waits
  <2> QED BY <2>1, <2>2, <2>3
<1>8. ASSUME ~raised' PROVE Apart(g)' /\ Placed({}, g)' /\ Ahead(TRUE, g)' /\ Counted'
  <2>1. Apart(f) /\ Placed({}, f) /\ Ahead(TRUE, f) /\ Counted
    BY <1>1, <1>8
  <2>2. f.read + 1 \in LiveAt(f) /\ (\A i \in f.read + 1 .. g.read : i = f.read + 1)
        /\ f.read + 1 \in f.read + 1 .. g.read /\ \A i \in LiveAt(f) : i \in 1 .. Len(handles)
    BY <1>2 DEF LiveAt
  <2>3. /\ \A i \in LiveAt(f) : handles[i] = c => i = f.read + 1
        /\ \A j \in 1 .. Len(pending) : pending[j] # c
    BY <2>1, <2>2 DEF Apart
  <2>4. \A i \in LiveAt(g)' : \/ i = f.write + 1 /\ handles'[i] = c
                              \/ /\ i # f.write + 1 /\ i \in LiveAt(f)
                                 /\ handles'[i] = handles[i] /\ handles[i] # c
    BY <1>4, <2>2, <2>3
  <2>5. Apart(g)'
    <3>1. \A i, j \in LiveAt(g)' : Running(handles'[i]) /\ handles'[i] = handles'[j] => i = j
      BY <2>1, <2>4 DEF Apart
    <3>2. \A i \in LiveAt(g)', j \in 1 .. Len(pending) : Running(handles'[i]) => handles'[i] # pending[j]
      BY <2>1, <2>3, <2>4 DEF Apart
    <3> QED BY <1>5, <2>1, <3>1, <3>2 DEF Apart
  <2>6. Placed({}, g)'
    <3>1. ASSUME NEW d \in Cos, Running(d), d \notin ToSet(pending)
          PROVE  \E i \in LiveAt(g)' : handles'[i] = d
      <4>1. CASE d = c
        BY <1>4, <4>1
      <4>2. CASE d # c
        <5>1. PICK i \in LiveAt(f) : handles[i] = d
          BY <2>1, <3>1, NoneAssumption DEF Placed
        <5>2. i \in LiveAt(g)'
          BY <1>4, <2>2, <4>2, <5>1
        <5>3. i # f.write + 1
          <6>1. i = f.write + 1 => i \notin LiveAt(f) \/ i = f.read + 1
            BY <1>2 DEF LiveAt
          <6> QED BY <4>2, <5>1, <6>1
        <5> QED BY <1>4, <2>2, <5>1, <5>2, <5>3
      <4> QED BY <4>1, <4>2
    <3> QED BY <1>5, <3>1 DEF Placed
  <2>7. Ahead(TRUE, g)'
    <3>1. \A i \in g.read + 1 .. Len(handles) : /\ i \in f.read + 1 .. Len(handles) /\ i \in LiveAt(f)
                                               /\ i \in LiveAt(g)' /\ i # f.write + 1
      BY <1>2, <1>4 DEF LiveAt
    <3>2. \A i \in f.read + 1 .. Len(handles) : i = f.read + 1 \/ i \in g.read + 1 .. Len(handles)
      BY <1>2
    <3>3. \A i \in g.read + 1 .. Len(handles) : handles'[i] = handles[i] /\ handles[i] # c
      BY <2>4, <3>1
    <3>4. \A i \in g.read + 1 .. Len(handles) : Running(handles[i]) => handles[i] \in due \ (visited \cup {c})
      BY <2>1, <3>1, <3>3 DEF Ahead
    <3>5. \A d \in due \ (visited \cup {c}) : Running(d) => \E i \in g.read + 1 .. Len(handles) : handles[i] = d
      BY <2>1, <3>2 DEF Ahead
    <3> QED BY <1>4, <1>5, <3>3, <3>4, <3>5 DEF Ahead
  <2>8. Counted'
    <3>1. c \in due \ visited
      <4>1. f.read + 1 \in f.read + 1 .. Len(handles)
        BY <1>2
      <4> QED BY <2>1, <4>1 DEF Ahead
    <3>2. ASSUME token[c] \in Timed
          PROVE  /\ waited[c] = elapsed'[c] /\ token[c].kind # "pause"
                 /\ token[c].kind = "sleep" => elapsed'[c] < token[c].seconds
      <4>1. token[c].kind # "pause"
        BY <3>2, NoneAssumption DEF Over, Timed, WaitTokens, Pause
      <4>2. token[c].kind = "sleep" /\ token[c].seconds \in Sleeps
        BY <3>2, <4>1 DEF Timed, Pause
      <4>3. token[c] # None
        BY <3>2, NoneAssumption DEF Timed, WaitTokens, Pause
      <4>4. ~(elapsed[c] + 1 >= token[c].seconds)
        BY <4>2, <4>3 DEF Over
      <4>5. token[c].seconds \in Nat /\ elapsed[c] \in Nat
        BY <1>2, <1>5, <4>2, SleepsAssumption
      <4>6. waited[c] = elapsed[c] + 1
        BY <1>2, <2>1, <3>1, <3>2 DEF Counted
      <4> QED BY <1>5, <4>2, <4>4, <4>5, <4>6
    <3>3. \A d \in Cos \ {c} : d \in due \ (visited \cup {c}) <=> d \in due \ visited
      OBVIOUS
    <3> SUFFICES ASSUME NEW d \in Cos, Running(d), token[d] \in Timed
                 PROVE  /\ waited[d] = IF d \in due \ (visited \cup {c}) THEN elapsed'[d] + 1 ELSE elapsed'[d]
                        /\ token[d].kind = "pause" => elapsed'[d] = 0
                        /\ token[d].kind = "sleep" => elapsed'[d] = 0 \/ elapsed'[d] < token[d].seconds
      BY <1>5 DEF Counted
    <3>4. CASE d = c
      BY <3>2, <3>4
    <3>5. CASE d # c
      BY <1>5, <2>1, <3>3, <3>5 DEF Counted
    <3> QED BY <3>4, <3>5
  <2> QED BY <2>5, <2>6, <2>7, <2>8
<1> QED BY <1>6, <1>7, <1>8 DEF CoHolds

(* The handle that was stepped is kept if it still runs.                   *)
LEMMA KeepHolds ==
    ASSUME NEW f \in UpdateCall, NEW g \in UpdateCall, CoHolds({}, {}, TRUE, f),
           f.cur # None, g.read = f.read, g.cur = None,
           IF Running(f.cur) THEN g.write = f.write + 1 /\ handles' = [handles EXCEPT ![f.write + 1] = f.cur]
                             ELSE g.write = f.write /\ handles' = handles,
           UNCHANGED <<status, token, elapsed, triggered, listening, pending, raised, due, visited, waited>>
    PROVE  CoHolds({}, {}, TRUE, g)'
<1> DEFINE c == f.cur
<1>1. /\ CoTypes /\ Known({}, {}) /\ Looping({}, TRUE, f) /\ Waits({})
      /\ ~raised => Apart(f) /\ Placed({}, f) /\ Ahead(TRUE, f) /\ Counted
  BY DEF CoHolds
<1>2. /\ f.read \in Nat /\ f.write \in Nat /\ handles \in Seq(Cos) /\ Len(handles) \in Nat /\ c \in Cos
      /\ status[c] # "new"
      /\ \A d : Running(d)' <=> Running(d)
  BY <1>1 DEF UpdateCall, CoTypes, Looping, Running
<1>3. CASE ~Running(c)
  <2>1. g.write = f.write /\ handles' = handles
    BY <1>3
  <2>2. LiveAt(g)' = LiveAt(f)
    BY <2>1 DEF LiveAt
  <2>3. CoTypes' /\ Known({}, {})' /\ Waits({})'
    BY <1>1, <1>2, <2>1 DEF CoTypes, Known, Waits
  <2>4. Looping({}, TRUE, g)'
    BY <1>1, <2>1 DEF Looping
  <2>5. ASSUME ~raised' PROVE Apart(g)' /\ Placed({}, g)' /\ Ahead(TRUE, g)' /\ Counted'
    <3>1. Apart(f) /\ Placed({}, f) /\ Ahead(TRUE, f) /\ Counted
      BY <1>1, <2>5
    <3>2. Apart(g)'
      BY <1>2, <2>1, <2>2, <3>1 DEF Apart
    <3>3. Placed({}, g)'
      BY <1>2, <1>3, <2>1, <2>2, <3>1 DEF Placed
    <3>4. Ahead(TRUE, g)' /\ Counted'
      BY <1>2, <2>1, <3>1 DEF Ahead, Counted
    <3> QED BY <3>2, <3>3, <3>4
  <2> QED BY <2>3, <2>4, <2>5 DEF CoHolds
<1>4. CASE Running(c)
  <2>1. f.write < f.read /\ f.read <= Len(handles) /\ f.write <= f.read
    BY <1>1, <1>2, <1>4 DEF Looping
  <2>2. Keeping(f, g, c)
    BY <1>2, <1>4, <2>1 DEF Keeping
  <2>3. /\ handles' \in Seq(Cos) /\ Len(handles') = Len(handles)
        /\ f.write + 1 \in 1 .. Len(handles)
        /\ \A i \in 1 .. Len(handles) : handles'[i] = IF i = f.write + 1 THEN c ELSE handles[i]
        /\ ToSet(handles') \subseteq ToSet(handles) \cup {c}
        /\ LiveAt(g)' \subseteq {f.write + 1} \cup LiveAt(f) /\ f.write + 1 \in LiveAt(g)'
        /\ \A i \in LiveAt(f) : i \in LiveAt(g)' \/ i \in f.read + 1 .. g.read
        /\ g.write <= g.read
    <3>1. c \in Cos /\ handles \in Seq(Cos)
      BY <1>2
    <3> HIDE DEF c
    <3>2. Compacted(f, g, c)
      BY <2>2, <3>1, KeepingParts
    <3> QED BY <3>2 DEF Compacted
  <2>4. CoTypes' /\ Known({}, {})' /\ Waits({})'
    BY <1>1, <1>2, <2>3 DEF CoTypes, Known, Waits
  <2>5. Looping({}, TRUE, g)'
    BY <1>1, <2>1, <2>3 DEF Looping
  <2>6. ASSUME ~raised' PROVE Apart(g)' /\ Placed({}, g)' /\ Ahead(TRUE, g)' /\ Counted'
    <3>1. Apart(f) /\ Placed({}, f) /\ Ahead(TRUE, f) /\ Counted
      BY <1>1, <2>6
    <3>2. (\A i \in f.read + 1 .. g.read : FALSE) /\ f.write + 1 \notin LiveAt(f)
      BY <1>2, <2>1 DEF LiveAt
    <3>3. \A i \in LiveAt(f) : handles[i] # c /\ i \in LiveAt(g)' /\ handles'[i] = handles[i]
      BY <1>4, <2>3, <3>1, <3>2 DEF Apart, LiveAt
    <3>4. \A i \in LiveAt(g)' : \/ i = f.write + 1 /\ handles'[i] = c
                                \/ i # f.write + 1 /\ i \in LiveAt(f)
      BY <2>3
    <3>5. \A j \in 1 .. Len(pending) : pending[j] # c
      BY <1>1, <1>4, <3>1, InSet DEF Apart, CoTypes
    <3>6. Apart(g)'
      <4>1. \A i, j \in LiveAt(g)' : Running(handles'[i]) /\ handles'[i] = handles'[j] => i = j
        BY <3>1, <3>3, <3>4 DEF Apart
      <4>2. \A i \in LiveAt(g)', j \in 1 .. Len(pending) : Running(handles'[i]) => handles'[i] # pending[j]
        BY <3>1, <3>3, <3>4, <3>5 DEF Apart
      <4> QED BY <1>2, <3>1, <4>1, <4>2 DEF Apart
    <3>7. Placed({}, g)'
      BY <1>2, <2>3, <3>1, <3>3, <3>4 DEF Placed
    <3>8. Ahead(TRUE, g)'
      <4>1. \A i \in f.read + 1 .. Len(handles) : i \in 1 .. Len(handles) /\ i # f.write + 1
        BY <1>2, <2>1
      <4> QED BY <1>2, <2>3, <3>1, <4>1 DEF Ahead
    <3>9. Counted'
      BY <1>2, <3>1 DEF Counted
    <3> QED BY <3>6, <3>7, <3>8, <3>9
  <2> QED BY <2>4, <2>5, <2>6 DEF CoHolds
<1> QED BY <1>3, <1>4

(* The handles of two lists, one after the other.                          *)
LEMMA Joined ==
    ASSUME NEW X, NEW s \in Seq(X), NEW t \in Seq(X)
    PROVE  /\ s \o t \in Seq(X) /\ Len(s \o t) = Len(s) + Len(t) /\ Len(s) \in Nat /\ Len(t) \in Nat
           /\ \A i \in 1 .. Len(s) : (s \o t)[i] = s[i] /\ i \in 1 .. Len(s \o t)
           /\ \A i \in 1 .. Len(t) : (s \o t)[Len(s) + i] = t[i] /\ Len(s) + i \in 1 .. Len(s \o t)
           /\ \A i \in 1 .. Len(s \o t) : i \in 1 .. Len(s) \/ (i - Len(s) \in 1 .. Len(t) /\ Len(s) + (i - Len(s)) = i)
           /\ ToSet(s \o t) = ToSet(s) \cup ToSet(t)
<1> DEFINE r == s \o t
<1>1. /\ r \in Seq(X) /\ Len(r) = Len(s) + Len(t) /\ Len(s) \in Nat /\ Len(t) \in Nat
      /\ \A i \in 1 .. Len(s) : r[i] = s[i]
      /\ \A i \in 1 .. Len(t) : r[Len(s) + i] = t[i]
  OBVIOUS
<1> HIDE DEF r
<1>2. /\ \A i \in 1 .. Len(s) : i \in 1 .. Len(r)
      /\ \A i \in 1 .. Len(t) : Len(s) + i \in 1 .. Len(r)
      /\ \A i \in 1 .. Len(r) : i \in 1 .. Len(s) \/ (i - Len(s) \in 1 .. Len(t) /\ Len(s) + (i - Len(s)) = i)
  BY <1>1
<1>3. ToSet(r) = ToSet(s) \cup ToSet(t)
  <2>1. ToSet(s) \subseteq ToSet(r) /\ ToSet(t) \subseteq ToSet(r)
    <3>1. \A i \in 1 .. Len(s) : s[i] \in ToSet(r)
      BY <1>1, <1>2, InSet
    <3>2. \A i \in 1 .. Len(t) : t[i] \in ToSet(r)
      <4>1. \A i \in 1 .. Len(r) : r[i] \in ToSet(r)
        BY <1>1, InSet
      <4>2. \A i \in 1 .. Len(t) : r[Len(s) + i] \in ToSet(r)
        BY <1>2, <4>1
      <4> QED BY <1>1, <4>2
    <3>3. (\A x \in ToSet(s) : \E i \in 1 .. Len(s) : s[i] = x) /\ (\A x \in ToSet(t) : \E i \in 1 .. Len(t) : t[i] = x)
      BY InSet
    <3> QED BY <3>1, <3>2, <3>3
  <2>2. ASSUME NEW i \in 1 .. Len(r) PROVE r[i] \in ToSet(s) \cup ToSet(t)
    <3>1. CASE i \in 1 .. Len(s)
      BY <1>1, <3>1, InSet
    <3>2. CASE i \notin 1 .. Len(s)
      <4> DEFINE j == i - Len(s)
      <4>1. j \in 1 .. Len(t) /\ Len(s) + j = i
        BY <1>2, <3>2
      <4> HIDE DEF j
      <4>2. r[i] = t[j]
        BY <1>1, <4>1
      <4> QED BY <4>1, <4>2, InSet
    <3> QED BY <3>1, <3>2
  <2>3. \A x \in ToSet(r) : \E i \in 1 .. Len(r) : r[i] = x
    BY <1>1, InSet
  <2> QED BY <2>1, <2>2, <2>3
<1> QED BY <1>1, <1>2, <1>3 DEF r

(* Coroutines of which none is twice in either list, or in both.           *)
LEMMA ApartJoined ==
    ASSUME NEW s \in Seq(Cos), NEW t \in Seq(Cos),
           \A i, j \in 1 .. Len(s) : Running(s[i]) /\ s[i] = s[j] => i = j,
           \A i, j \in 1 .. Len(t) : Running(t[i]) /\ t[i] = t[j] => i = j,
           \A i \in 1 .. Len(s), j \in 1 .. Len(t) : Running(s[i]) => s[i] # t[j]
    PROVE  \A i, j \in 1 .. Len(s \o t) : Running((s \o t)[i]) /\ (s \o t)[i] = (s \o t)[j] => i = j
<1> DEFINE r == s \o t
<1>1. /\ Len(s) \in Nat
      /\ \A i \in 1 .. Len(s) : r[i] = s[i]
      /\ \A i \in 1 .. Len(t) : r[Len(s) + i] = t[i]
      /\ \A i \in 1 .. Len(r) : i \in 1 .. Len(s) \/ (i - Len(s) \in 1 .. Len(t) /\ Len(s) + (i - Len(s)) = i)
  BY Joined
<1> HIDE DEF r
<1> SUFFICES ASSUME NEW i \in 1 .. Len(r), NEW j \in 1 .. Len(r), Running(r[i]), r[i] = r[j] PROVE i = j
  BY DEF r
<1>2. ASSUME NEW q \in 1 .. Len(r), q \notin 1 .. Len(s)
      PROVE  \E p \in 1 .. Len(t) : Len(s) + p = q /\ r[q] = t[p]
  <2> DEFINE p == q - Len(s)
  <2>1. p \in 1 .. Len(t) /\ Len(s) + p = q
    BY <1>1, <1>2
  <2> HIDE DEF p
  <2> QED BY <1>1, <2>1
<1>3. CASE i \in 1 .. Len(s) /\ j \in 1 .. Len(s)
  BY <1>1, <1>3
<1>4. CASE i \in 1 .. Len(s) /\ j \notin 1 .. Len(s)
  BY <1>1, <1>2, <1>4
<1>5. CASE i \notin 1 .. Len(s) /\ j \in 1 .. Len(s)
  BY <1>1, <1>2, <1>5
<1>6. CASE i \notin 1 .. Len(s) /\ j \notin 1 .. Len(s)
  BY <1>1, <1>2, <1>6
<1> QED BY <1>3, <1>4, <1>5, <1>6

(* What the compaction leaves.                                             *)
LEMMA KeptParts ==
    ASSUME NEW f \in UpdateCall, NEW U, NEW F, CoTypes, Looping(F, U, f)
    PROVE  /\ Kept(f) \in Seq(Cos) /\ Len(Kept(f)) \in Nat
           /\ \A i \in 1 .. Len(Kept(f)) : i \in LiveAt(f) /\ i \in 1 .. Len(handles) /\ Kept(f)[i] = handles[i]
           /\ \A i \in LiveAt(f) : i \in 1 .. Len(Kept(f)) \/ i \in f.read + 1 .. Len(handles)
           /\ \A i \in 1 .. Len(Kept(f)) : i <= f.write
           /\ ToSet(Kept(f)) \subseteq ToSet(handles)
<1> DEFINE n == IF f.write < Len(handles) THEN f.write ELSE Len(handles)
           k == SubSeq(handles, 1, n)
<1>1. handles \in Seq(Cos) /\ Len(handles) \in Nat /\ f.write \in Nat /\ f.read \in Nat
  BY DEF CoTypes, UpdateCall
<1>2. n \in Nat /\ n <= Len(handles) /\ n <= f.write
  BY <1>1
<1>3. Kept(f) = k
  BY DEF Kept
<1>4. k \in Seq(Cos) /\ Len(k) = n /\ \A i \in 1 .. n : k[i] = handles[i] /\ i \in 1 .. Len(handles)
  <2> HIDE DEF n
  <2> QED BY <1>1, <1>2
<1>5. \A i \in LiveAt(f) : i \in 1 .. n \/ i \in f.read + 1 .. Len(handles)
  BY <1>1 DEF LiveAt
<1>6. \A i \in 1 .. n : i \in LiveAt(f)
  BY <1>1 DEF LiveAt
<1> HIDE DEF n, k
<1>7. ToSet(k) \subseteq ToSet(handles)
  BY <1>1, <1>2, <1>4, InSet
<1>8. \A i \in 1 .. n : i <= f.write
  BY <1>1, <1>2
<1> QED BY <1>2, <1>3, <1>4, <1>5, <1>6, <1>7, <1>8

(* update() ends: what was kept is followed by what was started meanwhile. *)
LEMMA UpdateEndHolds ==
    ASSUME NEW f \in UpdateCall, NEW g, g = [kind |-> "update", read |-> 0, write |-> 0, cur |-> None],
           CoHolds({}, {}, TRUE, f), f.cur = None, f.read >= Len(handles),
           handles' = Kept(f) \o pending, pending' = <<>>, due' = {}, visited' = {},
           UNCHANGED <<status, token, elapsed, triggered, listening, raised, waited>>
    PROVE  CoHolds({}, {}, FALSE, g)'
<1> DEFINE k == Kept(f)
           h == k \o pending
<1>1. /\ CoTypes /\ Known({}, {}) /\ Looping({}, TRUE, f) /\ Waits({})
      /\ ~raised => Apart(f) /\ Placed({}, f) /\ Ahead(TRUE, f) /\ Counted
  BY DEF CoHolds
<1>2. /\ handles \in Seq(Cos) /\ pending \in Seq(Cos) /\ f.read \in Nat /\ f.write \in Nat
      /\ \A i \in f.read + 1 .. Len(handles) : FALSE
      /\ \A d : Running(d)' <=> Running(d)
      /\ g.read = 0 /\ g.write = 0 /\ g.cur = None
  BY <1>1 DEF CoTypes, UpdateCall, Running
<1>3. /\ k \in Seq(Cos) /\ Len(k) \in Nat
      /\ \A i \in 1 .. Len(k) : i \in LiveAt(f) /\ i \in 1 .. Len(handles) /\ k[i] = handles[i]
      /\ \A i \in LiveAt(f) : i \in 1 .. Len(k)
      /\ ToSet(k) \subseteq ToSet(handles)
  BY <1>1, <1>2, KeptParts
<1> HIDE DEF k
<1>4. /\ h \in Seq(Cos) /\ Len(h) \in Nat
      /\ \A i \in 1 .. Len(k) : h[i] = k[i] /\ i \in 1 .. Len(h)
      /\ \A i \in 1 .. Len(pending) : h[Len(k) + i] = pending[i] /\ Len(k) + i \in 1 .. Len(h)
      /\ \A i \in 1 .. Len(h) : i \in 1 .. Len(k) \/ (i - Len(k) \in 1 .. Len(pending) /\ Len(k) + (i - Len(k)) = i)
      /\ ToSet(h) = ToSet(k) \cup ToSet(pending)
  BY <1>2, <1>3, Joined
<1>5. handles' = h
  BY DEF k
<1> HIDE DEF h
<1>6. <<>> \in Seq(Cos) /\ ToSet(<<>>) = {} /\ Len(<<>>) = 0 /\ (\A i \in 1 .. 0 : FALSE)
  BY DEF ToSet
<1>7. CoTypes'
  BY <1>1, <1>4, <1>5, <1>6 DEF CoTypes
<1>8. Known({}, {})'
  BY <1>1, <1>3, <1>4, <1>5, <1>6 DEF Known
<1>9. Looping({}, FALSE, g)' /\ Waits({})'
  BY <1>1, <1>2, <1>4, <1>5 DEF Looping, Waits
<1>10. ASSUME ~raised' PROVE Apart(g)' /\ Placed({}, g)' /\ Ahead(FALSE, g)' /\ Counted'
  <2>1. Apart(f) /\ Placed({}, f) /\ Ahead(TRUE, f) /\ Counted
    BY <1>1, <1>10
  <2>2. LiveAt(g)' = 1 .. Len(h)
    BY <1>2, <1>4, <1>5 DEF LiveAt
  <2>3. /\ \A i, j \in 1 .. Len(k) : Running(k[i]) /\ k[i] = k[j] => i = j
        /\ \A i, j \in 1 .. Len(pending) : Running(pending[i]) /\ pending[i] = pending[j] => i = j
        /\ \A i \in 1 .. Len(k), j \in 1 .. Len(pending) : Running(k[i]) => k[i] # pending[j]
    BY <1>3, <2>1 DEF Apart
  <2>4. \A i, j \in 1 .. Len(h) : Running(h[i]) /\ h[i] = h[j] => i = j
    BY <1>2, <1>3, <2>3, ApartJoined DEF h
  <2>5. Apart(g)'
    BY <1>2, <1>5, <1>6, <2>2, <2>4 DEF Apart
  <2>6. Placed({}, g)'
    <3>1. ASSUME NEW c \in Cos, Running(c) PROVE \E i \in 1 .. Len(h) : h[i] = c
      <4>1. CASE c \in ToSet(pending)
        BY <1>2, <1>4, <4>1, InSet
      <4>2. CASE c \notin ToSet(pending)
        <5>1. PICK i \in LiveAt(f) : handles[i] = c
          BY <1>2, <2>1, <3>1, <4>2, NoneAssumption DEF Placed
        <5> QED BY <1>3, <1>4, <5>1
      <4> QED BY <4>1, <4>2
    <3> QED BY <1>2, <1>5, <2>2, <3>1 DEF Placed
  <2>7. Ahead(FALSE, g)'
    BY DEF Ahead
  <2>8. Counted'
    <3>1. \A c \in due \ visited : ~Running(c)
      BY <1>2, <2>1 DEF Ahead
    <3> QED BY <1>2, <2>1, <3>1 DEF Counted
  <2> QED BY <2>5, <2>6, <2>7, <2>8
<1> QED BY <1>7, <1>8, <1>9, <1>10 DEF CoHolds

(* An exception leaves update().                                           *)
LEMMA RaiseHolds ==
    ASSUME NEW f \in UpdateCall, NEW g, g = [kind |-> "update", read |-> 0, write |-> 0, cur |-> None],
           CoHolds({}, {}, TRUE, f),
           handles' = handles \o pending, pending' = <<>>, due' = {}, visited' = {}, raised' = TRUE,
           UNCHANGED <<status, token, elapsed, triggered, listening, waited>>
    PROVE  CoHolds({}, {}, FALSE, g)'
<1> DEFINE h == handles \o pending
<1>1. CoTypes /\ Known({}, {}) /\ Looping({}, TRUE, f) /\ Waits({})
  BY DEF CoHolds
<1>2. handles \in Seq(Cos) /\ pending \in Seq(Cos)
  BY <1>1 DEF CoTypes
<1>3. h \in Seq(Cos) /\ Len(h) \in Nat /\ ToSet(h) = ToSet(handles) \cup ToSet(pending)
  BY <1>2, Joined
<1>4. handles' = h
  OBVIOUS
<1> HIDE DEF h
<1>5. <<>> \in Seq(Cos) /\ ToSet(<<>>) = {}
  BY DEF ToSet
<1>6. CoTypes' /\ Known({}, {})'
  BY <1>1, <1>3, <1>4, <1>5 DEF CoTypes, Known
<1>7. Looping({}, FALSE, g)' /\ Waits({})'
  BY <1>1, <1>3, <1>4 DEF Looping, Waits, Running
<1> QED BY <1>6, <1>7 DEF CoHolds

-----------------------------------------------------------------------------
(* Coroutines: the calls after each step.                                  *)

Idle == [kind |-> "update", read |-> 0, write |-> 0, cur |-> None]

(* S, F, U and f are the calls on the stack `frames`.                      *)
CallsOf(frames, S, F, U, f) ==
    /\ S = Steps(frames) /\ F = Firsts(frames) /\ U = HasUpdate(frames) /\ f = Loop(frames)
    /\ StackShape(frames)

LEMMA InvParts ==
    ASSUME CoopInv
    PROVE  \E S, F, U, f :
             /\ CallsOf(stack, S, F, U, f) /\ CallsOK(S, F, f) /\ CoHolds(S, F, U, f)
             /\ U \in BOOLEAN /\ (~U => f = Idle)
  BY CallsTyped DEF CoopInv, CallsOf, CallsOK, Idle

(* The calls on an empty stack, and on one of update() alone.              *)
LEMMA NoCalls == CallsOf(<<>>, {}, {}, FALSE, Idle)
<1>1. Len(<<>>) = 0 /\ (\A i \in 1 .. 0 : FALSE)
  OBVIOUS
<1>2. ~HasUpdate(<<>>) /\ Steps(<<>>) = {} /\ Firsts(<<>>) = {} /\ StackShape(<<>>)
  BY <1>1 DEF HasUpdate, Steps, Firsts, StackShape
<1>3. HasUpdate(<<>>) = FALSE
  BY <1>2 DEF HasUpdate
<1> QED BY <1>2, <1>3 DEF CallsOf, Loop, Idle

LEMMA OneCall ==
    ASSUME NEW g \in UpdateCall
    PROVE  CallsOf(<<g>>, {}, {}, TRUE, g)
<1>1. Len(<<g>>) = 1 /\ <<g>>[1] = g /\ g.kind = "update" /\ (\A i \in 1 .. 1 : i = 1) /\ 1 \in 1 .. 1
  BY DEF UpdateCall
<1>2. HasUpdate(<<g>>) /\ Steps(<<g>>) = {} /\ Firsts(<<g>>) = {} /\ StackShape(<<g>>)
  BY <1>1 DEF HasUpdate, Steps, Firsts, StackShape
<1>3. HasUpdate(<<g>>) = TRUE
  BY <1>2 DEF HasUpdate
<1>4. Loop(<<g>>) = g
  BY <1>1, <1>2 DEF Loop, Last
<1> QED BY <1>2, <1>3, <1>4 DEF CallsOf

(* update() is what runs: it is the only call.                             *)
LEMMA UpdateAlone ==
    ASSUME CoopInv, InUpdate
    PROVE  /\ Head(stack) \in UpdateCall /\ stack = <<Head(stack)>> /\ Tail(stack) = <<>>
           /\ CoHolds({}, {}, TRUE, Head(stack)) /\ HasUpdate(stack)
           /\ \A g : [stack EXCEPT ![1] = g] = <<g>>
<1>1. /\ stack \in Seq(Frames(Ids)) /\ stack # <<>> /\ Head(stack).kind = "update" /\ StackShape(stack)
      /\ CoHolds(Steps(stack), Firsts(stack), HasUpdate(stack), Loop(stack))
  BY DEF CoopInv, BusInv, BusHolds, InUpdate
<1>2. Len(stack) \in Nat \ {0} /\ Head(stack) = stack[1] /\ stack[1] \in Frames(Ids) /\ 1 \in 1 .. Len(stack)
  BY <1>1
<1>3. Len(stack) = 1
  BY <1>1, <1>2 DEF StackShape
<1>4. Head(stack) \in UpdateCall
  BY <1>1, <1>2 DEF Frames, Publishing, Calling, Stepping, UpdateCall
<1>5. stack = <<Head(stack)>> /\ Tail(stack) = <<>>
  <2>1. \A i \in 1 .. 1 : i = 1
    OBVIOUS
  <2>2. <<Head(stack)>> \in Seq(Frames(Ids)) /\ Len(<<Head(stack)>>) = 1 /\ <<Head(stack)>>[1] = stack[1]
    BY <1>2
  <2>3. stack = <<Head(stack)>>
    BY <1>1, <1>3, <2>1, <2>2, SeqEqual
  <2>4. Tail(stack) \in Seq(Frames(Ids)) /\ Len(Tail(stack)) = 0
    BY <1>1, <1>3
  <2> QED BY <2>3, <2>4, EmptySeq
<1>6. CallsOf(<<Head(stack)>>, {}, {}, TRUE, Head(stack))
  BY <1>4, OneCall
<1>7. CoHolds({}, {}, TRUE, Head(stack))
  BY <1>1, <1>5, <1>6 DEF CallsOf
<1>8. ASSUME NEW g PROVE [stack EXCEPT ![1] = g] = <<g>>
  <2> DEFINE r == [stack EXCEPT ![1] = g]
  <2>1. Len(r) = 1 /\ r[1] = g /\ r \in Seq({r[1]}) /\ <<g>> \in Seq({g}) /\ Len(<<g>>) = 1 /\ <<g>>[1] = g
    <3>1. DOMAIN r = 1 .. 1 /\ r[1] = g /\ r = [i \in 1 .. 1 |-> r[i]] /\ \A i \in 1 .. 1 : i = 1
      <4>1. DOMAIN stack = 1 .. 1 /\ 1 \in 1 .. 1 /\ stack = [i \in 1 .. 1 |-> stack[i]]
        BY <1>1, <1>3
      <4>2. DOMAIN r = 1 .. 1 /\ r[1] = g /\ r = [i \in DOMAIN r |-> r[i]]
        BY <4>1
      <4>3. \A i \in 1 .. 1 : i = 1
        OBVIOUS
      <4> HIDE DEF r
      <4> QED BY <4>2, <4>3
    <3> HIDE DEF r
    <3> QED BY <3>1
  <2> HIDE DEF r
  <2>2. \A i \in 1 .. 1 : r[i] = <<g>>[i]
    <3>1. \A i \in 1 .. 1 : i = 1
      OBVIOUS
    <3> QED BY <2>1, <3>1
  <2>3. r = <<g>>
    BY <2>1, <2>2, SeqEqual
  <2> QED BY <2>3 DEF r
<1> QED BY <1>4, <1>5, <1>6, <1>7, <1>8 DEF CallsOf

(* The bus with update() alone on its stack, or nothing.                   *)
LEMMA BusOfUpdate ==
    ASSUME BusInv, stack' = <<>> \/ (\E g \in UpdateCall : stack' = <<g>>),
           UNCHANGED <<info, lists, byScope, snapshots, dirty, ledger, twins>>
    PROVE  BusInv'
<1>1. BusTypes /\ ListsKept /\ TablesAgree
  BY DEF BusInv, BusHolds
<1>2. <<>> \in Seq(Frames(Ids)) /\ Deliveries(<<>>, lists, Counts, twins)
  <2>1. Len(<<>>) = 0 /\ (\A i \in 1 .. 0 : FALSE)
    OBVIOUS
  <2> QED BY <2>1 DEF Deliveries, CalledBy
<1>3. ASSUME NEW g \in UpdateCall
      PROVE  <<g>> \in Seq(Frames(Ids)) /\ Deliveries(<<g>>, lists, Counts, twins)
  <2>1. Len(<<g>>) = 1 /\ <<g>>[1] = g /\ g.kind = "update" /\ g \in Frames(Ids) /\ (\A i \in 1 .. 1 : i = 1)
    BY DEF UpdateCall, Frames
  <2>2. <<g>> \in Seq(Frames(Ids))
    BY <2>1
  <2> QED BY <2>1, <2>2 DEF Deliveries, CalledBy
<1>4. BusHolds(stack')
  BY <1>1, <1>2, <1>3 DEF BusHolds
<1> QED BY <1>4, SameBus

(* A coroutine is called, between frames, in a handler or by another.      *)
LEMMA StepCalled ==
    ASSUME BusInv, NEW S, NEW F, NEW U, NEW f, CallsOf(stack, S, F, U, f), CallsOK(S, F, f),
           ~U => f = Idle,
           NEW c \in Cos, NEW first \in BOOLEAN, c \notin S,
           stack' = <<[kind |-> "step", co |-> c, first |-> first]>> \o stack,
           UNCHANGED <<info, lists, byScope, snapshots, dirty, ledger, twins>>
    PROVE  /\ BusInv'
           /\ CallsOf(stack', S \cup {c}, IF first THEN F \cup {c} ELSE F, U, f)
<1> DEFINE e == [kind |-> "step", co |-> c, first |-> first]
<1>1. /\ e \in Frames(Ids) /\ e.kind = "step" /\ e.co = c /\ e.first = first
      /\ stack \in Seq(Frames(Ids)) /\ Deliveries(stack, lists, Counts, twins)
      /\ BusTypes /\ ListsKept /\ TablesAgree /\ stack' = <<e>> \o stack
  BY DEF Frames, Stepping, BusInv, BusHolds
<1> HIDE DEF e
<1>2. BusHolds(stack')
  <2>1. <<e>> \o stack \in Seq(Frames(Ids)) /\ Deliveries(<<e>> \o stack, lists, Counts, twins)
    BY <1>1, StackCall
  <2> QED BY <1>1, <2>1 DEF BusHolds
<1>3. Under(stack, e, stack')
  BY <1>1, CallOnStack
<1>4. Steps(stack') = S \cup {c} /\ Firsts(stack') = IF first THEN F \cup {c} ELSE F
  BY <1>1, <1>3 DEF Under, CallsOf
<1>5. HasUpdate(stack') = HasUpdate(stack)
  BY <1>1, <1>3, Zenon DEF Under, HasUpdate
<1>6. StackShape(stack')
  BY <1>1, <1>3 DEF Under, CallsOf
<1>7. Loop(stack') = f
  BY <1>1, <1>3, <1>5 DEF Under, CallsOf, Loop
<1> QED BY <1>2, <1>4, <1>5, <1>6, <1>7, SameBus DEF CallsOf

(* The call of a coroutine is the innermost one.                           *)
LEMMA StepOnTop ==
    ASSUME BusInv, InStep, NEW S, NEW F, NEW U, NEW f, CallsOf(stack, S, F, U, f), CallsOK(S, F, f)
    PROVE  LET c == Head(stack).co IN
           /\ c \in S /\ c \in Cos /\ (Head(stack).first <=> c \in F)
           /\ BusHolds(Tail(stack)) /\ Tail(stack) \in Seq(Frames(Ids))
           /\ CallsOf(Tail(stack), S \ {c}, F \ {c}, U, f)
<1> DEFINE e == Head(stack)
           T == Tail(stack)
<1>1. /\ stack \in Seq(Frames(Ids)) /\ stack # <<>> /\ Head(stack).kind = "step"
      /\ Deliveries(stack, lists, Counts, twins) /\ BusTypes /\ ListsKept /\ TablesAgree
  BY DEF BusInv, BusHolds, InStep
<1>2. e \in Frames(Ids) /\ T \in Seq(Frames(Ids)) /\ Under(T, e, stack)
  BY <1>1, StackParts
<1>3. BusHolds(T)
  BY <1>1, StackReturn DEF BusHolds
<1> HIDE DEF e, T
<1>4. e.kind = "step" /\ e.co \in Cos
  BY <1>1, <1>2 DEF e, Frames, Publishing, Calling, Stepping, UpdateCall
<1>5. /\ S = Steps(T) \cup {e.co} /\ F = Firsts(T) \cup (IF e.first THEN {e.co} ELSE {})
      /\ e.co \notin Steps(T) /\ StackShape(T) /\ (HasUpdate(stack) <=> HasUpdate(T))
      /\ HasUpdate(T) => Last(stack) = Last(T)
  BY <1>2, <1>4 DEF Under, CallsOf
<1>6. Firsts(T) \subseteq Steps(T)
  BY DEF Firsts, Steps
<1>7. HasUpdate(T) = U
  BY <1>5, Zenon DEF CallsOf, HasUpdate
<1>8. Loop(T) = f
  BY <1>5, <1>7 DEF CallsOf, Loop
<1>9. Steps(T) = S \ {e.co} /\ Firsts(T) = F \ {e.co} /\ (e.first <=> e.co \in F) /\ e.co \in S
  BY <1>5, <1>6
<1>10. CallsOf(T, S \ {e.co}, F \ {e.co}, U, f)
  BY <1>5, <1>7, <1>8, <1>9 DEF CallsOf
<1> QED BY <1>2, <1>3, <1>4, <1>9, <1>10 DEF e, T

(* The calls after a step, and what holds of them.                         *)
LEMMA CoopInvOf ==
    ASSUME NEW S, NEW F, NEW U, NEW f, BusInv', CallsOf(stack', S, F, U, f), CoHolds(S, F, U, f)'
    PROVE  CoopInv'
  BY CoopInvNext DEF CallsOf

(* What happens to the bus, or wakes a coroutine, leaves all of it.        *)
LEMMA AlikeKeeps ==
    ASSUME CoopInv, BusInv', Alike(stack, stack'), triggered' \in [Cos -> BOOLEAN],
           UNCHANGED <<status, token, elapsed, listening, handles, pending, raised, due, visited, waited>>
    PROVE  CoopInv'
<1>1. PICK S, F, U, f : CallsOf(stack, S, F, U, f) /\ CoHolds(S, F, U, f)
  BY InvParts
<1>2. CallsOf(stack', S, F, U, f)
  BY <1>1 DEF CallsOf, Alike
<1>3. CoHolds(S, F, U, f)'
  <2>1. \A c : Running(c)' <=> Running(c)
    BY DEF Running
  <2>2. /\ CoTypes' /\ Known(S, F)' /\ Looping(F, U, f)' /\ Waits(S)'
    BY <1>1, <2>1 DEF CoHolds, CoTypes, Known, Looping, Waits
  <2>3. ASSUME ~raised' PROVE Apart(f)' /\ Placed(F, f)' /\ Ahead(U, f)' /\ Counted'
    <3>1. Apart(f) /\ Placed(F, f) /\ Ahead(U, f) /\ Counted
      BY <1>1, <2>3 DEF CoHolds
    <3>2. Apart(f)' /\ Placed(F, f)'
      BY <2>1, <3>1 DEF Apart, Placed, LiveAt
    <3>3. Ahead(U, f)' /\ Counted'
      BY <2>1, <3>1 DEF Ahead, Counted
    <3> QED BY <3>2, <3>3
  <2> QED BY <2>2, <2>3 DEF CoHolds
<1> QED BY <1>2, <1>3, CoopInvOf

LEMMA SameAlike == ASSUME stack' = stack PROVE Alike(stack, stack')
  BY DEF Alike

(* The coroutines' state is left by the bus: publish(), subscribe(), the   *)
(* delivery, and handlers that end.                                        *)
LEMMA BusUseAlike == ASSUME BusInv, BusUse PROVE BusInv' /\ Alike(stack, stack')
<1>1. ASSUME NEW t \in Topics, ProgramRuns, DoPublish(t, NoScope) PROVE BusInv' /\ Alike(stack, stack')
  <2>1. NoScope \in Scopes \cup {NoScope}
    OBVIOUS
  <2>2. BusInv'
    BY <1>1, <2>1, PublishKeeps
  <2> QED BY <1>1, <2>2, PublishAlike
<1>2. ASSUME NEW t \in Topics, NEW h \in Handlers,
             DoSubscribe([topic |-> t, scope |-> NoScope, handler |-> h, once |-> FALSE], stack)
      PROVE  BusInv' /\ Alike(stack, stack')
  <2> DEFINE sub == [topic |-> t, scope |-> NoScope, handler |-> h, once |-> FALSE]
  <2>1. sub \in Sub /\ DoSubscribe(sub, stack) /\ BusHolds(stack)
    BY <1>2 DEF Sub, BusInv
  <2> HIDE DEF sub
  <2>2. BusInv'
    BY <2>1, SubscribeKeeps
  <2>3. stack' = stack
    BY <2>1 DEF DoSubscribe
  <2> QED BY <2>2, <2>3, SameAlike
<1>3. CASE Deliver
  BY <1>3, DeliverKeeps, DeliverAlike
<1>4. CASE ListEnds
  BY <1>4, ListEndsKeeps, ListEndsAlike
<1>5. CASE HandlerEnds
  <2>1. /\ stack # <<>> /\ Head(stack).kind \in {"handler", "wakeup"} /\ stack' \in {Tail(stack), Tail(Tail(stack))}
        /\ UNCHANGED <<info, lists, byScope, snapshots, dirty, ledger, twins>>
    BY <1>5 DEF HandlerEnds, InHandler, busVars
  <2> QED BY <2>1, CallEndsAlike
<1>6. \/ ProgramRuns /\ \E t \in Topics : DoPublish(t, NoScope)
      \/ \E t \in Topics, h \in Handlers :
           DoSubscribe([topic |-> t, scope |-> NoScope, handler |-> h, once |-> FALSE], stack)
      \/ BusStep \/ HandlerEnds
  BY Zenon DEF BusUse
<1> QED BY <1>1, <1>2, <1>3, <1>4, <1>5, <1>6 DEF BusStep

LEMMA BusUseKeeps == ASSUME CoopInv, BusUse PROVE CoopInv'
<1>1. BusInv /\ CoTypes
  BY DEF CoopInv, CoHolds
<1>2. /\ UNCHANGED <<status, token, elapsed, listening, handles, pending, raised, due, visited, waited>>
      /\ triggered' \in [Cos -> BOOLEAN]
  BY <1>1 DEF BusUse, coVars, waitVars, historyVars, CoTypes
<1> QED BY <1>1, <1>2, BusUseAlike, AlikeKeeps

(* The handler by which a coroutine waits ends.                            *)
LEMMA WakeupAlike == ASSUME BusInv, Wakeup PROVE BusInv' /\ Alike(stack, stack')
<1>1. /\ UNCHANGED <<info, lists, byScope, snapshots, dirty, ledger, twins>>
      /\ stack # <<>> /\ Head(stack).kind \in {"handler", "wakeup"}
  <2>1. InWakeup /\ UNCHANGED busVars
    BY Zenon DEF Wakeup
  <2> QED BY <2>1 DEF InWakeup, busVars
<1>2. stack' \in {Tail(stack), Tail(Tail(stack))}
  <2>1. stack' = Tail(stack) \/ stack' \in {Tail(stack), Tail(Tail(stack))}
    BY Zenon DEF Wakeup
  <2> QED BY <2>1
<1> QED BY <1>1, <1>2, CallEndsAlike

LEMMA WakeupKeeps == ASSUME CoopInv, Wakeup PROVE CoopInv'
<1> DEFINE c == info[Head(stack).sub].handler[1]
<1>1. BusInv /\ CoTypes
  BY DEF CoopInv, CoHolds
<1>2. UNCHANGED <<status, token, elapsed, listening, handles, pending, raised, due, visited, waited>>
  BY Zenon DEF Wakeup
<1>3. triggered' = [triggered EXCEPT ![c] = TRUE] \/ triggered' = triggered
  BY Zenon DEF Wakeup
<1> HIDE DEF c
<1>4. triggered' \in [Cos -> BOOLEAN]
  BY <1>1, <1>3 DEF CoTypes
<1> QED BY <1>1, <1>2, <1>4, WakeupAlike, AlikeKeeps

LEMMA EmitKeeps == ASSUME CoopInv, Emit PROVE CoopInv'
<1>1. BusInv /\ BusHolds(stack) /\ CoTypes
  BY DEF CoopInv, CoHolds, BusInv
<1>2. /\ UNCHANGED <<status, token, elapsed, listening, handles, pending, raised, due, visited, waited>>
      /\ UNCHANGED <<info, lists, byScope, snapshots, dirty, ledger, twins>> /\ stack' = stack
  BY DEF Emit, busVars, historyVars
<1>3. triggered' \in [Cos -> BOOLEAN]
  <2>1. PICK C : triggered' = [c \in Cos |-> triggered[c] \/ c \in C]
    BY DEF Emit
  <2>2. \A c \in Cos : (triggered[c] \/ c \in C) \in BOOLEAN
    OBVIOUS
  <2> QED BY <2>1, <2>2
<1>4. BusInv' /\ Alike(stack, stack')
  BY <1>1, <1>2, SameBus, SameAlike
<1> QED BY <1>2, <1>3, <1>4, AlikeKeeps

(* start().                                                                *)
LEMMA StartKeeps == ASSUME CoopInv, NEW c \in Cos, Start(c) PROVE CoopInv'
<1>1. PICK S, F, U, f : /\ CallsOf(stack, S, F, U, f) /\ CallsOK(S, F, f) /\ CoHolds(S, F, U, f)
                        /\ ~U => f = Idle
  BY InvParts
<1>2. /\ status[c] = "new" /\ status' = [status EXCEPT ![c] = "running"]
      /\ UNCHANGED <<token, elapsed, triggered, listening, handles, pending, raised, due, visited, waited>>
  BY DEF Start, waitVars, historyVars
<1>3. /\ stack' = <<[kind |-> "step", co |-> c, first |-> TRUE]>> \o stack
      /\ UNCHANGED <<info, lists, byScope, snapshots, dirty, ledger, twins>> /\ BusInv
  BY DEF Start, busVars, CoopInv
<1>4. c \notin S /\ CoHolds(S \cup {c}, F \cup {c}, U, f)'
  BY <1>1, <1>2, StartHolds
<1>5. BusInv' /\ CallsOf(stack', S \cup {c}, F \cup {c}, U, f)
  BY <1>1, <1>3, <1>4, StepCalled
<1> QED BY <1>4, <1>5, CoopInvOf

(* cancel() and cancel_all().                                              *)
LEMMA CancelledKeeps ==
    ASSUME CoopInv, NEW C \in SUBSET Cos, \A c \in C : Running(c) /\ c \notin Firsts(stack),
           status' = [c \in Cos |-> IF c \in C THEN "cancelled" ELSE status[c]],
           CleanupWait(C), UNCHANGED <<pending, raised, due, visited, waited>>,
           handles' = handles \/ (handles' = <<>> /\ \A c \in ToSet(handles) : Running(c) => c \in C),
           UNCHANGED <<info, lists, byScope, snapshots, dirty, ledger, twins>>, stack' = stack
    PROVE  CoopInv'
<1>1. PICK S, F, U, f : CallsOf(stack, S, F, U, f) /\ CallsOK(S, F, f) /\ CoHolds(S, F, U, f)
  BY InvParts
<1>2. \A c \in C : Running(c) /\ c \notin F
  BY <1>1 DEF CallsOf
<1>3. CoHolds(S, F, U, f)'
  BY <1>1, <1>2, CancelHolds
<1>4. BusInv' /\ CallsOf(stack', S, F, U, f)
  BY <1>1, SameBus DEF CoopInv, BusInv
<1> QED BY <1>3, <1>4, CoopInvOf

LEMMA CancelKeeps == ASSUME CoopInv, NEW c \in Cos, Cancel(c) PROVE CoopInv'
<1>1. /\ Running(c) /\ ~Starting(c) /\ CleanupWait({c})
      /\ UNCHANGED <<pending, raised, due, visited, waited>> /\ handles' = handles
      /\ UNCHANGED <<info, lists, byScope, snapshots, dirty, ledger, twins>> /\ stack' = stack
      /\ status \in [Cos -> {"new", "running", "complete", "cancelled"}] /\ stack \in Seq(Frames(Ids))
      /\ status' = [status EXCEPT ![c] = "cancelled"]
  BY DEF Cancel, busVars, historyVars, CoopInv, CoHolds, CoTypes, BusInv, BusHolds
<1>2. status' = [d \in Cos |-> IF d \in {c} THEN "cancelled" ELSE status[d]]
  BY <1>1
<1>3. c \notin Firsts(stack)
  BY <1>1 DEF Starting, Firsts
<1>4. {c} \in SUBSET Cos /\ \A d \in {c} : Running(d) /\ d \notin Firsts(stack)
  BY <1>1, <1>3
<1> QED BY <1>1, <1>2, <1>4, CancelledKeeps

LEMMA CancelAllKeeps == ASSUME CoopInv, CancelAll PROVE CoopInv'
<1> DEFINE C == {c \in ToSet(handles) : Running(c)}
<1>1. /\ CleanupWait(C) /\ UNCHANGED <<pending, raised, due, visited, waited>> /\ handles' = <<>>
      /\ UNCHANGED <<info, lists, byScope, snapshots, dirty, ledger, twins>> /\ stack' = stack
      /\ status' = [c \in Cos |-> IF c \in C THEN "cancelled" ELSE status[c]]
  BY DEF CancelAll, busVars, historyVars
<1>2. handles \in Seq(Cos) /\ Known(Steps(stack), Firsts(stack))
  BY DEF CoopInv, CoHolds, CoTypes
<1>3. ToSet(handles) \subseteq Cos
  BY <1>2, InSet
<1>4. C \in SUBSET Cos /\ (\A c \in C : Running(c) /\ c \notin Firsts(stack))
      /\ \A c \in ToSet(handles) : Running(c) => c \in C
  BY <1>2, <1>3 DEF Known
<1> HIDE DEF C
<1> QED BY <1>1, <1>4, CancelledKeeps

LEMMA UpdatingIs == ASSUME BusInv PROVE Updating <=> HasUpdate(stack)
<1>1. stack \in Seq(Frames(Ids))
  BY DEF BusInv, BusHolds
<1>2. DOMAIN stack = 1 .. Len(stack)
  BY <1>1
<1> QED BY <1>2 DEF Updating, HasUpdate

(* A coroutine yields.                                                     *)
LEMMA YieldKeeps == ASSUME CoopInv, StepYields PROVE CoopInv'
<1> DEFINE T == Tail(stack)
<1>0. PICK c, first : c = Head(stack).co /\ first = Head(stack).first
  OBVIOUS
<1>1. PICK S, F, U, f : /\ CallsOf(stack, S, F, U, f) /\ CallsOK(S, F, f) /\ CoHolds(S, F, U, f)
                        /\ U \in BOOLEAN /\ (~U => f = Idle)
  BY InvParts
<1>2. BusInv /\ InStep /\ info \in Seq(Sub)
  BY DEF CoopInv, StepYields, BusInv, BusHolds, BusTypes
<1>3. /\ c \in S /\ c \in Cos /\ (first <=> c \in F)
      /\ BusHolds(T) /\ CallsOf(T, S \ {c}, F \ {c}, U, f)
  BY <1>0, <1>1, <1>2, StepOnTop
<1>4. Updating <=> U
  BY <1>1, <1>2, UpdatingIs DEF CallsOf
<1>5. PICK tok \in Tokens :
        /\ BeginWait(c, tok)
        /\ IF tok.kind = "event"
           THEN DoSubscribe([topic |-> tok.topic, scope |-> NoScope, once |-> FALSE,
                             handler |-> <<c, Len(info)>>], T)
           ELSE stack' = T /\ UNCHANGED busVars
        /\ pending' = IF first /\ Running(c) /\ PlacedLater THEN Append(pending, c) ELSE pending
        /\ handles' = IF first /\ Running(c) /\ ~PlacedLater THEN Append(handles, c) ELSE handles
  BY <1>0 DEF StepYields
<1>6. UNCHANGED <<status, raised, due, visited, waited>>
  BY DEF StepYields, historyVars
<1> HIDE DEF T
<1>7. BusInv' /\ stack' = T
  <2>1. CASE tok.kind = "event"
    <3> DEFINE sub == [topic |-> tok.topic, scope |-> NoScope, once |-> FALSE, handler |-> <<c, Len(info)>>]
    <3>1. DoSubscribe(sub, T)
      BY <1>5, <2>1
    <3>2. tok.topic \in Topics
      BY <2>1 DEF Tokens
    <3>3. Len(info) \in Nat
      BY <1>2
    <3>4. sub \in Sub
      BY <1>3, <3>2, <3>3 DEF Sub
    <3> HIDE DEF sub
    <3>5. BusInv'
      BY <1>3, <3>1, <3>4, SubscribeKeeps
    <3> QED BY <3>1, <3>5 DEF DoSubscribe
  <2>2. CASE tok.kind # "event"
    <3>1. stack' = T /\ UNCHANGED <<info, lists, byScope, snapshots, dirty, ledger, twins>>
      BY <1>5, <2>2 DEF busVars
    <3> QED BY <1>3, <3>1, SameBus
  <2> QED BY <2>1, <2>2
<1>8. CoHolds(S \ {c}, F \ {c}, U, f)'
  <2>1. /\ pending' = IF c \in F /\ Running(c) /\ U THEN Append(pending, c) ELSE pending
        /\ handles' = IF c \in F /\ Running(c) /\ ~U THEN Append(handles, c) ELSE handles
    BY <1>3, <1>4, <1>5 DEF PlacedLater
  <2>2. ~U => f.read = 0 /\ f.write = 0 /\ f.cur = None
    BY <1>1 DEF Idle
  <2> QED BY <1>1, <1>3, <1>5, <1>6, <2>1, <2>2, YieldHolds
<1>9. CallsOf(stack', S \ {c}, F \ {c}, U, f)
  BY <1>3, <1>7
<1> QED BY <1>7, <1>8, <1>9, CoopInvOf

(* A coroutine returns or raises.                                          *)
LEMMA EndsKeeps == ASSUME CoopInv, StepEnds PROVE CoopInv'
<1>0. PICK c : c = Head(stack).co
  OBVIOUS
<1>1. PICK S, F, U, f : /\ CallsOf(stack, S, F, U, f) /\ CallsOK(S, F, f) /\ CoHolds(S, F, U, f)
  BY InvParts
<1>2. BusInv /\ InStep
  BY DEF CoopInv, StepEnds
<1>3. /\ c \in S /\ BusHolds(Tail(stack)) /\ CallsOf(Tail(stack), S \ {c}, F \ {c}, U, f)
  BY <1>0, <1>1, <1>2, StepOnTop
<1>4. /\ stack' = Tail(stack) /\ UNCHANGED <<info, lists, byScope, snapshots, dirty, ledger, twins>>
      /\ status' = [status EXCEPT ![c] = IF Running(c) THEN "complete" ELSE @]
      /\ UNCHANGED <<token, elapsed, triggered, listening, handles, pending, raised, due, visited, waited>>
  BY <1>0 DEF StepEnds, busVars, waitVars, historyVars
<1>5. CoHolds(S \ {c}, F \ {c}, U, f)'
  BY <1>1, <1>3, <1>4, EndHolds
<1>6. BusInv' /\ CallsOf(stack', S \ {c}, F \ {c}, U, f)
  BY <1>3, <1>4, SameBus
<1> QED BY <1>5, <1>6, CoopInvOf

(* update() begins.                                                        *)
LEMMA UpdateBeginKeeps == ASSUME CoopInv, UpdateBegin PROVE CoopInv'
<1>1. /\ stack = <<>> /\ BusInv /\ CoHolds(Steps(stack), Firsts(stack), HasUpdate(stack), Loop(stack))
      /\ UNCHANGED <<info, lists, byScope, snapshots, dirty, ledger, twins>>
      /\ UNCHANGED <<status, token, elapsed, triggered, listening, raised, visited>>
      /\ due' = {c \in ToSet(handles) : Running(c)}
      /\ waited' = [c \in Cos |-> IF token[c] \in Timed /\ waited[c] < MaxWaited
                                  THEN waited[c] + 1 ELSE waited[c]]
  BY DEF CoopInv, UpdateBegin, busVars, waitVars
<1>2. IF handles = <<>> THEN handles' = pending /\ pending' = <<>> /\ stack' = <<>>
                        ELSE UNCHANGED <<handles, pending>> /\ stack' = <<Idle>>
  BY <1>1 DEF UpdateBegin, Idle
<1>3. CoHolds({}, {}, FALSE, Idle)
  BY <1>1, NoCalls DEF CallsOf
<1>4. Idle \in UpdateCall
  BY DEF Idle, UpdateCall
<1>5. CASE handles = <<>>
  <2>1. CoHolds({}, {}, FALSE, Idle)'
    BY <1>1, <1>2, <1>3, <1>5, BeginHolds DEF Idle
  <2>2. BusInv' /\ CallsOf(stack', {}, {}, FALSE, Idle)
    BY <1>1, <1>2, <1>5, BusOfUpdate, NoCalls
  <2> QED BY <2>1, <2>2, CoopInvOf
<1>6. CASE handles # <<>>
  <2>1. CoHolds({}, {}, TRUE, Idle)'
    BY <1>1, <1>2, <1>3, <1>6, BeginHolds DEF Idle
  <2>2. BusInv' /\ CallsOf(stack', {}, {}, TRUE, Idle)
    BY <1>1, <1>2, <1>4, <1>6, BusOfUpdate, OneCall
  <2> QED BY <2>1, <2>2, CoopInvOf
<1> QED BY <1>5, <1>6

(* From what holds of update() after a step of its own.                    *)
LEMMA UpdateGoesOn ==
    ASSUME BusInv, NEW g \in UpdateCall, stack' = <<g>>, CoHolds({}, {}, TRUE, g)',
           UNCHANGED <<info, lists, byScope, snapshots, dirty, ledger, twins>>
    PROVE  CoopInv'
<1>1. BusInv' /\ CallsOf(stack', {}, {}, TRUE, g)
  BY BusOfUpdate, OneCall
<1> QED BY <1>1, CoopInvOf

LEMMA UpdateIsOver ==
    ASSUME BusInv, stack' = <<>>, CoHolds({}, {}, FALSE, Idle)',
           UNCHANGED <<info, lists, byScope, snapshots, dirty, ledger, twins>>
    PROVE  CoopInv'
<1>1. BusInv' /\ CallsOf(stack', {}, {}, FALSE, Idle)
  BY BusOfUpdate, NoCalls
<1> QED BY <1>1, CoopInvOf

(* The edits of the call of update().                                      *)
Edited(g, read, write, cur) == g \in UpdateCall /\ g.read = read /\ g.write = write /\ g.cur = cur

LEMMA CurEdited ==
    ASSUME NEW f \in UpdateCall, NEW c \in Cos \cup {None}, NEW g, g = [f EXCEPT !.cur = c]
    PROVE  Edited(g, f.read, f.write, c)
  BY DEF UpdateCall, Edited

LEMMA WriteEdited ==
    ASSUME NEW f \in UpdateCall, NEW g, g = [f EXCEPT !.write = @ + 1, !.cur = None]
    PROVE  Edited(g, f.read, f.write + 1, None)
<1>1. PICK h : h = [f EXCEPT !.write = @ + 1]
  OBVIOUS
<1>2. Edited(h, f.read, f.write + 1, f.cur)
  BY <1>1 DEF UpdateCall, Edited
<1>3. g = [h EXCEPT !.cur = None]
  BY <1>1 DEF UpdateCall
<1>4. h \in UpdateCall /\ None \in Cos \cup {None}
  BY <1>2 DEF Edited
<1>5. Edited(g, h.read, h.write, None)
  BY <1>3, <1>4, CurEdited
<1> QED BY <1>2, <1>5 DEF Edited

LEMMA ReadEdited ==
    ASSUME NEW f \in UpdateCall, NEW c \in Cos, NEW g, g = [f EXCEPT !.read = @ + 1, !.cur = c]
    PROVE  Edited(g, f.read + 1, f.write, c)
<1>1. PICK h : h = [f EXCEPT !.read = @ + 1]
  OBVIOUS
<1>2. Edited(h, f.read + 1, f.write, f.cur)
  BY <1>1 DEF UpdateCall, Edited
<1>3. g = [h EXCEPT !.cur = c]
  BY <1>1 DEF UpdateCall
<1>4. h \in UpdateCall /\ c \in Cos \cup {None}
  BY <1>2 DEF Edited
<1>5. Edited(g, h.read, h.write, c)
  BY <1>3, <1>4, CurEdited
<1> QED BY <1>2, <1>5 DEF Edited

(* The steps of update().                                                  *)
LEMMA SkipKeeps == ASSUME CoopInv, SkipStopped PROVE CoopInv'
<1>0. PICK f : f = Head(stack)
  OBVIOUS
<1>a. PICK g : g = [f EXCEPT !.read = @ + 1]
  OBVIOUS
<1>1. BusInv /\ InUpdate /\ f.cur = None /\ f.read < Len(handles) /\ ~Running(handles[f.read + 1])
  BY <1>0 DEF CoopInv, SkipStopped, AtHandle, NextHandle
<1>2. /\ f \in UpdateCall /\ stack = <<f>> /\ CoHolds({}, {}, TRUE, f)
      /\ \A h : [stack EXCEPT ![1] = h] = <<h>>
  BY <1>0, <1>1, UpdateAlone
<1>3. /\ UNCHANGED <<info, lists, byScope, snapshots, dirty, ledger, twins>>
      /\ UNCHANGED <<status, token, elapsed, triggered, listening, handles, pending, raised, due, visited, waited>>
      /\ stack' = [stack EXCEPT ![1].read = @ + 1]
  BY DEF SkipStopped, busVars, coVars, waitVars, historyVars
<1>4. g \in UpdateCall /\ g.read = f.read + 1 /\ g.write = f.write /\ g.cur = None
  BY <1>1, <1>2, <1>a DEF UpdateCall
<1>5. stack' = <<g>>
  <2>1. stack[1] = f
    BY <1>2
  <2>2. stack' = [stack EXCEPT ![1] = g]
    BY <1>3, <1>a, <2>1
  <2> QED BY <1>2, <2>2
<1>6. CoHolds({}, {}, TRUE, g)'
  BY <1>1, <1>2, <1>3, <1>4, SkipHolds
<1> QED BY <1>1, <1>3, <1>4, <1>5, <1>6, UpdateGoesOn

LEMMA WaitKeeps == ASSUME CoopInv, WaitOn PROVE CoopInv'
<1>0. PICK f : f = Head(stack)
  OBVIOUS
<1>b. PICK c, h : c = handles[f.read + 1] /\ h = [f EXCEPT !.read = @ + 1]
  OBVIOUS
<1>c. PICK g : g = [h EXCEPT !.write = @ + 1, !.cur = None]
  OBVIOUS
<1>a. c = handles[f.read + 1] /\ h = [f EXCEPT !.read = @ + 1] /\ g = [h EXCEPT !.write = @ + 1, !.cur = None]
  BY <1>b, <1>c
<1>1. BusInv /\ InUpdate /\ f.cur = None /\ f.read < Len(handles) /\ Running(c)
  BY <1>0, <1>a DEF CoopInv, WaitOn, AtHandle, NextHandle
<1>2. /\ f \in UpdateCall /\ Tail(stack) = <<>> /\ CoHolds({}, {}, TRUE, f)
  BY <1>0, <1>1, UpdateAlone
<1>3. /\ UNCHANGED <<info, lists, byScope, snapshots, dirty, ledger, twins>>
      /\ UNCHANGED <<status, token, triggered, listening, pending, raised, due, waited>>
      /\ visited' = visited \cup {c}
      /\ \E holds \in BOOLEAN : ~Over(c, holds)
      /\ elapsed' = [elapsed EXCEPT ![c] = IF token[c].kind = "sleep" THEN @ + 1 ELSE @]
      /\ Keep(c, h)
  BY <1>0, <1>a DEF WaitOn, NextHandle, busVars
<1>4. /\ h \in UpdateCall /\ h.write = f.write /\ g \in UpdateCall
      /\ g.read = f.read + 1 /\ g.write = f.write + 1 /\ g.cur = None
  <2>1. h \in UpdateCall /\ h.write = f.write /\ h.read = f.read + 1
    BY <1>2, <1>a DEF UpdateCall
  <2>2. Edited(g, h.read, h.write + 1, None)
    <3>1. h \in UpdateCall /\ g = [h EXCEPT !.write = @ + 1, !.cur = None]
      BY <1>a, <2>1
    <3> QED BY <3>1, WriteEdited, Zenon
  <2> QED BY <2>1, <2>2 DEF Edited
<1>5. handles' = [handles EXCEPT ![f.write + 1] = c] /\ stack' = <<g>> \o <<>>
  BY <1>0, <1>2, <1>3, <1>4, <1>a DEF Keep
<1>6. stack' = <<g>>
  <2>1. <<g>> \in Seq({g})
    OBVIOUS
  <2> QED BY <1>5, <2>1, ConcatEmptySeq
<1>7. CoHolds({}, {}, TRUE, g)'
  BY <1>1, <1>2, <1>3, <1>4, <1>5, <1>a, WaitHolds
<1> QED BY <1>1, <1>3, <1>4, <1>6, <1>7, UpdateGoesOn

LEMMA KeptKeeps == ASSUME CoopInv, KeepStepped PROVE CoopInv'
<1>0. PICK f : f = Head(stack)
  OBVIOUS
<1>a. PICK g : g = IF Running(f.cur) THEN [f EXCEPT !.write = @ + 1, !.cur = None] ELSE [f EXCEPT !.cur = None]
  OBVIOUS
<1>1. BusInv /\ InUpdate /\ f.cur # None
  BY <1>0 DEF CoopInv, KeepStepped
<1>2. /\ f \in UpdateCall /\ stack = <<f>> /\ Tail(stack) = <<>> /\ CoHolds({}, {}, TRUE, f)
      /\ \A h : [stack EXCEPT ![1] = h] = <<h>>
  BY <1>0, <1>1, UpdateAlone
<1>3. /\ UNCHANGED <<info, lists, byScope, snapshots, dirty, ledger, twins>>
      /\ UNCHANGED <<status, token, elapsed, triggered, listening, pending, raised, due, visited, waited>>
      /\ IF Running(f.cur) THEN Keep(f.cur, f)
                           ELSE stack' = [stack EXCEPT ![1].cur = None] /\ handles' = handles
  BY <1>0 DEF KeepStepped, busVars, waitVars, historyVars
<1>4. /\ g \in UpdateCall /\ g.read = f.read /\ g.cur = None
      /\ g.write = IF Running(f.cur) THEN f.write + 1 ELSE f.write
  <2>1. CASE Running(f.cur)
    <3>1. g = [f EXCEPT !.write = @ + 1, !.cur = None]
      BY <1>a, <2>1
    <3>2. f \in UpdateCall
      BY <1>2
    <3>3. Edited(g, f.read, f.write + 1, None)
      BY <3>1, <3>2, WriteEdited, Zenon
    <3> QED BY <2>1, <3>3 DEF Edited
  <2>2. CASE ~Running(f.cur)
    <3>1. g = [f EXCEPT !.cur = None] /\ None \in Cos \cup {None}
      BY <1>a, <2>2
    <3> QED BY <1>2, <2>2, <3>1, CurEdited DEF Edited
  <2> QED BY <2>1, <2>2
<1>5. /\ stack' = <<g>>
      /\ handles' = IF Running(f.cur) THEN [handles EXCEPT ![f.write + 1] = f.cur] ELSE handles
  <2>1. CASE Running(f.cur)
    <3>1. handles' = [handles EXCEPT ![f.write + 1] = f.cur] /\ stack' = <<g>> \o <<>>
      BY <1>0, <1>2, <1>3, <1>a, <2>1 DEF Keep
    <3>2. <<g>> \in Seq({g})
      OBVIOUS
    <3> QED BY <2>1, <3>1, <3>2, ConcatEmptySeq
  <2>2. CASE ~Running(f.cur)
    <3>1. stack[1] = f
      BY <1>2
    <3>2. stack' = [stack EXCEPT ![1] = g] /\ handles' = handles
      BY <1>3, <1>a, <2>2, <3>1
    <3> QED BY <1>2, <2>2, <3>2
  <2> QED BY <2>1, <2>2
<1>6. CoHolds({}, {}, TRUE, g)'
  BY <1>1, <1>2, <1>3, <1>4, <1>5, KeepHolds
<1> QED BY <1>1, <1>3, <1>4, <1>5, <1>6, UpdateGoesOn

(* update() resumes a coroutine.                                           *)
LEMMA ResumeKeeps == ASSUME CoopInv, Resume PROVE CoopInv'
<1>0. PICK f : f = Head(stack)
  OBVIOUS
<1>b. PICK c : c = handles[f.read + 1]
  OBVIOUS
<1>c. PICK g, e : g = [f EXCEPT !.read = @ + 1, !.cur = c] /\ e = [kind |-> "step", co |-> c, first |-> FALSE]
  OBVIOUS
<1>a. /\ c = handles[f.read + 1] /\ g = [f EXCEPT !.read = @ + 1, !.cur = c]
      /\ e = [kind |-> "step", co |-> c, first |-> FALSE]
  BY <1>b, <1>c
<1>1. BusInv /\ InUpdate /\ f.cur = None /\ f.read < Len(handles) /\ Running(c)
  BY <1>0, <1>a DEF CoopInv, Resume, AtHandle, NextHandle
<1>2. f \in UpdateCall /\ CoHolds({}, {}, TRUE, f)
  BY <1>0, <1>1, UpdateAlone
<1>3. /\ UNCHANGED <<info, lists, byScope, snapshots, dirty, ledger, twins>>
      /\ UNCHANGED <<status, handles, pending, raised, due>>
      /\ CleanupWait({c}) /\ visited' = visited \cup {c} /\ waited' = [waited EXCEPT ![c] = 0]
      /\ stack' = <<e, g>>
  BY <1>0, <1>a DEF Resume, NextHandle, busVars
<1>4. c \in Cos
  BY <1>1, <1>2, <1>a DEF CoHolds, CoTypes, UpdateCall
<1>5. g \in UpdateCall /\ g.read = f.read + 1 /\ g.write = f.write /\ g.cur = c /\ e \in Stepping
  <2>1. Edited(g, f.read + 1, f.write, c)
    <3>1. f \in UpdateCall /\ c \in Cos /\ g = [f EXCEPT !.read = @ + 1, !.cur = c]
      BY <1>2, <1>4, <1>a
    <3> QED BY <3>1, ReadEdited, Zenon
  <2> QED BY <1>4, <1>a, <2>1 DEF Edited, Stepping
<1>6. CoHolds({c}, {}, TRUE, g)'
  BY <1>1, <1>2, <1>3, <1>5, <1>a, ResumeHolds
<1>7. e.kind = "step" /\ e.co = c /\ ~e.first
  BY <1>a
<1>8. CallsOf(<<g>>, {}, {}, TRUE, g)
  BY <1>5, OneCall
<1>9. /\ e \in Frames(Ids) /\ <<g>> \in Seq(Frames(Ids)) /\ <<e, g>> = <<e>> \o <<g>>
      /\ BusTypes /\ ListsKept /\ TablesAgree
  <2>1. e \in Frames(Ids) /\ g \in Frames(Ids)
    BY <1>5 DEF Frames
  <2>2. <<e, g>> \o <<>> = <<e>> \o (<<g>> \o <<>>)
    <3>1. <<>> \in Seq(Frames(Ids))
      OBVIOUS
    <3> QED BY <2>1, <3>1, TwoPushed
  <2>3. <<e, g>> \in Seq(Frames(Ids)) /\ <<g>> \in Seq(Frames(Ids))
    BY <2>1
  <2> QED BY <1>1, <2>1, <2>2, <2>3, ConcatEmptySeq DEF BusInv, BusHolds
<1>10. Deliveries(<<g>>, lists, Counts, twins)
  <2>1. g.kind = "update" /\ Len(<<g>>) = 1 /\ (\A i \in 1 .. 1 : i = 1) /\ <<g>>[1] = g
    BY <1>5 DEF UpdateCall
  <2> QED BY <2>1 DEF Deliveries, CalledBy
<1>11. BusInv'
  <2>1. <<e>> \o <<g>> \in Seq(Frames(Ids)) /\ Deliveries(<<e>> \o <<g>>, lists, Counts, twins)
    BY <1>7, <1>9, <1>10, StackCall
  <2>2. BusHolds(stack')
    BY <1>3, <1>9, <2>1 DEF BusHolds
  <2> QED BY <1>3, <2>2, SameBus
<1>12. CallsOf(stack', {c}, {}, TRUE, g)
  <2>1. Under(<<g>>, e, stack')
    BY <1>3, <1>9, CallOnStack
  <2>2. Steps(stack') = {c} /\ Firsts(stack') = {} /\ StackShape(stack')
    BY <1>7, <1>8, <2>1 DEF Under, CallsOf
  <2>3. HasUpdate(stack') = TRUE
    BY <1>8, <2>1 DEF Under, CallsOf, HasUpdate
  <2>4. Loop(stack') = g
    BY <1>8, <2>1, <2>3 DEF Under, CallsOf, Loop
  <2> QED BY <2>2, <2>3, <2>4 DEF CallsOf
<1> QED BY <1>6, <1>11, <1>12, CoopInvOf

(* update() ends, or a predicate raises through it.                        *)
LEMMA UpdateEndKeeps == ASSUME CoopInv, UpdateEnd PROVE CoopInv'
<1>0. PICK f : f = Head(stack)
  OBVIOUS
<1>1. BusInv /\ InUpdate /\ f.cur = None /\ f.read >= Len(handles)
  BY <1>0 DEF CoopInv, UpdateEnd
<1>2. f \in UpdateCall /\ CoHolds({}, {}, TRUE, f)
  BY <1>0, <1>1, UpdateAlone
<1>3. /\ UNCHANGED <<info, lists, byScope, snapshots, dirty, ledger, twins>> /\ stack' = <<>>
      /\ UNCHANGED <<status, token, elapsed, triggered, listening, raised, waited>>
      /\ handles' = Kept(f) \o pending /\ pending' = <<>> /\ due' = {} /\ visited' = {}
  BY <1>0 DEF UpdateEnd, busVars, waitVars
<1>4. CoHolds({}, {}, FALSE, Idle)'
  BY <1>1, <1>2, <1>3, UpdateEndHolds DEF Idle
<1> QED BY <1>1, <1>3, <1>4, UpdateIsOver

LEMMA RaisesKeeps == ASSUME CoopInv, UntilRaises PROVE CoopInv'
<1>0. PICK f : f = Head(stack)
  OBVIOUS
<1>1. BusInv /\ InUpdate
  BY <1>0 DEF CoopInv, UntilRaises, AtHandle
<1>2. f \in UpdateCall /\ CoHolds({}, {}, TRUE, f)
  BY <1>0, <1>1, UpdateAlone
<1>3. /\ UNCHANGED <<info, lists, byScope, snapshots, dirty, ledger, twins>> /\ stack' = <<>>
      /\ UNCHANGED <<status, token, elapsed, triggered, listening, waited>>
      /\ handles' = handles \o pending /\ pending' = <<>> /\ due' = {} /\ visited' = {} /\ raised' = TRUE
  BY <1>0 DEF UntilRaises, busVars, waitVars
<1>4. CoHolds({}, {}, FALSE, Idle)'
  BY <1>1, <1>2, <1>3, RaiseHolds DEF Idle
<1> QED BY <1>1, <1>3, <1>4, UpdateIsOver

LEMMA CoopInvInit == CoopInit => CoopInv
<1> SUFFICES ASSUME CoopInit PROVE CoopInv
  OBVIOUS
<1>1. BusInv /\ stack = <<>>
  BY BusInvInit DEF CoopInit, BusInit
<1>2. CallsOf(stack, {}, {}, FALSE, Idle)
  BY <1>1, NoCalls
<1>3. /\ status = [c \in Cos |-> "new"] /\ token = [c \in Cos |-> None] /\ elapsed = [c \in Cos |-> 0]
      /\ triggered = [c \in Cos |-> FALSE] /\ listening = {} /\ handles = <<>> /\ pending = <<>>
      /\ due = {} /\ visited = {} /\ waited = [c \in Cos |-> 0]
  BY DEF CoopInit
<1>4. ToSet(<<>>) = {} /\ Len(<<>>) = 0 /\ (\A i \in 1 .. 0 : FALSE) /\ <<>> \in Seq(Cos)
  BY DEF ToSet
<1>5. \A c \in Cos : ~Running(c)
  BY <1>3 DEF Running
<1>6. CoTypes /\ Known({}, {}) /\ Looping({}, FALSE, Idle) /\ Waits({})
  BY <1>3, <1>4, <1>5 DEF CoTypes, Known, Looping, Waits, Idle
<1>7. Apart(Idle) /\ Placed({}, Idle) /\ Ahead(FALSE, Idle) /\ Counted
  BY <1>3, <1>4, <1>5 DEF Apart, Placed, Ahead, Counted, LiveAt, Idle
<1>8. CoHolds({}, {}, FALSE, Idle)
  BY <1>6, <1>7 DEF CoHolds
<1> QED BY <1>1, <1>2, <1>8 DEF CallsOf, CoopInv

(* Every step of the coroutines, of update() and of the bus keeps it.      *)
LEMMA CoopInvStep == CoopInv /\ [CoopNext]_coopVars => CoopInv'
<1> SUFFICES ASSUME CoopInv, [CoopNext]_coopVars PROVE CoopInv'
  OBVIOUS
<1>1. CASE CoopProgram
  BY <1>1, StartKeeps, CancelKeeps, CancelAllKeeps, EmitKeeps DEF CoopProgram
<1>2. CASE UpdateStep
  BY <1>2, SkipKeeps, ResumeKeeps, WaitKeeps, KeptKeeps, UpdateEndKeeps, RaisesKeeps DEF UpdateStep
<1>3. CASE UNCHANGED coopVars
  <2>1. /\ UNCHANGED <<info, lists, byScope, snapshots, dirty, ledger, twins>> /\ stack' = stack
        /\ UNCHANGED <<status, token, elapsed, listening, handles, pending, raised, due, visited, waited>>
        /\ triggered' = triggered
    BY <1>3 DEF coopVars, eventVars, busVars, coVars, waitVars, historyVars
  <2>2. BusHolds(stack') /\ triggered' \in [Cos -> BOOLEAN]
    BY <2>1 DEF CoopInv, BusInv, CoHolds, CoTypes
  <2> QED BY <2>1, <2>2, SameBus, SameAlike, AlikeKeeps
<1>4. CASE BusUse \/ StepYields \/ StepEnds \/ Wakeup \/ UpdateBegin
  BY <1>4, BusUseKeeps, YieldKeeps, EndsKeeps, WakeupKeeps, UpdateBeginKeeps
<1> QED BY <1>1, <1>2, <1>3, <1>4 DEF CoopNext

(* The variables of the coroutines keep their types; what listens to the   *)
(* observable waits for it, and no start is pending when update() has      *)
(* ended.                                                                  *)
LEMMA InvCoopTyped == CoopInv => CoopTypeOK
<1> SUFFICES ASSUME CoopInv PROVE CoopTypeOK
  OBVIOUS
<1>1. PICK S, F, U, f : /\ CallsOf(stack, S, F, U, f) /\ CoHolds(S, F, U, f)
  BY InvParts
<1>2. CoTypes /\ Looping(F, U, f) /\ Waits(S) /\ BusInv
  BY <1>1 DEF CoHolds, CoopInv
<1>3. pending # <<>> => Updating
  BY <1>1, <1>2, UpdatingIs DEF Looping, CallsOf
<1>4. \A c \in Cos : token[c] # None => token[c].kind \in
            {"pause", "sleep", "event", "source", "signal", "until", "all"}
  <2>1. \A t \in WaitTokens : t.kind \in {"pause", "sleep", "event", "source", "signal", "until", "all"}
    BY DEF WaitTokens
  <2> QED BY <1>2, <2>1 DEF CoTypes
<1> QED BY <1>2, <1>3, <1>4 DEF CoopTypeOK, CoTypes, Waits

THEOREM CoroutinesTyped == CoopSpec => []CoopTypeOK
<1>1. CoopSpec => []CoopInv
  BY CoopInvInit, CoopInvStep, PTL DEF CoopSpec
<1> QED BY <1>1, InvCoopTyped, PTL

(* Where the running coroutines are held.                                  *)
LEMMA InvHandlesOnce == CoopInv => HandlesOnce
<1> SUFFICES ASSUME CoopInv, ~raised PROVE
      LET held == Held IN
      /\ \A i, j \in DOMAIN held : Running(held[i]) /\ held[i] = held[j] => i = j
      /\ {c \in ToSet(held) : Running(c)} = {c \in Cos : Running(c) /\ ~Starting(c)}
  BY DEF HandlesOnce
<1>1. PICK S, F, U, f : /\ CallsOf(stack, S, F, U, f) /\ CallsOK(S, F, f) /\ CoHolds(S, F, U, f)
                        /\ U \in BOOLEAN /\ (~U => f = Idle)
  BY InvParts
<1>2. /\ CoTypes /\ Known(S, F) /\ Looping(F, U, f) /\ Apart(f) /\ Placed(F, f)
      /\ BusInv /\ (Updating <=> U) /\ stack \in Seq(Frames(Ids))
      /\ handles \in Seq(Cos) /\ pending \in Seq(Cos) /\ f \in UpdateCall
  BY <1>1, UpdatingIs DEF CoHolds, CoopInv, CallsOf, CallsOK, CoTypes, BusInv, BusHolds
<1>3. \A c : Starting(c) <=> c \in F
  <2>1. DOMAIN stack = 1 .. Len(stack)
    BY <1>2
  <2>2. \A c : Starting(c) <=> c \in Firsts(stack)
    BY <2>1 DEF Starting, Firsts
  <2> QED BY <1>1, <2>2 DEF CallsOf
<1>4. /\ Len(handles) \in Nat /\ Len(pending) \in Nat
      /\ \A i \in LiveAt(f) : i \in 1 .. Len(handles) /\ handles[i] \in ToSet(handles)
      /\ \A x \in ToSet(handles) : \E i \in 1 .. Len(handles) : handles[i] = x
      /\ \A i \in 1 .. Len(pending) : pending[i] \in ToSet(pending)
      /\ \A x \in ToSet(pending) : \E i \in 1 .. Len(pending) : pending[i] = x
  <2>1. LiveAt(f) \subseteq 1 .. Len(handles)
    BY DEF LiveAt
  <2> QED BY <1>2, <2>1, InSet
<1> SUFFICES \E held \in Seq(Cos) :
      /\ Held = held
      /\ \A i, j \in 1 .. Len(held) : Running(held[i]) /\ held[i] = held[j] => i = j
      /\ \A c : Running(c) => (c \in ToSet(held) <=> c \in Cos /\ c \notin F)
  <2> SUFFICES ASSUME NEW held \in Seq(Cos), Held = held,
                 \A i, j \in 1 .. Len(held) : Running(held[i]) /\ held[i] = held[j] => i = j,
                 \A c : Running(c) => (c \in ToSet(held) <=> c \in Cos /\ c \notin F)
               PROVE
                 /\ \A i, j \in DOMAIN Held : Running(Held[i]) /\ Held[i] = Held[j] => i = j
                 /\ {c \in ToSet(Held) : Running(c)} = {c \in Cos : Running(c) /\ ~Starting(c)}
    OBVIOUS
  <2>1. DOMAIN held = 1 .. Len(held)
    OBVIOUS
  <2>2. \A i, j \in DOMAIN Held : Running(Held[i]) /\ Held[i] = Held[j] => i = j
    BY <2>1
  <2>3. {c \in ToSet(Held) : Running(c)} = {c \in Cos : Running(c) /\ ~Starting(c)}
    BY <1>3
  <2> QED BY <2>2, <2>3
<1>5. CASE ~U
  <2>1. f.read = 0 /\ f.write = 0 /\ f.cur = None
    BY <1>1, <1>5 DEF Idle
  <2>2. LiveAt(f) = 1 .. Len(handles)
    BY <1>4, <2>1 DEF LiveAt
  <2>3. Held = handles \o pending /\ handles \o pending \in Seq(Cos) /\ ToSet(handles \o pending) = ToSet(handles) \cup ToSet(pending)
    <3>1. Held = handles \o pending
      BY <1>2, <1>5 DEF Held
    <3> QED BY <1>2, <3>1, Joined
  <2>4. \A i, j \in 1 .. Len(handles \o pending) :
          Running((handles \o pending)[i]) /\ (handles \o pending)[i] = (handles \o pending)[j] => i = j
    <3>1. /\ \A i, j \in 1 .. Len(handles) : Running(handles[i]) /\ handles[i] = handles[j] => i = j
          /\ \A i, j \in 1 .. Len(pending) : Running(pending[i]) /\ pending[i] = pending[j] => i = j
          /\ \A i \in 1 .. Len(handles), j \in 1 .. Len(pending) : Running(handles[i]) => handles[i] # pending[j]
      BY <1>2, <2>2 DEF Apart
    <3> QED BY <1>2, <3>1, ApartJoined
  <2>5. ASSUME NEW c, Running(c) PROVE c \in ToSet(handles \o pending) <=> c \in Cos /\ c \notin F
    <3>1. c \in ToSet(handles \o pending) => c \in Cos /\ c \notin F
      BY <1>2, <2>3, InSet DEF Known
    <3>2. ASSUME c \in Cos, c \notin F PROVE c \in ToSet(handles \o pending)
      <4>1. c = f.cur \/ c \in ToSet(pending) \/ \E i \in LiveAt(f) : handles[i] = c
        BY <1>2, <2>5, <3>2 DEF Placed
      <4>2. c # f.cur
        BY <2>1, <3>2, NoneAssumption
      <4> QED BY <1>4, <2>3, <4>1, <4>2
    <3> QED BY <3>1, <3>2
  <2> QED BY <2>3, <2>4, <2>5
<1>6. CASE U
  <2> DEFINE a == Kept(f)
             b == IF f.cur = None THEN <<>> ELSE <<f.cur>>
             r == SubSeq(handles, f.read + 1, Len(handles))
  <2>1. Held = ((a \o b) \o r) \o pending
    BY <1>1, <1>2, <1>6 DEF Held, CallsOf, Loop
  <2>2. /\ a \in Seq(Cos) /\ Len(a) \in Nat
        /\ \A i \in 1 .. Len(a) : i \in LiveAt(f) /\ i \in 1 .. Len(handles) /\ a[i] = handles[i] /\ i <= f.write
        /\ \A i \in LiveAt(f) : i \in 1 .. Len(a) \/ i \in f.read + 1 .. Len(handles)
    BY <1>2, KeptParts
  <2>3. /\ b \in Seq(Cos) /\ Len(b) \in {0, 1} /\ (f.cur = None => Len(b) = 0 /\ b = <<>>)
        /\ f.cur # None => Len(b) = 1 /\ b[1] = f.cur
    BY <1>2 DEF UpdateCall
  <2>4. /\ r \in Seq(Cos) /\ Len(r) \in Nat
        /\ \A i \in 1 .. Len(r) : /\ f.read + i \in LiveAt(f) /\ r[i] = handles[f.read + i]
                                  /\ f.read + i > f.read /\ f.read + i \in 1 .. Len(handles)
        /\ \A k \in f.read + 1 .. Len(handles) : k - f.read \in 1 .. Len(r) /\ f.read + (k - f.read) = k
    <3>1. f.read \in Nat /\ handles \in Seq(Cos) /\ Len(handles) \in Nat
      BY <1>2, <1>4 DEF UpdateCall
    <3>2. /\ r \in Seq(Cos) /\ Len(r) = IF f.read + 1 <= Len(handles) THEN Len(handles) - f.read ELSE 0
          /\ \A i \in 1 .. Len(r) : r[i] = handles[f.read + i]
      <4>1. f.read + 1 \in Int /\ Len(handles) \in Int
        BY <3>1
      <4>2. \A i \in f.read + 1 .. Len(handles) : handles[i] \in Cos
        BY <3>1
      <4> DEFINE m == f.read + 1
                 n == Len(handles)
      <4>3. /\ SubSeq(handles, m, n) \in Seq(Cos)
            /\ Len(SubSeq(handles, m, n)) = IF m <= n THEN n - m + 1 ELSE 0
            /\ \A i \in 1 .. n - m + 1 : SubSeq(handles, m, n)[i] = handles[m + i - 1]
        <5>1. m \in Int /\ n \in Int /\ \A i \in m .. n : handles[i] \in Cos
          BY <4>1, <4>2
        <5> HIDE DEF m, n
        <5> QED BY <5>1, SubSeqProperties
      <4>4. /\ r \in Seq(Cos) /\ Len(r) = (IF m <= n THEN n - m + 1 ELSE 0)
            /\ \A i \in 1 .. n - m + 1 : r[i] = handles[m + i - 1]
        BY <4>3
      <4> HIDE DEF r
      <4>5. CASE f.read + 1 <= Len(handles)
        <5>1. n - m + 1 = n - f.read /\ Len(r) = n - f.read
          BY <3>1, <4>4, <4>5
        <5>2. ASSUME NEW i \in 1 .. Len(r) PROVE r[i] = handles[f.read + i]
          <6>1. i \in 1 .. n - m + 1 /\ m + i - 1 = f.read + i
            BY <3>1, <4>5, <5>1
          <6> QED BY <4>4, <6>1
        <5> QED BY <4>4, <4>5, <5>1, <5>2
      <4>6. CASE ~(f.read + 1 <= Len(handles))
        <5>1. Len(r) = 0
          BY <4>4, <4>6
        <5>2. \A i \in 1 .. Len(r) : r[i] = handles[f.read + i]
          BY <5>1
        <5> QED BY <4>4, <4>6, <5>1, <5>2
      <4> QED BY <4>5, <4>6
    <3> HIDE DEF r
    <3>3. \A i \in 1 .. Len(r) : f.read + i \in 1 .. Len(handles) /\ f.read + i > f.read
      BY <3>1, <3>2
    <3> QED BY <3>1, <3>2, <3>3 DEF LiveAt
  <2>5. f.write <= f.read \/ handles = <<>>
    BY <1>2 DEF Looping
  <2> HIDE DEF a, b, r
  <2>6. /\ \A i, j \in LiveAt(f) : Running(handles[i]) /\ handles[i] = handles[j] => i = j
        /\ \A i, j \in 1 .. Len(pending) : Running(pending[i]) /\ pending[i] = pending[j] => i = j
        /\ \A i \in LiveAt(f), j \in 1 .. Len(pending) : Running(handles[i]) => handles[i] # pending[j]
        /\ f.cur # None /\ Running(f.cur) => /\ \A i \in LiveAt(f) : handles[i] # f.cur
                                             /\ f.cur \notin ToSet(pending)
    BY <1>2 DEF Apart
  <2>7. \A i \in 1 .. Len(b) : i = 1 /\ f.cur # None /\ b[i] = f.cur
    BY <2>3
  <2> DEFINE ab == a \o b
             abr == ab \o r
             abrp == abr \o pending
  <2>8. /\ ab \in Seq(Cos) /\ ToSet(ab) = ToSet(a) \cup ToSet(b)
        /\ \A i, j \in 1 .. Len(ab) : Running(ab[i]) /\ ab[i] = ab[j] => i = j
    <3>1. /\ \A i, j \in 1 .. Len(a) : Running(a[i]) /\ a[i] = a[j] => i = j
          /\ \A i, j \in 1 .. Len(b) : Running(b[i]) /\ b[i] = b[j] => i = j
          /\ \A i \in 1 .. Len(a), j \in 1 .. Len(b) : Running(a[i]) => a[i] # b[j]
      BY <2>2, <2>6, <2>7
    <3>2. a \in Seq(Cos) /\ b \in Seq(Cos)
      BY <2>2, <2>3
    <3>3. ab \in Seq(Cos) /\ ToSet(ab) = ToSet(a) \cup ToSet(b)
      BY <3>2, Joined
    <3>4. \A i, j \in 1 .. Len(ab) : Running(ab[i]) /\ ab[i] = ab[j] => i = j
      BY <3>1, <3>2, ApartJoined
    <3> QED BY <3>3, <3>4
  <2> HIDE DEF ab
  <2>9. \A x \in ToSet(a) : \E i \in 1 .. Len(a) : a[i] = x
    BY <2>2, InSet
  <2>10. \A x \in ToSet(b) : f.cur # None /\ x = f.cur
    BY <2>3, <2>7, InSet
  <2>11. \A i \in 1 .. Len(ab) : \/ \E k \in 1 .. Len(a) : ab[i] = a[k]
                                 \/ f.cur # None /\ ab[i] = f.cur
    BY <2>8, <2>9, <2>10, InSet
  <2>12. /\ abr \in Seq(Cos) /\ ToSet(abr) = ToSet(ab) \cup ToSet(r)
         /\ \A i, j \in 1 .. Len(abr) : Running(abr[i]) /\ abr[i] = abr[j] => i = j
    <3>1. \A i, j \in 1 .. Len(r) : Running(r[i]) /\ r[i] = r[j] => i = j
      <4> SUFFICES ASSUME NEW i \in 1 .. Len(r), NEW j \in 1 .. Len(r), Running(r[i]), r[i] = r[j] PROVE i = j
        OBVIOUS
      <4>1. f.read + i = f.read + j
        BY <2>4, <2>6
      <4> QED BY <1>2, <4>1 DEF UpdateCall
    <3>2. ASSUME NEW i \in 1 .. Len(ab), NEW j \in 1 .. Len(r), Running(ab[i]), ab[i] = r[j] PROVE FALSE
      <4>1. CASE f.cur # None /\ ab[i] = f.cur
        <5>1. f.read + j \in LiveAt(f) /\ handles[f.read + j] = f.cur /\ Running(f.cur)
          BY <2>4, <3>2, <4>1
        <5> QED BY <2>6, <4>1, <5>1
      <4>2. ASSUME NEW k \in 1 .. Len(a), ab[i] = a[k] PROVE FALSE
        <5>1. k = f.read + j
          <6>1. f.read + j \in LiveAt(f) /\ k \in LiveAt(f) /\ handles[k] = handles[f.read + j] /\ Running(handles[k])
            BY <2>2, <2>4, <3>2, <4>2
          <6> QED BY <2>6, <6>1
        <5>2. handles # <<>>
          BY <2>2, <1>2
        <5> QED BY <1>2, <2>2, <2>4, <2>5, <5>1, <5>2 DEF UpdateCall
      <4> QED BY <2>11, <4>1, <4>2
    <3>3. ab \in Seq(Cos) /\ r \in Seq(Cos)
      BY <2>4, <2>8
    <3>4. abr \in Seq(Cos) /\ ToSet(abr) = ToSet(ab) \cup ToSet(r)
      BY <3>3, Joined
    <3>5. /\ \A i, j \in 1 .. Len(ab) : Running(ab[i]) /\ ab[i] = ab[j] => i = j
          /\ \A i \in 1 .. Len(ab), j \in 1 .. Len(r) : Running(ab[i]) => ab[i] # r[j]
      BY <2>8, <3>2
    <3>6. \A i, j \in 1 .. Len(abr) : Running(abr[i]) /\ abr[i] = abr[j] => i = j
      BY <3>1, <3>3, <3>5, ApartJoined
    <3> QED BY <3>4, <3>6
  <2> HIDE DEF abr
  <2>13. \A i \in 1 .. Len(abr) : \/ \E k \in LiveAt(f) : abr[i] = handles[k]
                                  \/ f.cur # None /\ abr[i] = f.cur
    <3>1. \A x \in ToSet(r) : \E k \in LiveAt(f) : x = handles[k]
      BY <2>4, InSet
    <3>2. \A x \in ToSet(a) : \E k \in LiveAt(f) : x = handles[k]
      BY <2>2, <2>9
    <3>3. \A i \in 1 .. Len(abr) : abr[i] \in ToSet(abr)
      BY <2>12, InSet
    <3> QED BY <2>8, <2>10, <2>12, <3>1, <3>2, <3>3
  <2>14. /\ abrp \in Seq(Cos) /\ ToSet(abrp) = ToSet(abr) \cup ToSet(pending)
         /\ \A i, j \in 1 .. Len(abrp) : Running(abrp[i]) /\ abrp[i] = abrp[j] => i = j
    <3>1. \A i \in 1 .. Len(abr), j \in 1 .. Len(pending) : Running(abr[i]) => abr[i] # pending[j]
      BY <1>4, <2>6, <2>13
    <3>2. abrp \in Seq(Cos) /\ ToSet(abrp) = ToSet(abr) \cup ToSet(pending)
      BY <1>2, <2>12, Joined
    <3>3. /\ \A i, j \in 1 .. Len(abr) : Running(abr[i]) /\ abr[i] = abr[j] => i = j
          /\ \A i, j \in 1 .. Len(pending) : Running(pending[i]) /\ pending[i] = pending[j] => i = j
          /\ abr \in Seq(Cos) /\ pending \in Seq(Cos)
      BY <1>2, <2>6, <2>12
    <3>4. \A i, j \in 1 .. Len(abrp) : Running(abrp[i]) /\ abrp[i] = abrp[j] => i = j
      BY <3>1, <3>3, ApartJoined
    <3> QED BY <3>2, <3>4
  <2> HIDE DEF abrp
  <2>15. \A c : Running(c) => (c \in ToSet(abrp) <=> c \in Cos /\ c \notin F)
    <3> SUFFICES ASSUME NEW c, Running(c) PROVE c \in ToSet(abrp) <=> c \in Cos /\ c \notin F
      OBVIOUS
    <3>1. /\ \A k \in 1 .. Len(a) : a[k] \in ToSet(a)
          /\ \A k \in 1 .. Len(r) : r[k] \in ToSet(r)
          /\ \A k \in 1 .. Len(abr) : abr[k] \in ToSet(abr)
          /\ \A x \in ToSet(abr) : \E k \in 1 .. Len(abr) : abr[k] = x
          /\ f.cur # None => f.cur \in ToSet(b)
      BY <2>2, <2>3, <2>4, <2>12, InSet
    <3>2. \A k \in LiveAt(f) : handles[k] \in ToSet(abr)
      <4> SUFFICES ASSUME NEW k \in LiveAt(f) PROVE handles[k] \in ToSet(abr)
        OBVIOUS
      <4>1. CASE k \in 1 .. Len(a)
        BY <2>2, <2>8, <2>12, <3>1, <4>1
      <4>2. CASE k \in f.read + 1 .. Len(handles)
        <5>1. r[k - f.read] = handles[k] /\ r[k - f.read] \in ToSet(r)
          BY <2>4, <3>1, <4>2
        <5> QED BY <2>12, <5>1
      <4> QED BY <2>2, <4>1, <4>2
    <3>3. ASSUME c \in ToSet(abrp) PROVE c \in Cos /\ c \notin F
      <4>1. CASE c \in ToSet(pending)
        BY <1>2, <4>1, InSet DEF Known
      <4>2. CASE c \in ToSet(abr)
        <5>1. (\E k \in LiveAt(f) : c = handles[k]) \/ (f.cur # None /\ c = f.cur)
          BY <2>13, <3>1, <4>2
        <5>2. ASSUME NEW k \in LiveAt(f), c = handles[k] PROVE c \in Cos /\ c \notin F
          <6>1. c \in ToSet(handles) /\ ToSet(handles) \subseteq Cos
            BY <1>2, <1>4, <5>2, InSet
          <6> QED BY <1>2, <6>1 DEF Known
        <5>3. ASSUME f.cur # None, c = f.cur PROVE c \in Cos /\ c \notin F
          BY <1>2, <5>3 DEF Looping, UpdateCall
        <5> QED BY <5>1, <5>2, <5>3
      <4> QED BY <2>14, <3>3, <4>1, <4>2
    <3>4. ASSUME c \in Cos, c \notin F PROVE c \in ToSet(abrp)
      <4>1. c = f.cur \/ c \in ToSet(pending) \/ \E i \in LiveAt(f) : handles[i] = c
        BY <1>2, <3>4 DEF Placed
      <4>2. c = f.cur => c \in ToSet(abr)
        BY <2>8, <2>12, <3>1, <3>4, NoneAssumption
      <4> QED BY <2>14, <3>2, <4>1, <4>2
    <3> QED BY <3>3, <3>4
  <2>16. Held = abrp
    BY <2>1 DEF abrp, abr, ab
  <2> QED BY <2>14, <2>15, <2>16
<1> QED BY <1>1, <1>5, <1>6

(* No running coroutine is lost, or held twice, whatever is started,       *)
(* cancelled or resumed while update() compacts its list                   *)
(* (CooperativeScheduler.start(), update(), cancel_all()).                 *)
THEOREM HeldOnce == CoopSpec => []HandlesOnce
<1>1. CoopSpec => []CoopInv
  BY CoopInvInit, CoopInvStep, PTL DEF CoopSpec
<1> QED BY <1>1, InvHandlesOnce, PTL

(* update() is not left by a step of the program, of a coroutine or of the *)
(* bus, nor before it has come to the end of its list.                     *)
LEMMA StaysInUpdate ==
    ASSUME CoopInv, CoopNext, Updating, stack' = <<>>, ~raised'
    PROVE  UpdateEnd
<1>1. /\ BusInv /\ HasUpdate(stack) /\ stack # <<>> /\ stack \in Seq(Frames(Ids))
      /\ ~HasUpdate(<<>>)
  <2>1. BusInv /\ HasUpdate(stack) /\ stack \in Seq(Frames(Ids))
    BY UpdatingIs DEF CoopInv, BusInv, BusHolds
  <2>2. ~HasUpdate(<<>>)
    <3>1. Len(<<>>) = 0 /\ \A i \in 1 .. 0 : FALSE
      OBVIOUS
    <3> QED BY <3>1 DEF HasUpdate
  <2> QED BY <2>1, <2>2
<1>2. ASSUME NEW c \in Cos, Start(c) PROVE FALSE
  <2> DEFINE e == [kind |-> "step", co |-> c, first |-> TRUE]
  <2>1. e \in Frames(Ids) /\ stack' = <<e>> \o stack
    BY <1>2 DEF Start, Frames, Stepping
  <2> HIDE DEF e
  <2>2. Len(<<e>> \o stack) = Len(stack) + 1 /\ Len(stack) \in Nat
    BY <1>1, <2>1, PushedOn
  <2>3. Len(<<>>) = 0
    OBVIOUS
  <2>4. <<e>> \o stack = <<>>
    BY <2>1
  <2>5. Len(<<e>> \o stack) = 0
    BY <2>3, <2>4
  <2> QED BY <2>2, <2>5
<1>3. ~CancelAll /\ ~Emit /\ \A c \in Cos : ~Cancel(c)
  BY <1>1 DEF Cancel, CancelAll, Emit
<1>4. ASSUME BusUse \/ Wakeup PROVE FALSE
  <2>1. Alike(stack, stack')
    BY <1>1, <1>4, BusUseAlike, WakeupAlike
  <2>2. HasUpdate(stack')
    BY <1>1, <2>1 DEF Alike
  <2> QED BY <1>1, <2>2
<1>5. ASSUME StepYields \/ StepEnds PROVE FALSE
  <2>1. InStep /\ stack' = Tail(stack)
    <3>1. CASE StepEnds
      BY <3>1 DEF StepEnds
    <3>2. CASE StepYields
      BY <3>2 DEF StepYields, DoSubscribe
    <3> QED BY <1>5, <3>1, <3>2
  <2>2. PICK S, F, U, f : CallsOf(stack, S, F, U, f) /\ CallsOK(S, F, f)
    BY InvParts
  <2>3. CallsOf(Tail(stack), S \ {Head(stack).co}, F \ {Head(stack).co}, U, f)
    BY <1>1, <2>1, <2>2, StepOnTop
  <2>4. HasUpdate(Tail(stack))
    BY <1>1, <2>2, <2>3 DEF CallsOf
  <2> QED BY <1>1, <2>1, <2>4
<1>6. ~UpdateBegin /\ ~UntilRaises
  BY <1>1 DEF UpdateBegin, UntilRaises
<1>7. ~Resume
  <2>1. \A d, e : <<d, e>> # <<>>
    OBVIOUS
  <2> QED BY <2>1 DEF Resume
<1>8. ASSUME InUpdate, (\E g : stack' = [stack EXCEPT ![1] = g]) \/ (\E g : stack' = <<g>> \o Tail(stack))
      PROVE  FALSE
  <2>1. Tail(stack) = <<>> /\ \A g : [stack EXCEPT ![1] = g] = <<g>>
    BY <1>8, UpdateAlone
  <2>2. \A g : <<g>> # <<>> /\ <<g>> \o <<>> = <<g>>
    <3> SUFFICES ASSUME NEW g PROVE <<g>> # <<>> /\ <<g>> \o <<>> = <<g>>
      OBVIOUS
    <3>1. <<g>> \in Seq({g})
      OBVIOUS
    <3> QED BY <3>1, ConcatEmptySeq
  <2> QED BY <1>8, <2>1, <2>2
<1>9. ~SkipStopped
  <2> SUFFICES ASSUME SkipStopped PROVE FALSE
    OBVIOUS
  <2>1. InUpdate /\ stack' = [stack EXCEPT ![1] = [stack[1] EXCEPT !.read = @ + 1]]
    BY DEF SkipStopped, AtHandle
  <2> QED BY <1>8, <2>1
<1>10. ~WaitOn
  <2> SUFFICES ASSUME WaitOn PROVE FALSE
    OBVIOUS
  <2>1. InUpdate /\ \E g : stack' = <<g>> \o Tail(stack)
    BY DEF WaitOn, AtHandle, Keep
  <2> QED BY <1>8, <2>1
<1>11. ~KeepStepped
  <2> SUFFICES ASSUME KeepStepped PROVE FALSE
    OBVIOUS
  <2>1. InUpdate /\ (Keep(Head(stack).cur, Head(stack)) \/ stack' = [stack EXCEPT ![1].cur = None])
    BY DEF KeepStepped
  <2>2. CASE Keep(Head(stack).cur, Head(stack))
    <3>1. \E g : stack' = <<g>> \o Tail(stack)
      BY <2>2 DEF Keep
    <3> QED BY <1>8, <2>1, <3>1
  <2>3. CASE stack' = [stack EXCEPT ![1].cur = None]
    <3>1. stack' = [stack EXCEPT ![1] = [stack[1] EXCEPT !.cur = None]]
      BY <2>3
    <3> QED BY <1>8, <2>1, <3>1
  <2> QED BY <2>1, <2>2, <2>3
<1> QED BY <1>2, <1>3, <1>4, <1>5, <1>6, <1>7, <1>9, <1>10, <1>11 DEF CoopNext, CoopProgram, UpdateStep

(* Only a step that resumes a coroutine calls out of update().             *)
LEMMA OnlyResume ==
    ASSUME CoopInv, CoopNext, InUpdate, Len(stack') > Len(stack)
    PROVE  Resume
<1>1. /\ ~ProgramRuns /\ ~InStep /\ ~InPublish /\ ~InHandler /\ ~InWakeup /\ stack # <<>>
  BY DEF InUpdate, ProgramRuns, InStep, InPublish, InHandler, InWakeup
<1>2. /\ Len(stack) = 1 /\ Tail(stack) = <<>> /\ \A g : [stack EXCEPT ![1] = g] = <<g>>
  <2>1. stack = <<Head(stack)>> /\ Tail(stack) = <<>> /\ \A g : [stack EXCEPT ![1] = g] = <<g>>
    BY UpdateAlone
  <2>2. Len(<<Head(stack)>>) = 1
    OBVIOUS
  <2> QED BY <2>1, <2>2
<1>3. ~CoopProgram /\ ~BusUse /\ ~StepYields /\ ~StepEnds /\ ~Wakeup /\ ~UpdateBegin
  <2>1. ~CoopProgram
    BY <1>1 DEF CoopProgram, Start, Cancel, CancelAll, Emit
  <2>2. ~BusUse
    BY <1>1, Zenon DEF BusUse, BusStep, Deliver, ListEnds, HandlerEnds
  <2> QED BY <1>1, <2>1, <2>2 DEF StepYields, StepEnds, Wakeup, UpdateBegin
<1>4. stack' # <<>> /\ \A g : stack' # <<g>>
  <2>1. Len(<<>>) = 0 /\ \A g : Len(<<g>>) = 1
    OBVIOUS
  <2> QED BY <1>2, <2>1
<1>5. \A g : stack' # [stack EXCEPT ![1] = g] /\ stack' # <<g>> \o Tail(stack)
  <2> SUFFICES ASSUME NEW g PROVE stack' # [stack EXCEPT ![1] = g] /\ stack' # <<g>> \o Tail(stack)
    OBVIOUS
  <2>1. <<g>> \in Seq({g})
    OBVIOUS
  <2>2. <<g>> \o <<>> = <<g>>
    BY <2>1, ConcatEmptySeq
  <2> QED BY <1>2, <1>4, <2>2
<1>6. ~SkipStopped
  <2> SUFFICES ASSUME SkipStopped PROVE FALSE
    OBVIOUS
  <2>1. stack' = [stack EXCEPT ![1] = [stack[1] EXCEPT !.read = @ + 1]]
    BY DEF SkipStopped
  <2> QED BY <1>5, <2>1
<1>7. ~WaitOn
  BY <1>5 DEF WaitOn, Keep
<1>8. ~KeepStepped
  <2> SUFFICES ASSUME KeepStepped PROVE FALSE
    OBVIOUS
  <2>1. Keep(Head(stack).cur, Head(stack)) \/ stack' = [stack EXCEPT ![1].cur = None]
    BY DEF KeepStepped
  <2>2. stack' # [stack EXCEPT ![1].cur = None]
    <3>1. [stack EXCEPT ![1].cur = None] = [stack EXCEPT ![1] = [stack[1] EXCEPT !.cur = None]]
      OBVIOUS
    <3> QED BY <1>5, <3>1
  <2> QED BY <1>5, <2>1, <2>2 DEF Keep
<1>9. ~UpdateEnd /\ ~UntilRaises
  BY <1>4 DEF UpdateEnd, UntilRaises
<1> QED BY <1>3, <1>6, <1>7, <1>8, <1>9 DEF CoopNext, UpdateStep

(* What is left of a frame when update() ends, and when it looks at a      *)
(* coroutine.                                                              *)
LEMMA FrameExact ==
    ASSUME CoopInv, CoopNext, ~raised'
    PROVE  /\ Looking => NextHandle \in due \ visited
           /\ (Updating /\ stack' = <<>>) => \A c \in due : Running(c) => c \in visited
           /\ \A c \in Cos : Resuming(c) =>
                /\ token[c].kind = "pause" => waited[c] = 1
                /\ token[c].kind = "sleep" =>
                     waited[c] = IF token[c].seconds = 0 THEN 1 ELSE token[c].seconds
<1>1. ~raised
  <2> SUFFICES ASSUME raised PROVE FALSE
    OBVIOUS
  <2>1. ~CoopProgram /\ ~BusUse
    BY DEF CoopProgram, Start, Cancel, CancelAll, Emit, BusUse, coVars, historyVars
  <2>2. ~StepYields /\ ~StepEnds /\ ~Wakeup /\ ~UpdateBegin
    BY DEF StepYields, StepEnds, Wakeup, UpdateBegin, historyVars
  <2>3. ~UpdateStep
    BY DEF UpdateStep, SkipStopped, Resume, WaitOn, KeepStepped, UpdateEnd, UntilRaises, coVars, historyVars
  <2> QED BY <2>1, <2>2, <2>3 DEF CoopNext
<1>2. ASSUME InUpdate
      PROVE  /\ Head(stack) \in UpdateCall /\ CoTypes /\ Waits({}) /\ Ahead(TRUE, Head(stack)) /\ Counted
  BY <1>1, <1>2, UpdateAlone DEF CoHolds
<1>3. ASSUME Looking PROVE NextHandle \in due \ visited /\ NextHandle \in Cos /\ InUpdate
  <2>1. /\ InUpdate /\ Head(stack).read < Len(handles) /\ Running(handles[Head(stack).read + 1])
        /\ NextHandle = handles[Head(stack).read + 1]
    BY <1>3 DEF Looking, AtHandle, NextHandle
  <2>2. /\ Head(stack) \in UpdateCall /\ CoTypes /\ Ahead(TRUE, Head(stack))
    BY <1>2, <2>1
  <2>3. Head(stack).read \in Nat /\ handles \in Seq(Cos) /\ Len(handles) \in Nat
    BY <2>2 DEF UpdateCall, CoTypes
  <2>4. Head(stack).read + 1 \in Head(stack).read + 1 .. Len(handles) /\ Head(stack).read + 1 \in 1 .. Len(handles)
    BY <2>1, <2>3
  <2>5. NextHandle \in due \ visited
    BY <2>1, <2>2, <2>4 DEF Ahead
  <2>6. NextHandle \in Cos
    BY <2>1, <2>3, <2>4
  <2> QED BY <2>1, <2>5, <2>6
<1>4. ASSUME Updating, stack' = <<>>, NEW c \in due, Running(c) PROVE c \in visited
  <2>1. InUpdate /\ Head(stack).read >= Len(handles)
    BY <1>4, StaysInUpdate DEF UpdateEnd
  <2>2. Head(stack).read \in Nat /\ handles \in Seq(Cos) /\ Len(handles) \in Nat /\ Ahead(TRUE, Head(stack))
    <3>1. Head(stack) \in UpdateCall /\ CoTypes /\ Ahead(TRUE, Head(stack))
      BY <1>2, <2>1
    <3>2. Head(stack).read \in Nat
      BY <3>1 DEF UpdateCall
    <3>3. handles \in Seq(Cos) /\ Len(handles) \in Nat
      BY <3>1 DEF CoTypes
    <3> QED BY <3>1, <3>2, <3>3
  <2>3. \A i \in Head(stack).read + 1 .. Len(handles) : FALSE
    BY <2>1, <2>2
  <2> QED BY <1>4, <2>2, <2>3 DEF Ahead
<1>5. ASSUME NEW c \in Cos, Resuming(c)
      PROVE  /\ token[c].kind = "pause" => waited[c] = 1
             /\ token[c].kind = "sleep" =>
                  waited[c] = IF token[c].seconds = 0 THEN 1 ELSE token[c].seconds
  <2>1. Looking /\ c = NextHandle /\ Running(c) /\ Len(stack') > Len(stack)
    BY <1>5 DEF Resuming, Looking
  <2>2. InUpdate /\ c \in due \ visited
    BY <1>3, <2>1
  <2>3. PICK holds \in BOOLEAN : Over(c, holds)
    BY <2>1, <2>2, OnlyResume DEF Resume
  <2>4. CoTypes /\ Waits({}) /\ Counted
    BY <1>2, <2>2
  <2>5. token[c] \in WaitTokens
    <3>1. c \in Cos \ {}
      OBVIOUS
    <3>2. token[c] # None
      BY <2>1, <2>4, <3>1 DEF Waits
    <3> QED BY <2>4, <3>2 DEF CoTypes
  <2>6. ASSUME token[c].kind = "pause" \/ token[c].kind = "sleep"
        PROVE  token[c] \in Timed /\ (token[c].kind = "sleep" => token[c].seconds \in Nat)
    BY <2>5, <2>6, SleepsAssumption DEF WaitTokens, Timed, Pause
  <2>7. elapsed[c] \in Nat
    BY <2>4 DEF CoTypes
  <2>8. CASE token[c].kind = "pause"
    <3>1. waited[c] = elapsed[c] + 1 /\ elapsed[c] = 0
      BY <2>1, <2>2, <2>4, <2>6, <2>8 DEF Counted
    <3> QED BY <2>8, <3>1
  <2>9. CASE token[c].kind = "sleep"
    <3>1. waited[c] = elapsed[c] + 1 /\ (elapsed[c] = 0 \/ elapsed[c] < token[c].seconds)
      BY <2>1, <2>2, <2>4, <2>6, <2>9 DEF Counted
    <3>2. token[c] # None
      BY <2>5, NoneAssumption
    <3>3. elapsed[c] + 1 >= token[c].seconds
      BY <2>3, <2>9, <3>2 DEF Over
    <3> QED BY <2>6, <2>7, <2>9, <3>1, <3>3
  <2> QED BY <2>8, <2>9
<1> QED BY <1>3, <1>4, <1>5

(* A frame looks once at each coroutine it began with that still runs, and *)
(* at no other; a Pause is over after one frame and a Sleep after its      *)
(* duration (CooperativeScheduler.update(), _try_resume()).                *)
THEOREM FramesExact == CoopSpec => EachFrameOnce
<1>1. CoopSpec => []CoopInv
  BY CoopInvInit, CoopInvStep, PTL DEF CoopSpec
<1> DEFINE Exact == ~raised' =>
             /\ Looking => NextHandle \in due \ visited
             /\ (Updating /\ stack' = <<>>) => \A c \in due : Running(c) => c \in visited
             /\ \A c \in Cos : Resuming(c) =>
                  /\ token[c].kind = "pause" => waited[c] = 1
                  /\ token[c].kind = "sleep" =>
                       waited[c] = IF token[c].seconds = 0 THEN 1 ELSE token[c].seconds
<1>2. CoopInv /\ [CoopNext]_coopVars => [Exact]_coopVars
  BY FrameExact
<1>3. CoopSpec => [][Exact]_coopVars
  <2> HIDE DEF Exact
  <2> QED BY <1>1, <1>2, PTL DEF CoopSpec
<1> QED BY <1>3 DEF EachFrameOnce
=============================================================================
