---------------------------- MODULE FeaturesProofs ----------------------------
(***************************************************************************)
(* Proofs about MCFeatures: what its invariants say holds for every value  *)
(* of the constants.  A behaviour takes the steps of one component; the    *)
(* others stay as they are.  What may be answered late is in DataProofs.     *)
(***************************************************************************)
EXTENDS MCFeatures, DataProofs, SequenceLemmas

-----------------------------------------------------------------------------
(* What may be answered late.                                              *)

(* The inductive invariant of what may be answered late.                   *)
AnswersInv == FormsInv /\ ProviderInv /\ CacheInv /\ PoolInv

LEMMA AnswersInitInv == AllInit => AnswersInv
BY FormsInitInv, ProviderInitInv, CacheInitInv, PoolInitInv DEF AllInit, AnswersInv

(* The steps of other components.                                          *)
LEMMA OthersStep ==
  ASSUME AnswersInv,
         \/ OpsOf \/ UpdatesOf \/ LifecycleOf \/ UndoOf \/ StoreOf
         \/ ReactiveOf \/ TweensOf \/ StatesOf \/ TimelineOf \/ RoutedOf \/ CollectionsOf
  PROVE  AnswersInv'
<1>1. UNCHANGED <<formVars, providerVars, cacheVars, poolVars>>
  BY DEF OpsOf, UpdatesOf, LifecycleOf, UndoOf, StoreOf, ReactiveOf, TweensOf, StatesOf,
         TimelineOf, RoutedOf, CollectionsOf, laterVars, lastVars
<1> QED
  BY <1>1, FormsStay, ProviderStays, CacheStays, PoolStays DEF AnswersInv

LEMMA AnswersNextInv ==
  ASSUME AnswersInv, [AllNext]_allVars
  PROVE  AnswersInv'
<1>1. CASE FormsOf
  <2>1. FormsNext /\ UNCHANGED <<providerVars, cacheVars, poolVars>>
    BY <1>1 DEF FormsOf, lastVars
  <2> QED
    BY <2>1, FormsNextInv, ProviderStays, CacheStays, PoolStays DEF AnswersInv
<1>2. CASE ProviderOf
  <2>1. ProviderNext /\ UNCHANGED <<formVars, cacheVars, poolVars>>
    BY <1>2 DEF ProviderOf, lastVars
  <2> QED
    BY <2>1, FormsStay, ProviderNextInv, CacheStays, PoolStays DEF AnswersInv
<1>3. CASE CachesOf
  <2>1. /\ UNCHANGED <<formVars, providerVars>>
        /\ \/ CacheNext /\ UNCHANGED poolVars
           \/ PoolNext /\ UNCHANGED cacheVars
    BY <1>3 DEF CachesOf, laterVars
  <2>2. FormsInv' /\ ProviderInv'
    BY <2>1, FormsStay, ProviderStays DEF AnswersInv
  <2>3. CASE CacheNext /\ UNCHANGED poolVars
    BY <2>2, <2>3, CacheNextInv, PoolStays DEF AnswersInv
  <2>4. CASE PoolNext /\ UNCHANGED cacheVars
    BY <2>2, <2>4, PoolNextInv, CacheStays DEF AnswersInv
  <2> QED
    BY <2>1, <2>3, <2>4
<1>4. CASE UNCHANGED allVars
  <2>1. UNCHANGED <<formVars, providerVars, cacheVars, poolVars>>
    BY <1>4 DEF allVars, laterVars, lastVars
  <2> QED
    BY <2>1, FormsStay, ProviderStays, CacheStays, PoolStays DEF AnswersInv
<1> QED
  BY <1>1, <1>2, <1>3, <1>4, OthersStep DEF AllNext

(* AnswersSafe: whatever the threads, listeners and observers do and       *)
(* whenever answers come, for any number of fields, of threads and of      *)
(* listeners, and for any size of cache and pool.                          *)
THEOREM AnswersAreSafe == AllSpec => []AnswersSafe
<1>1. AnswersInv => AnswersSafe
  BY FormsIsSafe, ProviderIsSafe, CacheIsSafe, PoolIsSafe DEF AnswersInv, AnswersSafe
<1> QED
  BY <1>1, AnswersInitInv, AnswersNextInv, PTL DEF AllSpec

-----------------------------------------------------------------------------
(* Undo and redo.                                                          *)

(* The commands so far; everything is made of them.                        *)
Issued == 1 .. commands

UndoTypes ==
    /\ commands \in Nat
    /\ undo \in [Histories -> Seq(Seq(Issued))] /\ redo \in [Histories -> Seq(Seq(Issued))]
    /\ document \in [Histories -> Seq(Issued)] /\ base \in [Histories -> Seq(Issued)]
    /\ tip \in [Histories -> Seq(Issued)]
    /\ open \in [Histories -> Seq(Issued) \cup {NoContext}]

(* The sequences u, p, r of commands, in this order, have each command     *)
(* once, and none of those of x.                                           *)
Once(x, u, p, r) ==
    /\ IsInjective(u) /\ IsInjective(p) /\ IsInjective(r)
    /\ ToSet(u) \cap ToSet(p) = {} /\ ToSet(u) \cap ToSet(r) = {} /\ ToSet(p) \cap ToSet(r) = {}
    /\ ToSet(x) \cap (ToSet(u) \cup ToSet(p) \cup ToSet(r)) = {}

(* A document d came about through x, the entries u and the pending p; the *)
(* entries that are undone lead from there to t.                           *)
Explains(d, x, u, p, r, t) ==
    /\ d = (x \o u) \o p
    /\ p = <<>> => d \o r = t
    /\ Once(x, u, p, r)

Undoable(h)  == FlattenSeq(undo[h])
Redoable(h)  == FlattenSeq(Reverse(redo[h]))
Accounted(h) == Explains(document[h], base[h], Undoable(h), Pending(h), Redoable(h), tip[h])

StacksInv == UndoTypes /\ \A h \in Histories \ spoiled : Accounted(h)

(* Whoever does not know the active context is still to be told.           *)
ContextInv ==
    /\ key \in Contexts \cup {NoContext} /\ stacks \in [Contexts -> Histories \cup {NoContext}]
    /\ key # NoContext => stacks[key] # NoContext
    /\ told \in [Watchers -> Contexts \cup {NoContext}]
    /\ telling \in Seq(Seq(Watchers))
    /\ \A w \in Watchers : told[w] # key => \E i \in 1 .. Len(telling) : w \in ToSet(telling[i])

UndoInv == StacksInv /\ ContextInv

LEMMA UndoSetting ==
    /\ UndoSize \in Nat \ {0} /\ IsFiniteSet(Watchers)
    /\ NoContext \notin Contexts /\ NoContext \notin Histories /\ NoContext \notin Seq(Nat)
    /\ \A n : NoContext \notin Seq(1 .. n)
<1>1. \A n : NoContext \in Seq(1 .. n) => NoContext \in Seq(Nat)
  <2> SUFFICES ASSUME NEW n, NoContext \in Seq(1 .. n) PROVE NoContext \in Seq(Nat)
    OBVIOUS
  <2>1. 1 .. n \subseteq Nat
    OBVIOUS
  <2> QED BY <2>1, SeqMonotonic
<1> QED BY <1>1, UndoAssumption DEF UndoAssumption

LEMMA Widen ==
    ASSUME NEW m \in Nat, NEW n \in Nat, m <= n
    PROVE  /\ Seq(1 .. m) \subseteq Seq(1 .. n)
           /\ Seq(Seq(1 .. m)) \subseteq Seq(Seq(1 .. n))
<1>1. 1 .. m \subseteq 1 .. n
  OBVIOUS
<1>2. \A s \in Seq(1 .. m) : s \in Seq(1 .. n)
  BY <1>1, SeqMonotonic
<1>3. Seq(1 .. m) \subseteq Seq(1 .. n)
  BY <1>2
<1>4. \A s \in Seq(Seq(1 .. m)) : s \in Seq(Seq(1 .. n))
  BY <1>3, SeqMonotonic
<1> QED BY <1>3, <1>4

(* What a history consists of.                                             *)
LEMMA HistoryParts ==
    ASSUME UndoTypes, NEW h \in Histories
    PROVE  /\ commands \in Nat
           /\ undo[h] \in Seq(Seq(Issued)) /\ redo[h] \in Seq(Seq(Issued))
           /\ document[h] \in Seq(Issued) /\ base[h] \in Seq(Issued) /\ tip[h] \in Seq(Issued)
           /\ Undoable(h) \in Seq(Issued) /\ Redoable(h) \in Seq(Issued) /\ Pending(h) \in Seq(Issued)
           /\ IsOpen(h) => open[h] \in Seq(Issued) /\ Pending(h) = open[h]
           /\ ~IsOpen(h) => Pending(h) = <<>>
<1>1. /\ commands \in Nat
      /\ undo[h] \in Seq(Seq(Issued)) /\ redo[h] \in Seq(Seq(Issued))
      /\ document[h] \in Seq(Issued) /\ base[h] \in Seq(Issued) /\ tip[h] \in Seq(Issued)
      /\ open[h] \in Seq(Issued) \cup {NoContext}
  BY DEF UndoTypes
<1>2. Undoable(h) \in Seq(Issued)
  BY <1>1, FlattenType DEF Undoable
<1>3. Redoable(h) \in Seq(Issued)
  <2>1. CASE redo[h] = <<>>
    <3>1. Reverse(redo[h]) = <<>>
      BY <2>1 DEF Reverse
    <3>2. <<>> \in Seq(Issued)
      OBVIOUS
    <3> QED BY <3>1, <3>2, FlattenEmpty DEF Redoable
  <2>2. CASE redo[h] # <<>>
    <3>1. Reverse(redo[h]) \in Seq(Seq(Issued))
      BY <1>1, <2>2, StackFront
    <3> QED BY <3>1, FlattenType DEF Redoable
  <2> QED BY <2>1, <2>2
<1>4. Pending(h) \in Seq(Issued)
  BY <1>1 DEF Pending, IsOpen
<1> QED BY <1>1, <1>2, <1>3, <1>4 DEF Pending, IsOpen

LEMMA UndoIsSafe ==
    ASSUME UndoInv
    PROVE  UndoSafe
<1>1. StacksKnowDocument
  BY DEF UndoInv, StacksInv, Accounted, Explains, Undoable, Redoable, StacksKnowDocument
<1>2. ContextIsKnown
  BY DEF UndoInv, ContextInv, ContextIsKnown
<1> QED BY <1>1, <1>2 DEF UndoSafe

LEMMA EmptyExplains ==
    ASSUME NEW X, NEW d \in Seq(X)
    PROVE  Explains(d, d, <<>>, <<>>, <<>>, d)
<1>1. d \o <<>> = d /\ (d \o <<>>) \o <<>> = d
  BY ConcatEmptySeq
<1>2. IsInjective(<<>>) /\ ToSet(<<>>) = {}
  BY DEF IsInjective, ToSet
<1> QED BY <1>1, <1>2 DEF Explains, Once

LEMMA ReverseEmpty == FlattenSeq(Reverse(<<>>)) = <<>>
<1>1. Reverse(<<>>) = <<>>
  BY DEF Reverse
<1> QED BY <1>1, FlattenEmpty

LEMMA UndoInitInv == UndoInit => UndoInv
<1> SUFFICES ASSUME UndoInit PROVE UndoInv
  OBVIOUS
<1>1. /\ undo = [h \in Histories |-> <<>>] /\ redo = undo /\ document = undo /\ base = undo /\ tip = undo
      /\ open = [h \in Histories |-> NoContext] /\ commands = 0
      /\ stacks = [k \in Contexts |-> NoContext] /\ key = NoContext
      /\ telling = <<>> /\ told = [w \in Watchers |-> NoContext]
  BY DEF UndoInit
<1>2. <<>> \in Seq(Issued) /\ <<>> \in Seq(Seq(Issued)) /\ <<>> \in Seq(Seq(Watchers))
  OBVIOUS
<1>3. UndoTypes
  BY <1>1, <1>2 DEF UndoTypes
<1>4. ASSUME NEW h \in Histories PROVE Accounted(h)
  <2>1. Undoable(h) = <<>> /\ Redoable(h) = <<>> /\ Pending(h) = <<>>
    BY <1>1, FlattenEmpty, ReverseEmpty DEF Undoable, Redoable, Pending, IsOpen
  <2> QED BY <1>1, <1>2, <2>1, EmptyExplains DEF Accounted
<1>5. ContextInv
  BY <1>1, <1>2 DEF ContextInv
<1> QED BY <1>3, <1>4, <1>5 DEF UndoInv, StacksInv

-----------------------------------------------------------------------------
(* What an entry more, or less, does to what explains the document.        *)

(* Commands that follow everything are pending, or a new entry.            *)
LEMMA MorePending ==
    ASSUME NEW X, NEW x \in Seq(X), NEW u \in Seq(X), NEW p \in Seq(X), NEW r \in Seq(X), NEW d, NEW t,
           NEW c \in X, c \notin ToSet(x) \cup ToSet(u) \cup ToSet(p) \cup ToSet(r),
           Explains(d, x, u, p, r, t)
    PROVE  \A t2 : Explains(Append(d, c), x, u, Append(p, c), r, t2)
<1>1. d = (x \o u) \o p /\ Once(x, u, p, r) /\ x \o u \in Seq(X)
  BY ConcatProperties DEF Explains
<1>2. <<c>> \in Seq(X) /\ d \in Seq(X)
  BY <1>1, ConcatProperties
<1>3. Append(d, c) = d \o <<c>> /\ Append(p, c) = p \o <<c>>
  BY <1>1, <1>2, AppendIsConcat
<1>4. ((x \o u) \o p) \o <<c>> = (x \o u) \o (p \o <<c>>)
  BY <1>1, <1>2, Associative, SMTT(30) DEF Assoc
<1>5. /\ Append(p, c) \in Seq(X) /\ IsInjective(Append(p, c)) /\ ToSet(Append(p, c)) = ToSet(p) \cup {c}
      /\ Append(p, c) # <<>>
  <2>1. IsInjective(p) /\ c \notin ToSet(p)
    BY <1>1 DEF Once
  <2>2. Append(p, c) # <<>>
    BY AppendProperties
  <2> QED BY <2>1, <2>2, DistinctWith
<1>6. Append(d, c) = (x \o u) \o Append(p, c)
  BY <1>1, <1>3, <1>4
<1>7. Once(x, u, Append(p, c), r)
  BY <1>1, <1>5 DEF Once
<1> QED BY <1>5, <1>6, <1>7 DEF Explains

(* What is pending becomes an entry, and the oldest commands may fall off. *)
LEMMA PendingEntered ==
    ASSUME NEW X, NEW x \in Seq(X), NEW o \in Seq(X), NEW y \in Seq(X), NEW p \in Seq(X), NEW r \in Seq(X),
           NEW d, NEW t, Explains(d, x, o \o y, p, r, t)
    PROVE  /\ Explains(d, x \o o, y \o p, <<>>, <<>>, d)
           /\ p = <<>> => Explains(d, x \o o, y \o p, <<>>, r, t)
<1>1. d = (x \o (o \o y)) \o p /\ Once(x, o \o y, p, r)
  BY DEF Explains
<1>2. /\ o \o y \in Seq(X) /\ ToSet(o \o y) = ToSet(o) \cup ToSet(y)
      /\ IsInjective(o) /\ IsInjective(y) /\ ToSet(o) \cap ToSet(y) = {}
  BY <1>1, ConcatParts DEF Once
<1>3. x \o o \in Seq(X) /\ ToSet(x \o o) = ToSet(x) \cup ToSet(o)
  BY ConcatParts
<1>4. /\ y \o p \in Seq(X) /\ ToSet(y \o p) = ToSet(y) \cup ToSet(p) /\ IsInjective(y \o p)
  BY <1>1, <1>2, ConcatParts DEF Once
<1>5. d = (x \o o) \o (y \o p)
  <2>1. Assoc(X)
    BY Associative
  <2>2. x \o (o \o y) = (x \o o) \o y
    BY <2>1, SMTT(30) DEF Assoc
  <2>3. ((x \o o) \o y) \o p = (x \o o) \o (y \o p)
    BY <1>3, <2>1 DEF Assoc
  <2> QED BY <1>1, <2>2, <2>3
<1>6. d \in Seq(X) /\ d \o <<>> = d
  <2>1. d \in Seq(X)
    BY <1>3, <1>4, <1>5, ConcatProperties
  <2> QED BY <2>1, ConcatEmptySeq
<1>7. IsInjective(<<>>) /\ ToSet(<<>>) = {}
  BY DEF IsInjective, ToSet
<1>8. Once(x \o o, y \o p, <<>>, <<>>) /\ Once(x \o o, y \o p, <<>>, r)
  BY <1>1, <1>2, <1>3, <1>4, <1>7 DEF Once
<1>9. p = <<>> => d \o r = t
  BY DEF Explains
<1> QED BY <1>5, <1>6, <1>8, <1>9 DEF Explains

(* The newest entry e is undone.                                           *)
LEMMA EntryUndone ==
    ASSUME NEW X, NEW x \in Seq(X), NEW u \in Seq(X), NEW e \in Seq(X), NEW r \in Seq(X), NEW d, NEW t,
           Explains(d, x, u \o e, <<>>, r, t)
    PROVE  Explains(Excluding(d, ToSet(e)), x, u, <<>>, e \o r, t)
<1>1. d = (x \o (u \o e)) \o <<>> /\ d \o r = t /\ Once(x, u \o e, <<>>, r)
  BY DEF Explains
<1>2. /\ u \o e \in Seq(X) /\ ToSet(u \o e) = ToSet(u) \cup ToSet(e)
      /\ IsInjective(u) /\ IsInjective(e) /\ ToSet(u) \cap ToSet(e) = {}
  BY <1>1, ConcatParts DEF Once
<1>3. x \o u \in Seq(X) /\ ToSet(x \o u) = ToSet(x) \cup ToSet(u)
  BY ConcatParts
<1>4. d = (x \o u) \o e
  <2>1. x \o (u \o e) = (x \o u) \o e
    BY Associative, SMTT(30) DEF Assoc
  <2>2. (x \o u) \o e \in Seq(X)
    BY <1>3, ConcatParts
  <2>3. ((x \o u) \o e) \o <<>> = (x \o u) \o e
    BY <2>2, ConcatEmptySeq
  <2> QED BY <1>1, <2>1, <2>3
<1>5. Excluding(d, ToSet(e)) = x \o u
  <2>1. ToSet(x \o u) \cap ToSet(e) = {}
    BY <1>1, <1>2, <1>3 DEF Once
  <2>2. Excluding((x \o u) \o e, ToSet(e)) = x \o u
    BY <1>3, <2>1, ExcludingEnd, Zenon
  <2> QED BY <1>4, <2>2
<1>6. (x \o u) \o <<>> = x \o u
  BY <1>3, ConcatEmptySeq
<1>7. (x \o u) \o (e \o r) = t
  <2>1. Assoc(X)
    BY Associative
  <2>2. ((x \o u) \o e) \o r = (x \o u) \o (e \o r)
    BY <1>3, <2>1 DEF Assoc
  <2> QED BY <1>1, <1>4, <2>2
<1>8. e \o r \in Seq(X) /\ ToSet(e \o r) = ToSet(e) \cup ToSet(r) /\ IsInjective(e \o r)
  BY <1>1, <1>2, ConcatParts DEF Once
<1>9. Once(x, u, <<>>, e \o r)
  BY <1>1, <1>2, <1>8 DEF Once
<1> QED BY <1>5, <1>6, <1>7, <1>9 DEF Explains

(* The entry e that was undone last is done again.                         *)
LEMMA EntryRedone ==
    ASSUME NEW X, NEW x \in Seq(X), NEW u \in Seq(X), NEW e \in Seq(X), NEW r \in Seq(X), NEW d, NEW t,
           Explains(d, x, u, <<>>, e \o r, t)
    PROVE  Explains(d \o e, x, u \o e, <<>>, r, t)
<1>1. d = (x \o u) \o <<>> /\ d \o (e \o r) = t /\ Once(x, u, <<>>, e \o r)
  BY DEF Explains
<1>2. /\ e \o r \in Seq(X) /\ ToSet(e \o r) = ToSet(e) \cup ToSet(r)
      /\ IsInjective(e) /\ IsInjective(r) /\ ToSet(e) \cap ToSet(r) = {}
  BY <1>1, ConcatParts DEF Once
<1>3. x \o u \in Seq(X) /\ ToSet(x \o u) = ToSet(x) \cup ToSet(u)
  BY ConcatParts
<1>4. d = x \o u
  BY <1>1, <1>3, ConcatEmptySeq
<1>5. /\ u \o e \in Seq(X) /\ ToSet(u \o e) = ToSet(u) \cup ToSet(e) /\ IsInjective(u \o e)
  BY <1>1, <1>2, ConcatParts DEF Once
<1>6. d \o e = (x \o (u \o e)) \o <<>>
  <2>1. d \o e = x \o (u \o e) /\ x \o (u \o e) \in Seq(X)
    BY <1>4, <1>5, Associative, ConcatProperties DEF Assoc
  <2> QED BY <2>1, ConcatEmptySeq
<1>7. (d \o e) \o r = t
  <2>1. Assoc(X)
    BY Associative
  <2>2. ((x \o u) \o e) \o r = (x \o u) \o (e \o r)
    BY <1>3, <2>1 DEF Assoc
  <2> QED BY <1>1, <1>4, <2>2
<1>8. Once(x, u \o e, <<>>, r)
  BY <1>1, <1>2, <1>5 DEF Once
<1> QED BY <1>6, <1>7, <1>8 DEF Explains

(* With the entry e appended, the stack loses the commands o it began with *)
(* (none unless it is full), which are then known as the base.             *)
Moves(h, e, X) ==
    \E o, y \in Seq(X) :
        /\ Undoable(h) = o \o y
        /\ FlattenSeq(Appended(undo[h], e)) = y \o e
        /\ Dropped(h) = base[h] \o o

(* deque.append(): what the stack loses is what base gains.                *)
LEMMA AppendedParts ==
    ASSUME UndoTypes, NEW h \in Histories, NEW X, Issued \subseteq X, NEW e \in Seq(X)
    PROVE  /\ Appended(undo[h], e) \in Seq(Seq(X)) /\ Dropped(h) \in Seq(X)
           /\ Moves(h, e, X)
<1> DEFINE q == undo[h]
           x == base[h]
<1>1. q \in Seq(Seq(X)) /\ x \in Seq(X)
  <2>1. q \in Seq(Seq(Issued)) /\ x \in Seq(Issued)
    BY DEF UndoTypes, Issued
  <2>2. \A s \in Seq(Issued) : s \in Seq(X)
    BY SeqMonotonic
  <2>3. Seq(Issued) \subseteq Seq(X)
    BY <2>2
  <2> QED BY <2>1, <2>2, <2>3, SeqMonotonic
<1> HIDE DEF q, x
<1>2. CASE Len(q) < UndoSize
  <2>1. Appended(q, e) = Append(q, e) /\ Dropped(h) = x
    BY <1>2 DEF Appended, Dropped, q, x
  <2>2. FlattenSeq(q) \in Seq(X) /\ FlattenSeq(Append(q, e)) = FlattenSeq(q) \o e
        /\ Append(q, e) \in Seq(Seq(X))
    BY <1>1, FlattenType, FlattenAppend
  <2>3. <<>> \in Seq(X) /\ <<>> \o FlattenSeq(q) = FlattenSeq(q) /\ x \o <<>> = x
    BY <1>1, <2>2, ConcatEmptySeq
  <2> QED BY <1>1, <2>1, <2>2, <2>3 DEF Moves, Undoable, q, x
<1>3. CASE ~(Len(q) < UndoSize)
  <2>1. q # <<>>
    BY <1>1, <1>3, UndoSetting
  <2>2. Appended(q, e) = Append(Tail(q), e) /\ Dropped(h) = x \o Head(q)
    BY <1>3 DEF Appended, Dropped, q, x
  <2>3. /\ Head(q) \in Seq(X) /\ Tail(q) \in Seq(Seq(X)) /\ FlattenSeq(Tail(q)) \in Seq(X)
        /\ FlattenSeq(q) = Head(q) \o FlattenSeq(Tail(q))
    BY <1>1, <2>1, StackTail, FlattenType
  <2>4. FlattenSeq(Append(Tail(q), e)) = FlattenSeq(Tail(q)) \o e /\ Append(Tail(q), e) \in Seq(Seq(X))
    <3> DEFINE z == Tail(q)
    <3>1. z \in Seq(Seq(X))
      BY <2>3
    <3> HIDE DEF z
    <3>2. FlattenSeq(Append(z, e)) = FlattenSeq(z) \o e
      BY <3>1, FlattenAppend
    <3>3. Append(z, e) \in Seq(Seq(X))
      BY <3>1
    <3> QED BY <3>2, <3>3 DEF z
  <2>5. x \o Head(q) \in Seq(X)
    BY <1>1, <2>3, ConcatProperties
  <2> QED BY <2>2, <2>3, <2>4, <2>5 DEF Moves, Undoable, q, x
<1> QED BY <1>2, <1>3 DEF q

-----------------------------------------------------------------------------
(* The steps.                                                              *)

(* What concerns one history only.                                         *)
OnlyOf(h) ==
    \A g \in Histories \ {h} :
        /\ undo'[g] = undo[g] /\ redo'[g] = redo[g] /\ open'[g] = open[g]
        /\ document'[g] = document[g] /\ base'[g] = base[g] /\ tip'[g] = tip[g]
        /\ g \in spoiled <=> g \in spoiled'

LEMMA OneHistory ==
    ASSUME StacksInv, NEW h \in Histories, UndoTypes', OnlyOf(h), h \in spoiled' \/ Accounted(h)'
    PROVE  StacksInv'
<1>1. ASSUME NEW g \in Histories \ spoiled', g # h PROVE Accounted(g)'
  <2>1. Accounted(g)
    BY <1>1 DEF StacksInv, OnlyOf
  <2>2. /\ undo'[g] = undo[g] /\ redo'[g] = redo[g] /\ open'[g] = open[g]
        /\ document'[g] = document[g] /\ base'[g] = base[g] /\ tip'[g] = tip[g]
    BY <1>1 DEF OnlyOf
  <2>3. Undoable(g)' = Undoable(g) /\ Redoable(g)' = Redoable(g) /\ Pending(g)' = Pending(g)
    BY <2>2 DEF Undoable, Redoable, Pending, IsOpen
  <2> QED BY <2>1, <2>2, <2>3 DEF Accounted
<1> QED BY <1>1 DEF StacksInv

(* push() before its command is noted: the types allow one command more.   *)
LEMMA OneMore ==
    ASSUME UndoTypes
    PROVE  LET X == 1 .. commands + 1 IN
           /\ commands + 1 \in Nat /\ commands + 1 \in X
           /\ undo \in [Histories -> Seq(Seq(X))] /\ redo \in [Histories -> Seq(Seq(X))]
           /\ document \in [Histories -> Seq(X)] /\ base \in [Histories -> Seq(X)]
           /\ tip \in [Histories -> Seq(X)]
           /\ open \in [Histories -> Seq(X) \cup {NoContext}]
<1> DEFINE C == Issued
           X == 1 .. commands + 1
<1>1. commands \in Nat /\ commands + 1 \in Nat /\ commands <= commands + 1
  BY DEF UndoTypes
<1>2. Seq(C) \subseteq Seq(X) /\ Seq(Seq(C)) \subseteq Seq(Seq(X))
  BY <1>1, Widen DEF Issued
<1>3. commands + 1 \in X
  BY <1>1
<1>4. /\ undo \in [Histories -> Seq(Seq(C))] /\ redo \in [Histories -> Seq(Seq(C))]
      /\ document \in [Histories -> Seq(C)] /\ base \in [Histories -> Seq(C)]
      /\ tip \in [Histories -> Seq(C)]
      /\ open \in [Histories -> Seq(C) \cup {NoContext}]
  BY DEF UndoTypes
<1> HIDE DEF C, X
<1> QED
  <2>1. undo \in [Histories -> Seq(Seq(X))] /\ redo \in [Histories -> Seq(Seq(X))]
    BY <1>2, <1>4
  <2>2. /\ document \in [Histories -> Seq(X)] /\ base \in [Histories -> Seq(X)]
        /\ tip \in [Histories -> Seq(X)]
    BY <1>2, <1>4
  <2>3. open \in [Histories -> Seq(X) \cup {NoContext}]
    BY <1>2, <1>4
  <2> QED BY <1>1, <1>3, <2>1, <2>2, <2>3 DEF X

(* What a new entry does to its history.                                   *)
LEMMA EntryPushed ==
    ASSUME UndoTypes, NEW h \in Histories, NEW X, Issued \subseteq X, NEW e \in Seq(X),
           undo \in [Histories -> Seq(Seq(X))], redo \in [Histories -> Seq(Seq(X))],
           base \in [Histories -> Seq(X)], tip \in [Histories -> Seq(X)],
           document'[h] \in Seq(X), NewEntry(h, e)
    PROVE  /\ undo' \in [Histories -> Seq(Seq(X))] /\ redo' \in [Histories -> Seq(Seq(X))]
           /\ base' \in [Histories -> Seq(X)] /\ tip' \in [Histories -> Seq(X)]
           /\ \A g \in Histories \ {h} :
                 undo'[g] = undo[g] /\ redo'[g] = redo[g] /\ base'[g] = base[g] /\ tip'[g] = tip[g]
           /\ \A r \in Seq(X) : \A t :
                 Explains(document'[h], base[h], Undoable(h), e, r, t)
                 => Explains(document'[h], base'[h], Undoable(h)', <<>>, Redoable(h)', tip'[h])
<1>1. Appended(undo[h], e) \in Seq(Seq(X)) /\ Dropped(h) \in Seq(X) /\ Moves(h, e, X)
  BY AppendedParts
<1>2. /\ undo' = [undo EXCEPT ![h] = Appended(undo[h], e)]
      /\ base' = [base EXCEPT ![h] = Dropped(h)]
      /\ redo' = [redo EXCEPT ![h] = <<>>]
      /\ tip' = [tip EXCEPT ![h] = document'[h]]
  BY DEF NewEntry, RedoCleared
<1>3. <<>> \in Seq(Seq(X))
  OBVIOUS
<1>4. /\ undo' \in [Histories -> Seq(Seq(X))] /\ undo'[h] = Appended(undo[h], e)
      /\ \A g \in Histories \ {h} : undo'[g] = undo[g]
  BY <1>1, <1>2
<1>5. /\ base' \in [Histories -> Seq(X)] /\ base'[h] = Dropped(h)
      /\ \A g \in Histories \ {h} : base'[g] = base[g]
  BY <1>1, <1>2
<1>6. /\ redo' \in [Histories -> Seq(Seq(X))] /\ redo'[h] = <<>>
      /\ \A g \in Histories \ {h} : redo'[g] = redo[g]
  BY <1>2, <1>3
<1>7. /\ tip' \in [Histories -> Seq(X)] /\ tip'[h] = document'[h]
      /\ \A g \in Histories \ {h} : tip'[g] = tip[g]
  BY <1>2
<1>8. ASSUME NEW r \in Seq(X), NEW t, Explains(document'[h], base[h], Undoable(h), e, r, t)
      PROVE  Explains(document'[h], base'[h], Undoable(h)', <<>>, Redoable(h)', tip'[h])
  <2>1. PICK o \in Seq(X), y \in Seq(X) :
              /\ Undoable(h) = o \o y
              /\ FlattenSeq(Appended(undo[h], e)) = y \o e
              /\ Dropped(h) = base[h] \o o
    BY <1>1 DEF Moves
  <2> DEFINE x == base[h]
             d == document'[h]
  <2>2. x \in Seq(X)
    OBVIOUS
  <2>3. Explains(d, x, o \o y, e, r, t)
    BY <1>8, <2>1
  <2>4. Undoable(h)' = y \o e /\ base'[h] = x \o o /\ tip'[h] = d /\ Redoable(h)' = <<>>
    BY <1>4, <1>5, <1>6, <1>7, <2>1, ReverseEmpty DEF Undoable, Redoable
  <2> HIDE DEF x, d
  <2>5. Explains(d, x \o o, y \o e, <<>>, <<>>, d)
    BY <2>2, <2>3, PendingEntered
  <2> QED BY <2>4, <2>5 DEF x, d
<1> QED BY <1>4, <1>5, <1>6, <1>7, <1>8

LEMMA PushStep ==
    ASSUME StacksInv, NEW h \in Histories, Push(h)
    PROVE  StacksInv'
<1> DEFINE c == commands + 1
           X == 1 .. c
           D == document[h]
           B == base[h]
           U == Undoable(h)
           P == Pending(h)
           R == Redoable(h)
<1>0. UndoTypes
  BY DEF StacksInv
<1>1. /\ c \in Nat /\ c \in X
      /\ undo \in [Histories -> Seq(Seq(X))] /\ redo \in [Histories -> Seq(Seq(X))]
      /\ document \in [Histories -> Seq(X)] /\ base \in [Histories -> Seq(X)] /\ tip \in [Histories -> Seq(X)]
      /\ open \in [Histories -> Seq(X) \cup {NoContext}]
  BY <1>0, OneMore
<1>2. commands' = c /\ Issued' = X /\ Issued \subseteq X /\ c \notin Issued
  <2>1. commands' = c /\ commands \in Nat
    BY <1>0 DEF Push, UndoTypes
  <2> QED BY <2>1 DEF Issued
<1>3. D \in Seq(Issued) /\ B \in Seq(Issued) /\ U \in Seq(Issued) /\ P \in Seq(Issued) /\ R \in Seq(Issued)
  BY <1>0, HistoryParts
<1>4. ToSet(B) \cup ToSet(U) \cup ToSet(P) \cup ToSet(R) \subseteq Issued
  <2> HIDE DEF D, B, U, P, R
  <2> QED BY <1>3, InSet
<1>5. Seq(Issued) \subseteq Seq(X)
  <2>1. commands \in Nat /\ commands + 1 \in Nat /\ commands <= commands + 1
    BY <1>0 DEF UndoTypes
  <2> QED BY <2>1, Widen DEF Issued
<1>6. D \in Seq(X) /\ B \in Seq(X) /\ U \in Seq(X) /\ P \in Seq(X) /\ R \in Seq(X)
      /\ c \notin ToSet(B) \cup ToSet(U) \cup ToSet(P) \cup ToSet(R)
  BY <1>2, <1>3, <1>4, <1>5
<1>7. h \notin spoiled => \A t2 : Explains(Append(D, c), B, U, Append(P, c), R, t2)
  <2>1. h \notin spoiled => Explains(D, B, U, P, R, tip[h])
    BY DEF StacksInv, Accounted
  <2> HIDE DEF D, B, U, P, R, X, c
  <2> QED BY <1>1, <1>6, <2>1, MorePending
<1>8. Append(D, c) \in Seq(X) /\ <<c>> \in Seq(X)
  <2> HIDE DEF D, X, c
  <2> QED BY <1>1, <1>6, AppendProperties
<1>9. PICK works \in BOOLEAN :
         LET done == [document EXCEPT ![h] = IF works THEN Append(@, c) ELSE @]
         IN IF IsOpen(h)
            THEN /\ open' = [open EXCEPT ![h] = Append(@, c)]
                 /\ document' = done
                 /\ IF works THEN Keep ELSE Spoil(h)
                 /\ UNCHANGED <<undo, redo, base, tip>>
            ELSE /\ document' = done
                 /\ IF works THEN NewEntry(h, <<c>>) ELSE UNCHANGED <<undo, redo, base, tip>>
                 /\ UNCHANGED <<open, spoiled>>
  BY DEF Push
<1> HIDE DEF X, c
<1>10. document' = [document EXCEPT ![h] = IF works THEN Append(D, c) ELSE D]
  BY <1>9
<1>11. /\ document' \in [Histories -> Seq(X)] /\ (works => document'[h] = Append(D, c)) /\ (~works => document'[h] = D)
       /\ \A g \in Histories \ {h} : document'[g] = document[g]
  <2> HIDE DEF D
  <2> QED BY <1>1, <1>6, <1>8, <1>10
<1>12. CASE IsOpen(h)
  <2>1. /\ open' = [open EXCEPT ![h] = Append(@, c)] /\ UNCHANGED <<undo, redo, base, tip>>
        /\ IF works THEN Keep ELSE Spoil(h)
    BY <1>9, <1>12
  <2>2. P = open[h]
    BY <1>12 DEF Pending
  <2>3. Append(P, c) \in Seq(X)
    <3> HIDE DEF P
    <3> QED BY <1>1, <1>6, AppendProperties
  <2>4. open'[h] = Append(P, c) /\ open' \in [Histories -> Seq(X) \cup {NoContext}]
        /\ \A g \in Histories \ {h} : open'[g] = open[g]
    BY <1>1, <2>1, <2>2, <2>3
  <2>5. UndoTypes'
    BY <1>1, <1>2, <1>11, <2>1, <2>4 DEF UndoTypes
  <2>6. OnlyOf(h)
    BY <1>11, <2>1, <2>4 DEF OnlyOf, Keep, Spoil
  <2>7. h \in spoiled' \/ Accounted(h)'
    <3>1. CASE ~works
      BY <2>1, <3>1 DEF Spoil
    <3>2. CASE works /\ h \in spoiled
      BY <2>1, <3>2 DEF Keep
    <3>3. CASE works /\ h \notin spoiled
      <4>1. Undoable(h)' = U /\ Redoable(h)' = R /\ base'[h] = B
        BY <2>1 DEF Undoable, Redoable
      <4>2. Pending(h)' = Append(P, c)
        <5>1. Append(P, c) # NoContext
          BY <2>3, UndoSetting DEF X
        <5> QED BY <2>4, <5>1 DEF Pending, IsOpen
      <4>3. document'[h] = Append(D, c)
        BY <1>11, <3>3
      <4> QED BY <1>7, <3>3, <4>1, <4>2, <4>3 DEF Accounted
    <3> QED BY <3>1, <3>2, <3>3
  <2> QED BY <2>5, <2>6, <2>7, OneHistory
<1>13. CASE ~IsOpen(h) /\ works
  <2>1. NewEntry(h, <<c>>) /\ UNCHANGED <<open, spoiled>>
    BY <1>9, <1>13
  <2>2. P = <<>>
    BY <1>13 DEF Pending
  <2>3. document'[h] = Append(D, c) /\ document'[h] \in Seq(X)
    BY <1>8, <1>11, <1>13
  <2>4. /\ undo' \in [Histories -> Seq(Seq(X))] /\ redo' \in [Histories -> Seq(Seq(X))]
        /\ base' \in [Histories -> Seq(X)] /\ tip' \in [Histories -> Seq(X)]
        /\ \A g \in Histories \ {h} :
              undo'[g] = undo[g] /\ redo'[g] = redo[g] /\ base'[g] = base[g] /\ tip'[g] = tip[g]
        /\ \A r \in Seq(X) : \A t :
              Explains(document'[h], base[h], Undoable(h), <<c>>, r, t)
              => Explains(document'[h], base'[h], Undoable(h)', <<>>, Redoable(h)', tip'[h])
    BY <1>0, <1>1, <1>2, <1>8, <2>1, <2>3, EntryPushed
  <2>5. UndoTypes'
    BY <1>1, <1>2, <1>11, <2>1, <2>4 DEF UndoTypes
  <2>6. OnlyOf(h)
    BY <1>1, <1>11, <2>1, <2>4 DEF OnlyOf
  <2>7. ASSUME h \notin spoiled PROVE Accounted(h)'
    <3>1. Pending(h)' = <<>>
      BY <1>13, <2>1 DEF Pending, IsOpen
    <3>2. Append(P, c) = <<c>>
      BY <2>2
    <3>3. Explains(document'[h], base[h], Undoable(h), <<c>>, R, tip[h])
      BY <1>7, <2>3, <2>7, <3>2
    <3> QED BY <1>6, <2>4, <3>1, <3>3 DEF Accounted
  <2> QED BY <2>1, <2>5, <2>6, <2>7, OneHistory
<1>14. CASE ~IsOpen(h) /\ ~works
  <2>1. UNCHANGED <<undo, redo, base, tip, open, spoiled>>
    BY <1>9, <1>14
  <2>2. UndoTypes'
    BY <1>1, <1>2, <1>11, <2>1 DEF UndoTypes
  <2>3. OnlyOf(h)
    BY <1>11, <2>1 DEF OnlyOf
  <2>4. h \notin spoiled => Accounted(h)'
    <3>1. /\ Undoable(h)' = U /\ Redoable(h)' = R /\ Pending(h)' = P
          /\ base'[h] = B /\ tip'[h] = tip[h] /\ document'[h] = D
      BY <1>11, <1>14, <2>1 DEF Undoable, Redoable, Pending, IsOpen
    <3> QED BY <3>1 DEF StacksInv, Accounted
  <2> QED BY <2>1, <2>2, <2>3, <2>4, OneHistory
<1> QED BY <1>12, <1>13, <1>14

LEMMA UndoStep ==
    ASSUME StacksInv, NEW h \in Histories, Undo(h)
    PROVE  StacksInv'
<1> DEFINE D == document[h]
           B == base[h]
           R == Redoable(h)
           f == Front(undo[h])
           e == Last(undo[h])
           d == Excluding(D, ToSet(e))
<1>0. UndoTypes
  BY DEF StacksInv
<1>1. /\ undo[h] \in Seq(Seq(Issued)) /\ undo[h] # <<>> /\ redo[h] \in Seq(Seq(Issued))
      /\ D \in Seq(Issued) /\ B \in Seq(Issued) /\ R \in Seq(Issued)
  BY <1>0, HistoryParts DEF Undo
<1>2. f \in Seq(Seq(Issued)) /\ e \in Seq(Issued) /\ Undoable(h) = FlattenSeq(f) \o e
  BY <1>1, StackFront DEF Undoable
<1>3. d \in Seq(Issued) /\ Append(redo[h], e) \in Seq(Seq(Issued)) /\ FlattenSeq(f) \in Seq(Issued)
      /\ FlattenSeq(Reverse(Append(redo[h], e))) = e \o R
  <2> HIDE DEF D, e, f
  <2> QED BY <1>1, <1>2, ExcludingPlaces, StackPush, FlattenType DEF Redoable
<1>4. /\ undo' = [undo EXCEPT ![h] = f]
      /\ UNCHANGED <<open, commands, base, tip>>
      /\ \/ /\ document' = [document EXCEPT ![h] = d]
            /\ redo' = [redo EXCEPT ![h] = Append(@, e)]
            /\ IF IsOpen(h) /\ open[h] # <<>> THEN Spoil(h) ELSE Keep
         \/ UNCHANGED <<document, redo>> /\ Spoil(h)
  BY DEF Undo
<1> HIDE DEF d, e, f
<1>5. /\ undo' \in [Histories -> Seq(Seq(Issued))] /\ undo'[h] = f
      /\ \A g \in Histories \ {h} : undo'[g] = undo[g]
  BY <1>0, <1>2, <1>4 DEF UndoTypes
<1>6. Issued' = Issued
  BY <1>4 DEF Issued
<1>7. /\ document' \in [Histories -> Seq(Issued)] /\ redo' \in [Histories -> Seq(Seq(Issued))]
      /\ \A g \in Histories \ {h} : document'[g] = document[g] /\ redo'[g] = redo[g]
  BY <1>0, <1>3, <1>4 DEF UndoTypes
<1>8. UndoTypes'
  BY <1>0, <1>4, <1>5, <1>6, <1>7 DEF UndoTypes
<1>9. OnlyOf(h)
  BY <1>4, <1>5, <1>7 DEF OnlyOf, Keep, Spoil
<1>10. ASSUME h \notin spoiled' PROVE Accounted(h)'
  <2>1. /\ document' = [document EXCEPT ![h] = d] /\ redo' = [redo EXCEPT ![h] = Append(@, e)]
        /\ ~(IsOpen(h) /\ open[h] # <<>>) /\ h \notin spoiled
    BY <1>4, <1>10 DEF Spoil, Keep
  <2>2. document'[h] = d /\ redo'[h] = Append(redo[h], e)
    BY <1>0, <2>1 DEF UndoTypes
  <2>3. Pending(h) = <<>> /\ Pending(h)' = <<>>
    BY <1>4, <2>1 DEF Pending, IsOpen
  <2>4. Explains(D, B, FlattenSeq(f) \o e, <<>>, R, tip[h])
    BY <1>2, <2>1, <2>3 DEF StacksInv, Accounted
  <2>5. Explains(d, B, FlattenSeq(f), <<>>, e \o R, tip[h])
    <3> DEFINE u == FlattenSeq(f)
    <3> HIDE DEF D, B, R, u
    <3> QED BY <1>1, <1>2, <1>3, <2>4, EntryUndone DEF d, u
  <2>6. /\ Undoable(h)' = FlattenSeq(f) /\ Redoable(h)' = e \o R
        /\ base'[h] = B /\ tip'[h] = tip[h]
    BY <1>3, <1>4, <1>5, <2>2 DEF Undoable, Redoable
  <2> QED BY <2>2, <2>3, <2>5, <2>6 DEF Accounted
<1> QED BY <1>0, <1>8, <1>9, <1>10, OneHistory

LEMMA RedoStep ==
    ASSUME StacksInv, NEW h \in Histories, Redo(h)
    PROVE  StacksInv'
<1> DEFINE D == document[h]
           B == base[h]
           U == Undoable(h)
           f == Front(redo[h])
           e == Last(redo[h])
<1>0. UndoTypes
  BY DEF StacksInv
<1>1. /\ undo[h] \in Seq(Seq(Issued)) /\ redo[h] # <<>> /\ redo[h] \in Seq(Seq(Issued))
      /\ D \in Seq(Issued) /\ B \in Seq(Issued) /\ U \in Seq(Issued)
  BY <1>0, HistoryParts DEF Redo
<1>2. /\ f \in Seq(Seq(Issued)) /\ e \in Seq(Issued) /\ Reverse(f) \in Seq(Seq(Issued))
      /\ Redoable(h) = e \o FlattenSeq(Reverse(f))
  BY <1>1, StackFront DEF Redoable
<1>3. D \o e \in Seq(Issued) /\ FlattenSeq(Reverse(f)) \in Seq(Issued)
  <2> HIDE DEF D, e, f
  <2> QED BY <1>1, <1>2, FlattenType, ConcatProperties
<1>4. Appended(undo[h], e) \in Seq(Seq(Issued)) /\ Dropped(h) \in Seq(Issued) /\ Moves(h, e, Issued)
  BY <1>0, <1>2, AppendedParts
<1>5. /\ redo' = [redo EXCEPT ![h] = f]
      /\ UNCHANGED <<open, commands, tip>>
      /\ \/ /\ document' = [document EXCEPT ![h] = D \o e]
            /\ undo' = [undo EXCEPT ![h] = Appended(undo[h], e)]
            /\ base' = [base EXCEPT ![h] = Dropped(h)]
            /\ IF IsOpen(h) /\ open[h] # <<>> THEN Spoil(h) ELSE Keep
         \/ UNCHANGED <<document, undo, base>> /\ Spoil(h)
  BY DEF Redo
<1> HIDE DEF e, f
<1>6. /\ redo' \in [Histories -> Seq(Seq(Issued))] /\ redo'[h] = f
      /\ \A g \in Histories \ {h} : redo'[g] = redo[g]
  BY <1>0, <1>2, <1>5 DEF UndoTypes
<1>7. Issued' = Issued
  BY <1>5 DEF Issued
<1>8. /\ document' \in [Histories -> Seq(Issued)]
      /\ \A g \in Histories \ {h} : document'[g] = document[g]
  BY <1>0, <1>3, <1>5 DEF UndoTypes
<1>9. /\ undo' \in [Histories -> Seq(Seq(Issued))] /\ base' \in [Histories -> Seq(Issued)]
      /\ \A g \in Histories \ {h} : undo'[g] = undo[g] /\ base'[g] = base[g]
  BY <1>0, <1>4, <1>5 DEF UndoTypes
<1>10. UndoTypes'
  BY <1>0, <1>5, <1>6, <1>7, <1>8, <1>9 DEF UndoTypes
<1>11. OnlyOf(h)
  BY <1>5, <1>6, <1>8, <1>9 DEF OnlyOf, Keep, Spoil
<1>12. ASSUME h \notin spoiled' PROVE Accounted(h)'
  <2>1. /\ document' = [document EXCEPT ![h] = D \o e]
        /\ undo' = [undo EXCEPT ![h] = Appended(undo[h], e)]
        /\ base' = [base EXCEPT ![h] = Dropped(h)]
        /\ ~(IsOpen(h) /\ open[h] # <<>>) /\ h \notin spoiled
    BY <1>5, <1>12 DEF Spoil, Keep
  <2>2. document'[h] = D \o e /\ undo'[h] = Appended(undo[h], e) /\ base'[h] = Dropped(h)
    BY <1>0, <2>1 DEF UndoTypes
  <2>3. Pending(h) = <<>> /\ Pending(h)' = <<>>
    BY <1>5, <2>1 DEF Pending, IsOpen
  <2> DEFINE r == FlattenSeq(Reverse(f))
  <2>4. PICK o \in Seq(Issued), y \in Seq(Issued) :
              U = o \o y /\ FlattenSeq(Appended(undo[h], e)) = y \o e /\ Dropped(h) = B \o o
    BY <1>4 DEF Moves
  <2>5. Explains(D, B, U, <<>>, e \o r, tip[h])
    BY <1>2, <2>1, <2>3 DEF StacksInv, Accounted
  <2>6. Undoable(h)' = y \o e /\ Redoable(h)' = r /\ base'[h] = B \o o /\ tip'[h] = tip[h]
    BY <1>5, <1>6, <2>2, <2>4 DEF Undoable, Redoable
  <2> DEFINE z == D \o e
  <2> HIDE DEF D, B, U, r
  <2>7. Explains(z, B, U \o e, <<>>, r, tip[h])
    BY <1>1, <1>2, <1>3, <2>5, EntryRedone DEF r
  <2>8. y \o e \in Seq(Issued)
    BY <1>2, ConcatProperties
  <2>9. U \o e = o \o (y \o e)
    BY <1>2, <2>4, Associative, SMTT(30) DEF Assoc
  <2>10. Explains(z, B \o o, (y \o e) \o <<>>, <<>>, r, tip[h])
    <3> DEFINE w == y \o e
               E == <<>>
    <3>1. w \in Seq(Issued) /\ E \in Seq(Issued) /\ E = <<>> /\ r \in Seq(Issued)
      BY <1>3, <2>8 DEF r
    <3>2. Explains(z, B, o \o w, E, r, tip[h])
      BY <2>7, <2>9
    <3> HIDE DEF w, E, z
    <3>3. Explains(z, B \o o, w \o E, <<>>, r, tip[h])
      BY <1>1, <3>1, <3>2, PendingEntered
    <3> QED BY <3>3 DEF w, E
  <2>11. (y \o e) \o <<>> = y \o e
    BY <2>8, ConcatEmptySeq
  <2> QED BY <2>2, <2>3, <2>6, <2>10, <2>11 DEF Accounted, D, B
<1> QED BY <1>0, <1>10, <1>11, <1>12, OneHistory

LEMMA BeginStep ==
    ASSUME StacksInv, NEW h \in Histories, Begin(h)
    PROVE  StacksInv'
<1>0. UndoTypes
  BY DEF StacksInv
<1>1. ~IsOpen(h) /\ open' = [open EXCEPT ![h] = <<>>]
      /\ UNCHANGED <<undo, redo, document, commands, base, tip, spoiled>>
  BY DEF Begin
<1>2. <<>> \in Seq(Issued) /\ <<>> \in Seq(Nat) /\ Issued' = Issued
  BY <1>1 DEF Issued
<1>3. /\ open' \in [Histories -> Seq(Issued) \cup {NoContext}] /\ open'[h] = <<>>
      /\ \A g \in Histories \ {h} : open'[g] = open[g]
  BY <1>0, <1>1, <1>2 DEF UndoTypes
<1>4. UndoTypes'
  BY <1>0, <1>1, <1>2, <1>3 DEF UndoTypes
<1>5. OnlyOf(h)
  BY <1>1, <1>3 DEF OnlyOf
<1>6. ASSUME h \notin spoiled' PROVE Accounted(h)'
  <2>1. Pending(h) = <<>> /\ Pending(h)' = <<>>
    BY <1>1, <1>3 DEF Pending
  <2>2. Undoable(h)' = Undoable(h) /\ Redoable(h)' = Redoable(h)
    BY <1>1 DEF Undoable, Redoable
  <2> QED BY <1>1, <1>6, <2>1, <2>2 DEF StacksInv, Accounted
<1> QED BY <1>0, <1>4, <1>5, <1>6, OneHistory

LEMMA EndStep ==
    ASSUME StacksInv, NEW h \in Histories, End(h)
    PROVE  StacksInv'
<1> DEFINE P == open[h]
<1>0. UndoTypes
  BY DEF StacksInv
<1>1. /\ IsOpen(h) /\ open' = [open EXCEPT ![h] = NoContext]
      /\ UNCHANGED <<document, commands, spoiled>>
      /\ IF P # <<>> THEN NewEntry(h, P) ELSE UNCHANGED <<undo, redo, base, tip>>
  BY DEF End
<1>2. Issued' = Issued
  BY <1>1 DEF Issued
<1>3. /\ open' \in [Histories -> Seq(Issued) \cup {NoContext}] /\ open'[h] = NoContext
      /\ \A g \in Histories \ {h} : open'[g] = open[g]
  BY <1>0, <1>1 DEF UndoTypes
<1>4. /\ undo \in [Histories -> Seq(Seq(Issued))] /\ redo \in [Histories -> Seq(Seq(Issued))]
      /\ base \in [Histories -> Seq(Issued)] /\ tip \in [Histories -> Seq(Issued)]
      /\ document \in [Histories -> Seq(Issued)]
  BY <1>0 DEF UndoTypes
<1>5. P \in Seq(Issued) /\ Pending(h) = P /\ Pending(h)' = <<>> /\ Redoable(h) \in Seq(Issued)
      /\ document'[h] \in Seq(Issued)
  BY <1>0, <1>1, <1>3, <1>4, HistoryParts DEF Pending, IsOpen
<1>6. h \notin spoiled => Explains(document'[h], base[h], Undoable(h), P, Redoable(h), tip[h])
  BY <1>1, <1>5 DEF StacksInv, Accounted
<1> HIDE DEF P
<1>7. CASE P # <<>>
  <2>1. NewEntry(h, P)
    BY <1>1, <1>7
  <2>2. /\ undo' \in [Histories -> Seq(Seq(Issued))] /\ redo' \in [Histories -> Seq(Seq(Issued))]
        /\ base' \in [Histories -> Seq(Issued)] /\ tip' \in [Histories -> Seq(Issued)]
        /\ \A g \in Histories \ {h} :
              undo'[g] = undo[g] /\ redo'[g] = redo[g] /\ base'[g] = base[g] /\ tip'[g] = tip[g]
        /\ \A r \in Seq(Issued) : \A t :
              Explains(document'[h], base[h], Undoable(h), P, r, t)
              => Explains(document'[h], base'[h], Undoable(h)', <<>>, Redoable(h)', tip'[h])
    BY <1>0, <1>4, <1>5, <2>1, EntryPushed
  <2>3. UndoTypes'
    BY <1>0, <1>1, <1>2, <1>3, <1>4, <2>2 DEF UndoTypes
  <2>4. OnlyOf(h)
    BY <1>1, <1>3, <2>2 DEF OnlyOf
  <2>5. h \in spoiled' \/ Accounted(h)'
    BY <1>1, <1>5, <1>6, <2>2 DEF Accounted
  <2> QED BY <2>3, <2>4, <2>5, OneHistory
<1>8. CASE P = <<>>
  <2>1. UNCHANGED <<undo, redo, base, tip>>
    BY <1>1, <1>8
  <2>2. UndoTypes'
    BY <1>0, <1>1, <1>2, <1>3, <1>4, <2>1 DEF UndoTypes
  <2>3. OnlyOf(h)
    BY <1>1, <1>3, <2>1 DEF OnlyOf
  <2>4. Undoable(h)' = Undoable(h) /\ Redoable(h)' = Redoable(h)
    BY <2>1 DEF Undoable, Redoable
  <2>5. h \in spoiled' \/ Accounted(h)'
    BY <1>1, <1>5, <1>6, <1>8, <2>1, <2>4 DEF Accounted
  <2> QED BY <2>2, <2>3, <2>5, OneHistory
<1> QED BY <1>7, <1>8

LEMMA AbortStep ==
    ASSUME StacksInv, NEW h \in Histories, Abort(h)
    PROVE  StacksInv'
<1>0. UndoTypes
  BY DEF StacksInv
<1>1. /\ IsOpen(h) /\ open' = [open EXCEPT ![h] = NoContext]
      /\ UNCHANGED <<undo, redo, document, commands, base, tip>>
      /\ IF open[h] # <<>> THEN Spoil(h) ELSE Keep
  BY DEF Abort
<1>2. Issued' = Issued
  BY <1>1 DEF Issued
<1>3. /\ open' \in [Histories -> Seq(Issued) \cup {NoContext}] /\ open'[h] = NoContext
      /\ \A g \in Histories \ {h} : open'[g] = open[g]
  BY <1>0, <1>1 DEF UndoTypes
<1>4. UndoTypes'
  BY <1>0, <1>1, <1>2, <1>3 DEF UndoTypes
<1>5. OnlyOf(h)
  BY <1>1, <1>3 DEF OnlyOf, Spoil, Keep
<1>6. ASSUME h \notin spoiled' PROVE Accounted(h)'
  <2>1. Pending(h) = <<>> /\ Pending(h)' = <<>> /\ h \notin spoiled
    BY <1>1, <1>3, <1>6 DEF Pending, IsOpen, Spoil, Keep
  <2>2. Undoable(h)' = Undoable(h) /\ Redoable(h)' = Redoable(h)
    BY <1>1 DEF Undoable, Redoable
  <2> QED BY <1>1, <2>1, <2>2 DEF StacksInv, Accounted
<1> QED BY <1>0, <1>4, <1>5, <1>6, OneHistory

LEMMA ClearStep ==
    ASSUME StacksInv, NEW h \in Histories, Clear(h)
    PROVE  StacksInv'
<1>0. UndoTypes
  BY DEF StacksInv
<1>1. /\ undo' = [undo EXCEPT ![h] = <<>>] /\ redo' = [redo EXCEPT ![h] = <<>>]
      /\ open' = [open EXCEPT ![h] = NoContext]
      /\ base' = [base EXCEPT ![h] = document[h]] /\ tip' = [tip EXCEPT ![h] = document[h]]
      /\ spoiled' = spoiled \ {h} /\ UNCHANGED <<document, commands>>
  BY DEF Clear
<1>2. Issued' = Issued /\ <<>> \in Seq(Seq(Issued)) /\ document[h] \in Seq(Issued)
  BY <1>0, <1>1 DEF Issued, UndoTypes
<1>3. /\ undo' \in [Histories -> Seq(Seq(Issued))] /\ redo' \in [Histories -> Seq(Seq(Issued))]
      /\ undo'[h] = <<>> /\ redo'[h] = <<>>
      /\ \A g \in Histories \ {h} : undo'[g] = undo[g] /\ redo'[g] = redo[g]
  BY <1>0, <1>1, <1>2 DEF UndoTypes
<1>4. /\ base' \in [Histories -> Seq(Issued)] /\ tip' \in [Histories -> Seq(Issued)]
      /\ base'[h] = document[h] /\ tip'[h] = document[h]
      /\ \A g \in Histories \ {h} : base'[g] = base[g] /\ tip'[g] = tip[g]
  BY <1>0, <1>1, <1>2 DEF UndoTypes
<1>5. /\ open' \in [Histories -> Seq(Issued) \cup {NoContext}] /\ open'[h] = NoContext
      /\ \A g \in Histories \ {h} : open'[g] = open[g]
  BY <1>0, <1>1 DEF UndoTypes
<1>6. UndoTypes'
  BY <1>0, <1>1, <1>2, <1>3, <1>4, <1>5 DEF UndoTypes
<1>7. OnlyOf(h)
  BY <1>1, <1>3, <1>4, <1>5 DEF OnlyOf
<1>8. Accounted(h)'
  <2>1. Undoable(h)' = <<>> /\ Redoable(h)' = <<>> /\ Pending(h)' = <<>>
    BY <1>3, <1>5, FlattenEmpty, ReverseEmpty DEF Undoable, Redoable, Pending, IsOpen
  <2> QED BY <1>1, <1>2, <1>4, <2>1, EmptyExplains DEF Accounted
<1> QED BY <1>0, <1>6, <1>7, <1>8, OneHistory

LEMMA HistoryStays ==
    ASSUME StacksInv, UNCHANGED historyVars
    PROVE  StacksInv'
  BY DEF historyVars, StacksInv, UndoTypes, Issued, Accounted, Undoable, Redoable, Pending, IsOpen

(* Whoever there is, is to be told of a new active context.                *)
LEMMA ActivateTells ==
    ASSUME ContextInv, NEW k, Activate(k)
    PROVE  /\ key' = k /\ telling' \in Seq(Seq(Watchers))
           /\ \A w \in Watchers : \E i \in 1 .. Len(telling') : w \in ToSet(telling'[i])
<1> DEFINE all == SetToSeq(Watchers)
<1>1. all \in Seq(Watchers) /\ ToSet(all) = Watchers
  BY UndoSetting, SetToSeqParts
<1>2. key' = k /\ telling' = <<all>> \o telling /\ telling \in Seq(Seq(Watchers))
  BY DEF Activate, ContextInv
<1> HIDE DEF all
<1>3. <<all>> \in Seq(Seq(Watchers)) /\ Len(<<all>>) = 1 /\ <<all>>[1] = all
  BY <1>1
<1>4. /\ telling' \in Seq(Seq(Watchers)) /\ Len(telling') = 1 + Len(telling) /\ Len(telling) \in Nat
      /\ telling'[1] = all
  BY <1>2, <1>3, ConcatProperties
<1>5. 1 \in 1 .. Len(telling')
  BY <1>4
<1> QED BY <1>1, <1>2, <1>4, <1>5

LEMMA ActivateStep ==
    ASSUME ContextInv, NEW k \in Contexts \cup {NoContext}, Activate(k), UNCHANGED told,
           stacks' \in [Contexts -> Histories \cup {NoContext}],
           k # NoContext => stacks'[k] # NoContext
    PROVE  ContextInv'
<1>1. /\ key' = k /\ telling' \in Seq(Seq(Watchers))
      /\ \A w \in Watchers : \E i \in 1 .. Len(telling') : w \in ToSet(telling'[i])
  BY ActivateTells
<1> QED BY <1>1 DEF ContextInv

LEMMA RegisterStep ==
    ASSUME ContextInv, NEW k \in Contexts, NEW h \in Histories, RegisterStack(k, h)
    PROVE  ContextInv'
<1>1. /\ stacks' = [stacks EXCEPT ![k] = h] /\ UNCHANGED told
      /\ stacks \in [Contexts -> Histories \cup {NoContext}] /\ h # NoContext
  BY UndoSetting DEF RegisterStack, ContextInv
<1>2. stacks' \in [Contexts -> Histories \cup {NoContext}] /\ stacks'[k] # NoContext
      /\ \A c \in Contexts : stacks[c] # NoContext => stacks'[c] # NoContext
  BY <1>1
<1>3. CASE UNCHANGED <<key, telling, switches>>
  BY <1>1, <1>2, <1>3 DEF ContextInv
<1>4. CASE Activate(k)
  BY <1>1, <1>2, <1>4, ActivateStep
<1> QED BY <1>3, <1>4 DEF RegisterStack

LEMMA UnregisterStep ==
    ASSUME ContextInv, NEW k \in Contexts, UnregisterStack(k)
    PROVE  ContextInv'
<1>1. /\ stacks' = [stacks EXCEPT ![k] = NoContext] /\ UNCHANGED told
      /\ stacks \in [Contexts -> Histories \cup {NoContext}]
  BY DEF UnregisterStack, ContextInv
<1>2. stacks' \in [Contexts -> Histories \cup {NoContext}]
      /\ \A c \in Contexts : c # k => stacks'[c] = stacks[c]
  BY <1>1
<1>3. CASE k = key
  BY <1>1, <1>2, <1>3, ActivateStep DEF UnregisterStack
<1>4. CASE k # key
  <2>1. UNCHANGED <<key, telling, switches>>
    BY <1>4 DEF UnregisterStack
  <2> QED BY <1>1, <1>2, <1>4, <2>1 DEF ContextInv
<1> QED BY <1>3, <1>4

(* Who is told knows; whoever else is to be told still is.                 *)
LEMMA TellStep ==
    ASSUME ContextInv, Tell
    PROVE  ContextInv'
<1> DEFINE todo == Head(telling)
           n == Len(telling)
<1>1. /\ telling \in Seq(Seq(Watchers)) /\ telling # <<>> /\ n \in Nat \ {0}
      /\ todo = telling[1] /\ todo \in Seq(Watchers) /\ UNCHANGED <<stacks, key>>
      /\ told \in [Watchers -> Contexts \cup {NoContext}] /\ key \in Contexts \cup {NoContext}
  BY DEF Tell, ContextInv
<1>2. ASSUME NEW w \in Watchers, told[w] # key
      PROVE  \E i \in 1 .. n : w \in ToSet(telling[i])
  BY <1>2 DEF ContextInv
<1>3. CASE todo = <<>>
  <2>1. telling' = Tail(telling) /\ told' = told
    BY <1>3 DEF Tell
  <2>2. /\ telling' \in Seq(Seq(Watchers)) /\ Len(telling') = n - 1
        /\ \A i \in 1 .. n - 1 : telling'[i] = telling[i + 1]
    BY <1>1, <2>1
  <2>3. ASSUME NEW w \in Watchers, told[w] # key
        PROVE  \E i \in 1 .. Len(telling') : w \in ToSet(telling'[i])
    <3>1. PICK i \in 1 .. n : w \in ToSet(telling[i])
      BY <1>2, <2>3
    <3>2. i # 1
      BY <1>1, <1>3, <3>1 DEF ToSet
    <3>3. i - 1 \in 1 .. n - 1 /\ (i - 1) + 1 = i
      BY <1>1, <3>2
    <3>4. w \in ToSet(telling'[i - 1])
      BY <2>2, <3>1, <3>3
    <3> QED BY <2>2, <3>3, <3>4
  <2> QED BY <1>1, <2>1, <2>2, <2>3 DEF ContextInv
<1>4. CASE todo # <<>>
  <2> DEFINE v == Head(todo)
             rest == Tail(todo)
  <2>1. v \in Watchers /\ rest \in Seq(Watchers) /\ todo = <<v>> \o rest
    BY <1>1, <1>4
  <2>2. told' = [told EXCEPT ![v] = key] /\ telling' = [telling EXCEPT ![1] = rest]
    BY <1>1, <1>4 DEF Tell
  <2>3. ToSet(todo) \subseteq {v} \cup ToSet(rest)
    <3>1. ASSUME NEW i \in 1 .. Len(todo) PROVE todo[i] \in {v} \cup ToSet(rest)
      <4>1. CASE i = 1
        BY <1>1, <4>1
      <4>2. CASE i # 1
        <5>1. i - 1 \in 1 .. Len(rest) /\ todo[i] = rest[i - 1] /\ DOMAIN rest = 1 .. Len(rest)
          BY <1>1, <1>4, <4>2
        <5> QED BY <5>1 DEF ToSet
      <4> QED BY <4>1, <4>2
    <3>2. DOMAIN todo = 1 .. Len(todo)
      BY <1>1
    <3> QED BY <3>1, <3>2 DEF ToSet
  <2> HIDE DEF v, rest, todo
  <2>4. /\ told' \in [Watchers -> Contexts \cup {NoContext}] /\ told'[v] = key
        /\ \A w \in Watchers : w # v => told'[w] = told[w]
    BY <1>1, <2>1, <2>2
  <2>5. /\ telling' \in Seq(Seq(Watchers)) /\ Len(telling') = n /\ telling'[1] = rest
        /\ \A i \in 1 .. n : i # 1 => telling'[i] = telling[i]
    BY <1>1, <2>1, <2>2
  <2>6. ASSUME NEW w \in Watchers, told'[w] # key
        PROVE  \E i \in 1 .. Len(telling') : w \in ToSet(telling'[i])
    <3>1. w # v /\ told[w] # key
      BY <2>4, <2>6
    <3>2. PICK i \in 1 .. n : w \in ToSet(telling[i])
      BY <1>2, <3>1
    <3>3. w \in ToSet(telling'[i])
      <4>1. CASE i = 1
        BY <1>1, <2>3, <2>5, <3>1, <3>2, <4>1
      <4>2. CASE i # 1
        BY <2>5, <3>2, <4>2
      <4> QED BY <4>1, <4>2
    <3> QED BY <2>5, <3>3
  <2> QED BY <1>1, <2>4, <2>5, <2>6 DEF ContextInv
<1> QED BY <1>3, <1>4

LEMMA UndoNextInv ==
    ASSUME UndoInv, UndoNext
    PROVE  UndoInv'
<1>1. StacksInv /\ ContextInv
  BY DEF UndoInv
<1>2. CASE HistoryNext
  <2>1. StacksInv'
    BY <1>1, <1>2, PushStep, BeginStep, EndStep, AbortStep, ClearStep, UndoStep, RedoStep DEF HistoryNext
  <2>2. UNCHANGED managerVars
    BY <1>2 DEF HistoryNext, Push, Begin, End, Abort, Clear, Undo, Redo
  <2>3. ContextInv'
    BY <1>1, <2>2 DEF managerVars, ContextInv
  <2> QED BY <2>1, <2>3 DEF UndoInv
<1>3. CASE ContextNext
  <2>1. UNCHANGED historyVars
    BY <1>3 DEF ContextNext, SetActive, RegisterStack, UnregisterStack, Tell
  <2>2. ContextInv'
    <3>1. ASSUME NEW k \in Contexts \cup {NoContext}, SetActive(k) PROVE ContextInv'
      BY <1>1, <3>1, ActivateStep DEF SetActive, ContextInv
    <3> QED BY <1>1, <1>3, <3>1, RegisterStep, UnregisterStep, TellStep DEF ContextNext
  <2> QED BY <1>1, <2>1, <2>2, HistoryStays DEF UndoInv
<1> QED BY <1>2, <1>3 DEF UndoNext

LEMMA UndoStays ==
    ASSUME UndoInv, UNCHANGED undoVars
    PROVE  UndoInv'
<1>1. UNCHANGED historyVars /\ UNCHANGED managerVars
  BY DEF undoVars
<1>2. StacksInv'
  BY <1>1, HistoryStays DEF UndoInv
<1>3. ContextInv'
  BY <1>1 DEF UndoInv, managerVars, ContextInv
<1> QED BY <1>2, <1>3 DEF UndoInv

LEMMA UndoAllNextInv ==
    ASSUME UndoInv, [AllNext]_allVars
    PROVE  UndoInv'
<1>1. CASE UndoOf
  <2>1. HistoryNext \/ ContextNext
    BY <1>1 DEF UndoOf
  <2> QED BY <2>1, UndoNextInv DEF UndoNext
<1>2. CASE \/ OpsOf \/ UpdatesOf \/ LifecycleOf \/ StoreOf \/ FormsOf \/ ProviderOf \/ ReactiveOf
           \/ TweensOf \/ StatesOf \/ TimelineOf \/ CachesOf \/ RoutedOf \/ CollectionsOf
  <2>1. UNCHANGED undoVars
    BY <1>2 DEF OpsOf, UpdatesOf, LifecycleOf, StoreOf, FormsOf, ProviderOf, ReactiveOf, TweensOf,
                StatesOf, TimelineOf, CachesOf, RoutedOf, CollectionsOf, firstVars
  <2> QED BY <2>1, UndoStays
<1>3. CASE UNCHANGED allVars
  <2>1. UNCHANGED undoVars
    BY <1>3 DEF allVars, firstVars
  <2> QED BY <2>1, UndoStays
<1> QED BY <1>1, <1>2, <1>3 DEF AllNext

(* UndoSafe: for any number of histories, contexts and subscribers and any *)
(* size of stack, the stacks say how the document came about and what can  *)
(* be redone, and whoever was told of the contexts knows the active one.   *)
THEOREM UndoKnows == AllSpec => []UndoSafe
<1>1. AllInit => UndoInv
  BY UndoInitInv DEF AllInit
<1>2. UndoInv => UndoSafe
  BY UndoIsSafe
<1> QED BY <1>1, <1>2, UndoAllNextInv, PTL DEF AllSpec

-----------------------------------------------------------------------------
(* Features and their manager.                                             *)

(* The manager's record.                                                   *)
Views == Seq(Instances) \cup {NotBuilt}
Bindings == [consumer : Names, provider : Names]
Managers ==
    [order : Seq(Instances), bound : SUBSET Names, bindings : SUBSET Bindings,
     views : [Scenes -> Views], running : SUBSET Instances, half : SUBSET Instances,
     held : [Instances -> SUBSET ToSet(SetupOrder)]]

(* A name is registered once; the views, the bindings and the runtimes of  *)
(* the manager m are those of what is registered, and a feature that is    *)
(* not routed holds nothing.                                               *)
Orderly(m) ==
    /\ IsInjective(m.order)
    /\ \A i, j \in Registered(m) : NameOf[i] = NameOf[j] => i = j
    /\ \A s \in Scenes : m.views[s] \in {NotBuilt, InScene(m.order, s)}
Resolved(m) ==
    \A l \in m.bindings : /\ ByName(m, l.consumer) # {}
                          /\ ByName(m, l.provider) \cap LogicFeatures # {}
RuntimesOf(m) ==
    /\ m.bound \subseteq NamesIn(Registered(m))
    /\ \A i \in m.running : i \in Registered(m) /\ NameOf[i] \in m.bound
    /\ \A i \in Instances : /\ m.held[i] \cap {"scope", "events"} # {} => i \in m.running \cup m.half
                            /\ i \notin Routed => m.held[i] = {}
ManagerInv(m) == m \in Managers /\ Orderly(m) /\ Resolved(m) /\ RuntimesOf(m)

LifecycleInv ==
    /\ ManagerInv(fm) /\ scene \in Scenes
    /\ pass \in Seq(Instances) /\ owed \subseteq ToSet(pass)

LEMMA Setup ==
    /\ ToSet(SetupOrder) = {"scope", "actions", "events"}
    /\ \A n \in 0 .. Len(SetupOrder) : ToSet(SubSeq(SetupOrder, 1, n)) \subseteq ToSet(SetupOrder)
<1>1. /\ SetupOrder \in Seq({"scope", "actions", "events"}) /\ Len(SetupOrder) = 3
      /\ SetupOrder[1] = "scope" /\ SetupOrder[2] = "actions" /\ SetupOrder[3] = "events"
  BY DEF SetupOrder
<1>2. ToSet(SetupOrder) = {"scope", "actions", "events"}
  <2>1. DOMAIN SetupOrder = {1, 2, 3}
    BY <1>1
  <2> QED BY <1>1, <2>1 DEF ToSet
<1>3. ASSUME NEW n \in 0 .. Len(SetupOrder)
      PROVE  ToSet(SubSeq(SetupOrder, 1, n)) \subseteq ToSet(SetupOrder)
  <2>1. SubSeq(SetupOrder, 1, n) \in Seq({"scope", "actions", "events"})
    BY <1>1
  <2> QED BY <1>2, <2>1, InSet
<1> QED BY <1>2, <1>3

LEMMA SceneViews ==
    ASSUME NEW order \in Seq(Instances), NEW s
    PROVE  /\ InScene(order, s) \in Seq(Instances)
           /\ ToSet(InScene(order, s)) \subseteq ToSet(order)
BY IncludingParts DEF InScene

(* register(): the name is free, and its feature not yet known.            *)
LEMMA RegisterKeeps ==
    ASSUME NEW m, ManagerInv(m), NEW i \in Instances, ByName(m, NameOf[i]) = {}
    PROVE  /\ ManagerInv(AfterRegister(m, i))
           /\ Registered(AfterRegister(m, i)) = Registered(m) \cup {i}
<1> DEFINE n == AfterRegister(m, i)
<1>1. m \in Managers
  BY DEF ManagerInv
<1>2. /\ n \in Managers /\ n.order = Append(m.order, i) /\ n.bound = m.bound \ {NameOf[i]}
      /\ n.views = [s \in Scenes |-> NotBuilt] /\ n.bindings = m.bindings
      /\ n.running = m.running /\ n.half = m.half /\ n.held = m.held
  <2>1. [s \in Scenes |-> NotBuilt] \in [Scenes -> Views]
    BY DEF Views
  <2>2. /\ Append(m.order, i) \in Seq(Instances) /\ m.bound \ {NameOf[i]} \in SUBSET Names
        /\ n = [m EXCEPT !.order = Append(m.order, i), !.bound = m.bound \ {NameOf[i]},
                         !.views = [s \in Scenes |-> NotBuilt]]
    BY <1>1 DEF AfterRegister, Managers, Invalidated
  <2> QED BY <1>1, <2>1, <2>2 DEF Managers
<1> HIDE DEF n
<1>3. i \notin Registered(m) /\ \A j \in Registered(m) : NameOf[j] # NameOf[i]
  BY DEF ByName
<1>4. Registered(n) = Registered(m) \cup {i} /\ IsInjective(n.order)
  <2>1. m.order \in Seq(Instances) /\ IsInjective(m.order) /\ i \notin ToSet(m.order)
    BY <1>1, <1>3 DEF Managers, ManagerInv, Orderly, Registered
  <2>2. IsInjective(Append(m.order, i)) /\ ToSet(Append(m.order, i)) = ToSet(m.order) \cup {i}
    BY <2>1, DistinctWith
  <2> QED BY <1>2, <2>2 DEF Registered
<1>5. Orderly(n)
  BY <1>2, <1>3, <1>4 DEF ManagerInv, Orderly
<1>6. Resolved(n)
  <2>1. \A x : ByName(m, x) \subseteq ByName(n, x)
    BY <1>4 DEF ByName
  <2> QED BY <1>2, <2>1 DEF ManagerInv, Resolved
<1>7. RuntimesOf(n)
  <2>1. m.bound \subseteq NamesIn(Registered(m)) /\ NameOf[i] \notin NamesIn(Registered(m))
    BY <1>3 DEF ManagerInv, RuntimesOf, NamesIn
  <2>2. n.bound = m.bound /\ NamesIn(Registered(m)) \subseteq NamesIn(Registered(n))
    BY <1>2, <1>4, <2>1 DEF NamesIn
  <2> QED BY <1>2, <1>4, <2>1, <2>2 DEF ManagerInv, RuntimesOf
<1> QED BY <1>2, <1>4, <1>5, <1>6, <1>7 DEF ManagerInv, n

(* The runtimes of S are shut down; of their names, B are no longer bound. *)
ShutDown(m, S, B) == [AfterShutdown(m, S) EXCEPT !.bound = @ \ B]
LEMMA ShutdownKeeps ==
    ASSUME NEW m, ManagerInv(m), NEW S \in SUBSET Instances, NEW B \in SUBSET NamesIn(S), S \subseteq Registered(m)
    PROVE  /\ ManagerInv(ShutDown(m, S, B))
           /\ ShutDown(m, S, B).running = m.running \ S /\ ShutDown(m, S, B).order = m.order
<1> DEFINE n == ShutDown(m, S, B)
<1>1. m \in Managers
  BY DEF ManagerInv
<1>2. /\ n \in Managers /\ n.order = m.order /\ n.bound = m.bound \ B
      /\ n.views = m.views /\ n.bindings = m.bindings /\ n.running = m.running \ S /\ n.half = m.half
      /\ n.held = [i \in Instances |-> IF i \in S \cap Routed THEN Released(m.held[i]) ELSE m.held[i]]
  <2>1. \A h \in SUBSET ToSet(SetupOrder) : Released(h) \in SUBSET ToSet(SetupOrder)
    BY DEF Released
  <2>2. [i \in Instances |-> IF i \in S \cap Routed THEN Released(m.held[i]) ELSE m.held[i]]
            \in [Instances -> SUBSET ToSet(SetupOrder)]
    BY <1>1, <2>1 DEF Managers
  <2> QED BY <1>1, <2>2 DEF ShutDown, AfterShutdown, Managers
<1> HIDE DEF n
<1>3. Registered(n) = Registered(m)
  BY <1>2 DEF Registered
<1>4. Orderly(n)
  BY <1>2, <1>3 DEF ManagerInv, Orderly
<1>5. Resolved(n)
  BY <1>2, <1>3 DEF ManagerInv, Resolved, ByName
<1>6. RuntimesOf(n)
  <2>1. n.bound \subseteq NamesIn(Registered(n))
    BY <1>2, <1>3 DEF ManagerInv, RuntimesOf
  <2>2. ASSUME NEW i \in n.running PROVE i \in Registered(n) /\ NameOf[i] \in n.bound
    <3>1. i \in m.running /\ i \notin S /\ i \in Registered(m) /\ NameOf[i] \in m.bound
      BY <1>2 DEF ManagerInv, RuntimesOf
    <3>2. NameOf[i] \notin NamesIn(S)
      BY <3>1 DEF ManagerInv, Orderly, NamesIn
    <3> QED BY <1>2, <1>3, <3>1, <3>2
  <2>3. ASSUME NEW i \in Instances
        PROVE  /\ n.held[i] \cap {"scope", "events"} # {} => i \in n.running \cup n.half
               /\ i \notin Routed => n.held[i] = {}
    <3>1. /\ m.held[i] \cap {"scope", "events"} # {} => i \in m.running \cup m.half
          /\ i \notin Routed => m.held[i] = {}
      BY DEF ManagerInv, RuntimesOf
    <3>2. CASE i \in S \cap Routed
      BY <1>2, <3>2 DEF Released
    <3>3. CASE i \notin S \cap Routed
      BY <1>2, <3>1, <3>3
    <3> QED BY <3>2, <3>3
  <2> QED BY <2>1, <2>2, <2>3 DEF RuntimesOf
<1> QED BY <1>2, <1>4, <1>5, <1>6 DEF ManagerInv, n

(* unregister() of a feature whose runtime is not running.                 *)
LEMMA UnregisterKeeps ==
    ASSUME NEW m, ManagerInv(m), NEW i \in Registered(m), i \notin m.running
    PROVE  /\ ManagerInv(AfterUnregister(m, i))
           /\ ByName(AfterUnregister(m, i), NameOf[i]) = {}
<1> DEFINE n == AfterUnregister(m, i)
<1>1. m \in Managers
  BY DEF ManagerInv
<1>2. /\ n.order = Excluding(m.order, {i}) /\ n.order \in Seq(Instances) /\ IsInjective(n.order)
      /\ Registered(n) = Registered(m) \ {i} /\ Registered(m) \subseteq Instances
  <2>1. m.order \in Seq(Instances) /\ IsInjective(m.order)
    BY <1>1 DEF Managers, ManagerInv, Orderly
  <2>2. n.order = Excluding(m.order, {i})
    BY <1>1 DEF AfterUnregister, Managers
  <2> QED BY <2>1, <2>2, DistinctWithout, InSet DEF Registered
<1>3. /\ n \in Managers /\ n.bound = m.bound \ {NameOf[i]}
      /\ n.views = [s \in Scenes |-> NotBuilt] /\ n.bindings = WithoutBindings(m.bindings, NameOf[i])
      /\ n.running = m.running /\ n.half = m.half /\ n.held = m.held
  <2>1. [s \in Scenes |-> NotBuilt] \in [Scenes -> Views]
    BY DEF Views
  <2>2. WithoutBindings(m.bindings, NameOf[i]) \subseteq m.bindings
    BY DEF WithoutBindings
  <2>3. n = [m EXCEPT !.order = Excluding(m.order, {i}), !.bound = m.bound \ {NameOf[i]},
                      !.bindings = WithoutBindings(m.bindings, NameOf[i]),
                      !.views = [s \in Scenes |-> NotBuilt]]
    BY <1>1 DEF AfterUnregister, Invalidated, Managers
  <2> QED BY <1>1, <1>2, <2>1, <2>2, <2>3 DEF Managers
<1> HIDE DEF n
<1>4. \A j \in Registered(n) : j \in Registered(m) /\ NameOf[j] # NameOf[i]
  BY <1>2 DEF ManagerInv, Orderly
<1>5. Orderly(n)
  BY <1>2, <1>3 DEF ManagerInv, Orderly
<1>6. Resolved(n)
  <2>1. \A x : x # NameOf[i] => ByName(n, x) = ByName(m, x)
    BY <1>2 DEF ByName
  <2> QED BY <1>3, <2>1 DEF ManagerInv, Resolved, WithoutBindings
<1>7. RuntimesOf(n)
  <2>1. n.bound \subseteq NamesIn(Registered(n))
    BY <1>2, <1>3 DEF ManagerInv, RuntimesOf, NamesIn
  <2>2. ASSUME NEW j \in n.running PROVE j \in Registered(n) /\ NameOf[j] \in n.bound
    BY <1>2, <1>3, <1>4 DEF ManagerInv, RuntimesOf
  <2> QED BY <1>3, <2>1, <2>2 DEF ManagerInv, RuntimesOf
<1>8. ByName(n, NameOf[i]) = {}
  BY <1>4 DEF ByName
<1> QED BY <1>3, <1>5, <1>6, <1>7, <1>8 DEF ManagerInv, n

(* unregister() shuts the runtime down first if it is bound.               *)
LEMMA ShutFirst ==
    ASSUME NEW m, ManagerInv(m), NEW i \in Registered(m)
    PROVE  LET n == ShutForUnregister(m, i) IN
           ManagerInv(n) /\ i \notin n.running /\ n.order = m.order /\ Registered(n) = Registered(m)
<1>1. i \in Instances
  BY InSet DEF ManagerInv, Managers, Registered
<1>2. CASE NameOf[i] \in m.bound
  <2> DEFINE n == AfterShutdown(m, {i})
             k == ShutDown(m, {i}, {})
  <2>1. k = n
    <3>1. m \in Managers
      BY DEF ManagerInv
    <3>2. n.bound = m.bound /\ n = [n EXCEPT !.bound = n.bound]
      BY <3>1 DEF AfterShutdown, Managers
    <3> QED BY <3>2 DEF ShutDown
  <2>2. ManagerInv(k) /\ k.running = m.running \ {i} /\ k.order = m.order
    <3>1. {} \in SUBSET NamesIn({i}) /\ {i} \in SUBSET Instances /\ {i} \subseteq Registered(m)
      BY <1>1
    <3> QED BY <3>1, ShutdownKeeps
  <2>3. ManagerInv(n) /\ n.running = m.running \ {i} /\ n.order = m.order
    BY <2>1, <2>2
  <2> QED BY <1>2, <2>3 DEF ShutForUnregister, Registered
<1>3. CASE NameOf[i] \notin m.bound
  <2>1. i \notin m.running
    BY <1>3 DEF ManagerInv, RuntimesOf
  <2> QED BY <1>3, <2>1 DEF ShutForUnregister
<1> QED BY <1>2, <1>3

(* The features S are bound.                                               *)
LEMMA BindKeeps ==
    ASSUME NEW m, ManagerInv(m), NEW S \in SUBSET Registered(m)
    PROVE  ManagerInv(AfterBind(m, S)) /\ AfterBind(m, S).order = m.order
<1> DEFINE n == AfterBind(m, S)
<1>1. m \in Managers /\ S \subseteq Instances
  BY InSet DEF ManagerInv, Managers, Registered
<1>2. /\ n \in Managers /\ n.order = m.order /\ n.bound = m.bound \cup NamesIn(S)
      /\ n.views = m.views /\ n.bindings = m.bindings /\ n.running = m.running \cup S /\ n.half = m.half \ S
      /\ n.held = [i \in Instances |-> IF i \in S \cap Routed THEN ToSet(SetupOrder) ELSE m.held[i]]
  <2>1. [i \in Instances |-> IF i \in S \cap Routed THEN ToSet(SetupOrder) ELSE m.held[i]]
            \in [Instances -> SUBSET ToSet(SetupOrder)]
    BY <1>1 DEF Managers
  <2>2. NamesIn(S) \subseteq Names
    BY <1>1 DEF Names, NamesIn
  <2> QED BY <1>1, <2>1, <2>2 DEF AfterBind, Managers
<1> HIDE DEF n
<1>3. Registered(n) = Registered(m)
  BY <1>2 DEF Registered
<1>4. Orderly(n)
  BY <1>2, <1>3 DEF ManagerInv, Orderly
<1>5. Resolved(n)
  BY <1>2, <1>3 DEF ManagerInv, Resolved, ByName
<1>6. RuntimesOf(n)
  <2>1. n.bound \subseteq NamesIn(Registered(n))
    BY <1>2, <1>3 DEF ManagerInv, RuntimesOf, NamesIn
  <2>2. ASSUME NEW i \in n.running PROVE i \in Registered(n) /\ NameOf[i] \in n.bound
    BY <1>2, <1>3 DEF ManagerInv, RuntimesOf, NamesIn
  <2>3. ASSUME NEW i \in Instances
        PROVE  /\ n.held[i] \cap {"scope", "events"} # {} => i \in n.running \cup n.half
               /\ i \notin Routed => n.held[i] = {}
    BY <1>2 DEF ManagerInv, RuntimesOf
  <2> QED BY <2>1, <2>2, <2>3 DEF RuntimesOf
<1> QED BY <1>2, <1>4, <1>5, <1>6 DEF ManagerInv, n

(* The setup of a feature raises.                                          *)
LEMMA HalfKeeps ==
    ASSUME NEW m, ManagerInv(m), NEW i \in Instances, NEW steps \in 0 .. Len(SetupOrder)
    PROVE  ManagerInv(HalfBound(m, i, steps))
<1> DEFINE n == HalfBound(m, i, steps)
           got == ToSet(SubSeq(SetupOrder, 1, steps))
<1>1. m \in Managers /\ got \subseteq ToSet(SetupOrder)
  BY Setup DEF ManagerInv
<1> HIDE DEF got
<1>2. /\ n \in Managers /\ n.order = m.order /\ n.bound = m.bound
      /\ n.views = m.views /\ n.bindings = m.bindings /\ n.running = m.running
      /\ n.half = m.half \cup ({i} \cap Routed)
      /\ n.held = [m.held EXCEPT ![i] = IF i \in Routed THEN @ \cup got ELSE @]
  BY <1>1 DEF HalfBound, Managers, got
<1> HIDE DEF n
<1>3. Registered(n) = Registered(m)
  BY <1>2 DEF Registered
<1>4. Orderly(n)
  BY <1>2, <1>3 DEF ManagerInv, Orderly
<1>5. Resolved(n)
  BY <1>2, <1>3 DEF ManagerInv, Resolved, ByName
<1>6. RuntimesOf(n)
  <2>1. ASSUME NEW j \in Instances
        PROVE  /\ n.held[j] \cap {"scope", "events"} # {} => j \in n.running \cup n.half
               /\ j \notin Routed => n.held[j] = {}
    <3>1. CASE j = i
      BY <1>1, <1>2, <3>1 DEF ManagerInv, RuntimesOf, Managers
    <3>2. CASE j # i
      BY <1>1, <1>2, <3>2 DEF ManagerInv, RuntimesOf, Managers
    <3> QED BY <3>1, <3>2
  <2> QED BY <1>2, <1>3, <2>1 DEF ManagerInv, RuntimesOf
<1> QED BY <1>2, <1>4, <1>5, <1>6 DEF ManagerInv, n

-----------------------------------------------------------------------------
LEMMA LifecycleInitInv == FeaturesInit => LifecycleInv
<1> SUFFICES ASSUME FeaturesInit PROVE LifecycleInv
  OBVIOUS
<1>1. fm \in Managers
  BY DEF FeaturesInit, Managers, Views
<1>2. /\ fm.order = <<>> /\ fm.bound = {} /\ fm.bindings = {} /\ fm.running = {}
      /\ fm.views = [s \in Scenes |-> NotBuilt] /\ fm.held = [i \in Instances |-> {}]
  BY DEF FeaturesInit
<1>3. IsInjective(<<>>) /\ ToSet(<<>>) = {}
  BY DEF IsInjective, ToSet
<1>4. ManagerInv(fm)
  BY <1>1, <1>2, <1>3 DEF ManagerInv, Orderly, Resolved, RuntimesOf, Registered, NamesIn
<1> QED BY <1>3, <1>4 DEF FeaturesInit, LifecycleInv

LEMMA ReplaceKeeps ==
    ASSUME LifecycleInv, NEW old \in Instances, NEW new \in Instances, NEW done, NEW steps \in 0 .. Len(SetupOrder),
           done \in {"unregistered", "registered", "bound"}, Replace(old, new, done, steps)
    PROVE  LifecycleInv'
<1> DEFINE shut == ShutForUnregister(fm, old)
           gone  == AfterUnregister(shut, old)
           there == AfterRegister(gone, new)
<1>1. /\ old \in Registered(fm) /\ NameOf[new] = NameOf[old] /\ ManagerInv(fm)
      /\ owed' = owed \ {old} /\ UNCHANGED <<scene, pass>>
  BY DEF Replace, LifecycleInv
<1>2. ManagerInv(shut) /\ old \in Registered(shut) /\ old \notin shut.running
  BY <1>1, ShutFirst
<1> HIDE DEF shut
<1>3. ManagerInv(gone) /\ ByName(gone, NameOf[new]) = {}
  BY <1>1, <1>2, UnregisterKeeps
<1> HIDE DEF gone
<1>4. ManagerInv(there) /\ {new} \in SUBSET Registered(there)
  BY <1>3, RegisterKeeps
<1> HIDE DEF there
<1>5. ManagerInv(AfterBind(there, {new})) /\ ManagerInv(HalfBound(there, new, steps))
  BY <1>4, BindKeeps, HalfKeeps
<1>6. ManagerInv(fm')
  <2>1. fm' \in {gone, AfterBind(there, {new}), HalfBound(there, new, steps)}
    BY DEF Replace, gone, there, shut
  <2> QED BY <1>3, <1>5, <2>1
<1> QED BY <1>1, <1>6 DEF LifecycleInv

LEMMA LifecycleNextInv ==
    ASSUME LifecycleInv, FeaturesNext
    PROVE  LifecycleInv'
<1>0. /\ ManagerInv(fm) /\ scene \in Scenes /\ pass \in Seq(Instances) /\ owed \subseteq ToSet(pass)
      /\ fm \in Managers /\ fm.order \in Seq(Instances)
  BY DEF LifecycleInv, ManagerInv, Managers
<1>1. ASSUME NEW i \in Instances, Register(i) PROVE LifecycleInv'
  BY <1>0, <1>1, RegisterKeeps DEF Register, LifecycleInv
<1>2. ASSUME NEW i \in Instances, Unregister(i) PROVE LifecycleInv'
  <2> DEFINE shut == ShutForUnregister(fm, i)
  <2>1. ManagerInv(shut) /\ i \in Registered(shut) /\ i \notin shut.running
    BY <1>0, <1>2, ShutFirst DEF Unregister
  <2>2. ManagerInv(AfterUnregister(shut, i))
    BY <2>1, UnregisterKeeps
  <2>3. fm' \in {AfterUnregister(shut, i), shut} /\ owed' \subseteq owed /\ UNCHANGED <<scene, pass>>
    BY <1>2 DEF Unregister
  <2> HIDE DEF shut
  <2> QED BY <1>0, <2>1, <2>2, <2>3 DEF LifecycleInv
<1>3. ASSUME NEW upto \in 0 .. Cardinality(Instances), NEW steps \in 0 .. Len(SetupOrder) - 1, BindRuntime(upto, steps)
      PROVE  LifecycleInv'
  <2> DEFINE S == ToSet(SubSeq(fm.order, 1, upto))
             done == AfterBind(fm, S)
  <2>1. upto \in 0 .. Len(fm.order) /\ Len(fm.order) \in Nat
    BY <1>0, <1>3 DEF BindRuntime
  <2>2. S \subseteq Registered(fm)
    <3>1. \A k \in 1 .. upto : fm.order[k] \in ToSet(fm.order)
      BY <1>0, <2>1, InSet
    <3>2. SubSeq(fm.order, 1, upto) \in Seq(ToSet(fm.order))
      BY <1>0, <2>1, <3>1
    <3> QED BY <3>2, InSet DEF Registered
  <2>3. ManagerInv(done)
    BY <1>0, <2>2, BindKeeps
  <2> HIDE DEF done
  <2>4. \/ fm' = done
        \/ upto # Len(fm.order) /\ fm' = HalfBound(done, fm.order[upto + 1], steps)
    BY <1>3 DEF BindRuntime, done
  <2>5. upto # Len(fm.order) => fm.order[upto + 1] \in Instances
    BY <1>0, <2>1
  <2>6. steps \in 0 .. Len(SetupOrder)
    BY <1>3 DEF SetupOrder
  <2>7. ManagerInv(fm')
    BY <2>3, <2>4, <2>5, <2>6, HalfKeeps
  <2> QED BY <1>0, <1>3, <2>7 DEF BindRuntime, LifecycleInv
<1>4. ASSUME NEW upto \in 0 .. Cardinality(Instances), ShutdownRuntime(upto) PROVE LifecycleInv'
  <2> DEFINE bound == Including(Reverse(fm.order), {i \in Instances : NameOf[i] \in fm.bound})
             done  == ToSet(SubSeq(bound, 1, upto))
  <2>1. /\ upto \in 0 .. Len(bound) /\ UNCHANGED <<scene, pass, owed>>
        /\ fm' = ShutDown(fm, done, NamesIn(done))
    BY <1>4 DEF ShutdownRuntime, ShutDown
  <2>2. Reverse(fm.order) \in Seq(Instances) /\ ToSet(Reverse(fm.order)) = Registered(fm)
    <3>1. /\ Len(fm.order) \in Nat /\ DOMAIN fm.order = 1 .. Len(fm.order)
          /\ \A k \in 1 .. Len(fm.order) : fm.order[k] \in Instances
      BY <1>0
    <3>2. Reverse(fm.order) = [k \in 1 .. Len(fm.order) |-> fm.order[(Len(fm.order) - k) + 1]]
      BY DEF Reverse
    <3>3. \A k \in 1 .. Len(fm.order) : (Len(fm.order) - k) + 1 \in 1 .. Len(fm.order)
      BY <3>1
    <3>4. Reverse(fm.order) \in Seq(Instances)
      BY <3>1, <3>2, <3>3
    <3>5. \A k \in 1 .. Len(fm.order) : fm.order[k] = Reverse(fm.order)[(Len(fm.order) - k) + 1]
      BY <3>1, <3>2, <3>3
    <3>6. DOMAIN Reverse(fm.order) = 1 .. Len(fm.order)
      BY <3>2
    <3>7. ToSet(Reverse(fm.order)) = ToSet(fm.order)
      <4>1. ToSet(Reverse(fm.order)) \subseteq ToSet(fm.order)
        BY <3>1, <3>2, <3>3, <3>6 DEF ToSet
      <4>2. ASSUME NEW x \in ToSet(fm.order) PROVE x \in ToSet(Reverse(fm.order))
        <5>1. PICK k \in 1 .. Len(fm.order) : fm.order[k] = x
          BY <3>1 DEF ToSet
        <5>2. (Len(fm.order) - k) + 1 \in DOMAIN Reverse(fm.order) /\ Reverse(fm.order)[(Len(fm.order) - k) + 1] = x
          BY <3>3, <3>5, <3>6, <5>1
        <5> QED BY <5>2 DEF ToSet
      <4> QED BY <4>1, <4>2
    <3> QED BY <3>4, <3>7 DEF Registered
  <2>3. bound \in Seq(Instances) /\ ToSet(bound) \subseteq Registered(fm)
    BY <2>2, IncludingParts
  <2> HIDE DEF bound
  <2>4. done \subseteq Registered(fm) /\ done \in SUBSET Instances
    <3>1. \A k \in 1 .. upto : bound[k] \in ToSet(bound)
      BY <2>1, <2>3, InSet
    <3>2. SubSeq(bound, 1, upto) \in Seq(ToSet(bound))
      BY <2>1, <2>3, <3>1
    <3>3. done \subseteq ToSet(bound) /\ ToSet(bound) \subseteq Instances
      BY <2>3, <3>2, InSet
    <3> QED BY <2>3, <3>3
  <2> HIDE DEF done
  <2>5. ManagerInv(fm')
    BY <1>0, <2>1, <2>4, ShutdownKeeps
  <2> QED BY <1>0, <2>1, <2>5 DEF LifecycleInv
<1>5. ASSUME NEW old \in Instances, NEW new \in Instances,
             \/ \E done \in {"unregistered", "bound"} : Replace(old, new, done, 0)
             \/ \E steps \in 0 .. Len(SetupOrder) - 1 : Replace(old, new, "registered", steps)
      PROVE  LifecycleInv'
  <2>1. 0 \in 0 .. Len(SetupOrder) /\ \A k \in 0 .. Len(SetupOrder) - 1 : k \in 0 .. Len(SetupOrder)
    BY DEF SetupOrder
  <2>2. \E done \in {"unregistered", "registered", "bound"}, steps \in 0 .. Len(SetupOrder) : Replace(old, new, done, steps)
    BY <1>5, <2>1
  <2> QED BY <2>2, ReplaceKeeps
<1>6. ASSUME NEW p \in Names, NEW q \in Names, BindLogic(p, q) PROVE LifecycleInv'
  <2> DEFINE bs == {l \in fm.bindings : l.consumer # p} \cup {[consumer |-> p, provider |-> q]}
  <2>1. /\ fm' = [fm EXCEPT !.bindings = bs] /\ UNCHANGED <<scene, pass, owed>>
        /\ ByName(fm, p) # {} /\ ByName(fm, q) \cap LogicFeatures # {}
    BY <1>6 DEF BindLogic
  <2>2. bs \in SUBSET Bindings
    BY <1>0 DEF Bindings, Managers
  <2>3. \A l \in bs : ByName(fm, l.consumer) # {} /\ ByName(fm, l.provider) \cap LogicFeatures # {}
    BY <1>0, <2>1 DEF ManagerInv, Resolved
  <2> HIDE DEF bs
  <2>4. /\ fm' \in Managers /\ fm'.bindings = bs /\ fm'.order = fm.order /\ fm'.bound = fm.bound
        /\ fm'.views = fm.views /\ fm'.running = fm.running /\ fm'.half = fm.half /\ fm'.held = fm.held
    BY <1>0, <2>1, <2>2 DEF Managers
  <2>5. ManagerInv(fm')
    BY <1>0, <2>3, <2>4 DEF ManagerInv, Orderly, Resolved, RuntimesOf, Registered, ByName
  <2> QED BY <1>0, <2>1, <2>5 DEF LifecycleInv
<1>7. ASSUME NEW p \in Names, UnbindLogic(p) PROVE LifecycleInv'
  <2> DEFINE bs == {l \in fm.bindings : l.consumer # p}
  <2>1. fm' = [fm EXCEPT !.bindings = bs] /\ UNCHANGED <<scene, pass, owed>>
    BY <1>7 DEF UnbindLogic
  <2>2. bs \in SUBSET Bindings
    BY <1>0 DEF Managers
  <2>3. \A l \in bs : ByName(fm, l.consumer) # {} /\ ByName(fm, l.provider) \cap LogicFeatures # {}
    BY <1>0 DEF ManagerInv, Resolved
  <2> HIDE DEF bs
  <2>4. /\ fm' \in Managers /\ fm'.bindings = bs /\ fm'.order = fm.order /\ fm'.bound = fm.bound
        /\ fm'.views = fm.views /\ fm'.running = fm.running /\ fm'.half = fm.half /\ fm'.held = fm.held
    BY <1>0, <2>1, <2>2 DEF Managers
  <2>5. ManagerInv(fm')
    BY <1>0, <2>3, <2>4 DEF ManagerInv, Orderly, Resolved, RuntimesOf, Registered, ByName
  <2> QED BY <1>0, <2>1, <2>5 DEF LifecycleInv
<1>8. ASSUME BeginPass PROVE LifecycleInv'
  <2> DEFINE shown == InScene(fm.order, scene)
  <2>1. shown \in Seq(Instances)
    BY <1>0, SceneViews
  <2>2. /\ fm' = [fm EXCEPT !.views[scene] = shown] /\ pass' = shown
        /\ owed' = ToSet(shown) /\ UNCHANGED scene
    <3>1. fm.views[scene] \in {NotBuilt, shown}
      BY <1>0 DEF ManagerInv, Orderly
    <3> QED BY <1>8, <3>1 DEF BeginPass
  <2> HIDE DEF shown
  <2>3. /\ fm' \in Managers /\ fm'.bindings = fm.bindings /\ fm'.order = fm.order /\ fm'.bound = fm.bound
        /\ fm'.views = [fm.views EXCEPT ![scene] = shown]
        /\ fm'.running = fm.running /\ fm'.half = fm.half /\ fm'.held = fm.held
    BY <1>0, <2>1, <2>2 DEF Managers, Views
  <2>4. \A s \in Scenes : fm'.views[s] \in {NotBuilt, InScene(fm.order, s)}
    BY <1>0, <2>3 DEF ManagerInv, Orderly, Managers, shown
  <2>5. ManagerInv(fm')
    BY <1>0, <2>3, <2>4 DEF ManagerInv, Orderly, Resolved, RuntimesOf, Registered, ByName
  <2> QED BY <1>0, <2>1, <2>2, <2>5 DEF LifecycleInv
<1>9. ASSUME UpdateFeature PROVE LifecycleInv'
  <2>1. /\ pass # <<>> /\ UNCHANGED <<fm, scene>>
        /\ \/ pass' = Tail(pass) /\ owed' = owed \ {Head(pass)}
           \/ pass' = <<>> /\ owed' = {}
    BY <1>9 DEF UpdateFeature
  <2>2. Tail(pass) \in Seq(Instances) /\ ToSet(pass) \ {Head(pass)} \subseteq ToSet(Tail(pass))
    <3>1. /\ Tail(pass) \in Seq(Instances) /\ Head(pass) = pass[1]
          /\ \A k \in 1 .. Len(pass) : k = 1 \/ (k - 1 \in 1 .. Len(Tail(pass)) /\ pass[k] = Tail(pass)[k - 1])
      BY <1>0, <2>1, RestPlaces
    <3>2. \A x \in ToSet(pass) : \E k \in 1 .. Len(pass) : pass[k] = x
      BY <1>0, InSet
    <3>3. \A k \in 1 .. Len(Tail(pass)) : Tail(pass)[k] \in ToSet(Tail(pass))
      BY <3>1, InSet
    <3> QED BY <3>1, <3>2, <3>3
  <2>3. pass' \in Seq(Instances) /\ owed' \subseteq ToSet(pass')
    <3>2. <<>> \in Seq(Instances)
      OBVIOUS
    <3>3. CASE pass' = Tail(pass) /\ owed' = owed \ {Head(pass)}
      BY <1>0, <2>2, <3>3
    <3>4. CASE pass' = <<>> /\ owed' = {}
      BY <3>2, <3>4
    <3> QED BY <2>1, <3>3, <3>4
  <2>4. ManagerInv(fm')
    BY <1>0, <2>1
  <2> QED BY <1>0, <2>1, <2>3, <2>4 DEF LifecycleInv
<1>10. ASSUME NEW s \in Scenes, SwitchScene(s) PROVE LifecycleInv'
  BY <1>0, <1>10 DEF SwitchScene, LifecycleInv
<1> QED BY <1>1, <1>2, <1>3, <1>4, <1>5, <1>6, <1>7, <1>8, <1>9, <1>10 DEF FeaturesNext

LEMMA LifecycleStays == LifecycleInv /\ UNCHANGED featureVars => LifecycleInv'
BY DEF LifecycleInv, featureVars

LEMMA LifecycleIsSafe == LifecycleInv => LifecycleSafe
<1> SUFFICES ASSUME LifecycleInv PROVE LifecycleSafe
  OBVIOUS
<1>1. PassesReachAll
  BY DEF LifecycleInv, ManagerInv, Orderly, PassesReachAll
<1>2. BindingsResolve
  BY DEF LifecycleInv, ManagerInv, Resolved, BindingsResolve
<1>3. RuntimesAreKnown
  BY DEF LifecycleInv, ManagerInv, RuntimesOf, RuntimesAreKnown
<1> QED BY <1>1, <1>2, <1>3 DEF LifecycleSafe

-----------------------------------------------------------------------------
(* What a routed feature binds and releases.                               *)

(* What is released by a cleanup, and everything.                          *)
Freed == InScope \cup {"later"}
Parts == Freed \cup {"service", "actions", "event"}

Cleanups(n) == scopes[n].cleanups
Disposing(n) == disposeStep # 0 /\ n = scopeAttr
SettingUp(n) == setupStep # 0 /\ n = Len(scopes)

Scopes == [cleanups : Seq(Freed), disposed : BOOLEAN]
RoutedTypes ==
    /\ scopes \in Seq(Scopes)
    /\ holding \in Seq(SUBSET Parts) /\ Len(holding) = Len(scopes)
    /\ scopeAttr \in {0, Len(scopes)}
    /\ tokenAttr \in 0 .. Len(scopes) /\ updateAttr \in 0 .. Len(scopes)
    /\ setupStep \in 0 .. 10 /\ disposeStep \in Nat
    /\ failedSetups \cup overlaid \cup lateCleanups \subseteq 1 .. Len(scopes)

(* Where the calls stand: a setup is that of the newest scope, a shutdown  *)
(* that of the feature's.                                                  *)
CallsStand ==
    /\ setupStep # 0 =>
         /\ disposeStep = 0 /\ scopeAttr = Len(scopes) /\ scopeAttr # 0
         /\ scopeAttr \notin failedSetups \cup overlaid \cup lateCleanups
         /\ ~scopes[scopeAttr].disposed
         /\ setupStep <= 2 <=> Cleanups(scopeAttr) = <<>>
         /\ setupStep >= 2 => "service" \in holding[scopeAttr]
    /\ disposeStep # 0 => /\ scopeAttr # 0 /\ scopes[scopeAttr].disposed /\ tokenAttr = 0
                          /\ disposeStep <= Len(Cleanups(scopeAttr)) + 1
    /\ isBound \/ specAttr => scopeAttr # 0
    /\ scopeAttr # 0 /\ setupStep = 0 => scopeAttr \in failedSetups \/ isBound

(* The cleanups of n that are still to be called cover what it holds; the  *)
(* bus is the first, the last to go, and the services stay until then.     *)
Left(n) == IF Disposing(n) THEN disposeStep - 1 ELSE Len(Cleanups(n))
Covered(n) ==
    /\ \A i \in 1 .. Len(Cleanups(n)) : Cleanups(n)[i] = "bus" <=> i = 1
    /\ \A x \in holding[n] \cap Freed : \E i \in 1 .. Left(n) : x = Cleanups(n)[i]
    /\ Left(n) > 0 => "bus" \in holding[n] /\ "service" \in holding[n]
    /\ scopes[n].disposed => Disposing(n) \/ Cleanups(n) = <<>>

(* A setup that is not the feature's, and was not overlaid, is disposed    *)
(* and has released all.                                                   *)
Over(n) ==
    /\ n \notin failedSetups /\ ~scopes[n].disposed /\ ~SettingUp(n) => Cleanups(n) # <<>>
    /\ n \notin overlaid =>
         /\ n # scopeAttr => scopes[n].disposed
         /\ "event" \in holding[n] => tokenAttr = n /\ n = scopeAttr
         /\ n # scopeAttr /\ n \notin lateCleanups => holding[n] \subseteq {"actions"}

UpdatedBySystems == updateAttr # 0 => "systems" \in holding[updateAttr]

RoutedInv ==
    /\ RoutedTypes /\ CallsStand /\ UpdatedBySystems
    /\ \A n \in 1 .. Len(scopes) : /\ n \notin lateCleanups => Covered(n)
                                   /\ Over(n)

LEMMA PartsAre ==
    /\ DOMAIN SetupParts = 1 .. 9 /\ SetupParts[1] = "service" /\ SetupParts[2] = "bus"
    /\ SetupParts[3] = "store" /\ SetupParts[4] = "selector" /\ SetupParts[5] = "observable"
    /\ SetupParts[6] = "signal" /\ SetupParts[7] = "systems" /\ SetupParts[8] = "actions"
    /\ SetupParts[9] = "event" /\ Len(SetupParts) = 9
  BY DEF SetupParts

LEMMA RoutedInitInv == RoutedInit => RoutedInv
<1> SUFFICES ASSUME RoutedInit PROVE RoutedInv
  OBVIOUS
<1>1. /\ scopes = <<>> /\ holding = <<>> /\ Len(scopes) = 0 /\ Len(holding) = 0
      /\ scopeAttr = 0 /\ tokenAttr = 0 /\ updateAttr = 0 /\ setupStep = 0 /\ disposeStep = 0
      /\ specAttr = FALSE /\ isBound = FALSE
      /\ failedSetups = {} /\ overlaid = {} /\ lateCleanups = {}
  BY DEF RoutedInit
<1>2. scopes \in Seq(Scopes) /\ holding \in Seq(SUBSET Parts)
  <2>1. <<>> \in Seq(Scopes) /\ <<>> \in Seq(SUBSET Parts)
    OBVIOUS
  <2> QED BY <1>1, <2>1
<1>3. RoutedTypes
  BY <1>1, <1>2 DEF RoutedTypes
<1>4. CallsStand /\ UpdatedBySystems
  BY <1>1 DEF CallsStand, UpdatedBySystems
<1>5. 1 .. Len(scopes) = {}
  BY <1>1
<1> QED BY <1>3, <1>4, <1>5 DEF RoutedInv

(* What every action needs of the state.                                   *)
LEMMA RoutedFacts ==
    ASSUME RoutedInv
    PROVE  /\ Setups = 1 .. Len(scopes) /\ Len(scopes) \in Nat /\ DOMAIN holding = 1 .. Len(scopes)
           /\ DOMAIN scopes = 1 .. Len(scopes)
           /\ \A n \in 1 .. Len(scopes) :
                 /\ Cleanups(n) \in Seq(Freed) /\ Len(Cleanups(n)) \in Nat
                 /\ scopes[n].disposed \in BOOLEAN /\ holding[n] \subseteq Parts
                 /\ scopes[n] \in Scopes
                 /\ scopes[n] = [cleanups |-> Cleanups(n), disposed |-> scopes[n].disposed]
<1>1. /\ scopes \in Seq(Scopes) /\ holding \in Seq(SUBSET Parts) /\ Len(holding) = Len(scopes)
  BY DEF RoutedInv, RoutedTypes
<1>2. Setups = 1 .. Len(scopes) /\ Len(scopes) \in Nat /\ DOMAIN holding = 1 .. Len(scopes)
  BY <1>1 DEF Setups
<1>3. ASSUME NEW n \in 1 .. Len(scopes)
      PROVE  scopes[n] \in Scopes /\ holding[n] \in SUBSET Parts
  <2>1. n \in 1 .. Len(holding)
    BY <1>1
  <2> QED BY <1>1, <2>1
<1> QED BY <1>2, <1>3 DEF Cleanups, Scopes, Setups

LEMMA WithCleanups ==
    ASSUME NEW s, s \in Scopes, NEW cs
    PROVE  [s EXCEPT !.cleanups = cs] = [cleanups |-> cs, disposed |-> s.disposed]
BY DEF Scopes

LEMMA Disposed ==
    ASSUME NEW s, s \in Scopes, NEW d \in BOOLEAN
    PROVE  [s EXCEPT !.disposed = d] = [cleanups |-> s.cleanups, disposed |-> d]
BY DEF Scopes

LEMMA OneChanged ==
    ASSUME NEW S, NEW s \in Seq(S), NEW k \in 1 .. Len(s), NEW x \in S,
           NEW t, t = [s EXCEPT ![k] = x]
    PROVE  /\ t \in Seq(S) /\ Len(t) = Len(s)
           /\ \A i \in 1 .. Len(s) : t[i] = IF i = k THEN x ELSE s[i]
OBVIOUS

LEMMA CoveredStays ==
    ASSUME NEW n, scopes'[n] = scopes[n], holding'[n] = holding[n],
           disposeStep' = disposeStep, disposeStep # 0 => scopeAttr' = scopeAttr, Covered(n)
    PROVE  Covered(n)'
<1>1. Cleanups(n)' = Cleanups(n) /\ (Disposing(n)' <=> Disposing(n))
  BY DEF Cleanups, Disposing
<1>2. Left(n)' = Left(n)
  BY <1>1 DEF Left
<1>3. \A i \in 1 .. Len(Cleanups(n)') : Cleanups(n)'[i] = "bus" <=> i = 1
  BY <1>1 DEF Covered
<1>4. \A x \in holding'[n] \cap Freed : \E i \in 1 .. Left(n)' : x = Cleanups(n)'[i]
  BY <1>1, <1>2 DEF Covered
<1>5. Left(n)' > 0 => "bus" \in holding'[n] /\ "service" \in holding'[n]
  BY <1>2 DEF Covered
<1>6. scopes'[n].disposed => Disposing(n)' \/ Cleanups(n)' = <<>>
  BY <1>1 DEF Covered
<1> QED BY <1>3, <1>4, <1>5, <1>6 DEF Covered

LEMMA BeginSetupStep ==
    ASSUME RoutedInv, BeginSetup
    PROVE  RoutedInv'
<1> DEFINE m == Len(scopes) + 1
           new == [cleanups |-> <<>>, disposed |-> FALSE]
<1>1. /\ setupStep = 0 /\ disposeStep = 0 /\ disposeStep' = 0
      /\ scopes' = Append(scopes, new)
      /\ holding' = Append(holding, {}) /\ scopeAttr' = m /\ setupStep' = 1
      /\ overlaid' = IF scopeAttr # 0 THEN overlaid \cup {scopeAttr} ELSE overlaid
      /\ tokenAttr' = tokenAttr /\ updateAttr' = updateAttr /\ specAttr' = specAttr
      /\ isBound' = isBound /\ failedSetups' = failedSetups /\ lateCleanups' = lateCleanups
  BY DEF BeginSetup, Quiet, ThisSetup
<1>2. /\ RoutedTypes /\ CallsStand /\ UpdatedBySystems /\ Len(scopes) \in Nat
      /\ scopes \in Seq(Scopes) /\ holding \in Seq(SUBSET Parts) /\ Len(holding) = Len(scopes)
  BY RoutedFacts DEF RoutedInv, RoutedTypes
<1>3. /\ scopes' \in Seq(Scopes) /\ holding' \in Seq(SUBSET Parts) /\ Len(holding') = m /\ Len(scopes') = m
      /\ scopes'[m] = new /\ holding'[m] = {}
  <2>1. new \in Scopes
    BY EmptySeq DEF Scopes
  <2> HIDE DEF new
  <2> QED BY <1>1, <1>2, <2>1
<1>4. \A n \in 1 .. Len(scopes) : n # m /\ scopes'[n] = scopes[n] /\ holding'[n] = holding[n]
  BY <1>1, <1>2
<1>5. RoutedTypes'
  BY <1>1, <1>2, <1>3 DEF RoutedTypes
<1>6. UpdatedBySystems'
  BY <1>1, <1>2, <1>4 DEF UpdatedBySystems, RoutedTypes
<1>7. CallsStand'
  BY <1>1, <1>2, <1>3 DEF CallsStand, RoutedTypes, Cleanups
<1>8. ASSUME NEW n \in 1 .. Len(scopes')
      PROVE  /\ (n \notin lateCleanups => Covered(n))'
             /\ Over(n)'
  <2>1. CASE n = m
    BY <1>1, <1>2, <1>3, <2>1 DEF Covered, Over, Left, Cleanups, Disposing, SettingUp
  <2>2. CASE n # m
    <3>1. n \in 1 .. Len(scopes) /\ scopes'[n] = scopes[n] /\ holding'[n] = holding[n]
      BY <1>2, <1>3, <1>4, <2>2
    <3>2. (n \notin lateCleanups => Covered(n)) /\ Over(n)
      BY <3>1 DEF RoutedInv
    <3>3. (n \notin lateCleanups => Covered(n))'
      BY <1>1, <3>1, <3>2, CoveredStays
    <3>4. Over(n)'
      BY <1>1, <1>2, <3>1, <3>2 DEF Over, Cleanups, SettingUp, RoutedTypes
    <3> QED BY <3>3, <3>4
  <2> QED BY <2>1, <2>2
<1> QED BY <1>5, <1>6, <1>7, <1>8 DEF RoutedInv

LEMMA AcquirePartStep ==
    ASSUME RoutedInv, NEW tracked \in BOOLEAN, AcquirePart(tracked)
    PROVE  RoutedInv'
<1> DEFINE m == Len(scopes)
           part == SetupParts[setupStep]
           cs == Cleanups(m)
           cs2 == IF part \in InScope THEN Append(cs, part) ELSE cs
<1>1. /\ setupStep \in 1 .. 9 /\ setupStep' = setupStep + 1
      /\ holding' = [holding EXCEPT ![m] = @ \cup {part}]
      /\ scopes' = IF part \in InScope THEN [scopes EXCEPT ![m].cleanups = Append(@, part)] ELSE scopes
      /\ tokenAttr' = IF part = "event" THEN m ELSE tokenAttr
      /\ updateAttr' = IF part = "systems" THEN m ELSE updateAttr
      /\ scopeAttr' = scopeAttr /\ specAttr' = specAttr /\ isBound' = isBound /\ disposeStep' = disposeStep
      /\ failedSetups' = failedSetups /\ overlaid' = overlaid /\ lateCleanups' = lateCleanups
  BY PartsAre DEF AcquirePart, ThisSetup
<1>2. /\ RoutedTypes /\ CallsStand /\ UpdatedBySystems /\ m \in Nat /\ m = scopeAttr /\ m # 0
      /\ m \notin failedSetups \cup overlaid \cup lateCleanups /\ ~scopes[m].disposed /\ disposeStep = 0
      /\ (setupStep <= 2 <=> cs = <<>>) /\ (setupStep >= 2 => "service" \in holding[m])
      /\ scopes \in Seq(Scopes) /\ holding \in Seq(SUBSET Parts) /\ Len(holding) = m
      /\ m \in 1 .. m
  BY <1>1, RoutedFacts DEF RoutedInv, RoutedTypes, CallsStand
<1>3. /\ scopes[m] \in Scopes /\ cs \in Seq(Freed) /\ Len(cs) \in Nat /\ holding[m] \subseteq Parts
      /\ scopes[m] = [cleanups |-> cs, disposed |-> scopes[m].disposed]
      /\ Covered(m) /\ Over(m)
  BY <1>2, RoutedFacts DEF RoutedInv
<1>4. /\ part \in Parts /\ (part \in InScope => part \in Freed)
      /\ (setupStep = 1 <=> part = "service") /\ (setupStep = 2 <=> part = "bus")
      /\ (part \in Freed => part \in InScope) /\ (part \notin InScope => part \notin Freed)
      /\ (setupStep = 1 => part \notin InScope)
  BY <1>1, PartsAre DEF Parts, Freed, InScope
<1> HIDE DEF part
<1>5. /\ cs2 \in Seq(Freed) /\ Len(cs2) \in Nat
      /\ scopes' = [scopes EXCEPT ![m] = [cleanups |-> cs2, disposed |-> FALSE]]
  <2>1. cs2 \in Seq(Freed)
    BY <1>3, <1>4
  <2>2. scopes[m] = [cleanups |-> cs, disposed |-> FALSE]
    BY <1>2, <1>3 DEF Scopes
  <2>3. scopes' = [scopes EXCEPT ![m] = [cleanups |-> cs2, disposed |-> FALSE]]
    <3>1. CASE part \in InScope
      <4>1. scopes' = [scopes EXCEPT ![m] = [scopes[m] EXCEPT !.cleanups = Append(cs, part)]]
        BY <1>1, <3>1 DEF Cleanups
      <4>2. [scopes[m] EXCEPT !.cleanups = Append(cs, part)] = [cleanups |-> Append(cs, part), disposed |-> FALSE]
        <5>1. scopes[m] \in Scopes
          BY <1>3
        <5>2. [scopes[m] EXCEPT !.cleanups = Append(cs, part)]
                = [cleanups |-> Append(cs, part), disposed |-> scopes[m].disposed]
          BY <5>1, WithCleanups
        <5>3. scopes[m].disposed = FALSE
          BY <1>2, <5>1 DEF Scopes
        <5> QED BY <5>2, <5>3
      <4> QED BY <3>1, <4>1, <4>2
    <3>2. CASE part \notin InScope
      BY <1>1, <1>2, <2>2, <3>2
    <3> QED BY <3>1, <3>2
  <2> QED BY <2>1, <2>3
<1> DEFINE rec == [cleanups |-> cs2, disposed |-> FALSE]
<1>6. /\ scopes' \in Seq(Scopes) /\ Len(scopes') = m /\ scopes'[m] = rec
      /\ holding' \in Seq(SUBSET Parts) /\ Len(holding') = m /\ holding'[m] = holding[m] \cup {part}
      /\ \A n \in 1 .. m : n # m => scopes'[n] = scopes[n] /\ holding'[n] = holding[n]
  <2>1. rec \in Scopes
    BY <1>5 DEF Scopes
  <2>2. holding[m] \cup {part} \in SUBSET Parts
    BY <1>3, <1>4
  <2> HIDE DEF rec, cs2, cs
  <2>3. scopes' = [scopes EXCEPT ![m] = rec]
    BY <1>5 DEF rec
  <2>4. /\ scopes' \in Seq(Scopes) /\ Len(scopes') = m /\ scopes'[m] = rec
        /\ \A n \in 1 .. m : n # m => scopes'[n] = scopes[n]
    BY <1>2, <2>1, <2>3
  <2>5. /\ holding' \in Seq(SUBSET Parts) /\ Len(holding') = m /\ holding'[m] = holding[m] \cup {part}
        /\ \A n \in 1 .. m : n # m => holding'[n] = holding[n]
    BY <1>1, <1>2, <2>2
  <2> QED BY <2>4, <2>5
<1>8. RoutedTypes'
  BY <1>1, <1>2, <1>6 DEF RoutedTypes
<1>9. UpdatedBySystems'
  BY <1>1, <1>2, <1>6 DEF UpdatedBySystems, RoutedTypes
<1>10. CallsStand'
  <2>1. cs2 = <<>> <=> cs = <<>> /\ part \notin InScope
    BY <1>3
  <2>2. setupStep' <= 2 <=> cs2 = <<>>
    BY <1>1, <1>2, <1>4, <2>1 DEF InScope
  <2>3. Cleanups(scopeAttr)' = cs2
    BY <1>1, <1>2, <1>6 DEF Cleanups
  <2>4. setupStep' >= 2 => "service" \in holding'[scopeAttr']
    BY <1>1, <1>2, <1>4, <1>6
  <2> HIDE DEF cs2, cs
  <2> QED BY <1>1, <1>2, <1>6, <2>2, <2>3, <2>4 DEF CallsStand
<1>11. ASSUME NEW n \in 1 .. Len(scopes')
       PROVE  /\ (n \notin lateCleanups => Covered(n))'
              /\ Over(n)'
  <2>1. CASE n = m
    <3>1. /\ Cleanups(n) = cs /\ Cleanups(n)' = cs2 /\ ~scopes'[n].disposed
          /\ Left(n) = Len(cs) /\ Left(n)' = Len(cs2) /\ ~Disposing(n) /\ ~Disposing(n)'
          /\ holding'[n] = holding[m] \cup {part}
      BY <1>1, <1>2, <1>6, <2>1 DEF Left, Disposing, Cleanups
    <3>2. \A i \in 1 .. Len(cs2) : cs2[i] = "bus" <=> i = 1
      BY <1>1, <1>2, <1>3, <1>4 DEF Covered
    <3>3. ASSUME NEW x \in holding'[n] \cap Freed
          PROVE  \E i \in 1 .. Len(cs2) : x = cs2[i]
      <4>1. CASE x = part
        <5>1. cs2 = Append(cs, x)
          BY <1>4, <4>1
        <5>2. Len(cs) + 1 \in 1 .. Len(cs2) /\ cs2[Len(cs) + 1] = x
          BY <1>3, <5>1
        <5> QED BY <5>2
      <4>2. CASE x # part
        <5>1. PICK i \in 1 .. Len(cs) : x = cs[i]
          BY <1>3, <2>1, <3>1, <4>2 DEF Covered
        <5> QED BY <1>3, <5>1
      <4> QED BY <4>1, <4>2
    <3>4. Len(cs2) > 0 => "bus" \in holding'[n] /\ "service" \in holding'[n]
      <4>1. Len(cs) > 0 => "bus" \in holding[m] /\ "service" \in holding[m]
        BY <1>3, <2>1, <3>1 DEF Covered
      <4>2. Len(cs) = 0 /\ Len(cs2) > 0 => part = "bus" /\ "service" \in holding[m]
        BY <1>1, <1>2, <1>3, <1>4
      <4> QED BY <1>3, <3>1, <4>1, <4>2
    <3>5. Covered(n)'
      <4> HIDE DEF cs2, cs
      <4> QED BY <3>1, <3>2, <3>3, <3>4 DEF Covered
    <3>6. SettingUp(n)' /\ n = scopeAttr' /\ ("event" \in holding'[n] => tokenAttr' = n)
      BY <1>1, <1>2, <1>3, <1>6, <2>1 DEF SettingUp, Over
    <3>7. Over(n)'
      BY <3>6 DEF Over
    <3> QED BY <3>5, <3>7
  <2>2. CASE n # m
    <3>1. n \in 1 .. m /\ scopes'[n] = scopes[n] /\ holding'[n] = holding[n]
      BY <1>2, <1>6, <2>2
    <3>2. (n \notin lateCleanups => Covered(n)) /\ Over(n)
      BY <3>1 DEF RoutedInv
    <3>3. (n \notin lateCleanups => Covered(n))'
      BY <1>1, <3>1, <3>2, CoveredStays
    <3>4. Over(n)'
      BY <1>1, <1>2, <1>6, <2>2, <3>1, <3>2 DEF Over, Cleanups, SettingUp
    <3> QED BY <3>3, <3>4
  <2> QED BY <2>1, <2>2
<1> QED BY <1>8, <1>9, <1>10, <1>11 DEF RoutedInv

LEMMA SetupEndsStep ==
    ASSUME RoutedInv, SetupRaises \/ EndSetup
    PROVE  RoutedInv'
<1> DEFINE m == Len(scopes)
<1>1. /\ setupStep # 0 /\ setupStep' = 0
      /\ \/ failedSetups' = failedSetups \cup {m} /\ specAttr' = specAttr /\ isBound' = isBound
         \/ setupStep = 10 /\ specAttr' = TRUE /\ isBound' = TRUE /\ failedSetups' = failedSetups
      /\ holding' = holding /\ scopes' = scopes /\ scopeAttr' = scopeAttr /\ tokenAttr' = tokenAttr
      /\ updateAttr' = updateAttr /\ disposeStep' = disposeStep /\ overlaid' = overlaid
      /\ lateCleanups' = lateCleanups
  BY PartsAre DEF SetupRaises, EndSetup, ThisSetup, RoutedInv, RoutedTypes
<1>2. /\ RoutedTypes /\ CallsStand /\ UpdatedBySystems /\ m \in Nat /\ m = scopeAttr /\ m # 0
      /\ disposeStep = 0 /\ (setupStep = 10 => Cleanups(m) # <<>>)
  BY <1>1, RoutedFacts DEF RoutedInv, RoutedTypes, CallsStand
<1>3. RoutedTypes'
  BY <1>1, <1>2 DEF RoutedTypes
<1>4. UpdatedBySystems'
  BY <1>1, <1>2 DEF UpdatedBySystems
<1>5. CallsStand'
  BY <1>1, <1>2 DEF CallsStand
<1>6. ASSUME NEW n \in 1 .. Len(scopes')
      PROVE  /\ (n \notin lateCleanups => Covered(n))'
             /\ Over(n)'
  <2>1. (n \notin lateCleanups => Covered(n)) /\ Over(n)
    BY <1>1 DEF RoutedInv
  <2>2. (n \notin lateCleanups => Covered(n))'
    BY <1>1, <2>1, CoveredStays
  <2>3. Over(n)'
    BY <1>1, <1>2, <2>1 DEF Over, Cleanups, SettingUp
  <2> QED BY <2>2, <2>3
<1> QED BY <1>3, <1>4, <1>5, <1>6 DEF RoutedInv

LEMMA BeginShutdownStep ==
    ASSUME RoutedInv, BeginShutdown
    PROVE  RoutedInv'
<1> DEFINE m == Len(scopes)
           rec == [cleanups |-> Cleanups(scopeAttr), disposed |-> TRUE]
<1>1. /\ setupStep = 0 /\ disposeStep = 0 /\ isBound /\ specAttr
      /\ holding' = WithoutParts({"event"}, tokenAttr) /\ tokenAttr' = 0
      /\ scopes' = [scopes EXCEPT ![scopeAttr].disposed = TRUE]
      /\ disposeStep' = Len(Cleanups(scopeAttr)) + 1
      /\ scopeAttr' = scopeAttr /\ updateAttr' = updateAttr /\ specAttr' = specAttr /\ isBound' = isBound
      /\ setupStep' = setupStep /\ failedSetups' = failedSetups /\ overlaid' = overlaid
      /\ lateCleanups' = lateCleanups
  BY DEF BeginShutdown, Quiet, Cleanups
<1>2. /\ RoutedTypes /\ CallsStand /\ UpdatedBySystems /\ m \in Nat /\ m = scopeAttr /\ m # 0 /\ m \in 1 .. m
      /\ scopes \in Seq(Scopes) /\ holding \in Seq(SUBSET Parts) /\ Len(holding) = m /\ tokenAttr \in 0 .. m
  BY <1>1, RoutedFacts DEF RoutedInv, RoutedTypes, CallsStand
<1>3. scopes[m] \in Scopes /\ Cleanups(m) \in Seq(Freed) /\ Len(Cleanups(m)) \in Nat
  BY <1>2, RoutedFacts
<1>4. scopes' = [scopes EXCEPT ![m] = rec] /\ rec \in Scopes
  <2>1. [scopes[m] EXCEPT !.disposed = TRUE] = rec
    BY <1>2, <1>3, Disposed DEF Cleanups
  <2>2. scopes' = [scopes EXCEPT ![m] = [scopes[m] EXCEPT !.disposed = TRUE]]
    BY <1>1, <1>2
  <2>3. rec \in Scopes
    BY <1>2, <1>3 DEF Scopes
  <2> QED BY <2>1, <2>2, <2>3
<1> HIDE DEF rec
<1>5. /\ scopes' \in Seq(Scopes) /\ Len(scopes') = m /\ scopes'[m] = rec
      /\ \A n \in 1 .. m : n # m => scopes'[n] = scopes[n]
  BY <1>2, <1>4
<1>6. /\ holding' \in Seq(SUBSET Parts) /\ Len(holding') = m
      /\ \A n \in 1 .. m : holding'[n] = IF n = tokenAttr THEN holding[n] \ {"event"} ELSE holding[n]
  <2>1. ASSUME tokenAttr # 0
        PROVE  holding[tokenAttr] \ {"event"} \in SUBSET Parts
    BY <1>2, <2>1, RoutedFacts
  <2>2. CASE tokenAttr = 0
    BY <1>1, <1>2, <2>2 DEF WithoutParts
  <2>3. CASE tokenAttr # 0
    <3>1. holding' = [holding EXCEPT ![tokenAttr] = holding[tokenAttr] \ {"event"}]
      BY <1>1, <2>3 DEF WithoutParts
    <3>2. tokenAttr \in 1 .. m
      BY <1>2, <2>3
    <3>3. holding[tokenAttr] \ {"event"} \in SUBSET Parts
      BY <2>1, <2>3
    <3>4. /\ holding' \in Seq(SUBSET Parts) /\ Len(holding') = m
          /\ \A n \in 1 .. m : holding'[n] = IF n = tokenAttr THEN holding[tokenAttr] \ {"event"} ELSE holding[n]
      BY <1>2, <3>1, <3>2, <3>3, OneChanged
    <3> QED BY <3>4
  <2> QED BY <2>2, <2>3
<1>7. RoutedTypes'
  BY <1>1, <1>2, <1>3, <1>5, <1>6 DEF RoutedTypes
<1>8. UpdatedBySystems'
  <2>1. updateAttr # 0 => updateAttr \in 1 .. m /\ "systems" \in holding[updateAttr]
    BY <1>2 DEF UpdatedBySystems, RoutedTypes
  <2> QED BY <1>1, <1>6, <2>1 DEF UpdatedBySystems
<1>9. CallsStand'
  <2>1. Cleanups(scopeAttr)' = Cleanups(scopeAttr) /\ scopes'[scopeAttr].disposed
    BY <1>1, <1>2, <1>5 DEF Cleanups, rec
  <2> QED BY <1>1, <1>2, <1>3, <2>1 DEF CallsStand
<1>10. ASSUME NEW n \in 1 .. Len(scopes')
       PROVE  /\ (n \notin lateCleanups => Covered(n))'
              /\ Over(n)'
  <2>1. n \in 1 .. m /\ (n \notin lateCleanups => Covered(n)) /\ Over(n)
    BY <1>5 DEF RoutedInv
  <2>2. /\ Cleanups(n)' = Cleanups(n) /\ holding'[n] = holding[n] \ (IF n = tokenAttr THEN {"event"} ELSE {})
        /\ "event" \notin Freed /\ scopes[n].disposed = scopes[n].disposed
        /\ holding'[n] \cap Freed = holding[n] \cap Freed /\ "service" \in holding'[n] <=> "service" \in holding[n]
        /\ "bus" \in holding'[n] <=> "bus" \in holding[n]
    BY <1>2, <1>5, <1>6, <2>1 DEF Cleanups, rec, Freed, InScope
  <2>3. Left(n)' = Left(n) /\ (scopes'[n].disposed => Disposing(n)' \/ scopes[n].disposed)
    BY <1>1, <1>2, <1>3, <1>5, <2>1, <2>2 DEF Left, Disposing
  <2>4. ~Disposing(n)
    BY <1>1 DEF Disposing
  <2>5. (n \notin lateCleanups => Covered(n))'
    <3> SUFFICES ASSUME n \notin lateCleanups PROVE Covered(n)'
      BY <1>1
    <3> QED BY <2>1, <2>2, <2>3, <2>4 DEF Covered
  <2>6. /\ ~scopes'[n].disposed => ~scopes[n].disposed /\ ~SettingUp(n)
        /\ n \notin overlaid => "event" \notin holding'[n]
        /\ holding'[n] \subseteq holding[n]
        /\ n # m /\ n \notin overlaid => scopes'[n].disposed
    BY <1>1, <1>2, <1>5, <1>6, <2>1, <2>2 DEF Over, SettingUp, rec
  <2>7. Over(n)'
    BY <1>1, <1>2, <2>1, <2>2, <2>6 DEF Over
  <2> QED BY <2>5, <2>7
<1> QED BY <1>7, <1>8, <1>9, <1>10 DEF RoutedInv

LEMMA CleanUpNextStep ==
    ASSUME RoutedInv, CleanUpNext
    PROVE  RoutedInv'
<1> DEFINE m == scopeAttr
           part == Cleanups(m)[disposeStep - 1]
<1>1. /\ disposeStep > 1 /\ disposeStep' = disposeStep - 1
      /\ holding' = WithoutParts({part}, m) /\ updateAttr' = IF part = "systems" THEN 0 ELSE updateAttr
      /\ scopes' = scopes /\ scopeAttr' = scopeAttr /\ tokenAttr' = tokenAttr /\ specAttr' = specAttr
      /\ isBound' = isBound /\ setupStep' = setupStep /\ failedSetups' = failedSetups /\ overlaid' = overlaid
      /\ lateCleanups' = lateCleanups
  BY DEF CleanUpNext, Cleanups
<1>2. /\ RoutedTypes /\ CallsStand /\ UpdatedBySystems /\ Len(scopes) \in Nat /\ m \in 1 .. Len(scopes)
      /\ disposeStep \in Nat /\ setupStep = 0 /\ scopes[m].disposed /\ tokenAttr = 0
      /\ holding \in Seq(SUBSET Parts) /\ Len(holding) = Len(scopes)
  BY <1>1, RoutedFacts DEF RoutedInv, RoutedTypes, CallsStand
<1>3. /\ Cleanups(m) \in Seq(Freed) /\ Len(Cleanups(m)) \in Nat /\ disposeStep - 1 \in 1 .. Len(Cleanups(m))
      /\ part \in Freed
  <2>1. Cleanups(m) \in Seq(Freed) /\ Len(Cleanups(m)) \in Nat
    BY <1>2, RoutedFacts
  <2>2. disposeStep <= Len(Cleanups(m)) + 1
    BY <1>1, <1>2 DEF CallsStand
  <2>3. disposeStep - 1 \in 1 .. Len(Cleanups(m))
    BY <1>1, <1>2, <2>1, <2>2
  <2> QED BY <2>1, <2>3
<1>4. part # "service" /\ part # "event"
  BY <1>3 DEF Freed, InScope
<1> HIDE DEF part
<1>5. /\ holding' \in Seq(SUBSET Parts) /\ Len(holding') = Len(scopes)
      /\ \A n \in 1 .. Len(scopes) : holding'[n] = IF n = m THEN holding[n] \ {part} ELSE holding[n]
  <2>1. holding[m] \ {part} \in SUBSET Parts
    BY <1>2, RoutedFacts
  <2>2. holding' = [holding EXCEPT ![m] = holding[m] \ {part}]
    <3>1. m # 0
      BY <1>2
    <3> QED BY <1>1, <3>1 DEF WithoutParts
  <2>3. /\ holding' \in Seq(SUBSET Parts) /\ Len(holding') = Len(scopes)
        /\ \A n \in 1 .. Len(scopes) : holding'[n] = IF n = m THEN holding[m] \ {part} ELSE holding[n]
    BY <1>2, <2>1, <2>2, OneChanged
  <2> QED BY <2>3
<1>6. RoutedTypes'
  BY <1>1, <1>2, <1>5 DEF RoutedTypes
<1>7. UpdatedBySystems'
  <2>1. updateAttr # 0 => updateAttr \in 1 .. Len(scopes) /\ "systems" \in holding[updateAttr]
    BY <1>2 DEF UpdatedBySystems, RoutedTypes
  <2> QED BY <1>1, <1>5, <2>1 DEF UpdatedBySystems
<1>8. CallsStand'
  <2>1. Cleanups(scopeAttr)' = Cleanups(scopeAttr)
    BY <1>1 DEF Cleanups
  <2> QED BY <1>1, <1>2, <1>3, <2>1 DEF CallsStand
<1>9. ASSUME NEW n \in 1 .. Len(scopes')
      PROVE  /\ (n \notin lateCleanups => Covered(n))'
             /\ Over(n)'
  <2>1. n \in 1 .. Len(scopes) /\ (n \notin lateCleanups => Covered(n)) /\ Over(n)
    BY <1>1 DEF RoutedInv
  <2>2. (n \notin lateCleanups => Covered(n))'
    <3>1. CASE n = m
      <4> SUFFICES ASSUME n \notin lateCleanups PROVE Covered(n)'
        BY <1>1
      <4>1. /\ Left(n) = disposeStep - 1 /\ Left(n)' = disposeStep - 2 /\ Cleanups(n)' = Cleanups(n)
            /\ part = Cleanups(n)[Left(n)] /\ holding'[n] = holding[n] \ {part} /\ Left(n) \in Nat
            /\ scopes'[n] = scopes[n] /\ Disposing(n) /\ Disposing(n)' /\ Left(n) > 0
        <5>1. Disposing(n) /\ Disposing(n)' /\ Cleanups(n)' = Cleanups(n) /\ scopes'[n] = scopes[n]
          BY <1>1, <1>2, <3>1 DEF Disposing, Cleanups
        <5>2. Left(n) = disposeStep - 1 /\ Left(n)' = disposeStep' - 1 /\ part = Cleanups(n)[Left(n)]
          BY <3>1, <5>1 DEF Left, part
        <5>3. holding'[n] = holding[n] \ {part}
          BY <1>5, <2>1, <3>1
        <5>4. disposeStep' - 1 = disposeStep - 2 /\ disposeStep - 1 \in Nat /\ disposeStep - 1 > 0
          BY <1>1, <1>2
        <5> QED BY <5>1, <5>2, <5>3, <5>4
      <4>2. \A i \in 1 .. Len(Cleanups(n)) : Cleanups(n)[i] = "bus" <=> i = 1
        BY <2>1 DEF Covered
      <4>3. ASSUME NEW x \in holding'[n] \cap Freed
            PROVE  \E i \in 1 .. disposeStep - 2 : x = Cleanups(n)[i]
        <5>1. PICK i \in 1 .. Left(n) : x = Cleanups(n)[i]
          BY <2>1, <4>1 DEF Covered
        <5>2. i # Left(n)
          BY <4>1, <5>1
        <5> QED BY <1>2, <4>1, <5>1, <5>2
      <4>4. disposeStep - 2 > 0 => "bus" \in holding'[n] /\ "service" \in holding'[n]
        <5>1. "bus" \in holding[n] /\ "service" \in holding[n]
          BY <2>1, <4>1 DEF Covered
        <5>2. disposeStep - 2 > 0 => part # "bus"
          BY <1>2, <1>3, <3>1, <4>1, <4>2
        <5> QED BY <1>4, <4>1, <5>1, <5>2
      <4> QED BY <2>1, <4>1, <4>2, <4>3, <4>4 DEF Covered
    <3>2. CASE n # m
      <4>1. /\ Cleanups(n)' = Cleanups(n) /\ holding'[n] = holding[n] /\ scopes'[n] = scopes[n]
            /\ ~Disposing(n) /\ ~Disposing(n)' /\ Left(n)' = Left(n)
        BY <1>1, <1>5, <2>1, <3>2 DEF Left, Disposing, Cleanups
      <4> QED BY <1>1, <2>1, <4>1 DEF Covered
    <3> QED BY <3>1, <3>2
  <2>3. Over(n)'
    <3>1. Cleanups(n)' = Cleanups(n) /\ holding'[n] \subseteq holding[n] /\ (SettingUp(n)' <=> SettingUp(n))
      BY <1>1, <1>5, <2>1 DEF Cleanups, SettingUp
    <3> QED BY <1>1, <2>1, <3>1 DEF Over
  <2> QED BY <2>2, <2>3
<1> QED BY <1>6, <1>7, <1>8, <1>9 DEF RoutedInv

LEMMA EndShutdownStep ==
    ASSUME RoutedInv, NEW byManager \in BOOLEAN, EndShutdown(byManager)
    PROVE  RoutedInv'
<1> DEFINE m == scopeAttr
           rec == [cleanups |-> <<>>, disposed |-> TRUE]
<1>1. /\ disposeStep = 1 /\ disposeStep' = 0
      /\ scopes' = [scopes EXCEPT ![m].cleanups = <<>>]
      /\ scopeAttr' = 0 /\ updateAttr' = 0 /\ specAttr' = FALSE /\ isBound' = FALSE
      /\ tokenAttr' = tokenAttr /\ setupStep' = setupStep /\ failedSetups' = failedSetups
      /\ overlaid' = overlaid /\ lateCleanups' = lateCleanups
  BY DEF EndShutdown
<1>2. /\ RoutedTypes /\ CallsStand /\ Len(scopes) \in Nat /\ m \in 1 .. Len(scopes)
      /\ setupStep = 0 /\ scopes[m].disposed /\ tokenAttr = 0 /\ m # 0
      /\ scopes \in Seq(Scopes) /\ holding \in Seq(SUBSET Parts) /\ Len(holding) = Len(scopes)
  BY <1>1, RoutedFacts DEF RoutedInv, RoutedTypes, CallsStand
<1>3. scopes' = [scopes EXCEPT ![m] = rec] /\ rec \in Scopes
  <2>1. scopes[m] \in Scopes /\ scopes[m].disposed = TRUE
    BY <1>2, RoutedFacts DEF Scopes
  <2>2. [scopes[m] EXCEPT !.cleanups = <<>>] = rec
    <3>1. [scopes[m] EXCEPT !.cleanups = <<>>] = [cleanups |-> <<>>, disposed |-> scopes[m].disposed]
      BY <2>1, WithCleanups
    <3> QED BY <2>1, <3>1
  <2>3. scopes' = [scopes EXCEPT ![m] = [scopes[m] EXCEPT !.cleanups = <<>>]]
    BY <1>1
  <2>4. rec \in Scopes
    BY EmptySeq DEF Scopes
  <2> QED BY <2>2, <2>3, <2>4
<1> HIDE DEF rec
<1>4. /\ scopes' \in Seq(Scopes) /\ Len(scopes') = Len(scopes)
      /\ \A n \in 1 .. Len(scopes) : scopes'[n] = IF n = m THEN rec ELSE scopes[n]
  BY <1>2, <1>3, OneChanged
<1> DEFINE kept == [holding EXCEPT ![m] = holding[m] \ {"service"}]
<1>5. /\ holding' \in Seq(SUBSET Parts) /\ Len(holding') = Len(scopes)
      /\ \A n \in 1 .. Len(scopes) :
            /\ holding'[n] \subseteq holding[n] /\ holding[n] \ holding'[n] \subseteq {"service", "observable"}
            /\ n # m => holding[n] \ holding'[n] \subseteq {"observable"}
            /\ n = m => "service" \notin holding'[n]
  <2>1. WithoutParts({"service"}, m) = kept
    BY <1>2 DEF WithoutParts
  <2>2. holding[m] \ {"service"} \in SUBSET Parts
    BY <1>2, RoutedFacts
  <2>3. /\ kept \in Seq(SUBSET Parts) /\ Len(kept) = Len(scopes)
        /\ \A n \in 1 .. Len(scopes) : kept[n] = IF n = m THEN holding[m] \ {"service"} ELSE holding[n]
    BY <1>2, <2>2, OneChanged
  <2>4. \A n \in 1 .. Len(scopes) : holding[n] \subseteq Parts /\ kept[n] \subseteq Parts
    BY <1>2, <2>2, <2>3, RoutedFacts
  <2> HIDE DEF kept
  <2>5. CASE byManager
    <3>1. holding' = [n \in 1 .. Len(scopes) |->
                        IF Contains(ownSubs, n) THEN kept[n] \ {"observable"} ELSE kept[n]]
      BY <2>1, <2>5, RoutedFacts DEF EndShutdown
    <3>2. \A n \in 1 .. Len(scopes) :
             /\ holding'[n] \in SUBSET Parts
             /\ holding'[n] \subseteq kept[n] /\ kept[n] \ holding'[n] \subseteq {"observable"}
      BY <2>4, <3>1
    <3>3. holding' \in Seq(SUBSET Parts) /\ Len(holding') = Len(scopes)
      BY <1>2, <3>1, <3>2
    <3>4. \A n \in 1 .. Len(scopes) :
            /\ holding'[n] \subseteq holding[n] /\ holding[n] \ holding'[n] \subseteq {"service", "observable"}
            /\ n # m => holding[n] \ holding'[n] \subseteq {"observable"}
            /\ n = m => "service" \notin holding'[n]
      BY <2>3, <3>2
    <3> QED BY <3>3, <3>4
  <2>6. CASE ~byManager
    <3>1. holding' = kept
      BY <2>1, <2>6 DEF EndShutdown
    <3> QED BY <2>3, <3>1
  <2> QED BY <2>5, <2>6
<1>6. RoutedTypes'
  BY <1>1, <1>2, <1>4, <1>5 DEF RoutedTypes
<1>7. UpdatedBySystems' /\ CallsStand'
  BY <1>1, <1>2 DEF UpdatedBySystems, CallsStand
<1>8. ASSUME NEW n \in 1 .. Len(scopes')
      PROVE  /\ (n \notin lateCleanups => Covered(n))'
             /\ Over(n)'
  <2>1. n \in 1 .. Len(scopes) /\ (n \notin lateCleanups => Covered(n)) /\ Over(n)
    BY <1>4 DEF RoutedInv
  <2>2. ~Disposing(n)' /\ ~SettingUp(n)
    BY <1>1, <1>2 DEF Disposing, SettingUp
  <2>3. CASE n = m
    <3>1. scopes'[n] = rec /\ Cleanups(n)' = <<>> /\ Left(n)' = 0 /\ scopes'[n].disposed
      BY <1>4, <2>1, <2>2, <2>3 DEF Cleanups, Left, rec
    <3>2. Left(n) = 0
      BY <1>1, <2>3 DEF Left, Disposing
    <3>3. Covered(n) => holding'[n] \cap Freed = {}
      BY <1>5, <2>1, <3>2 DEF Covered
    <3>4. (n \notin lateCleanups => Covered(n))'
      BY <1>1, <2>1, <3>1, <3>3 DEF Covered
    <3>5. n \notin overlaid => "event" \notin holding'[n]
      BY <1>2, <1>5, <2>1, <2>3 DEF Over
    <3>6. n \notin overlaid /\ n \notin lateCleanups => holding'[n] \subseteq {"actions"}
      <4>1. holding[n] \subseteq Parts /\ holding'[n] \subseteq holding[n] /\ "service" \notin holding'[n]
        BY <1>5, <2>1, <2>3, RoutedFacts
      <4> QED BY <2>1, <3>3, <3>5, <4>1 DEF Parts
    <3>7. Over(n)'
      BY <1>1, <3>1, <3>5, <3>6 DEF Over
    <3> QED BY <3>4, <3>7
  <2>4. CASE n # m
    <3>1. scopes'[n] = scopes[n] /\ Cleanups(n)' = Cleanups(n) /\ ~Disposing(n) /\ Left(n)' = Left(n)
      BY <1>4, <2>1, <2>2, <2>4 DEF Cleanups, Left, Disposing
    <3>2. /\ holding'[n] \subseteq holding[n] /\ ("service" \in holding'[n] <=> "service" \in holding[n])
          /\ ("bus" \in holding'[n] <=> "bus" \in holding[n])
      BY <1>5, <2>1, <2>4
    <3>3. (n \notin lateCleanups => Covered(n))'
      <4> SUFFICES ASSUME n \notin lateCleanups PROVE Covered(n)'
        BY <1>1
      <4> QED BY <2>1, <3>1, <3>2 DEF Covered
    <3>4. Over(n)'
      BY <1>1, <1>2, <2>1, <2>2, <2>4, <3>1, <3>2 DEF Over
    <3> QED BY <3>3, <3>4
  <2> QED BY <2>3, <2>4
<1> QED BY <1>6, <1>7, <1>8 DEF RoutedInv

LEMMA AcquireLaterStep ==
    ASSUME RoutedInv, NEW m \in Setups, AcquireLater(m)
    PROVE  RoutedInv'
<1> DEFINE cs == Cleanups(m)
           cs2 == Append(cs, "later")
           rec == [cleanups |-> cs2, disposed |-> scopes[m].disposed]
<1>1. /\ setupStep = 0 /\ m \notin failedSetups
      /\ holding' = [holding EXCEPT ![m] = holding[m] \cup {"later"}]
      /\ scopes' = [scopes EXCEPT ![m].cleanups = Append(@, "later")]
      /\ lateCleanups' = IF scopes[m].disposed THEN lateCleanups \cup {m} ELSE lateCleanups
      /\ scopeAttr' = scopeAttr /\ tokenAttr' = tokenAttr /\ updateAttr' = updateAttr
      /\ specAttr' = specAttr /\ isBound' = isBound /\ setupStep' = setupStep
      /\ disposeStep' = disposeStep /\ failedSetups' = failedSetups /\ overlaid' = overlaid
  BY DEF AcquireLater
<1>2. /\ RoutedTypes /\ CallsStand /\ UpdatedBySystems /\ Len(scopes) \in Nat /\ m \in 1 .. Len(scopes)
      /\ scopes \in Seq(Scopes) /\ holding \in Seq(SUBSET Parts) /\ Len(holding) = Len(scopes)
  BY RoutedFacts DEF RoutedInv, RoutedTypes
<1>3. /\ scopes[m] \in Scopes /\ cs \in Seq(Freed) /\ Len(cs) \in Nat /\ holding[m] \subseteq Parts
      /\ "later" \in Freed /\ "later" \in Parts /\ Over(m) /\ scopes[m].disposed \in BOOLEAN
  BY <1>2, RoutedFacts DEF RoutedInv, Freed, Parts
<1>4. scopes' = [scopes EXCEPT ![m] = rec] /\ rec \in Scopes
  <2>1. [scopes[m] EXCEPT !.cleanups = cs2] = rec
    BY <1>3, WithCleanups
  <2>2. scopes' = [scopes EXCEPT ![m] = [scopes[m] EXCEPT !.cleanups = cs2]]
    BY <1>1 DEF Cleanups
  <2>3. rec \in Scopes
    BY <1>3 DEF Scopes
  <2> QED BY <2>1, <2>2, <2>3
<1> HIDE DEF rec
<1>5. /\ scopes' \in Seq(Scopes) /\ Len(scopes') = Len(scopes)
      /\ \A n \in 1 .. Len(scopes) : scopes'[n] = IF n = m THEN rec ELSE scopes[n]
  BY <1>2, <1>4, OneChanged
<1>6. /\ holding' \in Seq(SUBSET Parts) /\ Len(holding') = Len(scopes)
      /\ \A n \in 1 .. Len(scopes) : holding'[n] = IF n = m THEN holding[m] \cup {"later"} ELSE holding[n]
  <2>1. holding[m] \cup {"later"} \in SUBSET Parts
    BY <1>3
  <2> QED BY <1>1, <1>2, <2>1, OneChanged
<1>7. RoutedTypes'
  BY <1>1, <1>2, <1>5, <1>6 DEF RoutedTypes
<1>8. UpdatedBySystems'
  <2>1. updateAttr # 0 => updateAttr \in 1 .. Len(scopes) /\ "systems" \in holding[updateAttr]
    BY <1>2 DEF UpdatedBySystems, RoutedTypes
  <2> QED BY <1>1, <1>6, <2>1 DEF UpdatedBySystems
<1>9. CallsStand'
  <2>1. ASSUME disposeStep # 0
        PROVE  disposeStep <= Len(Cleanups(scopeAttr)') + 1 /\ scopes'[scopeAttr].disposed
    <3>1. scopeAttr \in 1 .. Len(scopes) /\ scopes[scopeAttr].disposed
      BY <1>2, <2>1 DEF CallsStand, RoutedTypes
    <3>2. disposeStep <= Len(Cleanups(scopeAttr)) + 1 /\ disposeStep \in Nat /\ Len(Cleanups(scopeAttr)) \in Nat
      BY <1>2, <2>1, <3>1, RoutedFacts DEF CallsStand, RoutedTypes
    <3>3. CASE scopeAttr = m
      <4>1. Cleanups(scopeAttr)' = cs2 /\ scopes'[scopeAttr].disposed = scopes[m].disposed
        BY <1>1, <1>5, <3>1, <3>3 DEF Cleanups, rec
      <4>2. Len(cs2) = Len(cs) + 1
        BY <1>3
      <4> HIDE DEF cs2
      <4> QED BY <3>1, <3>2, <3>3, <4>1, <4>2
    <3>4. CASE scopeAttr # m
      BY <1>1, <1>5, <3>1, <3>2, <3>4 DEF Cleanups
    <3> QED BY <3>3, <3>4
  <2> QED BY <1>1, <1>2, <2>1 DEF CallsStand
<1>10. ASSUME NEW n \in 1 .. Len(scopes')
       PROVE  /\ (n \notin lateCleanups => Covered(n))'
              /\ Over(n)'
  <2>1. n \in 1 .. Len(scopes) /\ (n \notin lateCleanups => Covered(n)) /\ Over(n)
    BY <1>5 DEF RoutedInv
  <2>2. CASE n = m
    <3>1. /\ Cleanups(n)' = cs2 /\ (scopes'[n].disposed <=> scopes[n].disposed)
          /\ holding'[n] = holding[n] \cup {"later"} /\ (SettingUp(n)' <=> SettingUp(n)) /\ ~SettingUp(n)
      BY <1>1, <1>5, <1>6, <2>1, <2>2 DEF Cleanups, SettingUp, rec
    <3>2. ASSUME ~scopes[n].disposed, n \notin lateCleanups
          PROVE  Covered(n)'
      <4>1. ~Disposing(n) /\ ~Disposing(n)' /\ Covered(n)
        BY <1>1, <1>2, <2>1, <3>2 DEF Disposing, CallsStand
      <4>2. Left(n) = Len(cs) /\ Left(n)' = Len(cs2) /\ Len(cs2) = Len(cs) + 1 /\ cs # <<>> /\ Len(cs) > 0
        <5>1. cs # <<>>
          BY <1>1, <1>3, <2>2, <3>1, <3>2 DEF Over
        <5> QED BY <1>3, <2>2, <3>1, <4>1, <5>1 DEF Left
      <4>3. \A i \in 1 .. Len(cs2) : cs2[i] = "bus" <=> i = 1
        BY <1>3, <2>2, <4>1, <4>2 DEF Covered
      <4>4. ASSUME NEW x \in holding'[n] \cap Freed
            PROVE  \E i \in 1 .. Len(cs2) : x = cs2[i]
        <5>1. CASE x = "later"
          BY <1>3, <4>2, <5>1
        <5>2. CASE x # "later"
          <6>1. PICK i \in 1 .. Len(cs) : x = cs[i]
            BY <2>2, <3>1, <4>1, <4>2, <5>2 DEF Covered
          <6> QED BY <1>3, <6>1
        <5> QED BY <5>1, <5>2
      <4>5. "bus" \in holding'[n] /\ "service" \in holding'[n]
        BY <3>1, <4>1, <4>2 DEF Covered
      <4> HIDE DEF cs2, cs
      <4> QED BY <3>1, <3>2, <4>2, <4>3, <4>4, <4>5 DEF Covered
    <3>3. (n \notin lateCleanups => Covered(n))'
      BY <1>1, <2>2, <3>2
    <3>4. cs2 # <<>>
      BY <1>3
    <3>5. "event" \in holding'[n] => "event" \in holding[n]
      BY <3>1
    <3>6. n # scopeAttr /\ n \notin overlaid => n \in lateCleanups'
      BY <1>1, <2>1, <2>2 DEF Over
    <3>7. Over(n)'
      <4> HIDE DEF cs2
      <4> QED BY <1>1, <2>1, <3>1, <3>4, <3>5, <3>6 DEF Over
    <3> QED BY <3>3, <3>7
  <2>3. CASE n # m
    <3>1. scopes'[n] = scopes[n] /\ holding'[n] = holding[n] /\ Cleanups(n)' = Cleanups(n)
          /\ (SettingUp(n)' <=> SettingUp(n)) /\ (n \in lateCleanups' <=> n \in lateCleanups)
      BY <1>1, <1>5, <1>6, <2>1, <2>3 DEF Cleanups, SettingUp
    <3>2. (n \notin lateCleanups => Covered(n))'
      BY <1>1, <2>1, <3>1, CoveredStays
    <3>3. Over(n)'
      BY <1>1, <2>1, <3>1 DEF Over
    <3> QED BY <3>2, <3>3
  <2> QED BY <2>2, <2>3
<1> QED BY <1>7, <1>8, <1>9, <1>10 DEF RoutedInv

LEMMA RoutedNextInv ==
    ASSUME RoutedInv, RoutedNext
    PROVE  RoutedInv'
BY BeginSetupStep, AcquirePartStep, SetupEndsStep, BeginShutdownStep, CleanUpNextStep,
   EndShutdownStep, AcquireLaterStep DEF RoutedNext

LEMMA RoutedStays ==
    ASSUME RoutedInv, UNCHANGED routedVars
    PROVE  RoutedInv'
BY DEF RoutedInv, RoutedTypes, CallsStand, UpdatedBySystems, Covered, Over, Left, Cleanups, Disposing,
       SettingUp, routedVars

LEMMA RoutedIsSafe == RoutedInv => RoutedSafe
<1> SUFFICES ASSUME RoutedInv PROVE RoutedSafe
  OBVIOUS
<1>1. /\ RoutedTypes /\ CallsStand /\ UpdatedBySystems /\ Setups = 1 .. Len(scopes)
      /\ \A n \in Setups : /\ n \notin lateCleanups => Covered(n)
                           /\ Over(n)
  BY RoutedFacts DEF RoutedInv
<1>2. ASSUME Quiet, NEW n \in Setups \ (failedSetups \cup overlaid), holding[n] \ {"actions"} # {},
             n \notin lateCleanups
      PROVE  isBound /\ n = scopeAttr
  <2>1. n = scopeAttr
    BY <1>1, <1>2 DEF Over
  <2>2. scopeAttr # 0 /\ setupStep = 0
    BY <1>1, <1>2, <2>1 DEF Quiet
  <2> QED BY <1>1, <1>2, <2>1, <2>2 DEF CallsStand
<1>3. ASSUME NEW n \in Setups \ lateCleanups, NEW x \in holding[n] \cap Freed
      PROVE  "service" \in holding[n] /\ "bus" \in holding[n]
  <2>1. Covered(n)
    BY <1>1
  <2>2. PICK i \in 1 .. Left(n) : x = Cleanups(n)[i]
    BY <2>1 DEF Covered
  <2>3. Left(n) > 0
    <3>1. Left(n) \in Int
      <4>1. disposeStep \in Nat /\ Len(Cleanups(n)) \in Nat
        BY <1>1, RoutedFacts DEF RoutedTypes
      <4> QED BY <4>1 DEF Left
    <3> QED BY <2>2, <3>1
  <2> QED BY <2>1, <2>3 DEF Covered
<1>4. \A n \in Setups \ lateCleanups :
          /\ holding[n] \cap (InScope \cup {"later"}) # {} => "service" \in holding[n]
          /\ holding[n] \cap (InScope \ {"bus"}) # {} => "bus" \in holding[n]
  BY <1>3 DEF Freed
<1> QED BY <1>1, <1>2, <1>4 DEF RoutedSafe, UpdatedBySystems

(* The inductive invariant of both.                                        *)
FeaturesInv == LifecycleInv /\ RoutedInv

LEMMA FeaturesAllNextInv ==
    ASSUME FeaturesInv, [AllNext]_allVars
    PROVE  FeaturesInv'
<1>1. CASE LifecycleOf
  <2>1. FeaturesNext /\ UNCHANGED routedVars
    BY <1>1 DEF LifecycleOf, lastVars
  <2> QED BY <2>1, LifecycleNextInv, RoutedStays DEF FeaturesInv
<1>2. CASE RoutedOf
  <2>1. RoutedNext /\ UNCHANGED featureVars
    BY <1>2 DEF RoutedOf, firstVars
  <2> QED BY <2>1, RoutedNextInv, LifecycleStays DEF FeaturesInv
<1>3. CASE \/ OpsOf \/ UpdatesOf \/ UndoOf \/ StoreOf \/ FormsOf \/ ProviderOf \/ ReactiveOf
           \/ TweensOf \/ StatesOf \/ TimelineOf \/ CachesOf \/ CollectionsOf
  <2>1. UNCHANGED featureVars /\ UNCHANGED routedVars
    BY <1>3 DEF OpsOf, UpdatesOf, UndoOf, StoreOf, FormsOf, ProviderOf, ReactiveOf, TweensOf,
                StatesOf, TimelineOf, CachesOf, CollectionsOf, firstVars, lastVars
  <2> QED BY <2>1, LifecycleStays, RoutedStays DEF FeaturesInv
<1>4. CASE UNCHANGED allVars
  <2>1. UNCHANGED featureVars /\ UNCHANGED routedVars
    BY <1>4 DEF allVars, firstVars, lastVars
  <2> QED BY <2>1, LifecycleStays, RoutedStays DEF FeaturesInv
<1> QED BY <1>1, <1>2, <1>3, <1>4 DEF AllNext

(* FeaturesSafe: for any features, names, scenes and number of setups, the *)
(* manager's views, bindings and runtimes are those of what is registered, *)
(* and what a routed feature acquires is released with it.                 *)
THEOREM FeaturesKept == AllSpec => []FeaturesSafe
<1>1. AllInit => FeaturesInv
  BY LifecycleInitInv, RoutedInitInv DEF AllInit, FeaturesInv
<1>2. FeaturesInv => FeaturesSafe
  BY LifecycleIsSafe, RoutedIsSafe DEF FeaturesInv, FeaturesSafe
<1> QED BY <1>1, <1>2, FeaturesAllNextInv, PTL DEF AllSpec

=============================================================================
