---------------------------- MODULE CacheKVProofs ----------------------------
(***************************************************************************)
(* A stack of cache-wrapped stores implements a stack of maps, and a cache *)
(* iterator hands out the contents of its layer when it was created, for   *)
(* any keys and values and any depth of the stack.                         *)
(*                                                                         *)
(* The argument: a clean copy that a layer keeps of an item always has the *)
(* value the layers below give (Faithful), because a layer is only written *)
(* when it is the top one and its own writes go to the layer just below.   *)
(* So a layer that has not changed an item shows what its parent shows,    *)
(* and writing its dirty items alone makes the parent equal to it.  The    *)
(* lemmas are about any layers L over any store b, so that they apply      *)
(* before and after a step.                                                *)
(*                                                                         *)
(* The iterator: what it has handed out, followed by the merge of what is  *)
(* left of the parent's items and of the cache's, is what was promised     *)
(* when it was created (IterInv).  A turn takes one item off a side and    *)
(* keeps the merge, or hands out its first item.                           *)
(***************************************************************************)
EXTENDS CacheKV, SequenceTheorems, WellFoundedInduction, TLAPS

(* The larger obligations need more than the prover's default time.        *)
USE SMTT(60)

\* Holder and View, of the layers L over the store b.
HolderIn(L, n, k) == Max({i \in 1..n : L[i][k].held} \cup {0})

ViewIn(L, b, n, k) ==
    IF HolderIn(L, n, k) = 0 THEN b[k] ELSE L[HolderIn(L, n, k)][k].value

StackOf(L, b) == [n \in 1..(Len(L) + 1) |-> [k \in Keys |-> ViewIn(L, b, n - 1, k)]]

Faithful(L, b) ==
    \A n \in 1..Len(L) : \A k \in Keys :
        L[n][k].held /\ ~L[n][k].dirty => L[n][k].value = ViewIn(L, b, n - 1, k)

Layer == [Keys -> Cached]

Good(L, b) == L \in Seq(Layer) /\ b \in Map /\ Faithful(L, b)

-----------------------------------------------------------------------------
\* The fields of a cached item.
LEMMA CachedFields ==
  /\ \A c \in Cached : /\ c.value \in Values \cup {Nil}
                       /\ c.held \in BOOLEAN /\ c.dirty \in BOOLEAN
                       /\ c.dirty => c.held
  /\ Miss \in Cached /\ ~Miss.held
  /\ \A v \in Values \cup {Nil} :
       /\ Clean(v) \in Cached /\ Clean(v).held /\ ~Clean(v).dirty /\ Clean(v).value = v
       /\ Dirty(v) \in Cached /\ Dirty(v).held /\ Dirty(v).dirty /\ Dirty(v).value = v
<1>1. /\ Miss.value = Nil /\ Miss.held = FALSE /\ Miss.dirty = FALSE
      /\ \A v : Clean(v).value = v /\ Clean(v).held = TRUE /\ Clean(v).dirty = FALSE
      /\ \A v : Dirty(v).value = v /\ Dirty(v).held = TRUE /\ Dirty(v).dirty = TRUE
  BY DEF Miss, Clean, Dirty
<1>2. /\ Miss \in Cached
      /\ \A v \in Values \cup {Nil} : Clean(v) \in Cached /\ Dirty(v) \in Cached
  BY DEF Cached
<1>3. ASSUME NEW c \in Cached
      PROVE  /\ c.value \in Values \cup {Nil}
             /\ c.held \in BOOLEAN /\ c.dirty \in BOOLEAN /\ (c.dirty => c.held)
  <2>1. c = Miss \/ \E v \in Values \cup {Nil} : c = Clean(v) \/ c = Dirty(v)
    BY DEF Cached
  <2> QED
    BY ZenonT(60), <1>1, <2>1
<1> QED
  BY <1>1, <1>2, <1>3

\* A nonempty set of numbers up to n has a maximum.
LEMMA MaxIs ==
  ASSUME NEW n \in Nat, NEW T \in SUBSET (0..n), T # {}
  PROVE  Max(T) \in T /\ \A y \in T : y <= Max(T)
<1> DEFINE R == OpToRel(<, Nat)
           D == {n - y : y \in T}
<1> HIDE DEF R
<1>1. D \subseteq Nat /\ D # {}
  <2> HIDE DEF D
  <2>1. \A y \in T : y \in Int /\ n - y \in Nat
    OBVIOUS
  <2>2. D \subseteq Nat
    BY ZenonT(60), <2>1 DEF D
  <2>3. D # {}
    BY ZenonT(60) DEF D
  <2> QED
    BY ONLY <2>2, <2>3
<1>2. \E x \in D : \A y \in D : ~(<<y, x>> \in R)
  <2> HIDE DEF D
  <2>1. IsWellFoundedOn(R, Nat)
    BY ZenonT(60), NatLessThanWellFounded DEF R
  <2> QED
    BY ZenonT(60), <1>1, <2>1, WFMin
<1>3. PICK x \in D : \A y \in D : ~(<<y, x>> \in R)
  BY ZenonT(60), <1>2
<1>4. \A y \in D : ~(y < x)
  BY ZenonT(60), <1>1, <1>3 DEF R, OpToRel
<1>5. PICK m \in T : x = n - m
  OBVIOUS
<1>6. \A y \in T : m >= y
  <2> SUFFICES ASSUME NEW y \in T PROVE m >= y
    OBVIOUS
  <2>1. ~(n - y < n - m)
    BY <1>4, <1>5
  <2>2. y \in Int /\ m \in Int
    OBVIOUS
  <2> QED
    BY <2>1, <2>2
<1>7. PICK k \in T : k = Max(T) /\ \A y \in T : k >= y
  BY ZenonT(60), <1>6 DEF Max
<1>8. \A y \in T : y \in Int
  OBVIOUS
<1> QED
  BY ONLY <1>7, <1>8

\* The layer that answers is the highest that holds the key.
LEMMA HolderIs ==
  ASSUME NEW L, NEW n \in Nat, NEW k
  PROVE  /\ HolderIn(L, n, k) \in 0..n
         /\ HolderIn(L, n, k) # 0 => L[HolderIn(L, n, k)][k].held
         /\ \A i \in 1..n : L[i][k].held => i <= HolderIn(L, n, k)
<1> DEFINE T == {i \in 1..n : L[i][k].held} \cup {0}
<1>1. T \in SUBSET (0..n) /\ T # {}
  OBVIOUS
<1>2. Max(T) \in T /\ \A y \in T : y <= Max(T)
  <2> HIDE DEF T
  <2> QED
    BY <1>1, MaxIs
<1> QED
  BY <1>2 DEF HolderIn

\* It is the only one of which that is true.
LEMMA HolderUnique ==
  ASSUME NEW L, NEW n \in Nat, NEW k, NEW h \in 0..n,
         h # 0 => L[h][k].held, \A i \in 1..n : L[i][k].held => i <= h
  PROVE  HolderIn(L, n, k) = h
<1>1. /\ HolderIn(L, n, k) \in 0..n
      /\ HolderIn(L, n, k) # 0 => L[HolderIn(L, n, k)][k].held
      /\ \A i \in 1..n : L[i][k].held => i <= HolderIn(L, n, k)
  BY HolderIs
<1> QED
  BY <1>1

\* Below every layer is the store.
LEMMA ViewBottom ==
  ASSUME NEW L, NEW b, NEW k
  PROVE  ViewIn(L, b, 0, k) = b[k]
  BY HolderUnique DEF ViewIn

\* A layer answers itself or asks the one below.
LEMMA ViewLayer ==
  ASSUME NEW L, NEW b, NEW k, NEW n \in Nat \ {0}
  PROVE  ViewIn(L, b, n, k) = IF L[n][k].held THEN L[n][k].value ELSE ViewIn(L, b, n - 1, k)
<1>1. CASE L[n][k].held
  <2>1. HolderIn(L, n, k) = n
    BY <1>1, HolderUnique
  <2> QED
    BY <1>1, <2>1 DEF ViewIn
<1>2. CASE ~L[n][k].held
  <2> DEFINE h == HolderIn(L, n - 1, k)
  <2>1. /\ h \in 0..(n - 1) /\ (h # 0 => L[h][k].held)
        /\ \A i \in 1..(n - 1) : L[i][k].held => i <= h
    BY HolderIs
  <2>2. HolderIn(L, n, k) = h
    <3> HIDE DEF h
    <3>1. h \in 0..n /\ \A i \in 1..n : L[i][k].held => i <= h
      BY <1>2, <2>1
    <3> QED
      BY ZenonT(60), <2>1, <3>1, HolderUnique
  <2> QED
    BY <1>2, <2>2 DEF ViewIn
<1> QED
  BY <1>1, <1>2

\* What a layer shows depends on the layers up to it alone.
LEMMA ViewAgree ==
  ASSUME NEW L, NEW M, NEW b, NEW k, NEW n \in Nat,
         \A i \in 1..n : L[i][k] = M[i][k]
  PROVE  ViewIn(L, b, n, k) = ViewIn(M, b, n, k)
<1>1. /\ HolderIn(L, n, k) \in 0..n
      /\ HolderIn(L, n, k) # 0 => L[HolderIn(L, n, k)][k].held
      /\ \A i \in 1..n : L[i][k].held => i <= HolderIn(L, n, k)
  BY HolderIs
<1>2. HolderIn(M, n, k) = HolderIn(L, n, k)
  <2> DEFINE h == HolderIn(L, n, k)
  <2>1. /\ h \in 0..n /\ (h # 0 => M[h][k].held)
        /\ \A i \in 1..n : M[i][k].held => i <= h
    BY <1>1
  <2> HIDE DEF h
  <2>2. HolderIn(M, n, k) = h
    BY ZenonT(60), <2>1, HolderUnique
  <2> QED
    BY <2>2 DEF h
<1> QED
  BY <1>1, <1>2 DEF ViewIn

\* The items of a layer, and what it shows, have their types.
LEMMA Types ==
  ASSUME NEW L \in Seq(Layer), NEW b \in Map
  PROVE  /\ Len(L) \in Nat
         /\ \A n \in 1..Len(L) : L[n] \in Layer
         /\ \A n \in 1..Len(L), k \in Keys : L[n][k] \in Cached
         /\ \A n \in 0..Len(L), k \in Keys : ViewIn(L, b, n, k) \in Values \cup {Nil}
<1>1. Len(L) \in Nat /\ \A n \in 1..Len(L) : L[n] \in Layer
  BY LenProperties, ElementOfSeq
<1>2. \A n \in 1..Len(L), k \in Keys : L[n][k] \in Cached
  BY <1>1 DEF Layer
<1>3. ASSUME NEW n \in 0..Len(L), NEW k \in Keys
      PROVE  ViewIn(L, b, n, k) \in Values \cup {Nil}
  <2>1. HolderIn(L, n, k) \in 0..n
    BY <1>1, HolderIs
  <2>2. CASE HolderIn(L, n, k) = 0
    BY <2>2 DEF ViewIn, Map
  <2>3. CASE HolderIn(L, n, k) # 0
    <3>1. L[HolderIn(L, n, k)][k] \in Cached
      BY <1>1, <1>2, <2>1, <2>3
    <3> QED
      BY <2>3, <3>1, CachedFields DEF ViewIn
  <2> QED
    BY <2>2, <2>3
<1> QED
  BY <1>1, <1>2, <1>3

\* The maps that the layers and the store stand for.
LEMMA StackIs ==
  ASSUME NEW L \in Seq(Layer), NEW b \in Map
  PROVE  /\ StackOf(L, b) \in Seq(Map) /\ Len(StackOf(L, b)) = Len(L) + 1
         /\ \A n \in 1..(Len(L) + 1) :
              /\ StackOf(L, b)[n] \in Map
              /\ StackOf(L, b)[n] = [k \in Keys |-> ViewIn(L, b, n - 1, k)]
<1>1. Len(L) \in Nat /\ \A n \in 0..Len(L), k \in Keys : ViewIn(L, b, n, k) \in Values \cup {Nil}
  BY Types
<1>2. ASSUME NEW n \in 1..(Len(L) + 1)
      PROVE  [k \in Keys |-> ViewIn(L, b, n - 1, k)] \in Map
  <2>1. n - 1 \in 0..Len(L)
    BY <1>1
  <2> QED
    BY <1>1, <2>1 DEF Map
<1>3. StackOf(L, b) \in [1..(Len(L) + 1) -> Map]
  BY <1>2 DEF StackOf
<1>4. Len(L) + 1 \in Nat
  BY <1>1
<1>5. StackOf(L, b) \in Seq(Map)
  BY <1>3, <1>4, SeqDef
<1>6. Len(StackOf(L, b)) = Len(L) + 1
  <2>1. DOMAIN StackOf(L, b) = 1..(Len(L) + 1)
    BY DEF StackOf
  <2> QED
    BY <1>4, <1>5, <2>1, LenProperties
<1> QED
  BY <1>2, <1>5, <1>6 DEF StackOf

\* Two stacks that show the same are the same.
LEMMA SameStack ==
  ASSUME NEW L \in Seq(Layer), NEW M \in Seq(Layer), NEW b \in Map, NEW c \in Map,
         Len(L) = Len(M),
         \A n \in 0..Len(L), k \in Keys : ViewIn(M, c, n, k) = ViewIn(L, b, n, k)
  PROVE  StackOf(M, c) = StackOf(L, b)
<1>1. ASSUME NEW n \in 1..(Len(L) + 1)
      PROVE  [k \in Keys |-> ViewIn(M, c, n - 1, k)] = [k \in Keys |-> ViewIn(L, b, n - 1, k)]
  <2>1. n - 1 \in 0..Len(L)
    BY Types
  <2> QED
    BY <2>1
<1> QED
  BY <1>1 DEF StackOf

\* The layers after the top one is replaced.
LEMMA TopReplaced ==
  ASSUME NEW L \in Seq(Layer), Len(L) > 0, NEW l \in Layer
  PROVE  /\ [L EXCEPT ![Len(L)] = l] \in Seq(Layer)
         /\ Len([L EXCEPT ![Len(L)] = l]) = Len(L)
         /\ \A n \in 1..Len(L) : [L EXCEPT ![Len(L)] = l][n] = IF n = Len(L) THEN l ELSE L[n]
<1>1. Len(L) \in 1..Len(L)
  BY LenProperties
<1> QED
  BY <1>1, ExceptSeq

\* Set and Delete change what the top layer shows, and nothing below.
LEMMA PutStep ==
  ASSUME NEW L, NEW b, Good(L, b), Len(L) > 0, NEW key \in Keys, NEW v \in Values \cup {Nil},
         NEW M \in Seq(Layer), Len(M) = Len(L),
         \A n \in 1..Len(L), k \in Keys :
            M[n][k] = IF n = Len(L) /\ k = key THEN Dirty(v) ELSE L[n][k]
  PROVE  /\ Good(M, b)
         /\ StackOf(M, b) = [StackOf(L, b) EXCEPT ![Len(StackOf(L, b))][key] = v]
<1> DEFINE top == Len(L)
<1>1. L \in Seq(Layer) /\ b \in Map /\ top \in Nat \ {0} /\ top \in 1..top
  BY Types DEF Good
<1>2. ASSUME NEW n \in 0..top, NEW k \in Keys
      PROVE  ViewIn(M, b, n, k) = IF n = top /\ k = key THEN v ELSE ViewIn(L, b, n, k)
  <2>1. CASE n = top /\ k = key
    <3>1. M[n][k] = Dirty(v) /\ n \in Nat \ {0}
      BY <1>1, <2>1
    <3>2. M[n][k].held /\ M[n][k].value = v
      BY <3>1, CachedFields
    <3>3. ViewIn(M, b, n, k) = v
      BY ZenonT(60), <3>1, <3>2, ViewLayer
    <3> QED
      BY <2>1, <3>3
  <2>2. CASE ~(n = top /\ k = key)
    <3>1. \A i \in 1..n : L[i][k] = M[i][k]
      BY <1>1, <2>2
    <3>2. n \in Nat
      BY <1>1
    <3>3. ViewIn(L, b, n, k) = ViewIn(M, b, n, k)
      BY <3>1, <3>2, ViewAgree
    <3> QED
      BY <2>2, <3>3
  <2> QED
    BY <2>1, <2>2
<1>3. Good(M, b)
  <2> SUFFICES ASSUME NEW n \in 1..top, NEW k \in Keys, M[n][k].held, ~M[n][k].dirty
               PROVE  M[n][k].value = ViewIn(M, b, n - 1, k)
    BY <1>1 DEF Good, Faithful
  <2>1. M[n][k] = L[n][k]
    BY CachedFields
  <2>2. n - 1 \in 0..top /\ n - 1 # top
    BY <1>1
  <2>3. ViewIn(M, b, n - 1, k) = ViewIn(L, b, n - 1, k)
    BY <1>2, <2>2
  <2> QED
    BY <2>1, <2>3 DEF Good, Faithful
<1>4. StackOf(M, b) = [StackOf(L, b) EXCEPT ![top + 1][key] = v]
  <2> DEFINE S == StackOf(L, b)
  <2>1. /\ S \in Seq(Map) /\ Len(S) = top + 1
        /\ \A n \in 1..(top + 1) : S[n] \in Map /\ S[n] = [k \in Keys |-> ViewIn(L, b, n - 1, k)]
    BY <1>1, StackIs
  <2>2. DOMAIN S = 1..(top + 1)
    BY DEF StackOf
  <2>3. ASSUME NEW n \in 1..(top + 1)
        PROVE  [k \in Keys |-> ViewIn(M, b, n - 1, k)] = IF n = top + 1 THEN [S[n] EXCEPT ![key] = v] ELSE S[n]
    <3>1. n - 1 \in 0..top /\ (n - 1 = top <=> n = top + 1)
      BY <1>1
    <3>2. \A k \in Keys : ViewIn(M, b, n - 1, k) =
                            IF n = top + 1 /\ k = key THEN v ELSE ViewIn(L, b, n - 1, k)
      BY <1>2, <3>1
    <3>3. S[n] = [k \in Keys |-> ViewIn(L, b, n - 1, k)]
      BY <2>1
    <3> HIDE DEF S
    <3> QED
      BY <3>2, <3>3
  <2>4. StackOf(M, b) = [n \in 1..(top + 1) |-> IF n = top + 1 THEN [S[n] EXCEPT ![key] = v] ELSE S[n]]
    <3> HIDE DEF S
    <3> QED
      BY <2>3 DEF StackOf
  <2> HIDE DEF S
  <2>5. StackOf(M, b) = [S EXCEPT ![top + 1][key] = v]
    BY ZenonT(60), <1>1, <2>1, <2>2, <2>4
  <2> QED
    BY <2>5 DEF S
<1> QED
  BY ZenonT(60), <1>1, <1>3, <1>4, StackIs

\* Get leaves clean copies, and changes nothing that a layer shows.
LEMMA GetStep ==
  ASSUME NEW L, NEW b, Good(L, b), NEW key \in Keys,
         NEW M \in Seq(Layer), Len(M) = Len(L),
         \A n \in 1..Len(L), k \in Keys :
            M[n][k] = IF n > HolderIn(L, Len(L), key) /\ k = key
                      THEN Clean(ViewIn(L, b, Len(L), key)) ELSE L[n][k]
  PROVE  Good(M, b) /\ StackOf(M, b) = StackOf(L, b)
<1> DEFINE top == Len(L)
           h == HolderIn(L, top, key)
           v == ViewIn(L, b, top, key)
<1>1. L \in Seq(Layer) /\ b \in Map /\ top \in Nat /\ v \in Values \cup {Nil}
  BY Types DEF Good
<1>2. h \in 0..top /\ (h # 0 => L[h][key].held) /\ \A i \in 1..top : L[i][key].held => i <= h
  BY <1>1, HolderIs
<1>3. ASSUME NEW n \in h..top PROVE ViewIn(L, b, n, key) = v
  <2> HIDE DEF h
  <2>1. n \in Nat /\ h \in 0..n /\ \A i \in 1..n : L[i][key].held => i <= h
    BY <1>1, <1>2
  <2>2. HolderIn(L, n, key) = h
    BY ZenonT(60), <1>2, <2>1, HolderUnique
  <2> QED
    BY <2>2 DEF ViewIn, h
<1>4. ASSUME NEW n \in 0..top, NEW k \in Keys
      PROVE  ViewIn(M, b, n, k) = ViewIn(L, b, n, k)
  <2>1. CASE k = key /\ n > h
    <3>1. M[n][k] = Clean(v) /\ n \in Nat \ {0} /\ n \in h..top
      BY <1>1, <1>2, <2>1
    <3>2. M[n][k].held /\ M[n][k].value = v
      BY <1>1, <3>1, CachedFields
    <3> HIDE DEF h, v
    <3>3. ViewIn(M, b, n, k) = v
      BY <3>1, <3>2, ViewLayer
    <3> QED
      BY <1>3, <2>1, <3>1, <3>3
  <2>2. CASE ~(k = key /\ n > h)
    <3>1. \A i \in 1..n : L[i][k] = M[i][k]
      BY <1>1, <1>2, <2>2
    <3>2. n \in Nat
      BY <1>1
    <3> QED
      BY <3>1, <3>2, ViewAgree
  <2> QED
    BY <2>1, <2>2
<1>5. Good(M, b)
  <2> SUFFICES ASSUME NEW n \in 1..top, NEW k \in Keys, M[n][k].held, ~M[n][k].dirty
               PROVE  M[n][k].value = ViewIn(M, b, n - 1, k)
    BY <1>1 DEF Good, Faithful
  <2>1. n - 1 \in 0..top
    BY <1>1
  <2>2. ViewIn(M, b, n - 1, k) = ViewIn(L, b, n - 1, k)
    BY <1>4, <2>1
  <2>3. CASE k = key /\ n > h
    <3>1. M[n][k].value = v
      BY <1>1, <2>3, CachedFields
    <3>2. n - 1 \in h..top
      BY <1>1, <1>2, <2>3
    <3> QED
      BY <1>3, <2>2, <2>3, <3>1, <3>2
  <2>4. CASE ~(k = key /\ n > h)
    <3>1. M[n][k] = L[n][k]
      BY <2>4
    <3> QED
      BY <2>2, <3>1 DEF Good, Faithful
  <2> QED
    BY <2>3, <2>4
<1> QED
  BY <1>1, <1>4, <1>5, SameStack

\* A layer that has not changed an item shows what is below.
LEMMA NotDirty ==
  ASSUME NEW L, NEW b, Good(L, b), NEW n \in 1..Len(L), NEW k \in Keys, ~L[n][k].dirty
  PROVE  ViewIn(L, b, n, k) = ViewIn(L, b, n - 1, k)
<1>1. n \in Nat \ {0}
  BY Types DEF Good
<1>2. ViewIn(L, b, n, k) = IF L[n][k].held THEN L[n][k].value ELSE ViewIn(L, b, n - 1, k)
  BY <1>1, ViewLayer
<1> QED
  BY <1>2 DEF Good, Faithful

\* And one that has changed it shows its value.
LEMMA IsDirty ==
  ASSUME NEW L, NEW b, Good(L, b), NEW n \in 1..Len(L), NEW k \in Keys, L[n][k].dirty
  PROVE  ViewIn(L, b, n, k) = L[n][k].value
<1>1. n \in Nat \ {0} /\ L[n][k] \in Cached
  BY Types DEF Good
<1>2. L[n][k].held
  BY <1>1, CachedFields
<1> QED
  BY <1>1, <1>2, ViewLayer

\* Writing the top layer makes the layer or store below equal to it.
LEMMA WriteStack ==
  ASSUME NEW L \in Seq(Layer), NEW b \in Map, NEW M \in Seq(Layer), NEW c \in Map,
         Len(L) > 0, Len(M) = Len(L),
         \A n \in 0..Len(L), k \in Keys :
            ViewIn(M, c, n, k) = ViewIn(L, b, IF n = Len(L) - 1 THEN Len(L) ELSE n, k)
  PROVE  StackOf(M, c) = [StackOf(L, b) EXCEPT ![Len(StackOf(L, b)) - 1] =
                                StackOf(L, b)[Len(StackOf(L, b))]]
<1> DEFINE top == Len(L)
           S == StackOf(L, b)
<1>1. top \in Nat \ {0}
  BY Types
<1>2. /\ Len(S) = top + 1 /\ DOMAIN S = 1..(top + 1)
      /\ \A n \in 1..(top + 1) : S[n] = [k \in Keys |-> ViewIn(L, b, n - 1, k)]
  BY StackIs DEF StackOf
<1>3. ASSUME NEW n \in 1..(top + 1)
      PROVE  [k \in Keys |-> ViewIn(M, c, n - 1, k)] = IF n = top THEN S[top + 1] ELSE S[n]
  <2>1. /\ n - 1 \in 0..top /\ (n - 1 = top - 1 <=> n = top)
        /\ top + 1 \in 1..(top + 1) /\ (top + 1) - 1 = top
    BY <1>1
  <2>2. \A k \in Keys : ViewIn(M, c, n - 1, k) = ViewIn(L, b, IF n = top THEN top ELSE n - 1, k)
    BY <2>1
  <2>3. S[n] = [k \in Keys |-> ViewIn(L, b, n - 1, k)]
    BY <1>2
  <2>4. S[top + 1] = [k \in Keys |-> ViewIn(L, b, top, k)]
    BY <1>2, <2>1
  <2> HIDE DEF S
  <2> QED
    BY <2>2, <2>3, <2>4
<1>4. StackOf(M, c) = [n \in 1..(top + 1) |-> IF n = top THEN S[top + 1] ELSE S[n]]
  <2> HIDE DEF S
  <2> QED
    BY <1>3 DEF StackOf
<1> HIDE DEF S
<1>5. (top + 1) - 1 = top
  BY <1>1
<1>6. StackOf(M, c) = [S EXCEPT ![top] = S[top + 1]]
  BY ZenonT(60), <1>1, <1>2, <1>4
<1> QED
  BY <1>2, <1>5, <1>6 DEF S

\* Write to the layer below.
LEMMA WriteLayerStep ==
  ASSUME NEW L, NEW b, Good(L, b), Len(L) > 1,
         NEW M \in Seq(Layer), Len(M) = Len(L),
         \A n \in 1..Len(L), k \in Keys :
            M[n][k] = IF n = Len(L) THEN Miss
                      ELSE IF n = Len(L) - 1 THEN Written(L[Len(L)][k], L[n][k])
                      ELSE L[n][k]
  PROVE  /\ Good(M, b)
         /\ StackOf(M, b) = [StackOf(L, b) EXCEPT ![Len(StackOf(L, b)) - 1] =
                                StackOf(L, b)[Len(StackOf(L, b))]]
<1> DEFINE top == Len(L)
<1>1. /\ L \in Seq(Layer) /\ b \in Map /\ top \in Nat \ {0, 1}
      /\ top \in 1..top /\ top - 1 \in 1..top /\ top - 1 \in Nat \ {0} /\ top # top - 1
      /\ \A n \in 1..top, k \in Keys : L[n][k] \in Cached
  BY Types DEF Good
<1>2. ASSUME NEW n \in 0..(top - 2), NEW k \in Keys
      PROVE  ViewIn(M, b, n, k) = ViewIn(L, b, n, k)
  <2>1. n \in Nat /\ \A i \in 1..n : L[i][k] = M[i][k]
    BY <1>1
  <2> QED
    BY <2>1, ViewAgree
<1>3. ASSUME NEW k \in Keys PROVE ViewIn(M, b, top - 1, k) = ViewIn(L, b, top, k)
  <2>1. M[top - 1][k] = Written(L[top][k], L[top - 1][k])
    BY <1>1
  <2>2. ViewIn(M, b, top - 1, k) = IF M[top - 1][k].held THEN M[top - 1][k].value
                                   ELSE ViewIn(M, b, (top - 1) - 1, k)
    BY <1>1, ViewLayer
  <2>3. CASE L[top][k].dirty
    <3>1. M[top - 1][k] = Dirty(L[top][k].value)
      BY <2>1, <2>3 DEF Written
    <3>2. M[top - 1][k].held /\ M[top - 1][k].value = L[top][k].value
      BY <1>1, <3>1, CachedFields
    <3>3. ViewIn(L, b, top, k) = L[top][k].value
      BY <1>1, <2>3, IsDirty
    <3> QED
      BY <2>2, <3>2, <3>3
  <2>4. CASE ~L[top][k].dirty
    <3>1. M[top - 1][k] = L[top - 1][k]
      BY <2>1, <2>4 DEF Written
    <3>2. (top - 1) - 1 \in 0..(top - 2)
      BY <1>1
    <3>3. ViewIn(M, b, (top - 1) - 1, k) = ViewIn(L, b, (top - 1) - 1, k)
      BY <1>2, <3>2
    <3>4. ViewIn(L, b, top - 1, k) = IF L[top - 1][k].held THEN L[top - 1][k].value
                                     ELSE ViewIn(L, b, (top - 1) - 1, k)
      BY <1>1, ViewLayer
    <3>5. ViewIn(L, b, top, k) = ViewIn(L, b, top - 1, k)
      BY <1>1, <2>4, NotDirty
    <3> QED
      BY <2>2, <3>1, <3>3, <3>4, <3>5
  <2> QED
    BY <2>3, <2>4
<1>4. ASSUME NEW k \in Keys PROVE ViewIn(M, b, top, k) = ViewIn(L, b, top, k)
  <2>1. ~M[top][k].held
    BY <1>1, CachedFields
  <2>2. ViewIn(M, b, top, k) = ViewIn(M, b, top - 1, k)
    BY <1>1, <2>1, ViewLayer
  <2> QED
    BY <1>3, <2>2
<1>5. Good(M, b)
  <2> SUFFICES ASSUME NEW n \in 1..top, NEW k \in Keys, M[n][k].held, ~M[n][k].dirty
               PROVE  M[n][k].value = ViewIn(M, b, n - 1, k)
    BY <1>1 DEF Good, Faithful
  <2>1. n # top
    BY CachedFields
  <2>2. n - 1 \in 0..(top - 2)
    BY <1>1, <2>1
  <2>3. M[n][k] = L[n][k]
    <3>1. CASE n = top - 1
      <4>1. M[n][k] = Written(L[top][k], L[n][k])
        BY <1>1, <2>1, <3>1
      <4>2. ~L[top][k].dirty
        BY <1>1, <4>1, CachedFields DEF Written
      <4> QED
        BY <4>1, <4>2 DEF Written
    <3>2. CASE n # top - 1
      BY <2>1, <3>2
    <3> QED
      BY <3>1, <3>2
  <2>4. ViewIn(M, b, n - 1, k) = ViewIn(L, b, n - 1, k)
    BY <1>2, <2>2
  <2> QED
    BY <2>3, <2>4 DEF Good, Faithful
<1>6. ASSUME NEW n \in 0..top, NEW k \in Keys
      PROVE  ViewIn(M, b, n, k) = ViewIn(L, b, IF n = top - 1 THEN top ELSE n, k)
  <2>1. n \in 0..(top - 2) \/ n = top - 1 \/ n = top
    BY <1>1
  <2> QED
    BY <1>1, <1>2, <1>3, <1>4, <2>1
<1> QED
  BY <1>1, <1>5, <1>6, WriteStack

\* Write to the store.
LEMMA WriteStoreStep ==
  ASSUME NEW L, NEW b, Good(L, b), Len(L) = 1,
         NEW M \in Seq(Layer), Len(M) = 1, \A k \in Keys : M[1][k] = Miss,
         NEW c \in Map, \A k \in Keys : c[k] = Written(L[1][k], Clean(b[k])).value
  PROVE  /\ Good(M, c)
         /\ StackOf(M, c) = [StackOf(L, b) EXCEPT ![Len(StackOf(L, b)) - 1] =
                                StackOf(L, b)[Len(StackOf(L, b))]]
<1>1. L \in Seq(Layer) /\ b \in Map /\ \A k \in Keys : L[1][k] \in Cached
  BY Types DEF Good
<1>2. ASSUME NEW k \in Keys PROVE c[k] = ViewIn(L, b, 1, k)
  <2>1. c[k] = Written(L[1][k], Clean(b[k])).value
    OBVIOUS
  <2>2. L[1][k].value \in Values \cup {Nil} /\ b[k] \in Values \cup {Nil}
    BY <1>1, CachedFields DEF Map
  <2>3. CASE L[1][k].dirty
    <3>1. c[k] = L[1][k].value
      BY <2>1, <2>2, <2>3, CachedFields DEF Written
    <3> QED
      BY <2>3, <3>1, IsDirty
  <2>4. CASE ~L[1][k].dirty
    <3>1. c[k] = b[k]
      BY <2>1, <2>2, <2>4, CachedFields DEF Written
    <3>2. ViewIn(L, b, 1, k) = ViewIn(L, b, 1 - 1, k)
      BY <2>4, NotDirty
    <3>3. ViewIn(L, b, 0, k) = b[k]
      BY ViewBottom
    <3> QED
      BY <3>1, <3>2, <3>3
  <2> QED
    BY <2>3, <2>4
<1>3. ASSUME NEW n \in 0..1, NEW k \in Keys
      PROVE  ViewIn(M, c, n, k) = ViewIn(L, b, 1, k)
  <2>1. ViewIn(M, c, 0, k) = c[k]
    BY ViewBottom
  <2>2. ~M[1][k].held
    BY CachedFields
  <2>3. 1 \in Nat \ {0} /\ 1 - 1 = 0
    OBVIOUS
  <2>4. ViewIn(M, c, 1, k) = IF M[1][k].held THEN M[1][k].value ELSE ViewIn(M, c, 1 - 1, k)
    BY <2>3, ViewLayer
  <2>5. ViewIn(M, c, 1, k) = ViewIn(M, c, 0, k)
    BY <2>2, <2>3, <2>4
  <2>6. n = 0 \/ n = 1
    OBVIOUS
  <2> QED
    BY <1>2, <2>1, <2>5, <2>6
<1>4. Good(M, c)
  <2>1. \A n \in 1..Len(M), k \in Keys : ~M[n][k].held
    BY CachedFields
  <2> QED
    BY <2>1 DEF Good, Faithful
<1>5. ASSUME NEW n \in 0..Len(L), NEW k \in Keys
      PROVE  ViewIn(M, c, n, k) = ViewIn(L, b, IF n = Len(L) - 1 THEN Len(L) ELSE n, k)
  <2>1. (n = 0 \/ n = 1) /\ Len(L) - 1 = 0
    OBVIOUS
  <2> QED
    BY <1>3, <2>1
<1>6. Len(L) > 0 /\ Len(M) = Len(L)
  OBVIOUS
<1>7. StackOf(M, c) = [StackOf(L, b) EXCEPT ![Len(StackOf(L, b)) - 1] =
                            StackOf(L, b)[Len(StackOf(L, b))]]
  BY ONLY <1>1, <1>5, <1>6, M \in Seq(Layer), c \in Map, WriteStack
<1> QED
  BY <1>4, <1>7

\* A new layer shows what the one below shows.
LEMMA WrapStep ==
  ASSUME NEW L, NEW b, Good(L, b),
         NEW M \in Seq(Layer), Len(M) = Len(L) + 1,
         \A n \in 1..Len(M), k \in Keys : M[n][k] = IF n = Len(M) THEN Miss ELSE L[n][k]
  PROVE  /\ Good(M, b)
         /\ StackOf(M, b) = Append(StackOf(L, b), StackOf(L, b)[Len(StackOf(L, b))])
<1> DEFINE top == Len(L)
           S == StackOf(L, b)
           T == StackOf(M, b)
<1>1. L \in Seq(Layer) /\ b \in Map /\ top \in Nat
  BY Types DEF Good
<1>2. ASSUME NEW n \in 0..top, NEW k \in Keys PROVE ViewIn(M, b, n, k) = ViewIn(L, b, n, k)
  <2>1. n \in Nat /\ \A i \in 1..n : L[i][k] = M[i][k]
    BY <1>1
  <2> QED
    BY <2>1, ViewAgree
<1>3. ASSUME NEW k \in Keys PROVE ViewIn(M, b, top + 1, k) = ViewIn(L, b, top, k)
  <2>1. ~M[top + 1][k].held
    BY <1>1, CachedFields
  <2>2. top + 1 \in Nat \ {0} /\ (top + 1) - 1 = top /\ top \in 0..top
    BY <1>1
  <2>3. ViewIn(M, b, top + 1, k) = ViewIn(M, b, (top + 1) - 1, k)
    BY <2>1, <2>2, ViewLayer
  <2> QED
    BY <1>2, <2>2, <2>3
<1>4. Good(M, b)
  <2> SUFFICES ASSUME NEW n \in 1..Len(M), NEW k \in Keys, M[n][k].held, ~M[n][k].dirty
               PROVE  M[n][k].value = ViewIn(M, b, n - 1, k)
    BY <1>1 DEF Good, Faithful
  <2>1. n # Len(M)
    BY CachedFields
  <2>2. n \in 1..top /\ n - 1 \in 0..top /\ M[n][k] = L[n][k]
    BY <1>1, <2>1
  <2>3. ViewIn(M, b, n - 1, k) = ViewIn(L, b, n - 1, k)
    BY <1>2, <2>2
  <2> QED
    BY <2>2, <2>3 DEF Good, Faithful
<1>5. /\ S \in Seq(Map) /\ Len(S) = top + 1
      /\ \A n \in 1..(top + 1) : S[n] \in Map /\ S[n] = [k \in Keys |-> ViewIn(L, b, n - 1, k)]
  BY <1>1, StackIs
<1>6. /\ T \in Seq(Map) /\ Len(T) = Len(M) + 1
      /\ \A n \in 1..(Len(M) + 1) : T[n] = [k \in Keys |-> ViewIn(M, b, n - 1, k)]
  BY ZenonT(60), <1>1, StackIs
<1> DEFINE e == S[Len(S)]
<1>7. /\ e \in Map /\ e = [k \in Keys |-> ViewIn(L, b, top, k)]
  <2>1. top + 1 \in 1..(top + 1) /\ (top + 1) - 1 = top
    BY <1>1
  <2> QED
    BY <1>5, <2>1
<1>8. /\ Append(S, e) \in Seq(Map) /\ Len(Append(S, e)) = Len(S) + 1
      /\ \A n \in 1..Len(S) : Append(S, e)[n] = S[n]
      /\ Append(S, e)[Len(S) + 1] = e
  <2> HIDE DEF S, e
  <2> QED
    BY <1>5, <1>7, AppendProperties
<1>9. ASSUME NEW n \in 1..Len(T) PROVE T[n] = Append(S, e)[n]
  <2>1. T[n] = [k \in Keys |-> ViewIn(M, b, n - 1, k)]
    BY <1>1, <1>6
  <2>2. CASE n = top + 2
    <3>1. n - 1 = top + 1 /\ n = Len(S) + 1
      BY <1>1, <1>5, <2>2
    <3>2. T[n] = [k \in Keys |-> ViewIn(L, b, top, k)]
      BY <1>3, <2>1, <3>1
    <3> HIDE DEF S, T, e
    <3> QED
      BY <1>7, <1>8, <3>1, <3>2
  <2>3. CASE n # top + 2
    <3>1. n \in 1..(top + 1) /\ n \in 1..Len(S) /\ n - 1 \in 0..top
      BY <1>1, <1>5, <1>6, <2>3
    <3>2. T[n] = [k \in Keys |-> ViewIn(L, b, n - 1, k)]
      BY <1>2, <2>1, <3>1
    <3> HIDE DEF S, T, e
    <3> QED
      BY <1>5, <1>8, <3>1, <3>2
  <2> QED
    BY ZenonT(60), <2>2, <2>3
<1>10. Len(T) = Len(Append(S, e))
  BY <1>1, <1>5, <1>6, <1>8
<1> HIDE DEF S, T, e
<1>11. T = Append(S, e)
  BY <1>6, <1>8, <1>9, <1>10, SeqEqual
<1> QED
  BY <1>4, <1>11 DEF S, T, e

\* The layers below one that is dropped show what they did.
LEMMA DiscardStep ==
  ASSUME NEW L, NEW b, Good(L, b), Len(L) > 0,
         NEW M \in Seq(Layer), Len(M) = Len(L) - 1,
         \A n \in 1..Len(M) : M[n] = L[n]
  PROVE  /\ Good(M, b)
         /\ StackOf(M, b) = SubSeq(StackOf(L, b), 1, Len(StackOf(L, b)) - 1)
<1> DEFINE top == Len(L)
           S == StackOf(L, b)
           T == StackOf(M, b)
<1>1. L \in Seq(Layer) /\ b \in Map /\ top \in Nat \ {0}
  BY Types DEF Good
<1>2. ASSUME NEW n \in 0..(top - 1), NEW k \in Keys
      PROVE  ViewIn(M, b, n, k) = ViewIn(L, b, n, k)
  <2>1. n \in Nat /\ \A i \in 1..n : L[i][k] = M[i][k]
    BY <1>1
  <2> QED
    BY <2>1, ViewAgree
<1>3. Good(M, b)
  <2> SUFFICES ASSUME NEW n \in 1..Len(M), NEW k \in Keys, M[n][k].held, ~M[n][k].dirty
               PROVE  M[n][k].value = ViewIn(M, b, n - 1, k)
    BY <1>1 DEF Good, Faithful
  <2>1. n \in 1..top /\ n - 1 \in 0..(top - 1) /\ M[n][k] = L[n][k]
    BY <1>1
  <2>2. ViewIn(M, b, n - 1, k) = ViewIn(L, b, n - 1, k)
    BY <1>2, <2>1
  <2> QED
    BY <2>1, <2>2 DEF Good, Faithful
<1>4. /\ S \in Seq(Map) /\ Len(S) = top + 1
      /\ \A n \in 1..(top + 1) : S[n] \in Map /\ S[n] = [k \in Keys |-> ViewIn(L, b, n - 1, k)]
  BY <1>1, StackIs
<1>5. /\ T \in Seq(Map) /\ Len(T) = top
      /\ \A n \in 1..top : T[n] = [k \in Keys |-> ViewIn(M, b, n - 1, k)]
  <2>1. Len(M) + 1 = top
    BY <1>1
  <2>2. /\ T \in Seq(Map) /\ Len(T) = Len(M) + 1
        /\ \A n \in 1..(Len(M) + 1) : T[n] = [k \in Keys |-> ViewIn(M, b, n - 1, k)]
    BY ZenonT(60), <1>1, StackIs
  <2> HIDE DEF T
  <2> QED
    BY <2>1, <2>2
<1> DEFINE U == SubSeq(S, 1, Len(S) - 1)
<1>6. U \in Seq(Map) /\ Len(U) = top /\ \A n \in 1..top : U[n] = S[n]
  <2> HIDE DEF S
  <2>1. /\ Len(S) - 1 = top /\ 1 \in Int /\ top \in Int /\ top - 1 + 1 = top
        /\ 1 <= top /\ \A n \in 1..top : 1 + n - 1 = n /\ S[n] \in Map
    BY <1>1, <1>4
  <2>2. /\ SubSeq(S, 1, top) \in Seq(Map)
        /\ Len(SubSeq(S, 1, top)) = IF 1 <= top THEN top - 1 + 1 ELSE 0
        /\ \A n \in 1..(top - 1 + 1) : SubSeq(S, 1, top)[n] = S[1 + n - 1]
    BY <2>1, SubSeqProperties
  <2> QED
    BY <2>1, <2>2
<1>7. ASSUME NEW n \in 1..top PROVE T[n] = U[n]
  <2>1. n \in 1..(top + 1) /\ n - 1 \in 0..(top - 1)
    BY <1>1
  <2>2. T[n] = [k \in Keys |-> ViewIn(L, b, n - 1, k)]
    BY <1>2, <1>5, <2>1
  <2> HIDE DEF S, T, U
  <2> QED
    BY <1>4, <1>6, <2>1, <2>2
<1> HIDE DEF S, T, U
<1>8. T = U
  BY <1>5, <1>6, <1>7, SeqEqual
<1> QED
  BY <1>3, <1>8 DEF S, T, U

-----------------------------------------------------------------------------
\* The stack of maps that the state stands for.
Stack == [n \in 1..(Top + 1) |-> [k \in Keys |-> View(n - 1, k)]]

\* It is that of the lemmas, before and after a step.
LEMMA StackOfState ==
  /\ Stack = StackOf(layers, bottom) /\ Stack' = StackOf(layers', bottom')
  /\ \A n, k : Holder(n, k) = HolderIn(layers, n, k) /\ View(n, k) = ViewIn(layers, bottom, n, k)
<1>1. \A n, k : Holder(n, k) = HolderIn(layers, n, k) /\ View(n, k) = ViewIn(layers, bottom, n, k)
  BY DEF Holder, HolderIn, View, ViewIn
<1>2. Stack = StackOf(layers, bottom)
  BY DEF Stack, StackOf, Top, View, ViewIn, Holder, HolderIn
<1>3. Stack' = StackOf(layers', bottom')
  BY DEF Stack, StackOf, Top, View, ViewIn, Holder, HolderIn
<1> QED
  BY <1>1, <1>2, <1>3

\* The type of the state, and the faithfulness of its clean copies.
CacheInv == Good(layers, bottom)

\* Set and Delete are a Set of the maps.
LEMMA PutRefines ==
  ASSUME CacheInv, NEW key \in Keys, NEW v \in Values \cup {Nil}, Top > 0,
         layers' = [layers EXCEPT ![Top][key] = Dirty(v)], bottom' = bottom
  PROVE  CacheInv' /\ Stack' = [Stack EXCEPT ![Len(Stack)][key] = v]
<1>1. layers \in Seq(Layer) /\ bottom \in Map /\ Len(layers) > 0 /\ Len(layers) \in 1..Len(layers)
  BY Types DEF CacheInv, Good, Top
<1> DEFINE l == [layers[Len(layers)] EXCEPT ![key] = Dirty(v)]
<1>2. layers[Len(layers)] \in Layer
  BY <1>1, Types
<1>3. l \in Layer /\ \A k \in Keys : l[k] = IF k = key THEN Dirty(v) ELSE layers[Len(layers)][k]
  BY <1>2, CachedFields DEF Layer
<1>4. layers' = [layers EXCEPT ![Len(layers)] = l]
  BY DEF Top
<1>5. /\ layers' \in Seq(Layer) /\ Len(layers') = Len(layers)
      /\ \A n \in 1..Len(layers) : layers'[n] = IF n = Len(layers) THEN l ELSE layers[n]
  <2> HIDE DEF l
  <2>1. /\ [layers EXCEPT ![Len(layers)] = l] \in Seq(Layer)
        /\ Len([layers EXCEPT ![Len(layers)] = l]) = Len(layers)
        /\ \A n \in 1..Len(layers) :
              [layers EXCEPT ![Len(layers)] = l][n] = IF n = Len(layers) THEN l ELSE layers[n]
    BY ONLY <1>1, <1>3, TopReplaced
  <2> QED
    BY ONLY <1>4, <2>1
<1>6. \A n \in 1..Len(layers), k \in Keys :
        layers'[n][k] = IF n = Len(layers) /\ k = key THEN Dirty(v) ELSE layers[n][k]
  <2> HIDE DEF l
  <2> QED
    BY ONLY <1>3, <1>5
<1>7. /\ Good(layers', bottom)
      /\ StackOf(layers', bottom) = [StackOf(layers, bottom) EXCEPT ![Len(StackOf(layers, bottom))][key] = v]
  <2>1. Good(layers, bottom)
    BY DEF CacheInv
  <2>2. layers' \in Seq(Layer) /\ Len(layers') = Len(layers)
    BY <1>5
  <2> QED
    BY ONLY SMTT(60), <2>1, <2>2, key \in Keys, v \in Values \cup {Nil}, Len(layers) > 0, <1>6, PutStep
<1> QED
  BY <1>7, StackOfState DEF CacheInv

\* A function on 1..n into a set is a sequence of length n.
LEMMA FunctionIsSeq ==
  ASSUME NEW n \in Nat, NEW S, NEW f \in [1..n -> S]
  PROVE  f \in Seq(S) /\ Len(f) = n
<1>1. f \in Seq(S)
  BY SeqDef
<1>2. DOMAIN f = 1..n
  OBVIOUS
<1> QED
  BY <1>1, <1>2, LenProperties

\* Get leaves the maps as they are.
LEMMA GetRefines ==
  ASSUME CacheInv, NEW key \in Keys, Get(key)
  PROVE  CacheInv' /\ Stack' = Stack
<1> DEFINE top == Len(layers)
           h == HolderIn(layers, top, key)
           v == ViewIn(layers, bottom, top, key)
           new(i) == IF i > h THEN [layers[i] EXCEPT ![key] = Clean(v)] ELSE layers[i]
<1>1. /\ Good(layers, bottom) /\ layers \in Seq(Layer) /\ bottom \in Map /\ top \in Nat
      /\ v \in Values \cup {Nil} /\ \A i \in 1..top : layers[i] \in Layer
  BY Types DEF CacheInv, Good
<1>2. layers' = [i \in 1..top |-> new(i)] /\ bottom' = bottom
  BY StackOfState DEF Get, Top
<1>3. ASSUME NEW i \in 1..top
      PROVE  /\ new(i) \in Layer
             /\ \A k \in Keys : new(i)[k] = IF i > h /\ k = key THEN Clean(v) ELSE layers[i][k]
  <2>1. layers[i] \in Layer /\ Clean(v) \in Cached
    BY <1>1, CachedFields
  <2> HIDE DEF h, v
  <2> QED
    BY <2>1 DEF Layer
<1> HIDE DEF new
<1>4. layers' \in [1..top -> Layer] /\ \A i \in 1..top : layers'[i] = new(i)
  BY ONLY SMTT(60), <1>2, <1>3
<1>5. layers' \in Seq(Layer) /\ Len(layers') = Len(layers)
  BY ONLY <1>1, <1>4, FunctionIsSeq
<1>6. \A n \in 1..Len(layers), k \in Keys :
        layers'[n][k] = IF n > HolderIn(layers, Len(layers), key) /\ k = key
                        THEN Clean(ViewIn(layers, bottom, Len(layers), key)) ELSE layers[n][k]
  BY ONLY SMTT(60), <1>3, <1>4
<1>7. Good(layers', bottom) /\ StackOf(layers', bottom) = StackOf(layers, bottom)
  BY ONLY <1>1, key \in Keys, <1>5, <1>6, GetStep
<1> QED
  BY ONLY <1>2, <1>7, StackOfState DEF CacheInv

\* Write is a Write of the maps.
LEMMA WriteRefines ==
  ASSUME CacheInv, Write
  PROVE  CacheInv' /\ Stack' = [Stack EXCEPT ![Len(Stack) - 1] = Stack[Len(Stack)]]
<1> DEFINE top == Len(layers)
<1>1. /\ Good(layers, bottom) /\ layers \in Seq(Layer) /\ bottom \in Map /\ top \in Nat \ {0}
      /\ \A i \in 1..top : layers[i] \in Layer
      /\ \A i \in 1..top, k \in Keys : layers[i][k] \in Cached
  BY Types DEF CacheInv, Good, Write, Top
<1>2. Empty \in Layer /\ \A k \in Keys : Empty[k] = Miss
  BY CachedFields DEF Empty, Layer
<1>3. \A x, y \in Cached : Written(x, y) \in Cached /\ Written(x, y).value \in Values \cup {Nil}
  BY CachedFields DEF Written
<1>4. CASE top = 1
  <2>1. layers' = <<Empty>> /\ bottom' = [k \in Keys |-> Written(layers[1][k], Clean(bottom[k])).value]
    BY <1>4 DEF Write, Top
  <2>2. layers' \in Seq(Layer) /\ Len(layers') = 1 /\ \A k \in Keys : layers'[1][k] = Miss
    BY ONLY <1>2, <2>1
  <2>3. bottom' \in Map /\ \A k \in Keys : bottom'[k] = Written(layers[1][k], Clean(bottom[k])).value
    <3>1. ASSUME NEW k \in Keys PROVE Written(layers[1][k], Clean(bottom[k])).value \in Values \cup {Nil}
      <4>1. layers[1][k] \in Cached /\ Clean(bottom[k]) \in Cached
        BY <1>1, <1>4, CachedFields DEF Map
      <4> QED
        BY <1>3, <4>1
    <3> QED
      BY ONLY <2>1, <3>1 DEF Map
  <2>4. Len(layers) = 1
    BY <1>4
  <2>5. /\ Good(layers', bottom')
        /\ StackOf(layers', bottom') = [StackOf(layers, bottom) EXCEPT ![Len(StackOf(layers, bottom)) - 1] =
                                            StackOf(layers, bottom)[Len(StackOf(layers, bottom))]]
    BY ONLY <1>1, <2>2, <2>3, <2>4, WriteStoreStep
  <2> QED
    BY ONLY <2>5, StackOfState DEF CacheInv
<1>5. CASE top # 1
  <2> DEFINE low == [k \in Keys |-> Written(layers[top][k], layers[top - 1][k])]
  <2>1. bottom' = bottom /\ layers' = [layers EXCEPT ![top] = Empty,
                 ![top - 1] = [k \in Keys |-> Written(layers[top][k], @[k])]]
    BY <1>5 DEF Write, Top
  <2>2. top - 1 \in 1..top /\ top \in 1..top /\ top # top - 1 /\ DOMAIN layers = 1..top /\ Len(layers) > 1
    <3>1. DOMAIN layers = 1..top
      BY <1>1, LenProperties
    <3>2. \A x \in Nat \ {0} : x # 1 => x - 1 \in 1..x /\ x \in 1..x /\ x # x - 1 /\ x > 1
      OBVIOUS
    <3>3. top \in Nat \ {0}
      BY <1>1
    <3> QED
      BY ONLY ZenonT(60), <1>5, <3>1, <3>2, <3>3
  <2>3. layers' = [i \in 1..top |-> IF i = top THEN Empty ELSE IF i = top - 1 THEN low ELSE layers[i]]
    BY ONLY ZenonT(60), <2>1, <2>2
  <2>4. low \in Layer /\ \A k \in Keys : low[k] = Written(layers[top][k], layers[top - 1][k])
    <3>1. \A k \in Keys : Written(layers[top][k], layers[top - 1][k]) \in Cached
      BY ZenonT(60), <1>1, <1>3, <2>2
    <3> QED
      BY ONLY <3>1 DEF Layer
  <2> HIDE DEF low
  <2>5. layers' \in [1..top -> Layer]
    BY ONLY <1>1, <1>2, <2>3, <2>4
  <2>6. layers' \in Seq(Layer) /\ Len(layers') = Len(layers)
    BY ONLY <1>1, <2>5, FunctionIsSeq
  <2>7. \A n \in 1..Len(layers), k \in Keys :
          layers'[n][k] = IF n = Len(layers) THEN Miss
                          ELSE IF n = Len(layers) - 1 THEN Written(layers[Len(layers)][k], layers[n][k])
                          ELSE layers[n][k]
    BY ONLY ZenonT(60), <1>2, <2>2, <2>3, <2>4
  <2>8. /\ Good(layers', bottom)
        /\ StackOf(layers', bottom) = [StackOf(layers, bottom) EXCEPT ![Len(StackOf(layers, bottom)) - 1] =
                                            StackOf(layers, bottom)[Len(StackOf(layers, bottom))]]
    BY ONLY ZenonT(60), <1>1, <2>2, <2>6, <2>7, WriteLayerStep
  <2> QED
    BY ONLY <2>1, <2>8, StackOfState DEF CacheInv
<1> QED
  BY <1>4, <1>5

\* CacheWrap is a CacheWrap of the maps.
LEMMA WrapRefines ==
  ASSUME CacheInv, CacheWrap
  PROVE  CacheInv' /\ Stack' = Append(Stack, Stack[Len(Stack)])
<1>1. Good(layers, bottom) /\ layers \in Seq(Layer) /\ Len(layers) \in Nat
  BY Types DEF CacheInv, Good
<1>2. Empty \in Layer /\ \A k \in Keys : Empty[k] = Miss
  BY CachedFields DEF Empty, Layer
<1>3. layers' = Append(layers, Empty) /\ bottom' = bottom
  BY DEF CacheWrap
<1>4. /\ layers' \in Seq(Layer) /\ Len(layers') = Len(layers) + 1
      /\ \A n \in 1..Len(layers) : layers'[n] = layers[n]
      /\ layers'[Len(layers) + 1] = Empty
  BY ONLY SMTT(60), <1>1, <1>2, <1>3, AppendProperties
<1>5. \A n \in 1..Len(layers'), k \in Keys :
        layers'[n][k] = IF n = Len(layers') THEN Miss ELSE layers[n][k]
  BY ONLY <1>1, <1>2, <1>4
<1>6. /\ Good(layers', bottom)
      /\ StackOf(layers', bottom) =
            Append(StackOf(layers, bottom), StackOf(layers, bottom)[Len(StackOf(layers, bottom))])
  BY ONLY SMTT(60), <1>1, <1>4, <1>5, WrapStep
<1> QED
  BY ONLY <1>3, <1>6, StackOfState DEF CacheInv

\* Discard is a Discard of the maps.
LEMMA DiscardRefines ==
  ASSUME CacheInv, Discard
  PROVE  CacheInv' /\ Stack' = SubSeq(Stack, 1, Len(Stack) - 1)
<1>1. /\ Good(layers, bottom) /\ layers \in Seq(Layer) /\ Len(layers) \in Nat \ {0}
      /\ Len(layers) > 0 /\ \A n \in 1..Len(layers) : layers[n] \in Layer
  BY Types DEF CacheInv, Good, Discard, Top
<1>2. layers' = SubSeq(layers, 1, Len(layers) - 1) /\ bottom' = bottom
  BY DEF Discard, Top
<1>3. /\ layers' \in Seq(Layer) /\ Len(layers') = Len(layers) - 1
      /\ \A n \in 1..Len(layers') : layers'[n] = layers[n]
  <2> DEFINE m == Len(layers) - 1
  <2>1. /\ m \in Nat /\ 1 \in Int /\ m \in Int /\ m - 1 + 1 = m
        /\ \A n \in 1..m : 1 + n - 1 = n /\ layers[n] \in Layer
    BY <1>1
  <2>2. (IF 1 <= m THEN m - 1 + 1 ELSE 0) = m
    <3> HIDE DEF m
    <3>1. m = 0 \/ 1 <= m
      BY ONLY <2>1
    <3> QED
      BY ONLY <2>1, <3>1
  <2> HIDE DEF m
  <2>3. /\ SubSeq(layers, 1, m) \in Seq(Layer)
        /\ Len(SubSeq(layers, 1, m)) = IF 1 <= m THEN m - 1 + 1 ELSE 0
        /\ \A n \in 1..(m - 1 + 1) : SubSeq(layers, 1, m)[n] = layers[1 + n - 1]
    BY ONLY <2>1, SubSeqProperties
  <2>4. layers' = SubSeq(layers, 1, m)
    BY <1>2 DEF m
  <2>5. /\ layers' \in Seq(Layer) /\ Len(layers') = m
        /\ \A n \in 1..m : layers'[n] = layers[n]
    BY ONLY <2>1, <2>2, <2>3, <2>4
  <2> QED
    BY ONLY <2>5 DEF m
<1>4. /\ Good(layers', bottom)
      /\ StackOf(layers', bottom) =
            SubSeq(StackOf(layers, bottom), 1, Len(StackOf(layers, bottom)) - 1)
  BY ONLY <1>1, <1>3, DiscardStep
<1> QED
  BY ONLY <1>2, <1>4, StackOfState DEF CacheInv

\* A step that changes neither the layers nor the store leaves the maps alone.
LEMMA FrameRefines ==
  ASSUME CacheInv, UNCHANGED <<bottom, layers>>
  PROVE  CacheInv' /\ Stack' = Stack
  BY StackOfState DEF CacheInv

\* Every step of the caches is a step of the maps, or changes none of them.
LEMMA StepRefines ==
  ASSUME CacheInv, [Next]_vars
  PROVE  CacheInv' /\ [NM!Next]_Stack
<1>1. ASSUME NEW k \in Keys, NEW v \in Values \cup {Nil}, Top > 0,
             layers' = [layers EXCEPT ![Top][k] = Dirty(v)], bottom' = bottom
      PROVE  CacheInv' /\ NM!Next
  <2>1. CacheInv' /\ Stack' = [Stack EXCEPT ![Len(Stack)][k] = v]
    BY ONLY ZenonT(60), <1>1, CacheInv, PutRefines
  <2>2. NM!Set(k, v)
    BY ONLY ZenonT(60), <2>1 DEF NM!Set, NM!Top, Stack
  <2> QED
    BY <2>1, <2>2 DEF NM!Next
<1>2. ASSUME NEW k \in Keys, NEW v \in Values, Set(k, v) PROVE CacheInv' /\ NM!Next
  BY ZenonT(60), <1>1, <1>2 DEF Set
<1>3. ASSUME NEW k \in Keys, Delete(k) PROVE CacheInv' /\ NM!Next
  BY ZenonT(60), <1>1, <1>3 DEF Delete, Deleted
<1>4. ASSUME NEW k \in Keys, Get(k) PROVE CacheInv' /\ Stack' = Stack
  BY <1>4, GetRefines
<1>5. CASE Write
  <2>1. CacheInv' /\ Stack' = [Stack EXCEPT ![Len(Stack) - 1] = Stack[Len(Stack)]]
    BY <1>5, WriteRefines
  <2>2. Len(Stack) > 1
    <3>1. layers \in Seq(Layer) /\ bottom \in Map /\ Len(layers) \in Nat \ {0}
      BY <1>5, Types DEF CacheInv, Good, Write, Top
    <3>2. Len(Stack) = Len(layers) + 1
      BY ONLY SMTT(60), <3>1, StackIs, StackOfState
    <3> QED
      BY ONLY <3>1, <3>2
  <2>3. NM!Write
    BY ONLY ZenonT(60), <2>1, <2>2 DEF NM!Write, NM!Top, Stack
  <2> QED
    BY <2>1, <2>3 DEF NM!Next
<1>6. CASE CacheWrap
  <2>1. CacheInv' /\ Stack' = Append(Stack, Stack[Len(Stack)])
    BY <1>6, WrapRefines
  <2>2. NM!CacheWrap
    BY ONLY ZenonT(60), <2>1 DEF NM!CacheWrap, NM!Top, Stack
  <2> QED
    BY <2>1, <2>2 DEF NM!Next
<1>7. CASE Discard
  <2>1. CacheInv' /\ Stack' = SubSeq(Stack, 1, Len(Stack) - 1)
    BY <1>7, DiscardRefines
  <2>2. Len(Stack) > 1
    <3>1. layers \in Seq(Layer) /\ bottom \in Map /\ Len(layers) \in Nat \ {0}
      BY <1>7, Types DEF CacheInv, Good, Discard, Top
    <3>2. Len(Stack) = Len(layers) + 1
      BY ONLY <3>1, StackIs, StackOfState
    <3> QED
      BY ONLY <3>1, <3>2
  <2>3. NM!Discard
    BY ONLY ZenonT(60), <2>1, <2>2 DEF NM!Discard, NM!Top, Stack
  <2> QED
    BY <2>1, <2>3 DEF NM!Next
<1>8. CASE UNCHANGED <<bottom, layers>>
  BY <1>8, FrameRefines
<1> QED
  BY <1>2, <1>3, <1>4, <1>5, <1>6, <1>7, <1>8
  DEF Next, vars, Iterator, SkipCacheDelete, NextItem, Close

\* A stack of cache-wrapped stores is a stack of maps: reads, writes, deletes,
\* cache wraps, written and dropped layers, in any order and at any depth.
THEOREM CachesRefineMaps == Spec => RefinesNestedMap
<1>1. Init => CacheInv /\ NM!Init
  <2> SUFFICES ASSUME Init PROVE CacheInv /\ NM!Init
    OBVIOUS
  <2>1. layers = <<>> /\ bottom \in Map /\ layers \in Seq(Layer) /\ Len(layers) = 0
    BY DEF Init
  <2>2. CacheInv
    BY ONLY <2>1 DEF CacheInv, Good, Faithful
  <2>3. Stack \in [1..1 -> Map]
    <3>1. \A k \in Keys : View(0, k) = bottom[k]
      BY StackOfState, ViewBottom
    <3>2. Stack = [n \in 1..1 |-> [k \in Keys |-> View(n - 1, k)]]
      BY <2>1 DEF Stack, Top
    <3>3. ASSUME NEW n \in 1..1 PROVE [k \in Keys |-> View(n - 1, k)] \in Map
      <4>1. n - 1 = 0
        OBVIOUS
      <4> QED
        BY <2>1, <3>1, <4>1 DEF Map
    <3> QED
      BY ONLY <3>2, <3>3
  <2>4. NM!Init
    BY ONLY <2>3 DEF NM!Init, NM!Map, Map, Stack
  <2> QED
    BY <2>2, <2>4
<1>2. CacheInv /\ [Next]_vars => CacheInv' /\ [NM!Next]_Stack
  BY StepRefines
<1> QED
  BY <1>1, <1>2, PTL DEF Spec, RefinesNestedMap, NM!Spec, Stack

-----------------------------------------------------------------------------
(***************************************************************************)
(* The iterator.  What is left of the parent's items and of the layer's    *)
(* dirty ones is, merged, what is left of the snapshot, and all of it is   *)
(* after the keys handed out.  Every turn of the iterator takes the first  *)
(* key that is left out of both, and hands it out unless it is deleted.    *)
(***************************************************************************)
Before(asc, a, b) == IF asc THEN a < b ELSE b < a

Left(P, C) == DOMAIN P \cup DOMAIN C

Merged(P, C, k) == IF k \in DOMAIN C THEN C[k] ELSE P[k]

Handed == Keys \X (Values \cup {Nil})

Items(P, C) ==
    /\ P = [k \in DOMAIN P |-> P[k]] /\ C = [k \in DOMAIN C |-> C[k]]
    /\ DOMAIN P \subseteq Keys /\ \A k \in DOMAIN P : P[k] \in Values
    /\ DOMAIN C \subseteq Keys /\ \A k \in DOMAIN C : C[k] \in Values \cup {Nil}

Agrees(P, C, G) ==
    \A k \in Left(P, C) :
        IF Merged(P, C, k) = Nil THEN k \notin DOMAIN G
        ELSE k \in DOMAIN G /\ G[k] = Merged(P, C, k)

Covers(P, C, S, G) ==
    \A k \in DOMAIN G : k \in Left(P, C) \/ \E i \in 1..Len(S) : S[i][1] = k

After(asc, P, C, S) ==
    \A i \in 1..Len(S) : \A k \in Left(P, C) : Before(asc, S[i][1], k)

InOrder(asc, S, G) ==
    \A i \in 1..Len(S) :
        /\ S[i][1] \in DOMAIN G /\ S[i][2] = G[S[i][1]]
        /\ i > 1 => Before(asc, S[i - 1][1], S[i][1])

Snapshot(asc, P, C, S, G) ==
    /\ asc \in BOOLEAN /\ S \in Seq(Handed) /\ Items(P, C) /\ Agrees(P, C, G)
    /\ Covers(P, C, S, G) /\ After(asc, P, C, S) /\ InOrder(asc, S, G)

IterFields(it) ==
    DOMAIN it = {"open", "ascending", "parent", "cache", "seen", "promised"}

IterInv ==
    /\ IterFields(iter)
    /\ iter.open => Snapshot(iter.ascending, iter.parent, iter.cache, iter.seen, iter.promised)

-----------------------------------------------------------------------------
\* A nonempty set of numbers has a least one.
LEMMA Least ==
  ASSUME NEW T, T \subseteq Nat, T # {}
  PROVE  \E x \in T : \A y \in T : x <= y
<1> DEFINE R == OpToRel(<, Nat)
<1> HIDE DEF R
<1>1. IsWellFoundedOn(R, Nat)
  BY ZenonT(60), NatLessThanWellFounded DEF R
<1>2. PICK x \in T : \A y \in T : ~(<<y, x>> \in R)
  BY ZenonT(60), <1>1, WFMin
<1>3. \A y \in T : ~(y < x)
  BY ZenonT(60), <1>2 DEF R, OpToRel
<1> QED
  BY <1>3

\* A nonempty set of keys has a first and a last one.
LEMMA Extremes ==
  ASSUME NEW T \in SUBSET Keys, T # {}
  PROVE  \E lo, hi \in T : \A y \in T : lo <= y /\ y <= hi
<1>1. PICK q \in Seq(Keys) : \A k \in Keys : \E n \in 1..Len(q) : q[n] = k
  BY CacheAssumption, Zenon DEF IsFiniteSet
<1> DEFINE Within(n, lo, hi) == \A i \in 1..n : q[i] \in T => lo <= q[i] /\ q[i] <= hi
           Bad == {n \in 0..Len(q) : ~\E lo, hi \in T : Within(n, lo, hi)}
<1>2. Len(q) \in Nat /\ \A k \in T : k \in Int
  BY CacheAssumption
<1>3. Bad = {}
  <2> SUFFICES ASSUME Bad # {} PROVE FALSE
    OBVIOUS
  <2>1. Bad \subseteq Nat
    BY <1>2
  <2>2. PICK n \in Bad : \A y \in Bad : n <= y
    <3> HIDE DEF Bad
    <3> QED
      BY <2>1, Least, Zenon
  <2>3. n \in 0..Len(q) /\ ~\E lo, hi \in T : Within(n, lo, hi)
    BY Zenon
  <2>4. n # 0
    <3>1. PICK t \in T : TRUE
      OBVIOUS
    <3>2. Within(0, t, t)
      OBVIOUS
    <3> QED
      BY <2>3, <3>1, <3>2, Zenon
  <2>5. n - 1 \in 0..Len(q) /\ ~(n <= n - 1)
    BY <1>2, <2>3, <2>4
  <2>6. n - 1 \notin Bad
    <3> HIDE DEF Bad
    <3> QED
      BY <2>2, <2>5, Zenon
  <2>7. PICK lo \in T, hi \in T : Within(n - 1, lo, hi)
    BY <2>5, <2>6, Zenon
  <2>8. \A i \in 1..n : i = n \/ i \in 1..(n - 1)
    BY <2>3
  <2>9. \A x, y, z \in Int : x <= y /\ y <= z => x <= z
    BY ONLY SMTT(20)
  <2>10. \A x, y \in Int : x <= y \/ y <= x
    BY ONLY SMTT(20)
  <2>11. \A x \in Int : x <= x
    BY ONLY SMTT(20)
  <2>12. PICK a \in T : a <= lo /\ (q[n] \in T => a <= q[n])
    BY <1>2, <2>10, <2>11, Zenon
  <2>13. PICK b \in T : hi <= b /\ (q[n] \in T => q[n] <= b)
    BY <1>2, <2>10, <2>11, Zenon
  <2>14. ASSUME NEW i \in 1..n, q[i] \in T
         PROVE  a <= q[i] /\ q[i] <= b
    <3>1. CASE i = n
      BY <2>12, <2>13, <2>14, <3>1, Zenon
    <3>2. CASE i \in 1..(n - 1)
      <4>1. lo <= q[i] /\ q[i] <= hi
        BY <2>7, <2>14, <3>2, Zenon
      <4> QED
        BY <1>2, <2>9, <2>12, <2>13, <2>14, <4>1, Zenon
    <3> QED
      BY <2>8, <3>1, <3>2, Zenon
  <2>15. Within(n, a, b)
    BY <2>14, Zenon
  <2> QED
    BY <2>3, <2>12, <2>13, <2>15, Zenon
<1>4. Len(q) \in 0..Len(q)
  BY <1>2
<1>5. PICK lo \in T, hi \in T : Within(Len(q), lo, hi)
  BY <1>3, <1>4, Zenon
<1>6. ASSUME NEW y \in T
      PROVE  lo <= y /\ y <= hi
  <2>1. PICK n \in 1..Len(q) : q[n] = y
    BY <1>1, Zenon
  <2> QED
    BY <1>5, <2>1, Zenon
<1> QED
  BY <1>6, Zenon

\* The current key of an iterator is the first of the keys it has left.
LEMMA KeyIs ==
  ASSUME NEW items, DOMAIN items \subseteq Keys, DOMAIN items # {}
  PROVE  /\ Key(items) \in DOMAIN items
         /\ \A y \in DOMAIN items : y = Key(items) \/ Compare(Key(items), y)
<1> DEFINE T == DOMAIN items
<1>1. T \in SUBSET Keys /\ T # {} /\ \A y \in T : y \in Int
  BY CacheAssumption, Zenon
<1> HIDE DEF T
<1>2. PICK lo \in T, hi \in T : \A y \in T : lo <= y /\ y <= hi
  BY <1>1, Extremes, Zenon
<1>3. Min(T) \in T /\ \A y \in T : Min(T) =< y
  <2>1. lo \in T /\ \A y \in T : lo =< y
    BY <1>2
  <2> QED
    BY <2>1, Zenon DEF Min
<1>4. Max(T) \in T /\ \A y \in T : Max(T) >= y
  <2>1. hi \in T /\ \A y \in T : hi >= y
    BY <1>1, <1>2
  <2> QED
    BY <2>1, Zenon DEF Max
<1>5. CASE iter.ascending
  <2>1. Key(items) = Min(T)
    BY <1>5 DEF Key, T
  <2>2. \A y \in T : y = Min(T) \/ Min(T) < y
    BY <1>1, <1>3
  <2> QED
    BY <1>3, <1>5, <2>1, <2>2, Zenon DEF Compare, T
<1>6. CASE ~iter.ascending
  <2>1. Key(items) = Max(T)
    BY <1>6 DEF Key, T
  <2>2. \A y \in T : y = Max(T) \/ y < Max(T)
    BY <1>1, <1>4
  <2> QED
    BY <1>4, <1>6, <2>1, <2>2, Zenon DEF Compare, T
<1> QED
  BY <1>5, <1>6

\* The order of the keys, in the direction of the iterator.
LEMMA BeforeIs ==
  ASSUME NEW asc \in BOOLEAN, NEW a \in Keys, NEW b \in Keys
  PROVE  /\ a = b \/ Before(asc, a, b) \/ Before(asc, b, a)
         /\ ~(Before(asc, a, b) /\ Before(asc, b, a)) /\ ~Before(asc, a, a)
         /\ \A c \in Keys : Before(asc, a, b) /\ Before(asc, b, c) => Before(asc, a, c)
<1>1. \A x \in Keys : x \in Int
  BY CacheAssumption, Zenon
<1>2. \A x, y \in Int : (x = y \/ x < y \/ y < x) /\ ~(x < y /\ y < x) /\ ~(x < x)
  BY ONLY SMTT(20)
<1>3. \A x, y, z \in Int : x < y /\ y < z => x < z
  BY ONLY SMTT(20)
<1>4. CASE asc = TRUE
  BY <1>1, <1>2, <1>3, <1>4, Zenon DEF Before
<1>5. CASE asc = FALSE
  BY <1>1, <1>2, <1>3, <1>5, Zenon DEF Before
<1> QED
  BY <1>4, <1>5, Zenon

Without(f, k) == [y \in DOMAIN f \ {k} |-> f[y]]

HandOut(P, C, S, k) ==
    IF Merged(P, C, k) = Nil THEN S ELSE Append(S, <<k, Merged(P, C, k)>>)

\* Taking the first key that is left keeps the iterator on its snapshot.
LEMMA TakeKeeps ==
  ASSUME NEW asc, NEW P, NEW C, NEW S, NEW G, Snapshot(asc, P, C, S, G),
         NEW k \in Left(P, C), \A y \in Left(P, C) : y = k \/ Before(asc, k, y)
  PROVE  Snapshot(asc, Without(P, k), Without(C, k), HandOut(P, C, S, k), G)
<1> DEFINE P2 == Without(P, k)
           C2 == Without(C, k)
<1>1. asc \in BOOLEAN /\ S \in Seq(Handed) /\ Items(P, C) /\ Agrees(P, C, G)
      /\ Covers(P, C, S, G) /\ After(asc, P, C, S) /\ InOrder(asc, S, G)
  BY Zenon DEF Snapshot
<1>2. /\ DOMAIN P2 = DOMAIN P \ {k} /\ \A y \in DOMAIN P2 : P2[y] = P[y]
      /\ DOMAIN C2 = DOMAIN C \ {k} /\ \A y \in DOMAIN C2 : C2[y] = C[y]
      /\ P2 = [y \in DOMAIN P2 |-> P2[y]] /\ C2 = [y \in DOMAIN C2 |-> C2[y]]
  BY DEF Without
<1> HIDE DEF P2, C2
<1>3. Left(P2, C2) = Left(P, C) \ {k}
  BY <1>2, Zenon DEF Left
<1>4. \A y \in Left(P2, C2) : Merged(P2, C2, y) = Merged(P, C, y)
  BY <1>2, <1>3, Zenon DEF Left, Merged
<1>5. Items(P2, C2)
  BY <1>1, <1>2, Zenon DEF Items
<1>6. Agrees(P2, C2, G)
  BY <1>1, <1>3, <1>4, Zenon DEF Agrees
<1>7. CASE Merged(P, C, k) = Nil
  <2>1. k \notin DOMAIN G
    BY <1>1, <1>7, Zenon DEF Agrees
  <2>2. Covers(P2, C2, S, G)
    BY <1>1, <1>3, <2>1, Zenon DEF Covers
  <2>3. After(asc, P2, C2, S)
    BY <1>1, <1>3, Zenon DEF After
  <2> QED
    BY <1>1, <1>5, <1>6, <1>7, <2>2, <2>3, Zenon DEF Snapshot, HandOut, P2, C2
<1>8. CASE Merged(P, C, k) # Nil
  <2> DEFINE e == <<k, Merged(P, C, k)>>
             S2 == Append(S, e)
  <2>1. k \in DOMAIN G /\ G[k] = Merged(P, C, k)
    BY <1>1, <1>8, Zenon DEF Agrees
  <2>2. e \in Handed /\ e[1] = k /\ e[2] = Merged(P, C, k)
    <3>1. k \in Keys /\ Merged(P, C, k) \in Values \cup {Nil}
      BY <1>1, Zenon DEF Items, Left, Merged
    <3> QED
      BY ONLY <3>1, SMTT(20) DEF Handed
  <2> HIDE DEF e
  <2>3. /\ S2 \in Seq(Handed) /\ Len(S) \in Nat /\ Len(S2) = Len(S) + 1
        /\ \A i \in 1..Len(S) : S2[i] = S[i]
        /\ S2[Len(S) + 1] = e
    BY ONLY <1>1, <2>2, SMTT(20)
  <2>4. \A i \in 1..Len(S2) : i \in 1..Len(S) \/ i = Len(S) + 1
    BY ONLY <2>3, SMTT(20)
  <2>5. Len(S) + 1 \in 1..Len(S2) /\ \A i \in 1..Len(S) : i \in 1..Len(S2)
    BY ONLY <2>3, SMTT(20)
  <2> HIDE DEF S2
  <2>6. Covers(P2, C2, S2, G)
    <3> SUFFICES ASSUME NEW y \in DOMAIN G, y \notin Left(P2, C2)
                 PROVE  \E i \in 1..Len(S2) : S2[i][1] = y
      BY Zenon DEF Covers
    <3>1. CASE y = k
      BY <2>2, <2>3, <2>5, <3>1, Zenon
    <3>2. CASE y # k
      <4>1. PICK i \in 1..Len(S) : S[i][1] = y
        BY <1>1, <1>3, <3>2, Zenon DEF Covers
      <4> QED
        BY <2>3, <2>5, <4>1, Zenon
    <3> QED
      BY <3>1, <3>2, Zenon
  <2>7. After(asc, P2, C2, S2)
    <3> SUFFICES ASSUME NEW i \in 1..Len(S2), NEW y \in Left(P2, C2)
                 PROVE  Before(asc, S2[i][1], y)
      BY Zenon DEF After
    <3>1. CASE i \in 1..Len(S)
      BY <1>1, <1>3, <2>3, <3>1, Zenon DEF After
    <3>2. CASE i = Len(S) + 1
      BY <1>3, <2>2, <2>3, <3>2, Zenon
    <3> QED
      BY <2>4, <3>1, <3>2, Zenon
  <2>8. InOrder(asc, S2, G)
    <3> SUFFICES ASSUME NEW i \in 1..Len(S2)
                 PROVE  /\ S2[i][1] \in DOMAIN G /\ S2[i][2] = G[S2[i][1]]
                        /\ i > 1 => Before(asc, S2[i - 1][1], S2[i][1])
      BY Zenon DEF InOrder
    <3>1. CASE i \in 1..Len(S)
      <4>1. S2[i] = S[i] /\ (i > 1 => S2[i - 1] = S[i - 1])
        <5>1. i > 1 => i - 1 \in 1..Len(S)
          BY ONLY <2>3, <3>1, SMTT(20)
        <5> QED
          BY <2>3, <3>1, <5>1, Zenon
      <4> QED
        BY <1>1, <3>1, <4>1, Zenon DEF InOrder
    <3>2. CASE i = Len(S) + 1
      <4>1. S2[i] = e /\ (i > 1 => i - 1 = Len(S) /\ Len(S) \in 1..Len(S))
        BY ONLY <2>3, <3>2, SMTT(20)
      <4>2. i > 1 => Before(asc, S2[i - 1][1], k)
        BY <1>1, <2>3, <4>1, Zenon DEF After
      <4> QED
        BY <2>1, <2>2, <4>1, <4>2, Zenon
    <3> QED
      BY <2>4, <3>1, <3>2, Zenon
  <2> QED
    BY <1>1, <1>5, <1>6, <1>8, <2>3, <2>6, <2>7, <2>8, Zenon DEF Snapshot, HandOut, P2, C2, S2, e
<1> QED
  BY <1>7, <1>8, Zenon

\* What the state says of an open iterator.
LEMMA IterIs ==
  ASSUME IterInv, iter.open
  PROVE  /\ Snapshot(iter.ascending, iter.parent, iter.cache, iter.seen, iter.promised)
         /\ iter.ascending \in BOOLEAN /\ Items(iter.parent, iter.cache)
         /\ DOMAIN iter.parent \subseteq Keys /\ DOMAIN iter.cache \subseteq Keys
         /\ \A a, b : Compare(a, b) <=> Before(iter.ascending, a, b)
  BY Zenon DEF IterInv, Snapshot, Items, Compare, Before

\* The parent's key comes first when it is before the layer's.
LEMMA TakesParent ==
  ASSUME IterInv, iter.open, ParentValid, CacheValid => Compare(KeyP, KeyC)
  PROVE  /\ KeyP \in DOMAIN iter.parent /\ KeyP \notin DOMAIN iter.cache
         /\ \A y \in Left(iter.parent, iter.cache) : y = KeyP \/ Before(iter.ascending, KeyP, y)
<1>1. /\ iter.ascending \in BOOLEAN
      /\ DOMAIN iter.parent \subseteq Keys /\ DOMAIN iter.cache \subseteq Keys
      /\ \A a, b : Compare(a, b) <=> Before(iter.ascending, a, b)
  BY IterIs, Zenon
<1>2. KeyP \in DOMAIN iter.parent /\ \A y \in DOMAIN iter.parent : y = KeyP \/ Before(iter.ascending, KeyP, y)
  BY <1>1, KeyIs, Zenon DEF KeyP, ParentValid
<1>3. ASSUME NEW y \in DOMAIN iter.cache
      PROVE  y # KeyP /\ Before(iter.ascending, KeyP, y)
  <2>1. CacheValid
    BY Zenon DEF CacheValid
  <2>2. KeyC \in DOMAIN iter.cache /\ (y = KeyC \/ Before(iter.ascending, KeyC, y))
    BY <1>1, <2>1, KeyIs, Zenon DEF KeyC, CacheValid
  <2>3. Before(iter.ascending, KeyP, KeyC)
    BY <1>1, <2>1, Zenon
  <2>4. KeyP \in Keys /\ KeyC \in Keys /\ y \in Keys
    BY <1>1, <1>2, <2>2, Zenon
  <2>5. Before(iter.ascending, KeyP, y)
    BY <1>1, <2>2, <2>3, <2>4, BeforeIs, Zenon
  <2> QED
    BY <1>1, <2>4, <2>5, BeforeIs, Zenon
<1> QED
  BY <1>2, <1>3, Zenon DEF Left

\* And otherwise the layer's, which the parent may have as well.
LEMMA TakesCache ==
  ASSUME IterInv, iter.open, CacheValid, ParentValid => ~Compare(KeyP, KeyC)
  PROVE  /\ KeyC \in DOMAIN iter.cache
         /\ KeyC \in DOMAIN iter.parent <=> ParentValid /\ KeyP = KeyC
         /\ \A y \in Left(iter.parent, iter.cache) : y = KeyC \/ Before(iter.ascending, KeyC, y)
<1>1. /\ iter.ascending \in BOOLEAN
      /\ DOMAIN iter.parent \subseteq Keys /\ DOMAIN iter.cache \subseteq Keys
      /\ \A a, b : Compare(a, b) <=> Before(iter.ascending, a, b)
  BY IterIs, Zenon
<1>2. KeyC \in DOMAIN iter.cache /\ \A y \in DOMAIN iter.cache : y = KeyC \/ Before(iter.ascending, KeyC, y)
  BY <1>1, KeyIs, Zenon DEF KeyC, CacheValid
<1>3. ASSUME NEW y \in DOMAIN iter.parent
      PROVE  /\ y = KeyC => KeyP = KeyC
             /\ y = KeyC \/ Before(iter.ascending, KeyC, y)
  <2>1. ParentValid
    BY Zenon DEF ParentValid
  <2>2. KeyP \in DOMAIN iter.parent /\ (y = KeyP \/ Before(iter.ascending, KeyP, y))
    BY <1>1, <2>1, KeyIs, Zenon DEF KeyP, ParentValid
  <2>3. ~Before(iter.ascending, KeyP, KeyC)
    BY <1>1, <2>1, Zenon
  <2>4. KeyP \in Keys /\ KeyC \in Keys /\ y \in Keys
    BY <1>1, <1>2, <2>2, Zenon
  <2>5. KeyP = KeyC \/ Before(iter.ascending, KeyC, KeyP)
    BY <1>1, <2>3, <2>4, BeforeIs, Zenon
  <2> QED
    BY <1>1, <2>2, <2>3, <2>4, <2>5, BeforeIs, Zenon
<1>4. ParentValid /\ KeyP = KeyC => KeyC \in DOMAIN iter.parent
  BY <1>1, KeyIs, Zenon DEF KeyP, ParentValid
<1>5. KeyC \in DOMAIN iter.parent => ParentValid
  BY Zenon DEF ParentValid
<1>6. KeyC \in DOMAIN iter.parent => KeyP = KeyC
  BY <1>3, Zenon
<1>7. \A y \in Left(iter.parent, iter.cache) : y = KeyC \/ Before(iter.ascending, KeyC, y)
  BY <1>2, <1>3, Zenon DEF Left
<1> QED
  BY <1>2, <1>4, <1>5, <1>6, <1>7, Zenon

\* A turn of skipUntilExistsOrInvalid, or Next, takes the first key.
LEMMA TurnKeeps ==
  ASSUME IterInv, iter.open, SkipCacheDelete \/ NextItem
  PROVE  IterInv'
<1>1. Items(iter.parent, iter.cache) /\ IterFields(iter)
  BY IterIs, Zenon DEF IterInv
<1>2. ASSUME NEW k \in Left(iter.parent, iter.cache),
             \A y \in Left(iter.parent, iter.cache) : y = k \/ Before(iter.ascending, k, y),
             iter'.open, IterFields(iter'), iter'.ascending = iter.ascending,
             iter'.promised = iter.promised,
             iter'.parent = Without(iter.parent, k), iter'.cache = Without(iter.cache, k),
             iter'.seen = HandOut(iter.parent, iter.cache, iter.seen, k)
      PROVE  IterInv'
  <2>1. Snapshot(iter.ascending, iter.parent, iter.cache, iter.seen, iter.promised)
    BY IterIs, Zenon
  <2>2. Snapshot(iter.ascending, Without(iter.parent, k), Without(iter.cache, k),
                 HandOut(iter.parent, iter.cache, iter.seen, k), iter.promised)
    BY <1>2, <2>1, TakeKeeps, Zenon
  <2>3. Snapshot(iter'.ascending, iter'.parent, iter'.cache, iter'.seen, iter'.promised)
    BY <1>2, <2>2, Zenon
  <2> QED
    BY <1>2, <2>3, Zenon DEF IterInv
<1>3. \A k : /\ k \notin DOMAIN iter.parent => Without(iter.parent, k) = iter.parent
             /\ k \notin DOMAIN iter.cache => Without(iter.cache, k) = iter.cache
  <2>1. \A f, k : f = [y \in DOMAIN f |-> f[y]] /\ k \notin DOMAIN f => Without(f, k) = f
    BY ONLY SMTT(20) DEF Without
  <2> QED
    BY <1>1, <2>1, Zenon DEF Items
<1>4. CASE SkipCacheDelete
  <2>1. CacheValid /\ iter.cache[KeyC] = Nil /\ (ParentValid => ~Compare(KeyP, KeyC))
    BY <1>4, Zenon DEF SkipCacheDelete, CacheIsDelete
  <2>2. /\ KeyC \in DOMAIN iter.cache
        /\ KeyC \in DOMAIN iter.parent <=> ParentValid /\ KeyP = KeyC
        /\ \A y \in Left(iter.parent, iter.cache) : y = KeyC \/ Before(iter.ascending, KeyC, y)
    BY <2>1, TakesCache, Zenon
  <2>3. Drop(iter.cache) = Without(iter.cache, KeyC)
    BY Zenon DEF Drop, Without, KeyC
  <2>4. (IF SkipsParent THEN Drop(iter.parent) ELSE iter.parent) = Without(iter.parent, KeyC)
    <3>1. CASE SkipsParent
      BY <3>1, Zenon DEF SkipsParent, Drop, Without, KeyP
    <3>2. CASE ~SkipsParent
      BY <1>3, <2>2, <3>2, Zenon DEF SkipsParent
    <3> QED
      BY <3>1, <3>2, Zenon
  <2>5. iter' = [iter EXCEPT !.cache = Without(iter.cache, KeyC),
                             !.parent = Without(iter.parent, KeyC)]
    BY <1>4, <2>3, <2>4, Zenon DEF SkipCacheDelete
  <2>6. /\ IterFields(iter') /\ iter'.open = iter.open /\ iter'.ascending = iter.ascending
        /\ iter'.promised = iter.promised /\ iter'.seen = iter.seen
        /\ iter'.parent = Without(iter.parent, KeyC) /\ iter'.cache = Without(iter.cache, KeyC)
    BY ONLY <1>1, <2>5, SMTT(20) DEF IterFields
  <2>7. HandOut(iter.parent, iter.cache, iter.seen, KeyC) = iter.seen
    BY <2>1, <2>2, Zenon DEF HandOut, Merged
  <2> QED
    BY <1>2, <2>2, <2>6, <2>7, Zenon DEF Left
<1>5. CASE NextItem /\ FromParent
  <2>1. ParentValid /\ (CacheValid => Compare(KeyP, KeyC))
    BY <1>5, Zenon DEF FromParent
  <2>2. /\ KeyP \in DOMAIN iter.parent /\ KeyP \notin DOMAIN iter.cache
        /\ \A y \in Left(iter.parent, iter.cache) : y = KeyP \/ Before(iter.ascending, KeyP, y)
    BY <2>1, TakesParent, Zenon
  <2>3. Drop(iter.parent) = Without(iter.parent, KeyP)
    BY Zenon DEF Drop, Without, KeyP
  <2>4. iter' = [iter EXCEPT !.seen = Append(iter.seen, <<KeyP, iter.parent[KeyP]>>),
                             !.parent = Without(iter.parent, KeyP)]
    BY <1>5, <2>3, Zenon DEF NextItem
  <2> DEFINE s2 == Append(iter.seen, <<KeyP, iter.parent[KeyP]>>)
             p2 == Without(iter.parent, KeyP)
  <2>5. iter' = [iter EXCEPT !.seen = s2, !.parent = p2]
    BY <2>4, Zenon
  <2> HIDE DEF s2, p2
  <2>6. /\ IterFields(iter') /\ iter'.open = iter.open /\ iter'.ascending = iter.ascending
        /\ iter'.promised = iter.promised /\ iter'.seen = s2
        /\ iter'.parent = p2 /\ iter'.cache = iter.cache
    BY ONLY <1>1, <2>5, SMTT(20) DEF IterFields
  <2>7. HandOut(iter.parent, iter.cache, iter.seen, KeyP) = s2
    <3>1. iter.parent[KeyP] # Nil
      BY <1>1, <2>2, CacheAssumption, Zenon DEF Items
    <3> QED
      BY <2>2, <3>1, Zenon DEF HandOut, Merged, s2
  <2>8. iter.cache = Without(iter.cache, KeyP)
    BY <1>3, <2>2, Zenon
  <2> QED
    BY <1>2, <2>2, <2>6, <2>7, <2>8, Zenon DEF Left, p2
<1>6. CASE NextItem /\ ~FromParent
  <2>1. CacheValid /\ iter.cache[KeyC] # Nil /\ (ParentValid => ~Compare(KeyP, KeyC))
    BY <1>6, Zenon DEF NextItem, Exists, CacheIsDelete, FromParent
  <2>2. /\ KeyC \in DOMAIN iter.cache
        /\ KeyC \in DOMAIN iter.parent <=> ParentValid /\ KeyP = KeyC
        /\ \A y \in Left(iter.parent, iter.cache) : y = KeyC \/ Before(iter.ascending, KeyC, y)
    BY <2>1, TakesCache, Zenon
  <2>3. Drop(iter.cache) = Without(iter.cache, KeyC)
    BY Zenon DEF Drop, Without, KeyC
  <2>4. (IF Shadows THEN Drop(iter.parent) ELSE iter.parent) = Without(iter.parent, KeyC)
    <3>1. CASE Shadows
      BY <3>1, Zenon DEF Shadows, Drop, Without, KeyP
    <3>2. CASE ~Shadows
      BY <1>3, <2>1, <2>2, <3>2, Zenon DEF Shadows
    <3> QED
      BY <3>1, <3>2, Zenon
  <2> DEFINE s2 == Append(iter.seen, <<KeyC, iter.cache[KeyC]>>)
             p2 == Without(iter.parent, KeyC)
             c2 == Without(iter.cache, KeyC)
  <2>5. iter' = [iter EXCEPT !.seen = s2, !.cache = c2, !.parent = p2]
    BY <1>6, <2>3, <2>4, Zenon DEF NextItem
  <2> HIDE DEF s2, p2, c2
  <2>6. /\ IterFields(iter') /\ iter'.open = iter.open /\ iter'.ascending = iter.ascending
        /\ iter'.promised = iter.promised /\ iter'.seen = s2
        /\ iter'.parent = p2 /\ iter'.cache = c2
    BY ONLY <1>1, <2>5, SMTT(20) DEF IterFields
  <2>7. HandOut(iter.parent, iter.cache, iter.seen, KeyC) = s2
    BY <2>1, <2>2, Zenon DEF HandOut, Merged, s2
  <2> QED
    BY <1>2, <2>2, <2>6, <2>7, Zenon DEF Left, p2, c2
<1> QED
  BY <1>4, <1>5, <1>6, Zenon

\* NewIterator: the parent's items with the dirty ones over them are what the
\* layer shows.
LEMMA OpenKeeps ==
  ASSUME CacheInv, NEW start, NEW end, NEW ascending \in BOOLEAN, Iterator(start, end, ascending)
  PROVE  IterInv'
<1> DEFINE D == Domain(start, end)
           P == Present(Top - 1, D)
           C == DirtyItems(D)
           G == Present(Top, D)
<1>1. /\ Good(layers, bottom) /\ layers \in Seq(Layer) /\ bottom \in Map
      /\ Top \in Nat \ {0} /\ Top = Len(layers) /\ Top \in 1..Len(layers) /\ Top - 1 \in 0..Len(layers)
  <2>1. layers \in Seq(Layer) /\ bottom \in Map /\ Good(layers, bottom)
    BY Zenon DEF CacheInv, Good
  <2>2. Len(layers) \in Nat /\ Top > 0 /\ Top = Len(layers)
    BY <2>1 DEF Iterator, Top
  <2> QED
    BY ONLY <2>1, <2>2, SMTT(20)
<1>2. \A n, k : View(n, k) = ViewIn(layers, bottom, n, k)
  BY StackOfState, Zenon
<1>3. /\ D \subseteq Keys
      /\ \A n \in 0..Len(layers), k \in Keys : View(n, k) \in Values \cup {Nil}
      /\ \A k \in Keys : layers[Top][k].value \in Values \cup {Nil}
  <2>1. D \subseteq Keys
    BY Zenon DEF Domain
  <2>2. /\ \A n \in 1..Len(layers), k \in Keys : layers[n][k] \in Cached
        /\ \A n \in 0..Len(layers), k \in Keys : ViewIn(layers, bottom, n, k) \in Values \cup {Nil}
    BY <1>1, Types, Zenon
  <2>3. \A k \in Keys : layers[Top][k].value \in Values \cup {Nil}
    BY <1>1, <2>2, CachedFields, Zenon
  <2> QED
    BY <1>2, <2>1, <2>2, <2>3, Zenon
<1>4. \A k \in Keys : View(Top, k) = IF layers[Top][k].dirty THEN layers[Top][k].value ELSE View(Top - 1, k)
  <2> SUFFICES ASSUME NEW k \in Keys
               PROVE  View(Top, k) = IF layers[Top][k].dirty THEN layers[Top][k].value ELSE View(Top - 1, k)
    BY Zenon
  <2>1. CASE layers[Top][k].dirty
    BY <1>1, <1>2, <2>1, IsDirty, ZenonT(60)
  <2>2. CASE ~layers[Top][k].dirty
    BY <1>1, <1>2, <2>2, NotDirty, Zenon
  <2> QED
    BY <2>1, <2>2, Zenon
<1>5. /\ P = [k \in DOMAIN P |-> P[k]] /\ C = [k \in DOMAIN C |-> C[k]]
      /\ DOMAIN P = {k \in D : View(Top - 1, k) # Nil} /\ \A k \in DOMAIN P : P[k] = View(Top - 1, k)
      /\ DOMAIN C = {k \in D : layers[Top][k].dirty} /\ \A k \in DOMAIN C : C[k] = layers[Top][k].value
      /\ DOMAIN G = {k \in D : View(Top, k) # Nil} /\ \A k \in DOMAIN G : G[k] = View(Top, k)
  <2> HIDE DEF D
  <2>1. /\ C = [k \in DOMAIN C |-> C[k]]
        /\ DOMAIN C = {k \in D : layers[Top][k].dirty} /\ \A k \in DOMAIN C : C[k] = layers[Top][k].value
    BY ONLY SMTT(20) DEF DirtyItems
  <2>2. /\ P = [k \in DOMAIN P |-> P[k]]
        /\ DOMAIN P = {k \in D : View(Top - 1, k) # Nil} /\ \A k \in DOMAIN P : P[k] = View(Top - 1, k)
    BY ONLY SMTT(20) DEF Present
  <2>3. DOMAIN G = {k \in D : View(Top, k) # Nil} /\ \A k \in DOMAIN G : G[k] = View(Top, k)
    BY ONLY SMTT(20) DEF Present
  <2> HIDE DEF P, C, G
  <2> QED
    BY <2>1, <2>2, <2>3, Zenon
<1> HIDE DEF P, C, G, D
<1>6. Items(P, C)
  <2>1. ASSUME NEW k \in DOMAIN P PROVE k \in Keys /\ P[k] \in Values
    <3>1. k \in D /\ View(Top - 1, k) # Nil /\ P[k] = View(Top - 1, k)
      BY <1>5, Zenon
    <3> QED
      BY <1>1, <1>3, <3>1, Zenon
  <2>2. ASSUME NEW k \in DOMAIN C PROVE k \in Keys /\ C[k] \in Values \cup {Nil}
    <3>1. k \in D /\ C[k] = layers[Top][k].value
      BY <1>5, Zenon
    <3> QED
      BY <1>3, <3>1, Zenon
  <2>3. P = [k \in DOMAIN P |-> P[k]] /\ C = [k \in DOMAIN C |-> C[k]]
    BY <1>5, Zenon
  <2> QED
    BY <2>1, <2>2, <2>3, Zenon DEF Items
<1>7. ASSUME NEW k \in D
      PROVE  /\ k \in Left(P, C) <=> (View(Top - 1, k) # Nil \/ layers[Top][k].dirty)
             /\ k \in Left(P, C) => Merged(P, C, k) = View(Top, k)
  <2>1. k \in Left(P, C) <=> (View(Top - 1, k) # Nil \/ layers[Top][k].dirty)
    BY <1>5, <1>7, Zenon DEF Left
  <2>2. CASE layers[Top][k].dirty
    BY <1>3, <1>4, <1>5, <1>7, <2>1, <2>2, Zenon DEF Merged
  <2>3. CASE ~layers[Top][k].dirty
    BY <1>3, <1>4, <1>5, <1>7, <2>1, <2>3, Zenon DEF Merged
  <2> QED
    BY <2>1, <2>2, <2>3, Zenon
<1>8. Left(P, C) \subseteq D
  BY <1>5, Zenon DEF Left
<1>9. Agrees(P, C, G)
  BY <1>5, <1>7, <1>8, ZenonT(60) DEF Agrees
<1>10. Covers(P, C, <<>>, G)
  <2> SUFFICES ASSUME NEW k \in DOMAIN G PROVE k \in Left(P, C)
    BY Zenon DEF Covers
  <2>1. k \in D /\ View(Top, k) # Nil /\ k \in Keys
    BY <1>3, <1>5, Zenon
  <2> QED
    BY <1>4, <1>7, <2>1, Zenon
<1>11. <<>> \in Seq(Handed) /\ \A i \in 1..Len(<<>>) : FALSE
  BY ONLY SMTT(20)
<1>12. After(ascending, P, C, <<>>) /\ InOrder(ascending, <<>>, G)
  BY <1>11, Zenon DEF After, InOrder
<1>13. Snapshot(ascending, P, C, <<>>, G)
  BY <1>6, <1>9, <1>10, <1>11, <1>12, Zenon DEF Snapshot
<1>14. iter' = [open |-> TRUE, ascending |-> ascending, parent |-> P, cache |-> C,
                seen |-> <<>>, promised |-> G]
  BY Zenon DEF Iterator, P, C, G, D
<1>15. /\ IterFields(iter') /\ iter'.ascending = ascending /\ iter'.parent = P
       /\ iter'.cache = C /\ iter'.seen = <<>> /\ iter'.promised = G
  BY ONLY <1>14, SMTT(20) DEF IterFields
<1> QED
  BY <1>13, <1>15, Zenon DEF IterInv

\* What a cache iterator hands out, in either direction, is the layer's contents
\* when it was created, whatever is written to the layer meanwhile.
THEOREM IteratorsFaithful == Spec => []IteratesSnapshot
<1>1. Init => CacheInv /\ IterInv
  <2> SUFFICES ASSUME Init PROVE CacheInv /\ IterInv
    OBVIOUS
  <2>1. layers = <<>> /\ bottom \in Map /\ layers \in Seq(Layer) /\ Len(layers) = 0
    BY DEF Init
  <2>2. CacheInv
    BY ONLY <2>1 DEF CacheInv, Good, Faithful
  <2>3. IterInv
    <3>1. iter = NoIter
      BY DEF Init
    <3>2. IterFields(NoIter) /\ ~NoIter.open
      BY ONLY SMTT(20) DEF IterFields, NoIter
    <3> QED
      BY <3>1, <3>2, Zenon DEF IterInv
  <2> QED
    BY <2>2, <2>3
<1>2. CacheInv /\ IterInv /\ [Next]_vars => CacheInv' /\ IterInv'
  <2> SUFFICES ASSUME CacheInv, IterInv, [Next]_vars PROVE CacheInv' /\ IterInv'
    OBVIOUS
  <2>1. CacheInv'
    BY StepRefines, Zenon
  <2>2. CASE UNCHANGED iter
    BY <2>1, <2>2 DEF IterInv
  <2>3. CASE SkipCacheDelete \/ NextItem
    <3>1. iter.open
      BY <2>3, Zenon DEF SkipCacheDelete, NextItem
    <3> QED
      BY <2>1, <2>3, <3>1, TurnKeeps, Zenon
  <2>4. CASE Close
    <3>1. iter' = NoIter
      BY <2>4, Zenon DEF Close
    <3>2. IterFields(NoIter) /\ ~NoIter.open
      BY ONLY SMTT(20) DEF IterFields, NoIter
    <3>3. IterFields(iter') /\ ~iter'.open
      BY <3>1, <3>2, Zenon
    <3> QED
      BY <2>1, <3>3, Zenon DEF IterInv
  <2>5. ASSUME NEW start, NEW end, NEW ascending \in BOOLEAN, Iterator(start, end, ascending)
        PROVE  IterInv'
    BY <2>5, OpenKeeps, Zenon
  <2> QED
    BY <2>1, <2>2, <2>3, <2>4, <2>5, Zenon
    DEF Next, vars, Get, Set, Delete, Write, CacheWrap, Discard
<1>3. IterInv => IteratesSnapshot
  <2> SUFFICES ASSUME IterInv, iter.open PROVE IteratesSnapshot
    BY Zenon DEF IteratesSnapshot
  <2>1. /\ Snapshot(iter.ascending, iter.parent, iter.cache, iter.seen, iter.promised)
        /\ \A a, b : Compare(a, b) <=> Before(iter.ascending, a, b)
    BY IterIs, Zenon
  <2>2. /\ InOrder(iter.ascending, iter.seen, iter.promised)
        /\ Covers(iter.parent, iter.cache, iter.seen, iter.promised)
        /\ After(iter.ascending, iter.parent, iter.cache, iter.seen)
    BY <2>1, Zenon DEF Snapshot
  <2> DEFINE seen == {iter.seen[i][1] : i \in 1..Len(iter.seen)}
  <2>3. ASSUME NEW k \in DOMAIN iter.promised \ seen
        PROVE  /\ \A j \in seen : Compare(j, k)
               /\ Exists \/ CacheIsDelete
    <3>1. k \in Left(iter.parent, iter.cache)
      BY <2>2, Zenon DEF Covers
    <3>2. \A j \in seen : Compare(j, k)
      BY <2>1, <2>2, <3>1, Zenon DEF After
    <3>3. CacheValid \/ ParentValid
      BY <3>1, Zenon DEF Left, CacheValid, ParentValid
    <3> QED
      BY <3>2, <3>3, Zenon DEF Exists
  <2>4. \A i \in 1..Len(iter.seen) :
           /\ iter.seen[i][1] \in DOMAIN iter.promised
           /\ iter.seen[i][2] = iter.promised[iter.seen[i][1]]
           /\ i > 1 => Compare(iter.seen[i - 1][1], iter.seen[i][1])
    BY <2>1, <2>2, Zenon DEF InOrder
  <2> QED
    BY <2>3, <2>4, Zenon DEF IteratesSnapshot
<1> QED
  BY <1>1, <1>2, <1>3, PTL DEF Spec

=============================================================================
