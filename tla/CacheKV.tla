------------------------------- MODULE CacheKV -------------------------------
(***************************************************************************)
(* The cache-wrapping store (store/cachekvstore.go), in a stack of layers  *)
(* over a bottom store, and the iterator that merges a layer's unwritten   *)
(* items with its parent's (store/cachemergeiterator.go): the block, the   *)
(* transaction and the message caches of the application are such layers.  *)
(*                                                                         *)
(* Keys are numbers, ordered as bytes.Compare orders them.  A nil value is *)
(* never set: amino never encodes to nil, and the IAVL tree refuses it.    *)
(***************************************************************************)
EXTENDS Integers, Sequences, FiniteSetsExt

CONSTANTS
    Keys,       \* a finite set of numbers
    Values,
    Nil,        \* no value, and the value of a deleted item
    MaxLayers   \* bound: depth of the stack

ASSUME CacheAssumption ==
    /\ Keys \subseteq Int /\ IsFiniteSet(Keys)
    /\ Nil \notin Values /\ MaxLayers \in Nat

VARIABLES
    bottom,   \* the store under all caches
    layers,   \* ci.cache of each layer, the lowest first
    iter      \* an iterator over the top layer, or what it was when it ended

vars == <<bottom, layers, iter>>

Map == [Keys -> Values \cup {Nil}]

(* cValue, and the absence of one.  "deleted" is a nil value that is dirty. *)
Miss == [value |-> Nil, dirty |-> FALSE, held |-> FALSE]

Clean(v) == [value |-> v, dirty |-> FALSE, held |-> TRUE]

Dirty(v) == [value |-> v, dirty |-> TRUE, held |-> TRUE]

Cached == {Miss} \cup {Clean(v) : v \in Values \cup {Nil}}
                 \cup {Dirty(v) : v \in Values \cup {Nil}}

Empty == [k \in Keys |-> Miss]

Top == Len(layers)

(* The layer that answers for k below layer n: the highest that holds it,  *)
(* or 0 for the bottom store.                                              *)
Holder(n, k) == Max({i \in 1..n : layers[i][k].held} \cup {0})

View(n, k) ==
    IF Holder(n, k) = 0 THEN bottom[k] ELSE layers[Holder(n, k)][k].value

-----------------------------------------------------------------------------
NoIter ==
    [open |-> FALSE, ascending |-> TRUE, parent |-> <<>>, cache |-> <<>>,
     seen |-> <<>>, promised |-> <<>>]

Init ==
    /\ bottom \in Map
    /\ layers = <<>>
    /\ iter = NoIter

(* Get: every layer above the one that answers keeps a clean copy.         *)
Get(k) ==
    /\ Top > 0
    /\ layers' = [i \in 1..Top |->
                     IF i > Holder(Top, k)
                       THEN [layers[i] EXCEPT ![k] = Clean(View(Top, k))]
                       ELSE layers[i]]
    /\ UNCHANGED <<bottom, iter>>

Set(k, v) ==
    /\ Top > 0
    /\ layers' = [layers EXCEPT ![Top][k] = Dirty(v)]
    /\ UNCHANGED <<bottom, iter>>

Deleted == Dirty(Nil)

Delete(k) ==
    /\ Top > 0
    /\ layers' = [layers EXCEPT ![Top][k] = Deleted]
    /\ UNCHANGED <<bottom, iter>>

(* Write: the dirty items go to the parent as sets and deletes, and the    *)
(* cache is cleared; the layer stays in use.                               *)
WrittenSetsOnly(item, below) == IF item.dirty /\ item.value # Nil THEN Dirty(item.value) ELSE below

Written(item, below) == IF item.dirty THEN Dirty(item.value) ELSE below

Write ==
    /\ Top > 0
    /\ ~iter.open
    /\ IF Top = 1
         THEN /\ bottom' = [k \in Keys |-> Written(layers[1][k], Clean(bottom[k])).value]
              /\ layers' = <<Empty>>
         ELSE /\ layers' = [layers EXCEPT ![Top] = Empty,
                              ![Top - 1] = [k \in Keys |-> Written(layers[Top][k], @[k])]]
              /\ UNCHANGED bottom
    /\ UNCHANGED iter

CacheWrap ==
    /\ Top < MaxLayers
    /\ ~iter.open
    /\ layers' = Append(layers, Empty)
    /\ UNCHANGED <<bottom, iter>>

(* The top layer is dropped without being written.                         *)
Discard ==
    /\ Top > 0
    /\ ~iter.open
    /\ layers' = SubSeq(layers, 1, Top - 1)
    /\ UNCHANGED <<bottom, iter>>

-----------------------------------------------------------------------------
(* The items an iterator is built from: the parent's in the domain, and    *)
(* the dirty items in the domain, the deleted ones with a nil value.       *)
Present(n, D) ==
    [k \in {j \in D : View(n, j) # Nil} |-> View(n, k)]

DirtyItems(D) ==
    [k \in {j \in D : layers[Top][j].dirty} |-> layers[Top][k].value]

Domain(start, end) == {k \in Keys : start <= k /\ k < end}

Iterator(start, end, ascending) ==
    /\ Top > 0
    /\ ~iter.open
    /\ LET D == Domain(start, end)
       IN  iter' = [open |-> TRUE, ascending |-> ascending,
                    parent |-> Present(Top - 1, D), cache |-> DirtyItems(D),
                    seen |-> <<>>, promised |-> Present(Top, D)]
    /\ UNCHANGED <<bottom, layers>>

Compare(a, b) == IF iter.ascending THEN a < b ELSE b < a

Key(items) == IF iter.ascending THEN Min(DOMAIN items) ELSE Max(DOMAIN items)

ParentValid == DOMAIN iter.parent # {}

CacheValid == DOMAIN iter.cache # {}

KeyP == Key(iter.parent)

KeyC == Key(iter.cache)

Drop(items) == [k \in DOMAIN items \ {Key(items)} |-> items[k]]

CacheIsDelete == CacheValid /\ iter.cache[KeyC] = Nil

(* The loop of skipUntilExistsOrInvalid, one turn: a deleted item of the   *)
(* cache goes, and the parent's item of the same key with it.              *)
SkipsParentNever == FALSE

SkipsParent == ParentValid /\ KeyP = KeyC

SkipCacheDelete ==
    /\ iter.open
    /\ CacheIsDelete
    /\ ParentValid => ~Compare(KeyP, KeyC)
    /\ iter' = [iter EXCEPT !.cache = Drop(@),
                            !.parent = IF SkipsParent THEN Drop(@) ELSE @]
    /\ UNCHANGED <<bottom, layers>>

Exists ==
    \/ CacheIsDelete /\ ParentValid /\ Compare(KeyP, KeyC)
    \/ ~CacheIsDelete /\ (CacheValid \/ ParentValid)

(* Key, Value and Next at an item that exists.                             *)
FromParent == ParentValid /\ (CacheValid => Compare(KeyP, KeyC))

Shadows == ParentValid /\ CacheValid /\ KeyP = KeyC

NextItem ==
    /\ iter.open
    /\ Exists
    /\ iter' = IF FromParent
                 THEN [iter EXCEPT !.seen = Append(@, <<KeyP, iter.parent[KeyP]>>),
                                   !.parent = Drop(@)]
                 ELSE [iter EXCEPT !.seen = Append(@, <<KeyC, iter.cache[KeyC]>>),
                                   !.cache = Drop(@),
                                   !.parent = IF Shadows THEN Drop(@) ELSE @]
    /\ UNCHANGED <<bottom, layers>>

Close ==
    /\ iter.open
    /\ iter' = NoIter
    /\ UNCHANGED <<bottom, layers>>

Next ==
    \/ \E k \in Keys : Get(k) \/ Delete(k) \/ \E v \in Values : Set(k, v)
    \/ Write \/ CacheWrap \/ Discard
    \/ \E start \in Keys, end \in Keys \cup {Max(Keys) + 1}, ascending \in BOOLEAN :
          start < end /\ Iterator(start, end, ascending)
    \/ SkipCacheDelete \/ NextItem \/ Close

Spec == Init /\ [][Next]_vars

-----------------------------------------------------------------------------
NM == INSTANCE NestedMap
        WITH stack <- [n \in 1..(Top + 1) |-> [k \in Keys |-> View(n - 1, k)]]

(* The stack of caches behaves as a stack of maps: a read anywhere in it   *)
(* sees the last write above the bottom that was not dropped, a written    *)
(* layer leaves its parent equal to it with its deletions applied, and a   *)
(* dropped one leaves no trace.                                            *)
RefinesNestedMap == NM!Spec

(* What an iterator hands out is what the layer held when it was created:  *)
(* in order, each key once with its shadowing value, no deleted key, and   *)
(* nothing left out before a key handed out or once it is exhausted.       *)
IteratesSnapshot ==
    iter.open =>
       LET seen == {iter.seen[i][1] : i \in 1..Len(iter.seen)}
       IN  /\ \A i \in 1..Len(iter.seen) :
                 /\ iter.seen[i][1] \in DOMAIN iter.promised
                 /\ iter.seen[i][2] = iter.promised[iter.seen[i][1]]
                 /\ i > 1 => Compare(iter.seen[i - 1][1], iter.seen[i][1])
           /\ \A k \in DOMAIN iter.promised \ seen :
                 /\ \A j \in seen : Compare(j, k)
                 /\ Exists \/ CacheIsDelete
=============================================================================
