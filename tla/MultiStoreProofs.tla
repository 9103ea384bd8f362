-------------------------- MODULE MultiStoreProofs --------------------------
(***************************************************************************)
(* The root multistore recovers from a crash at any point of a commit, and *)
(* pruning retains exactly the versions it promises, for any stores, any   *)
(* upgrade heights, any pruning strategy that keeps the version s/latest   *)
(* names, and any number of blocks and crashes.                            *)
(*                                                                         *)
(* A store's database is in one of three states while s/latest is v        *)
(* (MayHold): what the commit of v left, that and version v + 1, or what   *)
(* the commit of v + 1 leaves.  A process that executes the block again    *)
(* takes each of them to the last one.  The invariant says this of every   *)
(* store, and what the loaded trees are before, in and after a commit.     *)
(***************************************************************************)
EXTENDS MultiStore, TLAPS

(* The larger obligations need more than the prover's default time.        *)
USE SMTT(60)

(* PruneEverything deletes the version s/latest names before it names      *)
(* the next one, so it is left out.                                        *)
KeepsLast == NumRecent # 0 \/ StoreEvery = 1

(* The first commit of all is not in the model's behaviours: a crash in it *)
(* loads the version it saved, as no CommitInfo names the store.           *)
Started == StartVersion # 0

MayHold(s, v) == {Retained(s, v), Retained(s, v) \cup {v + 1}, Retained(s, v + 1)}

NoTree == [version |-> 0, contents |-> <<>>]

TreeAt(s, v) == [version |-> v, contents |-> Reference(s, v)]

(* A store that is not part of the last commit, and whose own first commit *)
(* may have been torn.                                                     *)
Outside(s) ==
    \/ tree[s] = NoTree /\ DOMAIN saved[s] = {}
    \/ tree[s] = TreeAt(s, latest + 1) /\ DOMAIN saved[s] = {latest + 1}
       /\ First(s) = latest + 1

(* Between two blocks.                                                     *)
Settled(s) == IF First(s) <= latest THEN tree[s] = TreeAt(s, latest) ELSE Outside(s)

(* The block is executed on the store, which is not saved yet.             *)
Written(s) ==
    \/ First(s) <= latest
       /\ tree[s] = [version |-> latest, contents |-> Reference(s, latest + 1)]
    \/ First(s) = latest + 1 /\ DOMAIN saved[s] = {}
       /\ tree[s] = [version |-> 0, contents |-> Reference(s, latest + 1)]
    \/ First(s) = latest + 1 /\ DOMAIN saved[s] = {latest + 1}
       /\ tree[s] = [version |-> latest + 1, contents |-> Append(Reference(s, latest + 1), latest + 1)]

(* A store in the commit of version latest + 1.                            *)
Committing(s) ==
    CASE First(s) > latest + 1 -> s \notin todo /\ tree[s] = NoTree
      [] First(s) <= latest + 1 /\ s \in todo /\ pc # s -> Written(s)
      [] First(s) <= latest + 1 /\ s \in todo /\ pc = s ->
           /\ tree[s] = TreeAt(s, latest + 1)
           /\ DOMAIN saved[s] \in {Retained(s, latest) \cup {latest + 1}, Retained(s, latest + 1)}
      [] OTHER -> /\ tree[s] = TreeAt(s, latest + 1)
                  /\ DOMAIN saved[s] = Retained(s, latest + 1)

Joined(v) == {s \in Iavl : First(s) <= v}

IDs(S, v) == [s \in S |-> [version |-> v, hash |-> Reference(s, v)]]

DiskOK ==
    /\ latest \in Nat \ {0} /\ infos = [v \in 1..latest |-> IDs(Joined(v), v)]
    /\ saved = [s \in Iavl |-> saved[s]]
    /\ \A s \in Iavl :
          /\ saved[s] = [v \in DOMAIN saved[s] |-> Reference(s, v)]
          /\ First(s) <= latest + 1 => DOMAIN saved[s] \in MayHold(s, latest)
          /\ First(s) > latest + 1 => DOMAIN saved[s] = {}

MemoryOK ==
    /\ pc \in {"down", "idle", "commit", "panicked"} \cup Iavl
    /\ IF pc = "down" THEN info = Nothing ELSE lastCommit = latest
    /\ tree = [s \in Iavl |-> tree[s]]
    /\ pc = "idle" =>
          /\ \A s \in Iavl : Settled(s)
          /\ info # Nothing => \A s \in Iavl : DOMAIN saved[s] = Retained(s, latest)
    /\ pc \in {"commit"} \cup Iavl =>
          /\ \A s \in Iavl : Committing(s)
          /\ info = IDs(Joined(latest + 1) \ todo, latest + 1)
    /\ pc \in Iavl => pc \in todo
    /\ pc = "panicked" => JoinTorn

(* The inductive invariant.                                                *)
IInv == DiskOK /\ MemoryOK

-----------------------------------------------------------------------------
(* An upgrade height is a block height: 1 or later.                        *)
LEMMA FirstBlock ==
    ASSUME NEW s \in Iavl
    PROVE  First(s) \in Nat \ {0}
  BY StoresAssumption DEF First, Stores

(* ShouldCommitStore: a store is committed from the block it joins at.     *)
LEMMA CommittedIs ==
    ASSUME NEW s \in Iavl, NEW v \in Nat \ {0}
    PROVE  ShouldCommitStoreAt(s, v) <=> First(s) <= v
  BY StoresAssumption DEF First, ShouldCommitStoreAt, Stores

(* Executing block v + 1 on what version v holds gives version v + 1.      *)
LEMMA ReferenceNext ==
    ASSUME NEW s \in Iavl, NEW v \in Nat, First(s) <= v + 1
    PROVE  Append(Reference(s, v), v + 1) = Reference(s, v + 1)
  <1>1. \A f, u \in Nat : f <= u + 1 =>
           Append([i \in 1..(u - f + 1) |-> f + i - 1], u + 1)
              = [i \in 1..((u + 1) - f + 1) |-> f + i - 1]
    <2> TAKE f, u \in Nat
    <2>2. HAVE f <= u + 1
    <2> DEFINE n == u - f + 1
               q == [i \in 1..n |-> f + i - 1]
               r == [i \in 1..(n + 1) |-> f + i - 1]
               a == Append(q, u + 1)
    <2>3. n \in Nat /\ f + (n + 1) - 1 = u + 1
      BY ONLY <2>2, f \in Nat, u \in Nat, SMTT(20)
    <2> HIDE DEF n
    <2>4. q \in Seq(Int) /\ Len(q) = n /\ \A i \in 1..n : q[i] = f + i - 1
      BY ONLY <2>3, f \in Nat, SMTT(20)
    <2>5. r \in Seq(Int) /\ Len(r) = n + 1 /\ \A i \in 1..(n + 1) : r[i] = f + i - 1
      BY ONLY <2>3, f \in Nat, SMTT(20)
    <2> HIDE DEF q, r
    <2>6. a \in Seq(Int) /\ Len(a) = n + 1 /\ (\A i \in 1..n : a[i] = q[i]) /\ a[n + 1] = u + 1
      BY ONLY <2>3, <2>4, u \in Nat, SMTT(20)
    <2>7. \A i \in 1..(n + 1) : a[i] = r[i]
      BY ONLY <2>3, <2>4, <2>5, <2>6, f \in Nat, u \in Nat, SMTT(20) DEF a
    <2> HIDE DEF a
    <2>8. a = r
      BY ONLY <2>3, <2>5, <2>6, <2>7, SMTT(20)
    <2>9. (u + 1) - f + 1 = n + 1
      BY ONLY f \in Nat, u \in Nat, SMTT(20) DEF n
    <2> QED
      BY <2>8, <2>9, Zenon DEF a, q, r, n
  <1>2. First(s) \in Nat
    BY FirstBlock, Zenon
  <1> QED
    BY <1>1, <1>2, Zenon DEF Reference

(* No block is executed on a store before the one it joins at.             *)
LEMMA ReferenceNone ==
    ASSUME NEW s \in Iavl, NEW v \in Nat, First(s) = v + 1
    PROVE  Append(<<>>, v + 1) = Reference(s, v + 1)
  <1>1. \A f, u \in Nat : f = u + 1 => [i \in 1..(u - f + 1) |-> f + i - 1] = <<>>
    BY ONLY SMTT(20)
  <1>2. First(s) \in Nat /\ First(s) <= v + 1
    BY FirstBlock
  <1>3. Reference(s, v) = <<>>
    BY <1>1, <1>2, Zenon DEF Reference
  <1> QED
    BY <1>2, <1>3, ReferenceNext, Zenon

(* The contents at a committed version are those of some block.            *)
LEMMA ReferenceSome ==
    ASSUME NEW s \in Iavl, NEW v \in Nat, First(s) <= v
    PROVE  Reference(s, v) # <<>>
  <1>1. \A f, u \in Nat : f <= u => [i \in 1..(u - f + 1) |-> f + i - 1] # <<>>
    BY ONLY SMTT(20)
  <1>2. First(s) \in Nat
    BY FirstBlock, Zenon
  <1> QED
    BY <1>1, <1>2, Zenon DEF Reference

(* Executing a block twice gives another hash.                             *)
LEMMA ReferenceTwice ==
    ASSUME NEW s \in Iavl, NEW v \in Nat
    PROVE  Append(Reference(s, v), v) # Reference(s, v)
  <1>1. \A f, u \in Nat : Append([i \in 1..(u - f + 1) |-> f + i - 1], u)
                             # [i \in 1..(u - f + 1) |-> f + i - 1]
    <2> TAKE f, u \in Nat
    <2> DEFINE q == [i \in 1..(u - f + 1) |-> f + i - 1]
    <2>1. q \in Seq(Int)
      BY ONLY SMTT(20)
    <2> HIDE DEF q
    <2>2. Len(Append(q, u)) = Len(q) + 1 /\ Len(q) \in Nat
      BY ONLY <2>1, u \in Nat, SMTT(20)
    <2>3. Append(q, u) # q
      BY ONLY <2>2, SMTT(20)
    <2> QED
      BY <2>3, Zenon DEF q
  <1>2. First(s) \in Nat
    BY FirstBlock, Zenon
  <1> QED
    BY <1>1, <1>2, Zenon DEF Reference

(* Pruning in the commit of version v + 1 takes what the commit of v left, *)
(* with or without the new version, to exactly what is to be retained.     *)
LEMMA PruneExact ==
    ASSUME NEW s \in Iavl, NEW v \in Nat, First(s) <= v + 1
    PROVE  /\ (Retained(s, v) \cup {v + 1}) \ ToRelease(v + 1) = Retained(s, v + 1)
           /\ Retained(s, v + 1) \ ToRelease(v + 1) = Retained(s, v + 1)
  <1>1. First(s) \in Nat \ {0} /\ NumRecent \in Nat /\ StoreEvery \in Nat
    BY FirstBlock, StoresAssumption
  <1>2. ASSUME NEW w
        PROVE  /\ w \in (Retained(s, v) \cup {v + 1}) \ ToRelease(v + 1) <=> w \in Retained(s, v + 1)
               /\ w \in Retained(s, v + 1) => w \notin ToRelease(v + 1)
    BY <1>1 DEF Retained, ToRelease
  <1> QED
    BY <1>2, Zenon

(* The version s/latest names survives the next commit.                    *)
LEMMA LastRetained ==
    ASSUME NEW s \in Iavl, NEW v \in Nat, First(s) <= v, KeepsLast
    PROVE  v \in Retained(s, v) /\ v \in Retained(s, v + 1)
  <1>1. First(s) \in Nat \ {0} /\ NumRecent \in Nat /\ StoreEvery \in Nat
    BY FirstBlock, StoresAssumption
  <1>2. v % 1 = 0
    OBVIOUS
  <1> QED
    BY <1>1, <1>2 DEF Retained, KeepsLast

(* Nothing is retained of a store that has not joined, and only its first  *)
(* version once it has.                                                    *)
LEMMA RetainedNone ==
    ASSUME NEW s \in Iavl, NEW v \in Nat, First(s) > v
    PROVE  Retained(s, v) = {}
  BY FirstBlock, StoresAssumption DEF Retained

LEMMA RetainedFirst ==
    ASSUME NEW s \in Iavl, NEW v \in Nat, First(s) <= v
    PROVE  v \in Retained(s, v) /\ Retained(s, v) \subseteq First(s)..v
  BY FirstBlock, StoresAssumption DEF Retained

-----------------------------------------------------------------------------
(* No store has the name of a state of the process.                        *)
LEMMA NoStoreNamed ==
    ASSUME NEW s \in Iavl
    PROVE  s # "down" /\ s # "idle" /\ s # "commit" /\ s # "failed" /\ s # "panicked"
  BY StoresAssumption DEF Stores

(* What a crash leaves: the version the root names of a store it names,    *)
(* at most a torn first commit of a store it does not name.                *)
LEMMA Left ==
    ASSUME KeepsLast, DiskOK, NEW s \in Iavl
    PROVE  /\ First(s) <= latest => latest \in DOMAIN saved[s]
           /\ First(s) > latest =>
                 \/ DOMAIN saved[s] = {}
                 \/ DOMAIN saved[s] = {latest + 1} /\ First(s) = latest + 1
  <1>1. latest \in Nat \ {0} /\ First(s) \in Nat \ {0} /\ latest + 1 \in Nat
    BY FirstBlock DEF DiskOK
  <1>2. CASE First(s) <= latest
    <2>1. latest \in Retained(s, latest) /\ latest \in Retained(s, latest + 1)
      BY <1>1, <1>2, LastRetained
    <2>2. DOMAIN saved[s] \in MayHold(s, latest)
      BY <1>1, <1>2 DEF DiskOK
    <2> QED
      BY <1>1, <1>2, <2>1, <2>2 DEF MayHold
  <1>3. CASE First(s) > latest + 1
    BY <1>1, <1>3 DEF DiskOK
  <1>4. CASE First(s) = latest + 1
    <2>1. Retained(s, latest) = {}
      BY <1>1, <1>4, RetainedNone
    <2>2. Retained(s, latest + 1) = {latest + 1}
      BY <1>1, <1>4, RetainedFirst
    <2>3. DOMAIN saved[s] \in MayHold(s, latest)
      BY <1>1, <1>4 DEF DiskOK
    <2> QED
      BY <1>1, <1>4, <2>1, <2>2, <2>3 DEF MayHold
  <1> QED
    BY <1>1, <1>2, <1>3, <1>4

(* MutableTree.LoadVersion(0) on the database of such a store.             *)
LEMMA LatestSavedIs ==
    ASSUME NEW s \in Iavl, NEW n \in Nat
    PROVE  /\ DOMAIN saved[s] = {} => LatestSaved(s) = 0
           /\ DOMAIN saved[s] = {n} => LatestSaved(s) = n
  <1>1. Max({0}) = 0
    BY DEF Max
  <1>2. Max({n, 0}) = n
    BY DEF Max
  <1>3. {} \cup {0} = {0} /\ {n} \cup {0} = {n, 0}
    OBVIOUS
  <1> QED
    BY <1>1, <1>2, <1>3, Zenon DEF LatestSaved

-----------------------------------------------------------------------------
LEMMA StartOK ==
    ASSUME Started, Init
    PROVE  IInv
  <1>1. latest \in Nat \ {0}
    BY StoresAssumption DEF Init, Started
  <1>2. ASSUME NEW v \in 1..latest
        PROVE  CommitIDs(v) = IDs(Joined(v), v)
    <2>1. Committed(v) = Joined(v)
      BY <1>1, CommittedIs DEF Committed, Joined
    <2> QED
      BY <2>1, Zenon DEF CommitIDs, IDs
  <1>3. infos = [v \in 1..latest |-> IDs(Joined(v), v)]
    BY <1>2 DEF Init
  <1>4. ASSUME NEW s \in Iavl
        PROVE  /\ saved[s] = [v \in DOMAIN saved[s] |-> Reference(s, v)]
               /\ DOMAIN saved[s] = Retained(s, latest)
    BY DEF Init
  <1>5. ASSUME NEW s \in Iavl, First(s) > latest + 1
        PROVE  Retained(s, latest) = {}
    BY <1>1, <1>5, FirstBlock, RetainedNone
  <1>6. saved = [s \in Iavl |-> saved[s]] /\ tree = [s \in Iavl |-> tree[s]]
    BY DEF Init
  <1>7. DiskOK
    BY <1>1, <1>3, <1>4, <1>5, <1>6 DEF DiskOK, MayHold
  <1>8. MemoryOK
    BY <1>6, NoStoreNamed DEF Init, MemoryOK
  <1> QED
    BY <1>7, <1>8 DEF IInv

(* LoadLatestVersion finds every version and loads the last commit.        *)
LEMMA LoadOK ==
    ASSUME KeepsLast, IInv, LoadLatestVersion
    PROVE  IInv'
  <1>1. /\ DiskOK /\ latest \in Nat \ {0} /\ pc = "down"
        /\ UNCHANGED <<latest, infos, saved, info>>
    BY DEF IInv, DiskOK, LoadLatestVersion, disk
  <1>2. ASSUME NEW s \in Iavl
        PROVE  IDVersion(s, latest) = IF First(s) <= latest THEN latest ELSE 0
    <2>1. infos[latest] = IDs(Joined(latest), latest)
      BY <1>1 DEF DiskOK
    <2> QED
      BY <1>1, <2>1 DEF IDVersion, IDs, Joined
  <1>3. ASSUME NEW s \in Iavl
        PROVE  Loadable(s, IDVersion(s, latest))
    BY <1>1, <1>2, Left DEF Loadable
  <1>4. /\ tree' = [s \in Iavl |-> Loaded(s, IDVersion(s, latest))]
        /\ lastCommit' = latest /\ pc' = "idle"
    BY <1>3 DEF LoadLatestVersion
  <1>5. ASSUME NEW s \in Iavl
        PROVE  Settled(s)'
    <2>1. tree'[s] = Loaded(s, IDVersion(s, latest))
      BY <1>4
    <2>2. CASE First(s) <= latest
      <3>1. tree'[s] = [version |-> latest, contents |-> saved[s][latest]]
        BY <1>1, <1>2, <2>1, <2>2 DEF Loaded, LoadTarget
      <3>2. saved[s][latest] = Reference(s, latest)
        <4>1. latest \in DOMAIN saved[s]
          BY <1>1, <2>2, Left
        <4> QED
          BY <1>1, <4>1 DEF DiskOK
      <3> QED
        BY <1>1, <2>2, <3>1, <3>2 DEF Settled, TreeAt
    <2>3. CASE First(s) > latest /\ DOMAIN saved[s] = {}
      <3>1. tree'[s] = NoTree
        BY <1>1, <1>2, <2>1, <2>3, LatestSavedIs, FirstBlock DEF Loaded, LoadTarget, NoTree
      <3> QED
        BY <1>1, <2>3, <3>1, FirstBlock DEF Settled, Outside
    <2>4. CASE First(s) = latest + 1 /\ DOMAIN saved[s] = {latest + 1}
      <3>1. latest + 1 \in Nat /\ latest + 1 # 0
        BY <1>1
      <3>2. LatestSaved(s) = latest + 1
        BY <3>1, <2>4, LatestSavedIs, Zenon
      <3>3. tree'[s] = [version |-> latest + 1, contents |-> saved[s][latest + 1]]
        BY <1>1, <1>2, <2>1, <2>4, <3>1, <3>2 DEF Loaded, LoadTarget
      <3>4. saved[s][latest + 1] = Reference(s, latest + 1)
        BY <1>1, <2>4 DEF DiskOK
      <3> QED
        BY <1>1, <2>4, <3>3, <3>4 DEF Settled, Outside, TreeAt
    <2> QED
      BY <1>1, <2>2, <2>3, <2>4, Left, FirstBlock
  <1>6. info' = Nothing
    BY <1>1 DEF IInv, MemoryOK
  <1>7. DiskOK'
    BY <1>1 DEF DiskOK
  <1>8. MemoryOK'
    BY <1>1, <1>4, <1>5, <1>6, NoStoreNamed DEF MemoryOK
  <1> QED
    BY <1>7, <1>8 DEF IInv

(* The block is executed on the stores of the last commit.                 *)
LEMMA ExecuteOK ==
    ASSUME IInv, Execute
    PROVE  IInv'
  <1>1. /\ DiskOK /\ latest \in Nat \ {0} /\ pc = "idle" /\ pc' = "commit"
        /\ UNCHANGED <<latest, infos, saved, lastCommit>> /\ info' = Nothing
    BY DEF IInv, DiskOK, Execute, disk
  <1>2. lastCommit = latest /\ \A s \in Iavl : Settled(s)
    BY <1>1 DEF IInv, MemoryOK
  <1>3. Height = latest + 1 /\ latest + 1 \in Nat \ {0}
    BY <1>1, <1>2 DEF Height
  <1>4. ASSUME NEW s \in Iavl
        PROVE  /\ ShouldCommitStore(s) <=> First(s) <= latest + 1
               /\ s \in todo' <=> First(s) <= latest + 1
    <2>1. ShouldCommitStore(s) <=> First(s) <= latest + 1
      BY <1>3, CommittedIs DEF ShouldCommitStore
    <2> QED
      BY <2>1 DEF Execute, Stores
  <1>5. tree' = [s \in Iavl |-> tree'[s]]
    BY DEF Execute
  <1>6. ASSUME NEW s \in Iavl
        PROVE  Committing(s)'
    <2>1. tree'[s] = IF First(s) <= latest + 1
                       THEN [tree[s] EXCEPT !.contents = Append(@, latest + 1)]
                       ELSE tree[s]
      BY <1>3, <1>4 DEF Execute
    <2>2. pc' # s /\ First(s) \in Nat
      BY <1>1, NoStoreNamed, FirstBlock
    <2>3. CASE First(s) <= latest
      <3>1. tree[s] = TreeAt(s, latest)
        BY <1>2, <2>3 DEF Settled
      <3>2. tree'[s] = [version |-> latest, contents |-> Append(Reference(s, latest), latest + 1)]
        BY <1>1, <2>1, <2>2, <2>3, <3>1 DEF TreeAt
      <3>3. Append(Reference(s, latest), latest + 1) = Reference(s, latest + 1)
        BY <1>1, <2>2, <2>3, ReferenceNext
      <3>4. Written(s)'
        BY <1>1, <2>3, <3>2, <3>3 DEF Written
      <3> QED
        BY <1>1, <1>4, <2>2, <2>3, <3>4 DEF Committing
    <2>4. CASE First(s) > latest + 1
      <3>1. tree'[s] = NoTree
        BY <1>1, <1>2, <2>1, <2>2, <2>4 DEF Settled, Outside
      <3> QED
        BY <1>1, <1>4, <2>2, <2>4, <3>1 DEF Committing
    <2>5. CASE First(s) = latest + 1 /\ tree[s] = NoTree /\ DOMAIN saved[s] = {}
      <3>1. tree'[s] = [version |-> 0, contents |-> Append(<<>>, latest + 1)]
        BY <1>3, <2>1, <2>5 DEF NoTree
      <3>2. Append(<<>>, latest + 1) = Reference(s, latest + 1)
        BY <1>1, <2>5, ReferenceNone
      <3>3. Written(s)'
        BY <1>1, <2>5, <3>1, <3>2 DEF Written
      <3> QED
        BY <1>1, <1>3, <1>4, <2>2, <2>5, <3>3 DEF Committing
    <2>6. CASE /\ First(s) = latest + 1 /\ DOMAIN saved[s] = {latest + 1}
               /\ tree[s] = TreeAt(s, latest + 1)
      <3>1. tree'[s] = [version |-> latest + 1,
                        contents |-> Append(Reference(s, latest + 1), latest + 1)]
        BY <1>3, <2>1, <2>6 DEF TreeAt
      <3>2. Written(s)'
        BY <1>1, <2>6, <3>1 DEF Written
      <3> QED
        BY <1>1, <1>3, <1>4, <2>2, <2>6, <3>2 DEF Committing
    <2> QED
      BY <1>1, <1>2, <2>2, <2>3, <2>4, <2>5, <2>6 DEF Settled, Outside
  <1>7. info' = IDs(Joined(latest + 1) \ todo', latest + 1)
    <2>1. Joined(latest + 1) \ todo' = {}
      BY <1>4 DEF Joined
    <2> QED
      BY <1>1, <2>1 DEF IDs, Nothing
  <1>8. DiskOK'
    BY <1>1 DEF DiskOK
  <1>9. MemoryOK'
    BY <1>1, <1>2, <1>5, <1>6, <1>7, NoStoreNamed DEF MemoryOK
  <1> QED
    BY <1>8, <1>9 DEF IInv

(* SaveVersion writes version latest + 1 with the contents every node has, *)
(* or panics on a store whose first commit was torn.                       *)
LEMMA SaveOK ==
    ASSUME IInv, NEW s \in Iavl, SaveVersion(s)
    PROVE  IInv'
  <1>1. /\ DiskOK /\ latest \in Nat \ {0} /\ pc = "commit" /\ s \in todo
        /\ UNCHANGED <<latest, infos, lastCommit, todo, info>>
        /\ First(s) \in Nat \ {0}
    BY FirstBlock DEF IInv, DiskOK, SaveVersion
  <1>2. /\ lastCommit = latest /\ \A t \in Iavl : Committing(t)
        /\ info = IDs(Joined(latest + 1) \ todo, latest + 1)
        /\ tree = [t \in Iavl |-> tree[t]]
    BY <1>1 DEF IInv, MemoryOK
  <1>3. Height = latest + 1 /\ latest + 1 \in Nat \ {0}
    BY <1>1, <1>2 DEF Height
  <1>4. First(s) <= latest + 1 /\ Written(s)
    <2>1. Committing(s) /\ pc # s
      BY <1>1, <1>2, NoStoreNamed
    <2> QED
      BY <1>1, <2>1 DEF Committing
  <1>5. ShouldSetStoreVersion(s) <=> First(s) = latest + 1
    BY <1>1, <1>3, StoresAssumption DEF ShouldSetStoreVersion, First, Stores
  <1>6. NextVersion(s) = latest + 1
    BY <1>1, <1>3, <1>4, <1>5 DEF NextVersion, Written
  <1>7. \A v \in DOMAIN saved[s] : saved[s][v] = Reference(s, v)
    BY <1>1 DEF DiskOK
  <1>8. CASE tree[s].contents = Reference(s, latest + 1)
    <2>1. SavesSame(s)
      BY <1>6, <1>7, <1>8 DEF SavesSame
    <2>2. /\ saved' = [saved EXCEPT ![s] = Put(@, latest + 1, Reference(s, latest + 1))]
          /\ tree' = [tree EXCEPT ![s].version = latest + 1] /\ pc' = s
      BY <1>6, <1>8, <2>1 DEF SaveVersion
    <2>3. /\ saved'[s] = [v \in DOMAIN saved[s] \cup {latest + 1} |-> Reference(s, v)]
          /\ saved' = [t \in Iavl |-> saved'[t]]
          /\ \A t \in Iavl \ {s} : saved'[t] = saved[t]
      <3>1. saved = [t \in Iavl |-> saved[t]]
        BY <1>1 DEF DiskOK
      <3>2. saved'[s] = Put(saved[s], latest + 1, Reference(s, latest + 1))
        BY <2>2, <3>1
      <3>3. Put(saved[s], latest + 1, Reference(s, latest + 1))
              = [v \in DOMAIN saved[s] \cup {latest + 1} |-> Reference(s, v)]
        BY <1>7 DEF Put
      <3> QED
        BY <2>2, <3>1, <3>2, <3>3
    <2>4. /\ tree'[s] = TreeAt(s, latest + 1)
          /\ tree' = [t \in Iavl |-> tree'[t]]
          /\ \A t \in Iavl \ {s} : tree'[t] = tree[t]
      <3>1. tree[s] = [version |-> tree[s].version, contents |-> tree[s].contents]
        BY <1>4 DEF Written
      <3>2. tree'[s] = [tree[s] EXCEPT !.version = latest + 1]
        BY <1>2, <2>2
      <3>3. tree'[s] = TreeAt(s, latest + 1)
        BY <1>8, <3>1, <3>2 DEF TreeAt
      <3> QED
        BY <1>2, <2>2, <3>3
    <2>5. DOMAIN saved'[s] \in {Retained(s, latest) \cup {latest + 1}, Retained(s, latest + 1)}
      <3>1. DOMAIN saved[s] \in MayHold(s, latest)
        BY <1>1, <1>4 DEF DiskOK
      <3>2. latest + 1 \in Retained(s, latest + 1)
        BY <1>3, <1>4, RetainedFirst
      <3>3. DOMAIN saved'[s] = DOMAIN saved[s] \cup {latest + 1}
        BY <2>3
      <3> QED
        BY <3>1, <3>2, <3>3 DEF MayHold
    <2>6. DiskOK'
      <3>1. ASSUME NEW t \in Iavl
            PROVE  /\ saved'[t] = [v \in DOMAIN saved'[t] |-> Reference(t, v)]
                   /\ First(t) <= latest + 1 => DOMAIN saved'[t] \in MayHold(t, latest)
                   /\ First(t) > latest + 1 => DOMAIN saved'[t] = {}
        <4>1. CASE t = s
          <5>1. saved'[s] = [v \in DOMAIN saved'[s] |-> Reference(s, v)]
            BY <2>3
          <5> QED
            BY <1>1, <1>4, <2>5, <4>1, <5>1 DEF MayHold
        <4>2. CASE t # s
          BY <1>1, <2>3, <4>2 DEF DiskOK
        <4> QED
          BY <4>1, <4>2
      <3> QED
        BY <1>1, <2>3, <3>1 DEF DiskOK
    <2>7. ASSUME NEW t \in Iavl
          PROVE  Committing(t)'
      <3>1. CASE t = s
        BY <1>1, <1>4, <2>2, <2>4, <2>5, <3>1 DEF Committing
      <3>2. CASE t # s
        <4>1. tree'[t] = tree[t] /\ saved'[t] = saved[t]
          BY <2>3, <2>4, <3>2
        <4>2. pc # t /\ pc' # t /\ Committing(t)
          BY <1>1, <1>2, <2>2, <3>2, NoStoreNamed
        <4> QED
          BY <1>1, <4>1, <4>2 DEF Committing, Written
      <3> QED
        BY <3>1, <3>2
    <2>8. MemoryOK'
      BY <1>1, <1>2, <2>2, <2>4, <2>7, NoStoreNamed DEF MemoryOK
    <2> QED
      BY <2>6, <2>8 DEF IInv
  <1>9. CASE tree[s].contents # Reference(s, latest + 1)
    <2>1. /\ First(s) = latest + 1 /\ DOMAIN saved[s] = {latest + 1}
      BY <1>4, <1>9 DEF Written
    <2>2. ~SavesSame(s)
      BY <1>6, <1>7, <1>9, <2>1 DEF SavesSame
    <2>3. pc' = "panicked" /\ UNCHANGED <<saved, tree>>
      BY <2>2 DEF SaveVersion
    <2>4. ShouldSetStoreVersion(s)' /\ ~SavesSame(s)'
      <3>1. ShouldSetStoreVersion(s)'
        BY <1>1, <1>5, <2>1 DEF ShouldSetStoreVersion, Height
      <3>2. SavesSame(s)' <=> SavesSame(s)
        BY <1>1, <2>3 DEF SavesSame, NextVersion, ShouldSetStoreVersion, Height
      <3> QED
        BY <2>2, <3>1, <3>2
    <2>5. JoinTorn'
      BY <2>3, <2>4 DEF JoinTorn
    <2>6. DiskOK'
      BY <1>1, <2>3 DEF DiskOK
    <2>7. MemoryOK'
      BY <1>1, <1>2, <2>3, <2>5, NoStoreNamed DEF MemoryOK
    <2> QED
      BY <2>6, <2>7 DEF IInv
  <1> QED
    BY <1>8, <1>9

(* Pruning and the commit id end the commit of a store.                    *)
LEMMA PruneOK ==
    ASSUME IInv, NEW s \in Iavl, PruneVersion(s)
    PROVE  IInv'
  <1>1. /\ DiskOK /\ latest \in Nat \ {0} /\ pc = s /\ pc' = "commit"
        /\ UNCHANGED <<latest, infos, tree, lastCommit>> /\ todo' = todo \ {s}
        /\ First(s) \in Nat \ {0}
    BY FirstBlock DEF IInv, DiskOK, PruneVersion
  <1>2. /\ lastCommit = latest /\ s \in todo /\ \A t \in Iavl : Committing(t)
        /\ info = IDs(Joined(latest + 1) \ todo, latest + 1)
        /\ tree = [t \in Iavl |-> tree[t]]
    BY <1>1, NoStoreNamed DEF IInv, MemoryOK
  <1>3. /\ First(s) <= latest + 1 /\ tree[s] = TreeAt(s, latest + 1)
        /\ DOMAIN saved[s] \in {Retained(s, latest) \cup {latest + 1}, Retained(s, latest + 1)}
    BY <1>1, <1>2 DEF Committing
  <1>4. tree[s].version = latest + 1 /\ tree[s].contents = Reference(s, latest + 1)
    BY <1>3 DEF TreeAt
  <1>5. DOMAIN saved[s] \ ToRelease(latest + 1) = Retained(s, latest + 1)
    BY Zenon, <1>1, <1>3, PruneExact
  <1>6. /\ saved'[s] = [v \in DOMAIN saved[s] \ ToRelease(latest + 1) |-> saved[s][v]]
        /\ saved' = [t \in Iavl |-> saved'[t]]
        /\ \A t \in Iavl \ {s} : saved'[t] = saved[t]
    <2>1. saved = [t \in Iavl |-> saved[t]]
      BY <1>1 DEF DiskOK
    <2> QED
      BY <2>1, <1>4 DEF PruneVersion, Restrict
  <1>7. /\ DOMAIN saved'[s] = Retained(s, latest + 1)
        /\ saved'[s] = [v \in DOMAIN saved'[s] |-> Reference(s, v)]
    <2>1. \A v \in DOMAIN saved[s] : saved[s][v] = Reference(s, v)
      BY <1>1 DEF DiskOK
    <2> QED
      BY <1>5, <1>6, <2>1
  <1>8. DiskOK'
    <2>1. ASSUME NEW t \in Iavl
          PROVE  /\ saved'[t] = [v \in DOMAIN saved'[t] |-> Reference(t, v)]
                 /\ First(t) <= latest + 1 => DOMAIN saved'[t] \in MayHold(t, latest)
                 /\ First(t) > latest + 1 => DOMAIN saved'[t] = {}
      <3>1. CASE t = s
        BY <1>1, <1>3, <1>7, <3>1 DEF MayHold
      <3>2. CASE t # s
        BY <1>1, <1>6, <3>2 DEF DiskOK
      <3> QED
        BY <3>1, <3>2
    <2> QED
      BY <1>1, <1>6, <2>1 DEF DiskOK
  <1>9. ASSUME NEW t \in Iavl
        PROVE  Committing(t)'
    <2>1. CASE t = s
      BY <1>1, <1>3, <1>7, <2>1 DEF Committing
    <2>2. CASE t # s
      <3>1. tree'[t] = tree[t] /\ saved'[t] = saved[t] /\ (t \in todo' <=> t \in todo)
        BY <1>1, <1>6, <2>2
      <3>2. pc # t /\ pc' # t /\ Committing(t)
        BY <1>1, <1>2, <2>2, NoStoreNamed
      <3> QED
        BY <1>1, <3>1, <3>2 DEF Committing, Written
    <2> QED
      BY <2>1, <2>2
  <1>10. info' = IDs(Joined(latest + 1) \ todo', latest + 1)
    <2>1. info' = Put(info, s, [version |-> latest + 1, hash |-> Reference(s, latest + 1)])
      BY <1>4 DEF PruneVersion
    <2>2. Joined(latest + 1) \ todo' = (Joined(latest + 1) \ todo) \cup {s}
      BY <1>1, <1>2, <1>3 DEF Joined
    <2>3. DOMAIN info = Joined(latest + 1) \ todo
      BY <1>2 DEF IDs
    <2>4. \A t \in DOMAIN info : info[t] = [version |-> latest + 1, hash |-> Reference(t, latest + 1)]
      BY <1>2 DEF IDs
    <2> QED
      BY <2>1, <2>2, <2>3, <2>4 DEF Put, IDs
  <1>11. MemoryOK'
    BY <1>1, <1>2, <1>9, <1>10, NoStoreNamed DEF MemoryOK
  <1> QED
    BY <1>8, <1>11 DEF IInv

(* A transient store has no part in what is committed.                     *)
LEMMA TransientOK ==
    ASSUME IInv, NEW s \in Transient, CommitTransientStore(s)
    PROVE  IInv'
  <1>1. /\ DiskOK /\ latest \in Nat \ {0} /\ pc = "commit" /\ todo' = todo \ {s}
        /\ UNCHANGED <<latest, infos, saved, tree, lastCommit, info, pc>>
        /\ s \notin Iavl
    BY StoresAssumption DEF IInv, DiskOK, CommitTransientStore, disk
  <1>2. \A t \in Iavl : t \in todo' <=> t \in todo
    BY <1>1
  <1>3. ASSUME NEW t \in Iavl
        PROVE  Committing(t)'
    <2>1. Committing(t)
      BY <1>1 DEF IInv, MemoryOK
    <2> QED
      BY <1>1, <1>2, <2>1 DEF Committing, Written
  <1>4. Joined(latest + 1) \ todo' = Joined(latest + 1) \ todo
    BY <1>2 DEF Joined
  <1>5. info' = IDs(Joined(latest + 1) \ todo', latest + 1)
    <2>1. info = IDs(Joined(latest + 1) \ todo, latest + 1)
      BY <1>1 DEF IInv, MemoryOK
    <2> QED
      BY <1>1, <1>4, <2>1
  <1>6. DiskOK'
    BY <1>1 DEF DiskOK
  <1>7. MemoryOK'
    BY <1>1, <1>3, <1>5, NoStoreNamed DEF IInv, MemoryOK
  <1> QED
    BY <1>6, <1>7 DEF IInv

(* The root names the version that every store has committed.              *)
LEMMA RootOK ==
    ASSUME IInv, WriteRoot
    PROVE  IInv'
  <1>1. /\ DiskOK /\ latest \in Nat \ {0} /\ pc = "commit" /\ todo = {} /\ pc' = "idle"
        /\ UNCHANGED <<saved, tree, info>> /\ lastCommit' = latest'
    BY DEF IInv, DiskOK, WriteRoot, AllCommitted
  <1>2. /\ lastCommit = latest /\ \A t \in Iavl : Committing(t)
        /\ info = IDs(Joined(latest + 1) \ todo, latest + 1)
        /\ tree = [t \in Iavl |-> tree[t]]
    BY <1>1 DEF IInv, MemoryOK
  <1>3. latest' = latest + 1 /\ latest + 1 \in Nat \ {0}
    BY <1>1, <1>2 DEF WriteRoot, Height
  <1>4. infos' = [v \in 1..latest' |-> IDs(Joined(v), v)]
    <2>1. infos' = Put(infos, latest + 1, info)
      BY <1>2 DEF WriteRoot, Height
    <2>2. info = IDs(Joined(latest + 1), latest + 1)
      <3>1. Joined(latest + 1) \ todo = Joined(latest + 1)
        BY <1>1
      <3> QED
        BY <1>2, <3>1
    <2>3. infos = [v \in 1..latest |-> IDs(Joined(v), v)]
      BY <1>1 DEF DiskOK
    <2>4. 1..latest' = (1..latest) \cup {latest + 1}
      BY <1>1, <1>3
    <2> QED
      BY <2>1, <2>2, <2>3, <2>4 DEF Put
  <1>5. ASSUME NEW s \in Iavl
        PROVE  /\ Settled(s)'
               /\ DOMAIN saved[s] = Retained(s, latest + 1)
               /\ First(s) > latest + 1 => DOMAIN saved[s] = {}
    <2>1. Committing(s) /\ s \notin todo /\ First(s) \in Nat \ {0}
      BY <1>1, <1>2, FirstBlock
    <2>2. CASE First(s) <= latest + 1
      <3>1. tree[s] = TreeAt(s, latest + 1) /\ DOMAIN saved[s] = Retained(s, latest + 1)
        BY <1>1, <2>1, <2>2 DEF Committing
      <3> QED
        BY <1>1, <1>3, <2>1, <2>2, <3>1 DEF Settled
    <2>3. CASE First(s) > latest + 1
      <3>1. tree[s] = NoTree /\ DOMAIN saved[s] = {}
        BY <1>1, <2>1, <2>3 DEF Committing, DiskOK
      <3>2. Retained(s, latest + 1) = {}
        BY <1>3, <2>3, RetainedNone
      <3> QED
        BY <1>1, <1>3, <2>1, <2>3, <3>1, <3>2 DEF Settled, Outside
    <2> QED
      BY <1>1, <2>1, <2>2, <2>3
  <1>6. DiskOK'
    <2>1. ASSUME NEW s \in Iavl
          PROVE  /\ saved'[s] = [v \in DOMAIN saved'[s] |-> Reference(s, v)]
                 /\ First(s) <= latest' + 1 => DOMAIN saved'[s] \in MayHold(s, latest')
                 /\ First(s) > latest' + 1 => DOMAIN saved'[s] = {}
      <3>1. saved'[s] = [v \in DOMAIN saved'[s] |-> Reference(s, v)]
        BY <1>1 DEF DiskOK
      <3>2. DOMAIN saved'[s] \in MayHold(s, latest')
        BY <1>1, <1>3, <1>5 DEF MayHold
      <3>3. First(s) > latest' + 1 => DOMAIN saved'[s] = {}
        BY <1>1, <1>3, <1>5, FirstBlock
      <3> QED
        BY <3>1, <3>2, <3>3
    <2>2. saved' = [s \in Iavl |-> saved'[s]]
      BY <1>1 DEF DiskOK
    <2> QED
      BY <1>3, <1>4, <2>1, <2>2 DEF DiskOK
  <1>7. MemoryOK'
    BY <1>1, <1>2, <1>3, <1>5, NoStoreNamed DEF MemoryOK
  <1> QED
    BY <1>6, <1>7 DEF IInv

(* A crash loses memory and leaves the disk.                               *)
LEMMA CrashOK ==
    ASSUME IInv, Crash
    PROVE  IInv'
  <1>1. DiskOK'
    BY DEF IInv, DiskOK, Crash, disk
  <1>2. MemoryOK'
    BY NoStoreNamed DEF MemoryOK, Crash
  <1> QED
    BY <1>1, <1>2 DEF IInv

LEMMA StepOK ==
    ASSUME KeepsLast, IInv, [Next]_vars
    PROVE  IInv'
  <1>1. CASE UNCHANGED vars
    <2>1. UNCHANGED <<latest, infos, saved, tree, lastCommit, pc, todo, info>>
      BY <1>1 DEF vars, disk, memory
    <2>2. DiskOK'
      BY <2>1 DEF IInv, DiskOK
    <2>3. \A s \in Iavl : (Settled(s)' <=> Settled(s)) /\ (Committing(s)' <=> Committing(s))
      BY <2>1 DEF Settled, Outside, Committing, Written
    <2>4. JoinTorn' <=> JoinTorn
      BY <2>1 DEF JoinTorn, ShouldSetStoreVersion, SavesSame, NextVersion, Height
    <2>5. MemoryOK'
      BY <2>1, <2>3, <2>4 DEF IInv, MemoryOK
    <2> QED
      BY <2>2, <2>5 DEF IInv
  <1> QED
    BY <1>1, LoadOK, ExecuteOK, SaveOK, PruneOK, TransientOK, RootOK, CrashOK, Zenon DEF Next, Work

(* The invariant of the commit, the crash and the load.                    *)
THEOREM CommitInvariant ==
    ASSUME KeepsLast, Started
    PROVE  Spec => []IInv
  <1>1. Init => IInv
    BY StartOK
  <1>2. IInv /\ [Next]_vars => IInv'
    BY StepOK
  <1> QED
    BY <1>1, <1>2, PTL DEF Spec

(* Wherever the process crashed in rootMultiStore.Commit, LoadLatestVersion *)
(* loads the stores of the last committed block, and every CommitInfo has   *)
(* the commit ids that every node computes.                                 *)
THEOREM CrashRecovered ==
    ASSUME KeepsLast, Started
    PROVE  Spec => []RecoversCommitted
  <1>1. ASSUME IInv
        PROVE  RecoversCommitted
    <2>1. DiskOK /\ MemoryOK /\ latest \in Nat \ {0}
      BY <1>1 DEF IInv, DiskOK
    <2>2. pc # "failed" /\ (pc = "panicked" => JoinTorn)
      BY <2>1, NoStoreNamed DEF MemoryOK
    <2>3. ASSUME NEW v \in DOMAIN infos
          PROVE  infos[v] = CommitIDs(v)
      <3>1. v \in Nat \ {0} /\ infos[v] = IDs(Joined(v), v)
        BY <2>1 DEF DiskOK
      <3>2. Committed(v) = Joined(v)
        BY <3>1, CommittedIs DEF Committed, Joined
      <3> QED
        BY <3>1, <3>2, Zenon DEF CommitIDs, IDs
    <2>4. ASSUME pc = "idle", NEW s \in Committed(lastCommit)
          PROVE  tree[s] = [version |-> lastCommit, contents |-> Reference(s, lastCommit)]
      <3>1. lastCommit = latest /\ Settled(s) /\ s \in Iavl
        BY <2>1, <2>4 DEF MemoryOK, Committed
      <3>2. First(s) <= latest
        BY <2>1, <3>1, CommittedIs DEF Committed
      <3> QED
        BY <3>1, <3>2 DEF Settled, TreeAt
    <2> QED
      BY <2>2, <2>3, <2>4, Zenon DEF RecoversCommitted
  <1> QED
    BY <1>1, CommitInvariant, PTL

(* Between two blocks the IAVL stores hold exactly the versions that        *)
(* IavlStore.Commit is to retain, and rootMultiStore.Query without a height *)
(* proves its answer under a root that commits to it.                       *)
THEOREM RetainedExactly ==
    ASSUME KeepsLast, Started
    PROVE  Spec => []PrunedExactly
  <1>1. ASSUME IInv, pc = "idle"
        PROVE  DiskOK /\ latest \in Nat \ {0} /\ lastCommit = latest
    BY <1>1 DEF IInv, DiskOK, MemoryOK
  <1>2. ASSUME IInv, pc = "idle", info # Nothing, NEW s \in Iavl
        PROVE  DOMAIN saved[s] = IF lastCommit < First(s) THEN {} ELSE Retained(s, lastCommit)
    <2>1. DOMAIN saved[s] = Retained(s, latest)
      BY <1>2 DEF IInv, MemoryOK
    <2> QED
      BY <1>1, <1>2, <2>1, RetainedNone, FirstBlock
  <1>3. ASSUME IInv, pc = "idle", NEW s \in Committed(lastCommit)
        PROVE  LET answer == Query(s, GetHeight(s))
               IN  answer.kind = "proof" /\ answer.hash = answer.root
    <2>1. /\ s \in Iavl /\ First(s) \in Nat \ {0} /\ First(s) <= latest
          /\ tree[s] = TreeAt(s, latest)
      <3>1. s \in Iavl /\ First(s) <= latest
        BY <1>1, <1>3, CommittedIs DEF Committed
      <3> QED
        BY <1>3, <3>1, FirstBlock DEF IInv, MemoryOK, Settled
    <2>2. latest \in DOMAIN saved[s]
      BY <1>1, <1>3, <2>1, Left
    <2> DEFINE h == GetHeight(s)
    <2>3. tree[s].version = latest
      BY <2>1 DEF TreeAt
    <2>4. h \in DOMAIN saved[s] /\ h \in {latest - 1, latest}
      BY <2>2, <2>3 DEF GetHeight
    <2> HIDE DEF h
    <2>5. \A v \in DOMAIN saved[s] : v \in First(s)..(latest + 1)
      <3>1. DOMAIN saved[s] \in MayHold(s, latest)
        BY <1>1, <1>3, <2>1 DEF DiskOK
      <3>2. /\ Retained(s, latest) \subseteq First(s)..latest
            /\ Retained(s, latest + 1) \subseteq First(s)..(latest + 1)
        BY <1>1, <1>3, <2>1, RetainedFirst
      <3> QED
        BY <1>1, <1>3, <2>1, <3>1, <3>2 DEF MayHold
    <2>6. h \in 1..latest /\ First(s) <= h /\ h \in Nat
      BY <1>1, <1>3, <2>1, <2>4, <2>5
    <2>7. StoreQuery(s, h) = Reference(s, h) /\ Reference(s, h) # NoProof
      <3>1. saved[s][h] = Reference(s, h)
        BY <1>1, <1>3, <2>1, <2>4 DEF DiskOK
      <3> QED
        BY <2>1, <2>4, <2>6, <3>1, ReferenceSome DEF StoreQuery, NoProof
    <2>8. h \in DOMAIN infos /\ infos[h][s].hash = Reference(s, h)
      <3>1. h \in DOMAIN infos /\ infos[h] = IDs(Joined(h), h)
        BY <1>1, <1>3, <2>6 DEF DiskOK
      <3>2. s \in Joined(h)
        BY <2>1, <2>6 DEF Joined
      <3> QED
        BY <3>1, <3>2 DEF IDs
    <2>9. Query(s, h) = [kind |-> "proof", hash |-> Reference(s, h), root |-> Reference(s, h)]
      BY <2>7, <2>8 DEF Query
    <2> QED
      BY <2>9 DEF h
  <1>4. IInv => PrunedExactly
    BY <1>2, <1>3, Zenon DEF PrunedExactly
  <1> QED
    BY <1>4, CommitInvariant, PTL
=============================================================================
