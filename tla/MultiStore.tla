----------------------------- MODULE MultiStore -----------------------------
(***************************************************************************)
(* The root multistore (store/rootmultistore.go) over its IAVL stores      *)
(* (store/iavlstore.go) and transient stores: how a commit is spread over  *)
(* several writes to the database, what a crash between two of them        *)
(* leaves behind, what LoadLatestVersion makes of it, which versions       *)
(* pruning retains, and which versions a query can prove.                  *)
(*                                                                         *)
(* The contents of a store are the sequence of the block heights executed  *)
(* on it, which stands for its key-value pairs and for its root hash: two  *)
(* stores have one hash iff the same blocks were executed on them.  Every  *)
(* block writes every active store, reading what it overwrites.            *)
(***************************************************************************)
EXTENDS Integers, Sequences, FiniteSetsExt, Functions

CONSTANTS
    Iavl,            \* the mounted stores of type StoreTypeIAVL
    Transient,       \* the mounted stores of type StoreTypeTransient
    StoreKeyHeight,  \* UpgradeMgr.Config.StoreKeyMap, 0 for a store in no upgrade
    NumRecent,       \* IavlStore.numRecent as SetPruning leaves it
    StoreEvery,      \* IavlStore.storeEvery as SetPruning leaves it
    StartVersion,    \* the commits completed before the model starts
    MaxVersion,      \* bound: blocks executed up to this height
    MaxCrashes       \* bound: crashes of the process

Stores == Iavl \cup Transient

ASSUME StoresAssumption ==
    /\ Iavl \cap Transient = {}
    /\ Stores \cap {"down", "idle", "commit", "failed", "panicked"} = {}
    /\ StoreKeyHeight \in [Stores -> Nat]
    /\ NumRecent \in Nat /\ StoreEvery \in Nat
    /\ StartVersion \in Nat /\ MaxVersion \in Nat /\ MaxCrashes \in Nat

VARIABLES
    latest,      \* s/latest: the version LoadLatestVersion loads
    infos,       \* s/<version>: CommitInfo, the commit ids of the stores
    saved,       \* the versions in each IAVL store's database
    tree,        \* the loaded trees: version and working contents
    transient,   \* the contents of the transient stores
    lastCommit,  \* rs.lastCommitID.Version
    pc,          \* what the process is doing
    todo,        \* commitStores: the stores left to commit
    info,        \* commitStores: the commit ids collected so far
    crashes

disk == <<latest, infos, saved>>
memory == <<tree, transient, lastCommit, todo, info>>
vars == <<disk, memory, pc, crashes>>

Nothing == [x \in {} |-> x]

Put(f, k, x) == [y \in DOMAIN f \cup {k} |-> IF y = k THEN x ELSE f[y]]

(* UpgradeMgr.GetHeight() while a block is executed and committed.         *)
Height == lastCommit + 1

ShouldCommitStoreAt(s, h) == StoreKeyHeight[s] = 0 \/ h >= StoreKeyHeight[s]

ShouldCommitStore(s) == ShouldCommitStoreAt(s, Height)

ShouldSetStoreVersion(s) == StoreKeyHeight[s] # 0 /\ Height = StoreKeyHeight[s]

-----------------------------------------------------------------------------
(* The contents a store has once the blocks up to v are executed on it:    *)
(* what every node of the chain agrees on.                                 *)
First(s) == IF StoreKeyHeight[s] = 0 THEN 1 ELSE StoreKeyHeight[s]

Reference(s, v) == [i \in 1..(v - First(s) + 1) |-> First(s) + i - 1]

(* The tree LoadIAVLStore loads.  MutableTree.LoadVersion(0) loads the     *)
(* latest version saved in the store's database, not an empty tree.        *)
LatestSaved(s) == Max(DOMAIN saved[s] \cup {0})

LoadTarget(s, v) == IF v = 0 THEN LatestSaved(s) ELSE v

Loadable(s, v) == v = 0 \/ v \in DOMAIN saved[s]

Loaded(s, v) ==
    LET w == LoadTarget(s, v)
    IN  [version |-> w, contents |-> IF w = 0 THEN <<>> ELSE saved[s][w]]

(* Commit: the version to release, if it is not a sync waypoint.           *)
ToReleaseOneMore(v) ==
    LET r == v - NumRecent
    IN  IF NumRecent < v /\ (StoreEvery = 0 \/ r % StoreEvery # 0)
          THEN {r} ELSE {}

ToReleaseWaypoints(v) == IF NumRecent < v - 1 THEN {v - 1 - NumRecent} ELSE {}

ToRelease(v) ==
    LET r == v - 1 - NumRecent
    IN  IF NumRecent < v - 1 /\ (StoreEvery = 0 \/ r % StoreEvery # 0)
          THEN {r} ELSE {}

(* The versions pruning leaves once version v is committed.                *)
Retained(s, v) ==
    {w \in First(s)..v : w >= v - NumRecent \/ (StoreEvery # 0 /\ w % StoreEvery = 0)}

-----------------------------------------------------------------------------
(* A node whose first StartVersion blocks were committed without a crash,  *)
(* and which was then restarted.                                           *)
Committed(v) == {s \in Iavl : ShouldCommitStoreAt(s, v)}

CommitIDs(v) == [s \in Committed(v) |-> [version |-> v, hash |-> Reference(s, v)]]

Init ==
    /\ latest = StartVersion
    /\ infos = [v \in 1..StartVersion |-> CommitIDs(v)]
    /\ saved = [s \in Iavl |->
                   [v \in Retained(s, StartVersion) |-> Reference(s, v)]]
    /\ tree = [s \in Iavl |-> [version |-> 0, contents |-> <<>>]]
    /\ transient = [s \in Transient |-> <<>>]
    /\ lastCommit = 0
    /\ todo = {}
    /\ info = Nothing
    /\ pc = "down"
    /\ crashes = 0

(* LoadVersion: the commit id of a store that the CommitInfo does not name *)
(* is the zero CommitID, so that its latest saved version is loaded.       *)
IDVersion(s, v) ==
    IF v # 0 /\ s \in DOMAIN infos[v] THEN infos[v][s].version ELSE 0

(* LoadLatestVersion at startup; an error ends the process.                *)
LoadLatestVersion ==
    /\ pc = "down"
    /\ IF \A s \in Iavl : Loadable(s, IDVersion(s, latest))
         THEN /\ tree' = [s \in Iavl |-> Loaded(s, IDVersion(s, latest))]
              /\ transient' = [s \in Transient |-> <<>>]
              /\ lastCommit' = latest
              /\ pc' = "idle"
         ELSE /\ pc' = "failed"
              /\ UNCHANGED <<tree, transient, lastCommit>>
    /\ UNCHANGED <<disk, todo, info, crashes>>

(* The next block: the writes of its transactions reach the stores when    *)
(* the deliver state is written, at the start of BaseApp.Commit; the       *)
(* stores are committed next, in the order of a Go map.                    *)
Execute ==
    /\ pc = "idle"
    /\ lastCommit < MaxVersion
    /\ tree' = [s \in Iavl |->
                  IF ShouldCommitStore(s)
                    THEN [tree[s] EXCEPT !.contents = Append(@, Height)]
                    ELSE tree[s]]
    /\ transient' = [s \in Transient |-> Append(transient[s], Height)]
    /\ todo' = {s \in Stores : ShouldCommitStore(s)}
    /\ info' = Nothing
    /\ pc' = "commit"
    /\ UNCHANGED <<disk, lastCommit, crashes>>

(* MutableTree.SaveVersion after SetVersion(version - 1) where the code    *)
(* calls it.  Saving a version that exists succeeds iff the hash is the    *)
(* one already saved; otherwise IavlStore.Commit panics.                   *)
NextVersion(s) == IF ShouldSetStoreVersion(s) THEN Height ELSE tree[s].version + 1

SavesSameNever(s) == NextVersion(s) \notin DOMAIN saved[s]

SavesSame(s) ==
    NextVersion(s) \in DOMAIN saved[s]
       => saved[s][NextVersion(s)] = tree[s].contents

SaveVersion(s) ==
    /\ pc = "commit"
    /\ s \in todo \cap Iavl
    /\ IF SavesSame(s)
         THEN /\ saved' = [saved EXCEPT ![s] = Put(@, NextVersion(s), tree[s].contents)]
              /\ tree' = [tree EXCEPT ![s].version = NextVersion(s)]
              /\ pc' = s
         ELSE pc' = "panicked" /\ UNCHANGED <<saved, tree>>
    /\ UNCHANGED <<latest, infos, transient, lastCommit, todo, info, crashes>>

(* The rest of IavlStore.Commit and of the loop body of commitStores:      *)
(* DeleteVersion, a second write to the database (a version that does not  *)
(* exist is ignored), and the commit id.                                   *)
PruneVersion(s) ==
    /\ pc = s
    /\ saved' = [saved EXCEPT ![s] =
                   Restrict(@, DOMAIN @ \ ToRelease(tree[s].version))]
    /\ info' = Put(info, s, [version |-> tree[s].version, hash |-> tree[s].contents])
    /\ todo' = todo \ {s}
    /\ pc' = "commit"
    /\ UNCHANGED <<latest, infos, tree, transient, lastCommit, crashes>>

(* transientStore.Commit: a new database, and no commit id recorded.       *)
CommitTransient(s) == <<>>

CommitTransientStore(s) ==
    /\ pc = "commit"
    /\ s \in todo \cap Transient
    /\ transient' = [transient EXCEPT ![s] = CommitTransient(s)]
    /\ todo' = todo \ {s}
    /\ UNCHANGED <<disk, tree, lastCommit, info, pc, crashes>>

(* The root: CommitInfo and s/latest in one batch.                         *)
AllCommitted == todo = {}

WriteRoot ==
    /\ pc = "commit"
    /\ AllCommitted
    /\ infos' = Put(infos, Height, info)
    /\ latest' = Height
    /\ lastCommit' = Height
    /\ pc' = "idle"
    /\ UNCHANGED <<saved, tree, transient, todo, info, crashes>>

(* getHeight: the version a query without a height reads, for which the    *)
(* header of the next block already has the root.                          *)
GetHeight(s) ==
    IF tree[s].version - 1 \in DOMAIN saved[s]
      THEN tree[s].version - 1 ELSE tree[s].version

(* IavlStore.Query: the value at a version, or a result without a proof    *)
(* when the store does not hold that version.                              *)
NoProof == <<>>

StoreQuery(s, h) == IF h \in DOMAIN saved[s] THEN saved[s][h] ELSE NoProof

(* rootMultiStore.Query appends to the store's proof the commit id that    *)
(* the root of that version has for the store: an error if there is no     *)
(* such root, a nil dereference if the store gave no proof.                *)
Query(s, h) ==
    CASE h \notin DOMAIN infos -> [kind |-> "error"]
      [] h \in DOMAIN infos /\ StoreQuery(s, h) = NoProof -> [kind |-> "panic"]
      [] OTHER -> [kind |-> "proof", hash |-> StoreQuery(s, h), root |-> infos[h][s].hash]

(* The process dies; what is on disk stays.                                *)
Crash ==
    /\ pc \notin {"down", "failed", "panicked"}
    /\ crashes < MaxCrashes
    /\ crashes' = crashes + 1
    /\ pc' = "down"
    /\ tree' = [s \in Iavl |-> [version |-> 0, contents |-> <<>>]]
    /\ transient' = [s \in Transient |-> <<>>]
    /\ lastCommit' = 0
    /\ todo' = {}
    /\ info' = Nothing
    /\ UNCHANGED disk

Work ==
    \/ LoadLatestVersion
    \/ Execute
    \/ \E s \in Iavl : SaveVersion(s) \/ PruneVersion(s)
    \/ \E s \in Transient : CommitTransientStore(s)
    \/ WriteRoot

Next == Work \/ Crash

Spec == Init /\ [][Next]_vars /\ WF_vars(Work)

-----------------------------------------------------------------------------
(* The commit of a store that joins at this height was interrupted: the    *)
(* CommitInfo does not name the store, so LoadVersion has loaded the       *)
(* version it saved, and committing the block on top of that has panicked. *)
JoinTorn ==
    /\ pc = "panicked"
    /\ \E s \in Iavl : ShouldSetStoreVersion(s) /\ ~SavesSame(s)

(* Wherever the process crashed in a commit, LoadLatestVersion finds in    *)
(* every store the version that s/latest names, and between two blocks the *)
(* loaded stores are those of the last committed block: one that a torn    *)
(* commit left a version ahead is loaded at the version of the root, and   *)
(* one that joined at an upgrade has the version of the others.  Executing *)
(* the block again neither panics on a version saved with another hash nor *)
(* records a commit id other than the one every node computes for it; the  *)
(* exception is a torn commit of a store that joins at that height.        *)
RecoversCommitted ==
    /\ pc # "failed"
    /\ pc = "panicked" => JoinTorn
    /\ \A v \in DOMAIN infos : infos[v] = CommitIDs(v)
    /\ pc = "idle" =>
          \A s \in Committed(lastCommit) :
             tree[s] = [version |-> lastCommit, contents |-> Reference(s, lastCommit)]

(* Between two blocks of a process that has committed since it started, a  *)
(* store holds the NumRecent versions before the last, the waypoints and   *)
(* the last one, and nothing else: a crash loses none and leaks none.  And *)
(* once there is a commit, a query that names no version is answered with  *)
(* a value under a root that commits to it, whatever pruning and upgrades  *)
(* have left.  (Queries hold the read lock, so none runs in a commit.)     *)
PrunedExactly ==
    /\ (pc = "idle" /\ info # Nothing) =>
       \A s \in Iavl :
          DOMAIN saved[s] = IF lastCommit < First(s) THEN {} ELSE Retained(s, lastCommit)
    /\ (pc = "idle" /\ lastCommit > 0) =>
       \A s \in Committed(lastCommit) :
          LET answer == Query(s, GetHeight(s))
          IN  answer.kind = "proof" /\ answer.hash = answer.root
=============================================================================
