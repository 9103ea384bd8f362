----------------------------- MODULE StateSync ------------------------------
(***************************************************************************)
(* State sync (store/statesync_helper.go): a node cuts the stores of a     *)
(* height into chunks (takeSnapshotImpl), another one gets them in any     *)
(* order, puts the nodes of the trees together (WriteRecoveryChunk) and    *)
(* goes on from that height as if it had committed it.                     *)
(*                                                                         *)
(* The nodes of all stores are numbered in one sequence, store after store *)
(* in the order of their names and root first.  A node is its number and   *)
(* its size, a part of one is the range of its bytes.  The manifest, the   *)
(* delivery of the chunks and the node database are of Tendermint and of   *)
(* the IAVL library: a chunk comes once in each recovery, and a recovery   *)
(* may be started again, after a crash or in the same process.             *)
(***************************************************************************)
EXTENDS MultiStore, SequencesExt, TLC

CONSTANTS
    StoreNames,     \* the IAVL stores sorted by name
    Layouts,        \* for each store, the sizes of its nodes: the snapshots to sync
    PayloadMax,     \* ChunkPayloadMaxBytes
    FlushEvery,     \* chunksToFlushBatch
    MaxRecoveries   \* bound: recoveries that are started again

ASSUME SyncAssumption ==
    /\ ToSet(StoreNames) = Iavl /\ Layouts \subseteq [Iavl -> Seq(Nat \ {0})]
    /\ PayloadMax \in Nat \ {0} /\ FlushEvery \in Nat \ {0} /\ MaxRecoveries \in Nat

VARIABLES
    snapshot,    \* the snapshot of another node, with its manifest
    sync         \* the StateSyncHelper, and the nodes in the database

syncVars == <<vars, snapshot, sync>>

(* getCommitedSortedStoreKeys at the height of the manifest.               *)
StoreKeys == SelectSeq(StoreNames, LAMBDA s : ShouldCommitStoreAt(s, StartVersion))

NumKeys(layout) == [i \in DOMAIN StoreKeys |-> Len(layout[StoreKeys[i]])]

SizesOf(layout) == FlattenSeq([i \in DOMAIN StoreKeys |-> layout[StoreKeys[i]]])

-----------------------------------------------------------------------------
(* takeSnapshotImpl: nodes are gathered up to the payload of a chunk.  The *)
(* one that does not fit closes the chunk, and is itself cut into parts    *)
(* when it is larger than a chunk.                                         *)
Chunk(start, completeness, parts) ==
    [start |-> start, completeness |-> completeness, parts |-> parts]

Part(node, from, to) == [node |-> node, from |-> from, to |-> to]

LowerOf(x, y) == IF x < y THEN x ELSE y

Cuts(size) == (size + PayloadMax - 1) \div PayloadMax

CutNode(node, size) ==
    [i \in 1..Cuts(size) |->
        Chunk(node,
              IF i = 1 THEN "First" ELSE IF i = Cuts(size) THEN "Last" ELSE "Mid",
              <<Part(node, (i - 1) * PayloadMax, LowerOf(i * PayloadMax, size))>>)]

AddNode(t, size) ==
    LET whole == Part(t.node, 0, size)
        closed == [t EXCEPT !.chunks = Append(@, Chunk(t.start, "Complete", t.parts)),
                            !.start = @ + Len(t.parts), !.parts = <<>>, !.bytes = 0,
                            !.node = @ + 1]
    IN  IF t.bytes + size <= PayloadMax
          THEN [t EXCEPT !.parts = Append(@, whole), !.bytes = @ + size, !.node = @ + 1]
        ELSE IF size > PayloadMax
          THEN [closed EXCEPT !.chunks = @ \o CutNode(t.node, size), !.start = t.node + 1]
        ELSE [closed EXCEPT !.parts = <<whole>>, !.bytes = size]

ChunksOf(sizes) ==
    LET t == FoldLeft(AddNode, [chunks |-> <<>>, parts |-> <<>>, start |-> 0, bytes |-> 0, node |-> 0],
                      sizes)
    IN  IF t.parts = <<>> THEN t.chunks ELSE Append(t.chunks, Chunk(t.start, "Complete", t.parts))

TakeSnapshot(layout) ==
    [sizes |-> SizesOf(layout), numKeys |-> NumKeys(layout), chunks |-> ChunksOf(SizesOf(layout))]

Sizes == snapshot.sizes
Chunks == snapshot.chunks

-----------------------------------------------------------------------------
(* StartRecovery: the range of nodes of each store.                        *)
StartIdx(i) == FoldLeft(+, 0, SubSeq(snapshot.numKeys, 1, i - 1))
EndIdx(i) == StartIdx(i) + snapshot.numKeys[i]

StartRecovery(q) ==
    [q EXCEPT !.left = DOMAIN Chunks, !.incomplete = {}, !.infos = <<>>]

(* saveNode: a node goes to the first store whose range ends after it.     *)
BelongsFirst(n, i) == n <= EndIdx(i)

Belongs(n, i) == n < EndIdx(i)

saveNode(q, n) ==
    LET fits == {i \in DOMAIN StoreKeys : Belongs(n, i)}
        i == Min(fits)
    IN  IF fits = {} THEN q
        ELSE [q EXCEPT !.batch = @ \union {<<StoreKeys[i], n>>},
                       !.infos = IF n = StartIdx(i) THEN Append(@, StoreKeys[i]) ELSE @]

flushBatch(q) == [q EXCEPT !.db = @ \union q.batch, !.batch = {}]

(* The complete nodes of a chunk are saved at once, under the numbers that *)
(* follow from its start; the parts of an incomplete one are kept.         *)
CompleteParts(c) ==
    CASE c.completeness = "Complete" -> Len(c.parts)
      [] c.completeness = "First" -> Len(c.parts) - 1
      [] OTHER -> 0

Incomplete(i) ==
    LET c == Chunks[i]
        at == IF c.completeness = "First" THEN Len(c.parts) ELSE 1
    IN  IF c.completeness = "Complete" THEN {}
        ELSE {[node |-> c.start + at - 1, chunk |-> i, completeness |-> c.completeness,
               part |-> c.parts[at]]}

Flushes(n) == n % FlushEvery = 0

WriteChunk(q, i) ==
    LET c == Chunks[i]
        nodes == FoldLeft(LAMBDA r, j : saveNode(r, c.start + j - 1), q,
                          [j \in 1..CompleteParts(c) |-> j])
        written == [nodes EXCEPT !.incomplete = @ \union Incomplete(i), !.left = @ \ {i},
                                 !.synced = (@ + 1) % FlushEvery]
    IN  IF c.parts = <<>> THEN [q EXCEPT !.phase = "failed"]
        ELSE IF Flushes(written.synced) THEN flushBatch(written) ELSE written

(* saveIncompleteChunks: the parts of a node, by the number of their       *)
(* chunks, must be a first one, middle ones and a last one without a gap.  *)
PartsOf(q, n) ==
    SetToSortSeq({x \in q.incomplete : x.node = n}, LAMBDA x, y : x.chunk < y.chunk)

Expected(j, len) == IF j = 1 THEN "First" ELSE IF j = len THEN "Last" ELSE "Mid"

InOneRow(p) ==
    /\ p[Len(p)].chunk - p[1].chunk + 1 = Len(p)
    /\ \A j \in DOMAIN p : p[j].completeness = Expected(j, Len(p))

(* MakeNode takes the bytes only if they are those of the node.            *)
Makes(p, n) ==
    /\ p[1].part.from = 0 /\ p[Len(p)].part.to = Sizes[n + 1]
    /\ \A j \in DOMAIN p : p[j].part.node = n /\ (j > 1 => p[j].part.from = p[j - 1].part.to)

saveIncompleteChunks(q) ==
    LET nodes == {x.node : x \in q.incomplete}
    IN  IF \A n \in nodes : InOneRow(PartsOf(q, n)) /\ Makes(PartsOf(q, n), n)
          THEN FoldSet(LAMBDA n, r : saveNode(r, n), q, nodes)
          ELSE [q EXCEPT !.phase = "failed"]

Empties == {StoreKeys[i] : i \in {j \in DOMAIN StoreKeys : snapshot.numKeys[j] = 0}}

prepareEmptyStores(q) ==
    [q EXCEPT !.infos = @ \o SetToSeq(Empties)]

finishCompleteChunkWrite(q) ==
    LET r == saveIncompleteChunks(prepareEmptyStores(q))
    IN  IF r.phase = "failed" THEN r ELSE [flushBatch(r) EXCEPT !.phase = "done"]

-----------------------------------------------------------------------------
(* The trees the database then holds under the version of the manifest.    *)
NodesOf(i) == StartIdx(i)..(EndIdx(i) - 1)

Whole(q, i) == \A n \in NodesOf(i) : <<StoreKeys[i], n>> \in q.db

Torn == <<0>>

SyncedTree(q, s) ==
    IF \E i \in DOMAIN StoreKeys : StoreKeys[i] = s /\ s \in ToSet(q.infos)
      THEN StartVersion :> IF \E i \in DOMAIN StoreKeys : StoreKeys[i] = s /\ Whole(q, i)
                             THEN Reference(s, StartVersion) ELSE Torn
      ELSE Nothing

(* commitDB writes the root of the height, and BaseApp loads it.           *)
Recover(q) ==
    /\ sync' = q
    /\ IF q.phase # "done" THEN UNCHANGED <<disk, pc>>
       ELSE /\ latest' = StartVersion
            /\ infos' = StartVersion :> [s \in ToSet(q.infos) |->
                          [version |-> StartVersion, hash |-> Reference(s, StartVersion)]]
            /\ saved' = [s \in Iavl |-> SyncedTree(q, s)]
            /\ pc' = "down"
    /\ UNCHANGED <<memory, crashes, snapshot>>

(* The last chunk may say that it is the last, or a call without a chunk   *)
(* follows.                                                                *)
WriteRecoveryChunk ==
    /\ pc = "syncing" /\ sync.phase = "running"
    /\ \/ \E i \in sync.left, isComplete \in BOOLEAN :
            /\ isComplete => sync.left = {i}
            /\ \E q \in {WriteChunk(sync, i)} :
                Recover(IF isComplete /\ q.phase # "failed" THEN finishCompleteChunkWrite(q) ELSE q)
       \/ sync.left = {} /\ Recover(finishCompleteChunkWrite(sync))

(* The recovery starts again; a crash loses what was not flushed.          *)
RecoverAgain ==
    /\ pc = "syncing" /\ sync.phase = "running" /\ sync.again < MaxRecoveries
    /\ \E batch \in {sync.batch, {}} :
        sync' = StartRecovery([sync EXCEPT !.again = @ + 1, !.batch = batch])
    /\ UNCHANGED <<vars, snapshot>>

-----------------------------------------------------------------------------
(* A node that has its first blocks from the chain, or from state sync.    *)
NoSync == [phase |-> "off", left |-> {}, incomplete |-> {}, infos |-> <<>>, batch |-> {},
           db |-> {}, synced |-> 0, again |-> 0]

SyncInit ==
    \/ Init /\ sync = NoSync /\ snapshot = TakeSnapshot([s \in Iavl |-> <<>>])
    \/ /\ snapshot \in {TakeSnapshot(layout) : layout \in Layouts}
       /\ sync = StartRecovery([NoSync EXCEPT !.phase = "running"])
       /\ latest = 0 /\ infos = Nothing /\ saved = [s \in Iavl |-> Nothing]
       /\ tree = [s \in Iavl |-> [version |-> 0, contents |-> <<>>]]
       /\ transient = [s \in Transient |-> <<>>]
       /\ lastCommit = 0 /\ todo = {} /\ info = Nothing
       /\ pc = "syncing" /\ crashes = 0

SyncNext ==
    \/ WriteRecoveryChunk \/ RecoverAgain
    \/ pc # "syncing" /\ Next /\ UNCHANGED <<snapshot, sync>>

(* Chunks go on arriving, and the node goes on working.                    *)
SyncSpec ==
    /\ SyncInit /\ [][SyncNext]_syncVars
    /\ WF_syncVars(WriteRecoveryChunk)
    /\ WF_syncVars(pc # "syncing" /\ Work /\ UNCHANGED <<snapshot, sync>>)

-----------------------------------------------------------------------------
(* Whatever the order of the chunks, the cuts through large nodes, the     *)
(* chunks that span two stores, the empty stores and the recoveries that   *)
(* were broken off: a finished recovery has every node of the snapshot in  *)
(* its own store and none in another, and names every store of the height  *)
(* once in the CommitInfo.  It fails only on a chunk without nodes, which  *)
(* takeSnapshotImpl writes when a node larger than a chunk follows another *)
(* or comes first.                                                         *)
SyncedWhole ==
    /\ sync.phase = "done" =>
        /\ sync.db = {<<StoreKeys[i], n>> : <<i, n>> \in
                        {p \in (DOMAIN StoreKeys) \X (0..Len(Sizes)) : p[2] \in NodesOf(p[1])}}
        /\ Len(sync.infos) = Len(StoreKeys) /\ ToSet(sync.infos) = ToSet(StoreKeys)
    /\ sync.phase = "failed" =>
        \E i \in DOMAIN Sizes : Sizes[i] > PayloadMax /\ (i = 1 \/ Sizes[i - 1] > PayloadMax)

(* Neither crashes nor recoveries that are broken off stop the node,       *)
(* unless a store's first commit was torn or the snapshot has a chunk      *)
(* without nodes.                                                          *)
ReachesLastBlock == <>(latest = MaxVersion \/ JoinTorn \/ sync.phase = "failed")
=============================================================================
