-------------------------------- MODULE MyFS --------------------------------
(***************************************************************************)
(* The file system of src/myFUSE: i-nodes, bitmap, super block and one flat *)
(* directory kept in memory and written through to a backup file.          *)
(*                                                                         *)
(* FUSE runs with -s, as in the program's usage text, so a callback is one *)
(* action.  What the kernel and libfuse do in front of the callbacks is    *)
(* part of the guards: a name is looked up (my_getattr) first, directories *)
(* are not opened or unlinked, and a file that is open is not unlinked     *)
(* (libfuse would rename it, and there is no rename).                      *)
(***************************************************************************)
EXTENDS Integers, FiniteSets, SequencesExt

CONSTANTS
    Names,            \* file names that fit MAX_LEN_FILE_NAME
    NumNodes,         \* MAX_NODES
    NumEntries,       \* MAX_FILES_PER_DIRECTORY
    NumBits,          \* NUM_BITS, entries of the bitmap
    DiskBlocks,       \* diskSizeInBlocks
    FirstData,        \* blocks of the super block, bitmap, directory and i-nodes
    BlockSize,        \* BLOCK_SIZE_BYTES
    MaxSize,          \* bound: the largest size asked for (MAX_BLOCKS_PER_FILE blocks
                      \* at most: the code does not check that limit)
    MaxWrite,         \* bound: bytes of a write
    MaxOpen           \* bound: files open at the same time

ASSUME FSAssumption ==
    /\ NumNodes \in Nat \ {0} /\ NumEntries \in Nat \ {0} /\ BlockSize \in Nat \ {0}
    /\ NumBits \in Nat /\ DiskBlocks \in Nat /\ FirstData \in Nat
    /\ MaxSize \in Nat /\ MaxWrite \in Nat /\ MaxOpen \in Nat
    /\ FirstData < DiskBlocks /\ DiskBlocks < NumBits     \* checked by myMkfs

VARIABLES
    running,          \* FALSE once a callback has dereferenced a NULL i-node
    superBlock,       \* numOfFreeBlocks
    bitMap,           \* the blocks marked as used
    directory,        \* numFiles; files: the entries in use, by index
    nodes,            \* the i-nodes that are not NULL, by index
    tipo,             \* kinds of the i-nodes that entries lead to (no other is read);
                      \* they reach the backup file, but never come back
    numFreeNodes,
    fh,               \* file handles of the open files, by name
    block,            \* content of the data blocks, in the backup file only
    backup            \* super block, bitmap, directory and the i-nodes not free there

memVars == <<superBlock, bitMap, directory, nodes, tipo, numFreeNodes>>
vars == <<running, memVars, fh, block, backup>>

Nodes == 0..(NumNodes - 1)
Entries == 0..(NumEntries - 1)
Bits == 0..(NumBits - 1)
DataBlocks == FirstData..(DiskBlocks - 1)
Offsets == 0..(BlockSize - 1)
Kinds == {"file", "dir"}        \* tipo
Nothing == [x \in {} |-> 0]

Zeros == [o \in Offsets |-> 0]
FreshNode == [free |-> FALSE, size |-> 0, blocks |-> <<>>]

LeastOf(S) == CHOOSE x \in S : \A y \in S : x <= y
BlocksFor(size) == (size + BlockSize - 1) \div BlockSize

\* myQuota: the blocks of the disk that are not marked
Quota(map) == Cardinality((0..(DiskBlocks - 1)) \ map)

\* myMkfs
Init ==
    /\ running = TRUE
    /\ bitMap = 0..(FirstData - 1)
    /\ superBlock = Quota(bitMap)
    /\ directory = [numFiles |-> 0, files |-> Nothing]
    /\ nodes = Nothing
    /\ tipo = Nothing
    /\ numFreeNodes = NumNodes
    /\ fh = Nothing
    /\ block = [b \in DataBlocks |-> Zeros]
    /\ backup = [superBlock |-> superBlock, bitMap |-> bitMap, directory |-> directory,
                 nodes |-> Nothing]

-----------------------------------------------------------------------------
(* Helpers of myFS.c *)

UsedEntries == DOMAIN directory.files
\* f with y for x.
With(f, x, y) == [z \in DOMAIN f \cup {x} |-> IF z = x THEN y ELSE f[z]]

EntriesOf(nm) == {e \in UsedEntries : directory.files[e].name = nm}
findFileByName(nm) == LeastOf(EntriesOf(nm))
NodeOf(nm) == directory.files[findFileByName(nm)].node

findFreeNode == LeastOf(Nodes \ DOMAIN nodes)
findFreeFile == LeastOf(Entries \ UsedEntries)

\* A lookup of nm by the kernel finds something that is not a segmentation fault.
Exists(nm) == EntriesOf(nm) # {} /\ NodeOf(nm) \in DOMAIN nodes
IsFile(nm) == Exists(nm) /\ tipo[NodeOf(nm)] = "file"

\* The i-nodes on disk that count after updateNode has written node.
WithNode(n, node) ==
    [m \in {x \in DOMAIN backup.nodes \cup {n} : x = n => ~node.free} |->
        IF m = n THEN node ELSE backup.nodes[m]]

\* The bits that are 0 and come before x in the bitmap.
FreeBelow(x) == {y \in Bits \ bitMap : y < x}

\* Wrong: two blocks from the same place.
FirstFreeTwice(k) ==
    [i \in 1..k |-> CHOOSE x \in Bits \ bitMap : Cardinality(FreeBelow(x)) = (i - 1) \div 2]

\* The k first bits that are 0, in ascending order.
FirstFree(k) ==
    [i \in 1..k |-> CHOOSE x \in Bits \ bitMap : Cardinality(FreeBelow(x)) = i - 1]

-----------------------------------------------------------------------------
(* resizeNode: what it leaves in memory and in the data blocks *)

\* Wrong: the rest of the last block keeps what was there.
ClearedTailNot(node, size) == block

\* The bytes between the old end of the file and the new one, in its last block.
ClearedTail(node, size) ==
    LET off == node.size % BlockSize IN
    IF node.blocks = <<>> \/ off = 0 THEN block
    ELSE [block EXCEPT ![Last(node.blocks)] =
            [o \in Offsets |-> IF off <= o /\ o < off + size - node.size THEN 0 ELSE @[o]]]

Unchanged(node, ok, data) ==
    [ok |-> ok, saved |-> FALSE, node |-> node, superBlock |-> superBlock,
     bitMap |-> bitMap, block |-> data]

\* Wrong: off by one.
EnoughSpaceLax(k) == k <= superBlock + 1

EnoughSpace(k) == k <= superBlock

Grown(node, size) ==
    LET k == BlocksFor(size) - Len(node.blocks)
        cleared == ClearedTail(node, size)
        new == FirstFree(k)
    IN IF ~EnoughSpace(k)
       THEN Unchanged(node, FALSE, cleared)      \* -ENOSPC
       ELSE [ok |-> TRUE, saved |-> TRUE,
             node |-> [node EXCEPT !.size = size, !.blocks = @ \o new],
             superBlock |-> superBlock - k,
             bitMap |-> bitMap \cup ToSet(new),
             block |-> [b \in DOMAIN block |-> IF b \in ToSet(new) THEN Zeros ELSE cleared[b]]]

\* Wrong: the last block that is given up stays marked.
FreedBlocksLess(node, k) == ToSet(SubSeq(node.blocks, k + 1, Len(node.blocks) - 1))

FreedBlocks(node, k) == ToSet(SubSeq(node.blocks, k + 1, Len(node.blocks)))

Shrunk(node, size) ==
    LET k == BlocksFor(size)
        freed == FreedBlocks(node, k)
    IN [ok |-> TRUE, saved |-> TRUE,
        node |-> [node EXCEPT !.size = size, !.blocks = SubSeq(@, 1, k)],
        superBlock |-> superBlock + Len(node.blocks) - k,
        bitMap |-> bitMap \ freed,
        block |-> [b \in DOMAIN block |-> IF b \in freed THEN Zeros ELSE block[b]]]

Resized(node, size) ==
    IF size = node.size THEN Unchanged(node, TRUE, block)
    ELSE IF size > node.size THEN Grown(node, size)
    ELSE Shrunk(node, size)

\* What resizeNode writes to the backup file: super block, bitmap and i-node.
SavedNode(n, r) ==
    [backup EXCEPT !.superBlock = r.superBlock, !.bitMap = r.bitMap,
                   !.nodes = WithNode(n, r.node)]

-----------------------------------------------------------------------------
(* The callbacks *)

\* What my_mknod and my_mkdir have in common: nm gets an entry and an i-node.
Make(nm, kind) ==
    /\ running /\ EntriesOf(nm) = {}
    /\ numFreeNodes > 0 /\ directory.numFiles < NumEntries
    /\ Nodes \ DOMAIN nodes # {} /\ Entries \ UsedEntries # {}
    /\ LET n == findFreeNode
           e == findFreeFile
       IN /\ directory' = [numFiles |-> directory.numFiles + 1,
                           files |-> With(directory.files, e, [name |-> nm, node |-> n])]
          /\ nodes' = With(nodes, n, FreshNode)
          /\ tipo' = With(tipo, n, kind)
          /\ backup' = [backup EXCEPT !.directory = directory', !.nodes = WithNode(n, FreshNode)]
    /\ numFreeNodes' = numFreeNodes - 1
    /\ UNCHANGED <<running, superBlock, bitMap, fh, block>>

my_mknod(nm) == Make(nm, "file")
my_mkdir(nm) == Make(nm, "dir")

my_open(nm) ==
    /\ running /\ IsFile(nm) /\ nm \notin DOMAIN fh
    /\ Cardinality(DOMAIN fh) < MaxOpen
    /\ fh' = With(fh, nm, NodeOf(nm))
    /\ UNCHANGED <<running, memVars, block, backup>>

my_release(nm) ==
    /\ running /\ nm \in DOMAIN fh
    /\ fh' = [x \in DOMAIN fh \ {nm} |-> fh[x]]
    /\ UNCHANGED <<running, memVars, block, backup>>

my_truncate(nm, size) ==
    /\ running /\ IsFile(nm)
    /\ LET n == NodeOf(nm)
           r == Resized(nodes[n], size)
       IN /\ nodes' = [nodes EXCEPT ![n] = r.node]
          /\ superBlock' = r.superBlock
          /\ bitMap' = r.bitMap
          /\ block' = r.block
          /\ backup' = IF r.saved THEN SavedNode(n, r) ELSE backup
    /\ UNCHANGED <<running, directory, tipo, numFreeNodes, fh>>

\* The k bytes that are written, all different and none of them zero.
Buf(k) == [i \in 0..(k - 1) |-> i + 1]

\* The loop over the blocks of the file: byte off + i of the file becomes buf[i].
Stored(data, blocks, off, k) ==
    [b \in DOMAIN data |-> [o \in Offsets |->
        LET at == {i \in off..(off + k - 1) :
                     blocks[i \div BlockSize + 1] = b /\ i % BlockSize = o}
        IN IF at = {} THEN data[b][o] ELSE Buf(k)[LeastOf(at) - off]]]

\* The i-node comes from the handle; its size becomes off + k even if it was larger.
my_write(nm, off, k) ==
    /\ running /\ nm \in DOMAIN fh
    /\ UNCHANGED <<running, directory, tipo, numFreeNodes, fh>>
    /\ LET n == fh[nm]
           r == Resized(nodes[n], off + k)
       IN /\ nodes' = [nodes EXCEPT ![n] = r.node]
          /\ superBlock' = r.superBlock
          /\ bitMap' = r.bitMap
          /\ block' = IF r.ok THEN Stored(r.block, r.node.blocks, off, k) ELSE r.block
          /\ backup' = IF r.ok THEN SavedNode(n, r) ELSE backup

\* Wrong: the i-node is not written to the backup file.
SavedUnlinkHalf(e, r) ==
    [backup EXCEPT !.superBlock = r.superBlock, !.bitMap = r.bitMap, !.directory = directory']

SavedUnlink(e, r) ==
    [backup EXCEPT !.superBlock = r.superBlock, !.bitMap = r.bitMap, !.directory = directory',
                   !.nodes = WithNode(e, nodes'[e])]

\* my_unlink takes the index of the directory entry for that of the i-node.
my_unlink(nm) ==
    /\ running /\ IsFile(nm) /\ nm \notin DOMAIN fh
    /\ LET e == findFileByName(nm) IN
       /\ e \in DOMAIN nodes
       /\ LET r == Resized(nodes[e], 0) IN
          /\ superBlock' = r.superBlock
          /\ bitMap' = r.bitMap
          /\ block' = r.block
          /\ directory' = [numFiles |-> directory.numFiles - 1,
                           files |-> [x \in UsedEntries \ {e} |-> directory.files[x]]]
          /\ nodes' = [nodes EXCEPT ![e] = [r.node EXCEPT !.free = TRUE]]
          /\ backup' = SavedUnlink(e, r)
    /\ tipo' = Restrict(tipo, DOMAIN tipo \cap
                      {directory'.files[x].node : x \in DOMAIN directory'.files})
    /\ numFreeNodes' = numFreeNodes + 1
    /\ UNCHANGED <<running, fh>>

\* A NULL i-node is dereferenced: by my_getattr when the entry leads to none, or by
\* my_unlink when there is none under the index of the entry.
Segfault(nm) ==
    /\ running /\ EntriesOf(nm) # {}
    /\ \/ NodeOf(nm) \notin DOMAIN nodes
       \/ IsFile(nm) /\ nm \notin DOMAIN fh /\ findFileByName(nm) \notin DOMAIN nodes
    /\ running' = FALSE
    /\ UNCHANGED <<memVars, fh, block, backup>>

\* Wrong: the first block of a chunk is read again and again.
MyReadStuck(n, off, size) ==
    [t \in 0..(size - 1) |->
        block[nodes[n].blocks[(off \div BlockSize) + 1]]
             [(off % BlockSize) + (t % (BlockSize - (off % BlockSize)))]]

\* What my_read puts into its buffer.  After each block offset grows by the position in the
\* block, not by what was read, so that the next one is read from the same position on:
\* right if off is a multiple of the block size, as the kernel's page requests are.
my_read(n, off, size) ==
    LET chunk == BlockSize - (off % BlockSize) IN
    [t \in 0..(size - 1) |->
        block[nodes[n].blocks[(off \div BlockSize) + (t \div chunk) + 1]]
             [(off % BlockSize) + (t % chunk)]]

\* The kinds that i-nodes may have after copyNode, which does not copy tipo: it is whatever
\* malloc returned.
CopiedKinds(entries, restored) ==
    [{entries[e].node : e \in DOMAIN entries} \cap DOMAIN restored -> Kinds]

\* Every structure is read from the backup file.
myMount ==
    /\ superBlock' = backup.superBlock
    /\ bitMap' = backup.bitMap
    /\ directory' = backup.directory
    /\ nodes' = backup.nodes
    /\ tipo' \in CopiedKinds(backup.directory.files, backup.nodes)
    /\ numFreeNodes' = NumNodes - Cardinality(DOMAIN backup.nodes)

\* The process ends, or has ended, and is started again with -m.
Remount ==
    /\ running' = TRUE
    /\ myMount
    /\ fh' = Nothing
    /\ UNCHANGED <<block, backup>>

Next ==
    \/ Remount
    \/ \E nm \in Names :
         \/ my_mknod(nm) \/ my_mkdir(nm)
         \/ my_open(nm) \/ my_release(nm) \/ my_unlink(nm) \/ Segfault(nm)
         \/ \E size \in 0..MaxSize : my_truncate(nm, size)
         \/ \E off \in 0..(MaxSize - 1), k \in 1..MaxWrite :
              off + k <= MaxSize /\ my_write(nm, off, k)

Spec == Init /\ [][Next]_vars

-----------------------------------------------------------------------------
(* Properties *)

NodeRec == [free : BOOLEAN, size : 0..MaxSize, blocks : Seq(Bits)]

\* Every structure has the shape of its C type.
TypeOK ==
    /\ running \in BOOLEAN
    /\ superBlock \in 0..DiskBlocks
    /\ bitMap \subseteq Bits
    /\ directory.numFiles \in 0..NumEntries
    /\ UsedEntries \subseteq Entries
    /\ \A e \in UsedEntries : directory.files[e] \in [name : Names, node : Nodes]
    /\ DOMAIN nodes \subseteq Nodes
    /\ \A n \in DOMAIN nodes : nodes[n] \in NodeRec
    /\ DOMAIN tipo \subseteq DOMAIN nodes /\ \A n \in DOMAIN tipo : tipo[n] \in Kinds
    /\ numFreeNodes \in 0..NumNodes
    /\ DOMAIN fh \subseteq Names
    /\ block \in [DataBlocks -> [Offsets -> 0..MaxWrite]]
    /\ DOMAIN backup.nodes \subseteq Nodes
    /\ \A n \in DOMAIN backup.nodes : backup.nodes[n] \in NodeRec /\ ~backup.nodes[n].free

\* A data block belongs to one i-node at most, once, is marked in the bitmap and lies
\* inside the disk; an i-node has as many as its size needs.
BlocksExclusive ==
    /\ \A n \in DOMAIN nodes :
         /\ IsInjective(nodes[n].blocks)
         /\ ToSet(nodes[n].blocks) \subseteq bitMap \cap DataBlocks
         /\ Len(nodes[n].blocks) = BlocksFor(nodes[n].size)
    /\ \A m, n \in DOMAIN nodes :
         m # n => ToSet(nodes[m].blocks) \cap ToSet(nodes[n].blocks) = {}

\* The counter of free blocks in the super block is what myQuota would count; the
\* search for free blocks has no other bound.
QuotaExact == superBlock = Quota(bitMap)

\* Between two callbacks the backup file holds what memory does, so that a restart
\* at any time brings back the same files (except their kind).
WriteThrough ==
    /\ backup.superBlock = superBlock /\ backup.bitMap = bitMap
    /\ backup.directory = directory
    /\ backup.nodes = Restrict(nodes, {n \in DOMAIN nodes : ~nodes[n].free})

ByteAt(n, i) == block[nodes[n].blocks[i \div BlockSize + 1]][i % BlockSize]
Content(n) == [i \in 0..(nodes[n].size - 1) |-> ByteAt(n, i)]

\* A write puts the buffer at its offset, keeps what is before it, fills a gap with
\* zeros, and touches no other i-node; if there is no space it changes no content.
WritesExact ==
    [][\A nm \in DOMAIN fh, off \in 0..(MaxSize - 1), k \in 1..MaxWrite :
         off + k <= MaxSize /\ my_write(nm, off, k) =>
           LET n == fh[nm]
               done == nodes'[n].size = off + k
           IN /\ \A m \in DOMAIN nodes \ {n} : Content(m)' = Content(m)
              /\ ~done => Content(n)' = Content(n)
              /\ done => \A i \in 0..(off + k - 1) :
                   Content(n)'[i] = IF i >= off THEN Buf(k)[i - off]
                                    ELSE IF i < nodes[n].size THEN Content(n)[i] ELSE 0]_vars

\* Every entry leads to an i-node, the one under the index of the entry.
IndicesAgree ==
    \A e \in UsedEntries : directory.files[e].node = e /\ e \in DOMAIN nodes

\* What readers see: each file read with my_read from its first page to its last byte.
ReadFiles ==
    [nm \in {x \in Names : Exists(x)} |-> my_read(NodeOf(nm), 0, nodes[NodeOf(nm)].size)]

Store == INSTANCE FileStore WITH files <- ReadFiles, Buffers <- {Buf(k) : k \in 1..MaxWrite}

\* As long as entries and i-nodes have the same indices, so that my_unlink empties the
\* right i-node, every callback, full disk and restart is for the readers of all files a
\* step of an abstract store, or nothing.
ImplementsFileStore == [][IndicesAgree => [Store!Next]_ReadFiles]_vars

\* Deleting a file leaves every other file as it was.
UnlinkRemovesOneFile ==
    [][\A nm \in Names :
         my_unlink(nm) =>
           /\ (EntriesOf(nm) = {})'
           /\ \A e \in DOMAIN directory'.files :
                LET n == directory.files[e].node IN
                n \in DOMAIN nodes => Content(n)' = Content(n)]_vars

\* A write only increases the size of a file, "if it is needed".
WriteNeverShrinks ==
    [][\A nm \in DOMAIN fh, off \in 0..(MaxSize - 1), k \in 1..MaxWrite :
         off + k <= MaxSize /\ my_write(nm, off, k) => nodes'[fh[nm]].size >= nodes[fh[nm]].size]_vars

=============================================================================
