----------------------------- MODULE MyFSProofs -----------------------------
(***************************************************************************)
(* The file system of src/myFUSE keeps its structures consistent for disks *)
(* of any size: data blocks belong to one i-node, the counter of free      *)
(* blocks is exact, and the backup file follows memory.  All of it rests   *)
(* on resizeNode, the only function that hands out and takes back blocks.  *)
(***************************************************************************)
EXTENDS MyFS, SListProofs, FiniteSetTheorems

-----------------------------------------------------------------------------
(* Blocks and sequences of blocks *)

\* The blocks a size needs: none for the empty file, and more for a larger one.
LEMMA BlocksForProperties ==
  ASSUME NEW a \in Nat, NEW b \in Nat
  PROVE  /\ BlocksFor(a) \in Nat
         /\ BlocksFor(0) = 0
         /\ a <= b => BlocksFor(a) <= BlocksFor(b)
<1>1. BlockSize \in Nat /\ BlockSize > 0
  BY FSAssumption
<1>2. ASSUME NEW x \in Nat PROVE x \div BlockSize \in Nat
  BY <1>1
<1>3. ASSUME NEW x \in Nat, NEW y \in Nat, x <= y
      PROVE  x \div BlockSize <= y \div BlockSize
  BY <1>1, <1>3
<1>4. (BlockSize - 1) \div BlockSize = 0
  BY <1>1
<1> QED BY <1>1, <1>2, <1>3, <1>4 DEF BlocksFor

\* Two sequences without repetition and with nothing in common make one.
LEMMA ConcatInjective ==
  ASSUME NEW S, NEW s \in Seq(S), NEW t \in Seq(S),
         IsInjective(s), IsInjective(t), ToSet(s) \cap ToSet(t) = {}
  PROVE  /\ s \o t \in Seq(S) /\ Len(s \o t) = Len(s) + Len(t)
         /\ IsInjective(s \o t)
         /\ ToSet(s \o t) = ToSet(s) \cup ToSet(t)
<1> DEFINE u == s \o t
<1>1. /\ Len(s) \in Nat /\ DOMAIN s = 1..Len(s)
      /\ Len(t) \in Nat /\ DOMAIN t = 1..Len(t)
  BY LenProperties
<1>2. /\ u \in Seq(S) /\ Len(u) = Len(s) + Len(t)
      /\ \A i \in 1..(Len(s) + Len(t)) : u[i] = IF i <= Len(s) THEN s[i] ELSE t[i - Len(s)]
  BY ConcatProperties
<1>3. DOMAIN u = 1..(Len(s) + Len(t))
  BY <1>2, LenProperties
<1> HIDE DEF u
<1>4. ASSUME NEW i \in 1..(Len(s) + Len(t))
      PROVE  IF i <= Len(s) THEN i \in DOMAIN s /\ u[i] = s[i]
                            ELSE i - Len(s) \in DOMAIN t /\ u[i] = t[i - Len(s)]
  BY <1>1, <1>2
<1>5. IsInjective(u)
  <2>1. SUFFICES ASSUME NEW i \in 1..(Len(s) + Len(t)), NEW j \in 1..(Len(s) + Len(t)),
                        u[i] = u[j]
                 PROVE  i = j
    BY <1>3 DEF IsInjective
  <2>2. \A a \in DOMAIN s, b \in DOMAIN t : s[a] # t[b]
    BY DEF ToSet
  <2>3. CASE i <= Len(s) /\ j <= Len(s)
    BY <1>4, <2>1, <2>3 DEF IsInjective
  <2>4. CASE ~(i <= Len(s)) /\ ~(j <= Len(s))
    <3>1. i - Len(s) = j - Len(s)
      BY <1>4, <2>1, <2>4 DEF IsInjective
    <3> QED BY <1>1, <3>1
  <2>5. CASE (i <= Len(s)) # (j <= Len(s))
    BY <1>4, <2>1, <2>2, <2>5
  <2> QED BY <2>3, <2>4, <2>5
<1>6. ToSet(u) = ToSet(s) \cup ToSet(t)
  <2>1. ToSet(u) \subseteq ToSet(s) \cup ToSet(t)
    BY <1>3, <1>4 DEF ToSet
  <2>2. ASSUME NEW i \in DOMAIN s PROVE s[i] \in ToSet(u)
    <3>1. i \in DOMAIN u /\ u[i] = s[i]
      BY <1>1, <1>2, <1>3
    <3> QED BY <3>1 DEF ToSet
  <2>3. ASSUME NEW i \in DOMAIN t PROVE t[i] \in ToSet(u)
    <3>1. i + Len(s) \in DOMAIN u /\ u[i + Len(s)] = t[(i + Len(s)) - Len(s)]
      BY <1>1, <1>2, <1>3
    <3>2. (i + Len(s)) - Len(s) = i
      BY <1>1
    <3> QED BY <3>1, <3>2 DEF ToSet
  <2> QED BY <2>1, <2>2, <2>3 DEF ToSet
<1> QED BY <1>2, <1>5, <1>6 DEF u

\* A sequence without repetition falls into two that have nothing in common.
LEMMA SplitInjective ==
  ASSUME NEW S, NEW s \in Seq(S), IsInjective(s), NEW k \in 0..Len(s)
  PROVE  LET a == SubSeq(s, 1, k)
             b == SubSeq(s, k + 1, Len(s))
         IN  /\ a \in Seq(S) /\ Len(a) = k /\ IsInjective(a)
             /\ b \in Seq(S) /\ Len(b) = Len(s) - k /\ IsInjective(b)
             /\ ToSet(a) \cap ToSet(b) = {}
             /\ ToSet(s) = ToSet(a) \cup ToSet(b)
<1> DEFINE n == Len(s)
           a == SubSeq(s, 1, k)
           b == SubSeq(s, k + 1, n)
<1>1. n \in Nat /\ DOMAIN s = 1..n /\ \A i \in 1..n : s[i] \in S
  BY LenProperties, ElementOfSeq
<1>2. a \in Seq(S) /\ Len(a) = k /\ \A i \in 1..k : a[i] = s[i]
  <2>1. \A i \in 1..k : s[i] \in S
    BY <1>1
  <2> QED BY <1>1, <2>1, SubSeqProperties
<1>3. b \in Seq(S) /\ Len(b) = n - k /\ \A i \in 1..(n - k) : b[i] = s[k + i]
  <2>1. \A i \in (k + 1)..n : s[i] \in S
    BY <1>1
  <2>2. /\ b \in Seq(S)
        /\ Len(b) = IF k + 1 <= n THEN n - (k + 1) + 1 ELSE 0
        /\ \A i \in 1..(n - (k + 1) + 1) : b[i] = s[(k + 1) + i - 1]
    <3> HIDE DEF n
    <3> QED BY <1>1, <2>1, SubSeqProperties
  <2> HIDE DEF n, b
  <2> QED BY <1>1, <2>2
<1>4. DOMAIN a = 1..k /\ DOMAIN b = 1..(n - k)
  BY <1>2, <1>3, LenProperties
<1> HIDE DEF a, b, n
<1>5. IsInjective(a)
  BY <1>1, <1>2, <1>4 DEF IsInjective, n
<1>6. IsInjective(b)
  <2>1. ASSUME NEW i \in 1..(n - k), NEW j \in 1..(n - k), b[i] = b[j] PROVE i = j
    <3>1. k + i \in DOMAIN s /\ k + j \in DOMAIN s /\ s[k + i] = s[k + j]
      BY <1>1, <1>3, <2>1
    <3>2. k + i = k + j
      BY <3>1 DEF IsInjective
    <3> QED BY <1>1, <3>2
  <2> QED BY <1>4, <2>1 DEF IsInjective
<1>7. ToSet(a) \cap ToSet(b) = {}
  <2>1. ASSUME NEW i \in 1..k, NEW j \in 1..(n - k), a[i] = b[j] PROVE FALSE
    <3>1. i \in DOMAIN s /\ k + j \in DOMAIN s /\ s[i] = s[k + j]
      BY <1>1, <1>2, <1>3, <2>1 DEF n
    <3>2. i = k + j
      BY <3>1 DEF IsInjective
    <3> QED BY <1>1, <3>2
  <2> QED BY <1>4, <2>1 DEF ToSet
<1>8. ToSet(s) = ToSet(a) \cup ToSet(b)
  <2>1. ASSUME NEW i \in 1..n PROVE s[i] \in ToSet(a) \cup ToSet(b)
    <3>1. CASE i <= k
      <4>1. i \in DOMAIN a /\ a[i] = s[i]
        BY <1>1, <1>2, <1>4, <3>1
      <4> QED BY <4>1 DEF ToSet
    <3>2. CASE ~(i <= k)
      <4>1. i - k \in DOMAIN b /\ b[i - k] = s[k + (i - k)] /\ k + (i - k) = i
        BY <1>1, <1>3, <1>4, <3>2
      <4> QED BY <4>1 DEF ToSet
    <3> QED BY <3>1, <3>2
  <2>2. ASSUME NEW i \in 1..k PROVE a[i] \in ToSet(s)
    BY <1>1, <1>2 DEF ToSet, n
  <2>3. ASSUME NEW i \in 1..(n - k) PROVE b[i] \in ToSet(s)
    <3>1. k + i \in DOMAIN s /\ b[i] = s[k + i]
      BY <1>1, <1>3
    <3> QED BY <3>1 DEF ToSet
  <2> QED BY <1>1, <1>4, <2>1, <2>2, <2>3 DEF ToSet
<1> QED BY <1>2, <1>3, <1>5, <1>6, <1>7, <1>8 DEF a, b, n

\* A sequence that repeats nothing has as many elements as places.
LEMMA InjectiveCount ==
  ASSUME NEW S, NEW s \in Seq(S), IsInjective(s)
  PROVE  /\ IsFiniteSet(ToSet(s))
         /\ Cardinality(ToSet(s)) = Len(s)
         /\ ToSet(s) \subseteq S
<1>1. Len(s) \in Nat /\ DOMAIN s = 1..Len(s) /\ s \in [1..Len(s) -> S]
  BY LenProperties
<1>2. s \in Bijection(1..Len(s), ToSet(s))
  BY <1>1 DEF Bijection, Injection, Surjection, ToSet, IsInjective
<1>3. IsFiniteSet(1..Len(s)) /\ Cardinality(1..Len(s)) = Len(s)
  BY <1>1, FS_Interval
<1> QED BY <1>1, <1>2, <1>3, FS_Bijection DEF ExistsBijection, ToSet

-----------------------------------------------------------------------------
(* The search for free blocks *)

\* The free bits up to n.
FreeUpTo(n) == {y \in Bits \ bitMap : y <= n}

LEMMA FreeFinite ==
  /\ IsFiniteSet(Bits)
  /\ \A x : IsFiniteSet(FreeBelow(x)) /\ Cardinality(FreeBelow(x)) \in Nat
  /\ \A x : IsFiniteSet(FreeUpTo(x)) /\ Cardinality(FreeUpTo(x)) \in Nat
<1>1. IsFiniteSet(Bits)
  BY FSAssumption, FS_Interval DEF Bits
<1>2. ASSUME NEW x PROVE FreeBelow(x) \in SUBSET Bits /\ FreeUpTo(x) \in SUBSET Bits
  BY DEF FreeBelow, FreeUpTo
<1> QED BY <1>1, <1>2, FS_Subset, FS_CardinalityType

\* The bits of the disk that are 0 can be counted, and Quota counts them.
LEMMA QuotaFinite ==
  ASSUME NEW map
  PROVE  /\ IsFiniteSet((0..(DiskBlocks - 1)) \ map)
         /\ Quota(map) \in Nat
         /\ Quota(map) <= DiskBlocks
<1>1. IsFiniteSet(0..(DiskBlocks - 1)) /\ Cardinality(0..(DiskBlocks - 1)) = DiskBlocks
  BY FSAssumption, FS_Interval
<1>2. (0..(DiskBlocks - 1)) \ map \in SUBSET (0..(DiskBlocks - 1))
  OBVIOUS
<1>3. /\ IsFiniteSet((0..(DiskBlocks - 1)) \ map)
      /\ Cardinality((0..(DiskBlocks - 1)) \ map) <= DiskBlocks
  BY ZenonT(40), <1>1, <1>2, FS_Subset
<1> QED BY <1>3, FSAssumption, FS_CardinalityType DEF Quota

\* As long as more than j bits of the disk are 0, one bit has exactly j zeros before it.
LEMMA FreeBitOfRank ==
  ASSUME NEW j \in Nat, j < Quota(bitMap)
  PROVE  \E x \in Bits \ bitMap : Cardinality(FreeBelow(x)) = j
<1> DEFINE D == (0..(DiskBlocks - 1)) \ bitMap
           late == {n \in Nat : Cardinality(FreeUpTo(n)) > j}
<1>0. DiskBlocks \in Nat /\ NumBits \in Nat /\ DiskBlocks < NumBits /\ DiskBlocks > 0
  BY FSAssumption
<1>1. DiskBlocks - 1 \in late
  <2>1. FreeUpTo(DiskBlocks - 1) = D
    BY <1>0 DEF FreeUpTo, Bits
  <2> QED BY <1>0, <2>1 DEF Quota
<1>2. PICK m \in late : \A n \in late : m <= n
  <2>1. late \in SUBSET Nat /\ late # {}
    BY <1>1
  <2> HIDE DEF late
  <2> QED BY <2>1, LeastElement
<1>3. m \in Nat /\ Cardinality(FreeUpTo(m)) > j
  BY <1>2
<1>4. m > 0 => m - 1 \in Nat /\ Cardinality(FreeUpTo(m - 1)) <= j
  <2>1. SUFFICES ASSUME m > 0 PROVE m - 1 \in Nat /\ Cardinality(FreeUpTo(m - 1)) <= j
    OBVIOUS
  <2>2. m - 1 \in Nat /\ m - 1 \notin late
    BY <1>2, <1>3, <2>1
  <2> QED BY <2>2, FreeFinite
<1>5. FreeBelow(m) = IF m > 0 THEN FreeUpTo(m - 1) ELSE {}
  BY <1>0, <1>3 DEF FreeBelow, FreeUpTo, Bits
<1>6. Cardinality(FreeBelow(m)) <= j
  BY <1>4, <1>5, FS_EmptySet
<1>7. m \in Bits \ bitMap
  <2>1. CASE m \in Bits \ bitMap
    BY <2>1
  <2>2. CASE m \notin Bits \ bitMap
    <3>1. FreeUpTo(m) = FreeBelow(m)
      BY <1>0, <1>3, <2>2 DEF FreeBelow, FreeUpTo, Bits
    <3> QED BY <1>3, <1>6, <3>1, FreeFinite
  <2> QED BY <2>1, <2>2
<1>8. FreeUpTo(m) = FreeBelow(m) \cup {m} /\ m \notin FreeBelow(m)
  BY <1>0, <1>3, <1>7 DEF FreeBelow, FreeUpTo, Bits
<1>9. Cardinality(FreeUpTo(m)) = Cardinality(FreeBelow(m)) + 1
  BY <1>8, FreeFinite, FS_AddElement
<1> QED BY <1>3, <1>6, <1>7, <1>9, FreeFinite

\* What the search of resizeNode hands out when the counter of free blocks allows it:
\* different blocks of the data area, none of them in use.
LEMMA FirstFreeProperties ==
  ASSUME 0..(FirstData - 1) \subseteq bitMap, NEW k \in Nat, k <= Quota(bitMap)
  PROVE  /\ FirstFree(k) \in Seq(Bits)
         /\ Len(FirstFree(k)) = k
         /\ IsInjective(FirstFree(k))
         /\ ToSet(FirstFree(k)) \subseteq DataBlocks \ bitMap
<1> DEFINE f == FirstFree(k)
           D == (0..(DiskBlocks - 1)) \ bitMap
<1>0. DiskBlocks \in Nat /\ NumBits \in Nat /\ DiskBlocks < NumBits /\ FirstData \in Nat
      /\ Quota(bitMap) \in Nat
  BY FSAssumption, QuotaFinite
<1>1. ASSUME NEW i \in 1..k
      PROVE  f[i] \in Bits \ bitMap /\ Cardinality(FreeBelow(f[i])) = i - 1
  <2>1. i - 1 \in Nat /\ i - 1 < Quota(bitMap)
    BY <1>0
  <2>2. \E x \in Bits \ bitMap : Cardinality(FreeBelow(x)) = i - 1
    BY <2>1, FreeBitOfRank
  <2>3. f[i] = CHOOSE x \in Bits \ bitMap : Cardinality(FreeBelow(x)) = i - 1
    BY DEF FirstFree
  <2> HIDE DEF f
  <2> QED BY <2>2, <2>3
<1>2. f = [i \in 1..k |-> f[i]] /\ DOMAIN f = 1..k
  BY DEF FirstFree
<1> HIDE DEF f
<1>3. f \in [1..k -> Bits]
  BY <1>1, <1>2
<1>4. f \in Seq(Bits) /\ Len(f) = k
  BY <1>3, <1>2
<1>5. IsInjective(f)
  BY <1>1, <1>2 DEF IsInjective
<1>6. ASSUME NEW i \in 1..k PROVE f[i] \in DataBlocks \ bitMap
  <2>1. f[i] \in Bits \ bitMap /\ Cardinality(FreeBelow(f[i])) = i - 1
    BY <1>1
  <2>2. f[i] >= FirstData
    BY <1>0, <2>1 DEF Bits
  <2>3. ASSUME f[i] >= DiskBlocks PROVE FALSE
    <3>1. D \in SUBSET FreeBelow(f[i])
      BY <1>0, <2>1, <2>3 DEF FreeBelow, Bits
    <3>2. Cardinality(D) <= Cardinality(FreeBelow(f[i]))
      BY <3>1, FreeFinite, FS_Subset
    <3> QED BY <1>0, <2>1, <3>2 DEF Quota
  <2> QED BY <1>0, <2>1, <2>2, <2>3 DEF DataBlocks, Bits
<1>7. ToSet(f) \subseteq DataBlocks \ bitMap
  BY <1>2, <1>6 DEF ToSet
<1> QED BY <1>4, <1>5, <1>7 DEF f

\* Marking data blocks that were free lowers the quota by their number.
LEMMA QuotaTaken ==
  ASSUME NEW map, NEW T, IsFiniteSet(T), T \subseteq DataBlocks \ map
  PROVE  Quota(map \cup T) = Quota(map) - Cardinality(T)
<1> DEFINE D == (0..(DiskBlocks - 1)) \ map
           E == (0..(DiskBlocks - 1)) \ (map \cup T)
<1>1. T \subseteq D /\ D = E \cup T /\ E \cap T = {}
  <2>1. DataBlocks \subseteq 0..(DiskBlocks - 1)
    BY FSAssumption DEF DataBlocks
  <2> QED BY <2>1
<1>2. IsFiniteSet(E) /\ Quota(map \cup T) \in Nat /\ Quota(map) \in Nat
  <2>1. IsFiniteSet(E) /\ Quota(map \cup T) \in Nat
    BY QuotaFinite
  <2>2. Quota(map) \in Nat
    BY QuotaFinite
  <2> QED BY <2>1, <2>2
<1>3. Cardinality(E \cup T) = Cardinality(E) + Cardinality(T) - Cardinality(E \cap T)
  BY <1>2, FS_Union
<1>4. Cardinality(T) \in Nat /\ Cardinality({}) = 0
  BY FS_CardinalityType, FS_EmptySet
<1>5. Quota(map) = Cardinality(D) /\ Quota(map \cup T) = Cardinality(E)
  BY DEF Quota
<1> HIDE DEF D, E
<1> QED BY <1>1, <1>2, <1>3, <1>4, <1>5

\* Clearing the marks of data blocks raises it by their number.
LEMMA QuotaReturned ==
  ASSUME NEW map, NEW T, IsFiniteSet(T), T \subseteq DataBlocks \cap map
  PROVE  Quota(map \ T) = Quota(map) + Cardinality(T)
<1>1. T \subseteq DataBlocks \ (map \ T) /\ (map \ T) \cup T = map
  OBVIOUS
<1>2. Quota((map \ T) \cup T) = Quota(map \ T) - Cardinality(T)
  BY <1>1, QuotaTaken
<1>3. Quota(map \ T) \in Nat /\ Quota(map) \in Nat /\ Cardinality(T) \in Nat
  BY QuotaFinite, FS_CardinalityType
<1> QED BY <1>1, <1>2, <1>3

-----------------------------------------------------------------------------
(* The inductive invariant *)

\* The blocks of the system are never handed out.
SystemBlocksMarked == 0..(FirstData - 1) \subseteq bitMap

FilesCounted == directory.numFiles = Cardinality(UsedEntries)

\* The backup file has an i-node for every entry at least (my_unlink may leave more), and
\* so the free i-nodes that are counted are not more than there are.
NodesCounted ==
    /\ directory.numFiles <= Cardinality(DOMAIN backup.nodes)
    /\ numFreeNodes + directory.numFiles <= NumNodes

\* An open file has an i-node that is not NULL: none becomes NULL within a mount.
HandlesLive == \A nm \in DOMAIN fh : fh[nm] \in DOMAIN nodes

BackupShape == DOMAIN backup = {"superBlock", "bitMap", "directory", "nodes"}

FSInv ==
    /\ TypeOK /\ BlocksExclusive /\ QuotaExact /\ WriteThrough
    /\ SystemBlocksMarked /\ FilesCounted /\ NodesCounted /\ HandlesLive /\ BackupShape

-----------------------------------------------------------------------------
(* resizeNode *)

Contents == [DataBlocks -> [Offsets -> 0..MaxWrite]]

\* An i-node whose blocks are its own, marked in map, inside the disk and as many as its
\* size needs.
NodeSound(node, map) ==
    /\ node \in NodeRec
    /\ IsInjective(node.blocks)
    /\ ToSet(node.blocks) \subseteq map \cap DataBlocks
    /\ Len(node.blocks) = BlocksFor(node.size)

\* What resizeNode leaves of i-node n and around it.
ResultSound(n, r) ==
    /\ NodeSound(r.node, r.bitMap) /\ r.node.free = nodes[n].free
    /\ r.bitMap \subseteq Bits /\ 0..(FirstData - 1) \subseteq r.bitMap
    /\ r.superBlock = Quota(r.bitMap)
    /\ \A m \in DOMAIN nodes \ {n} :
         /\ ToSet(nodes[m].blocks) \subseteq r.bitMap
         /\ ToSet(nodes[m].blocks) \cap ToSet(r.node.blocks) = {}
    /\ r.block \in Contents
    /\ ~r.saved => r.node = nodes[n] /\ r.bitMap = bitMap /\ r.superBlock = superBlock
    /\ r.saved => r.ok

LEMMA NodesSound ==
  ASSUME FSInv, NEW n \in DOMAIN nodes
  PROVE  /\ NodeSound(nodes[n], bitMap)
         /\ nodes[n].size \in 0..MaxSize /\ nodes[n].blocks \in Seq(Bits)
         /\ nodes[n] = [free |-> nodes[n].free, size |-> nodes[n].size, blocks |-> nodes[n].blocks]
         /\ \A m \in DOMAIN nodes \ {n} :
              /\ ToSet(nodes[m].blocks) \subseteq bitMap
              /\ ToSet(nodes[m].blocks) \cap ToSet(nodes[n].blocks) = {}
<1>1. nodes[n] \in NodeRec
  BY DEF FSInv, TypeOK
<1>2. /\ nodes[n].size \in 0..MaxSize /\ nodes[n].blocks \in Seq(Bits)
      /\ nodes[n] = [free |-> nodes[n].free, size |-> nodes[n].size, blocks |-> nodes[n].blocks]
  BY <1>1 DEF NodeRec
<1> QED BY <1>1, <1>2 DEF FSInv, BlocksExclusive, NodeSound

\* The blocks on disk keep their shape when the tail of the last one is cleared.
LEMMA ClearedTailType ==
  ASSUME FSInv, NEW n \in DOMAIN nodes, NEW size \in 0..MaxSize
  PROVE  ClearedTail(nodes[n], size) \in Contents
<1>1. block \in Contents /\ 0 \in 0..MaxWrite
  BY FSAssumption DEF FSInv, TypeOK, Contents
<1> DEFINE last == Last(nodes[n].blocks)
           off == nodes[n].size % BlockSize
           tail == [o \in Offsets |-> IF off <= o /\ o < off + size - nodes[n].size
                                      THEN 0 ELSE block[last][o]]
<1>2. ASSUME last \in DataBlocks PROVE tail \in [Offsets -> 0..MaxWrite]
  BY <1>1, <1>2 DEF Contents
<1>3. ClearedTail(nodes[n], size) = block \/
      ClearedTail(nodes[n], size) = [block EXCEPT ![last] = tail]
  BY DEF ClearedTail
<1> HIDE DEF last, tail
<1> QED BY <1>1, <1>2, <1>3 DEF Contents

LEMMA UnchangedSound ==
  ASSUME FSInv, NEW n \in DOMAIN nodes, NEW ok \in BOOLEAN, NEW data \in Contents
  PROVE  ResultSound(n, Unchanged(nodes[n], ok, data))
<1>1. bitMap \subseteq Bits /\ 0..(FirstData - 1) \subseteq bitMap /\ superBlock = Quota(bitMap)
  BY DEF FSInv, TypeOK, QuotaExact, SystemBlocksMarked
<1> QED BY <1>1, NodesSound DEF ResultSound, Unchanged

\* A file that grows gets free blocks of the data area, or nothing.
LEMMA GrownSound ==
  ASSUME FSInv, NEW n \in DOMAIN nodes, NEW size \in 0..MaxSize, size > nodes[n].size
  PROVE  LET r == Grown(nodes[n], size) IN
         ResultSound(n, r) /\ (r.ok => r.node.size = size)
<1> DEFINE node == nodes[n]
           k == BlocksFor(size) - Len(node.blocks)
           cleared == ClearedTail(node, size)
           new == FirstFree(k)
           r == Grown(node, size)
           grown == [node EXCEPT !.size = size, !.blocks = @ \o new]
<1>1. /\ NodeSound(node, bitMap) /\ node \in NodeRec /\ node.blocks \in Seq(Bits)
      /\ node = [free |-> node.free, size |-> node.size, blocks |-> node.blocks]
      /\ \A m \in DOMAIN nodes \ {n} :
           /\ ToSet(nodes[m].blocks) \subseteq bitMap
           /\ ToSet(nodes[m].blocks) \cap ToSet(node.blocks) = {}
  BY NodesSound DEF NodeSound
<1>2. cleared \in Contents
  BY ClearedTailType
<1>3. CASE ~EnoughSpace(k)
  <2>1. r = Unchanged(node, FALSE, cleared)
    BY <1>3 DEF Grown
  <2>2. ResultSound(n, Unchanged(node, FALSE, cleared))
    BY <1>2, UnchangedSound
  <2>3. Unchanged(node, FALSE, cleared).ok = FALSE
    BY DEF Unchanged
  <2> HIDE DEF r, node, cleared
  <2>4. ResultSound(n, r) /\ (r.ok => r.node.size = size)
    BY <2>1, <2>2, <2>3
  <2> QED BY <2>4 DEF r, node
<1>4. CASE EnoughSpace(k)
  <2>1. bitMap \subseteq Bits /\ 0..(FirstData - 1) \subseteq bitMap /\ superBlock = Quota(bitMap)
    BY DEF FSInv, TypeOK, QuotaExact, SystemBlocksMarked
  <2>2. k \in Nat /\ Len(node.blocks) + k = BlocksFor(size)
    <3>1. size \in Nat /\ node.size \in Nat /\ node.size <= size
      BY <1>1, FSAssumption DEF NodeRec
    <3>2. Len(node.blocks) = BlocksFor(node.size)
      BY <1>1 DEF NodeSound
    <3>3. BlocksFor(size) \in Nat /\ BlocksFor(node.size) \in Nat
          /\ BlocksFor(node.size) <= BlocksFor(size)
      BY <3>1, BlocksForProperties
    <3> QED BY <3>2, <3>3
  <2>3. k <= Quota(bitMap)
    BY <1>4, <2>1 DEF EnoughSpace
  <2> HIDE DEF k
  <2>4. /\ new \in Seq(Bits) /\ Len(new) = k /\ IsInjective(new)
        /\ ToSet(new) \subseteq DataBlocks \ bitMap
    BY <2>1, <2>2, <2>3, FirstFreeProperties
  <2>5. r = [ok |-> TRUE, saved |-> TRUE, node |-> grown,
             superBlock |-> superBlock - k, bitMap |-> bitMap \cup ToSet(new),
             block |-> [b \in DOMAIN block |-> IF b \in ToSet(new) THEN Zeros ELSE cleared[b]]]
    BY <1>4 DEF Grown, k
  <2> HIDE DEF node, cleared, new, r
  <2>6. grown.free = node.free /\ grown.size = size /\ grown.blocks = node.blocks \o new
    BY <1>1 DEF NodeRec
  <2> HIDE DEF grown
  <2>7. r.ok = TRUE /\ r.saved = TRUE /\ r.node = grown /\ r.superBlock = superBlock - k
        /\ r.bitMap = bitMap \cup ToSet(new)
        /\ r.block = [b \in DOMAIN block |-> IF b \in ToSet(new) THEN Zeros ELSE cleared[b]]
    BY <2>5
  <2>8. /\ grown.blocks \in Seq(Bits) /\ IsInjective(grown.blocks)
        /\ Len(grown.blocks) = BlocksFor(size)
        /\ ToSet(grown.blocks) = ToSet(node.blocks) \cup ToSet(new)
    <3>1. ToSet(node.blocks) \subseteq bitMap /\ IsInjective(node.blocks)
      BY <1>1 DEF NodeSound
    <3>2. ToSet(node.blocks) \cap ToSet(new) = {}
      BY <2>4, <3>1
    <3>3. /\ node.blocks \o new \in Seq(Bits) /\ IsInjective(node.blocks \o new)
          /\ Len(node.blocks \o new) = Len(node.blocks) + Len(new)
          /\ ToSet(node.blocks \o new) = ToSet(node.blocks) \cup ToSet(new)
      BY SMTT(20), <1>1, <2>4, <3>1, <3>2, ConcatInjective
    <3> QED BY <2>2, <2>4, <2>6, <3>3
  <2>9. grown \in NodeRec /\ grown.size = size /\ grown.free = node.free
    <3>1. node.blocks \o new \in Seq(Bits)
      BY <2>6, <2>8
    <3> QED BY <1>1, <2>6, <3>1 DEF grown, NodeRec
  <2>10. NodeSound(grown, r.bitMap)
    BY <1>1, <2>4, <2>7, <2>8, <2>9 DEF NodeSound
  <2>11. r.superBlock = Quota(r.bitMap)
    <3>1. IsFiniteSet(ToSet(new)) /\ Cardinality(ToSet(new)) = k
      BY <2>4, InjectiveCount
    <3>2. Quota(bitMap \cup ToSet(new)) = Quota(bitMap) - Cardinality(ToSet(new))
      BY <2>4, <3>1, QuotaTaken
    <3> QED BY <2>1, <2>7, <3>1, <3>2
  <2>12. r.bitMap \subseteq Bits /\ 0..(FirstData - 1) \subseteq r.bitMap
    <3>1. ToSet(new) \subseteq Bits
      BY <2>4, InjectiveCount
    <3> QED BY <2>1, <2>7, <3>1
  <2>13. \A m \in DOMAIN nodes \ {n} :
           /\ ToSet(nodes[m].blocks) \subseteq r.bitMap
           /\ ToSet(nodes[m].blocks) \cap ToSet(r.node.blocks) = {}
    BY <1>1, <2>4, <2>7, <2>8
  <2>14. r.block \in Contents
    <3>1. DOMAIN block = DataBlocks
      BY DEF FSInv, TypeOK
    <3>2. Zeros \in [Offsets -> 0..MaxWrite]
      BY FSAssumption DEF Zeros
    <3> QED BY <1>2, <2>7, <3>1, <3>2 DEF Contents
  <2>15. ResultSound(n, r) /\ r.node.size = size
    BY <2>7, <2>9, <2>10, <2>11, <2>12, <2>13, <2>14 DEF ResultSound, node
  <2> QED BY <2>15 DEF r, node
<1> QED BY <1>3, <1>4

\* A file that shrinks gives up the blocks at its end, and their marks are cleared.
LEMMA ShrunkSound ==
  ASSUME FSInv, NEW n \in DOMAIN nodes, NEW size \in 0..MaxSize, size < nodes[n].size
  PROVE  LET r == Shrunk(nodes[n], size) IN
         ResultSound(n, r) /\ r.ok /\ r.node.size = size
<1> DEFINE node == nodes[n]
           k == BlocksFor(size)
           freed == FreedBlocks(node, k)
           left == SubSeq(node.blocks, 1, k)
           r == Shrunk(node, size)
           cut == [node EXCEPT !.size = size, !.blocks = SubSeq(@, 1, k)]
<1>1. /\ NodeSound(node, bitMap) /\ node \in NodeRec /\ node.blocks \in Seq(Bits)
      /\ node = [free |-> node.free, size |-> node.size, blocks |-> node.blocks]
      /\ \A m \in DOMAIN nodes \ {n} :
           /\ ToSet(nodes[m].blocks) \subseteq bitMap
           /\ ToSet(nodes[m].blocks) \cap ToSet(node.blocks) = {}
  BY NodesSound DEF NodeSound
<1>2. bitMap \subseteq Bits /\ 0..(FirstData - 1) \subseteq bitMap /\ superBlock = Quota(bitMap)
  BY DEF FSInv, TypeOK, QuotaExact, SystemBlocksMarked
<1>3. k \in 0..Len(node.blocks) /\ Len(node.blocks) \in Nat
  <2>1. size \in Nat /\ node.size \in Nat /\ size <= node.size
    BY <1>1, FSAssumption DEF NodeRec
  <2>2. Len(node.blocks) = BlocksFor(node.size)
    BY <1>1 DEF NodeSound
  <2> QED BY <2>1, <2>2, BlocksForProperties
<1>4. r = [ok |-> TRUE, saved |-> TRUE, node |-> cut,
           superBlock |-> superBlock + Len(node.blocks) - k, bitMap |-> bitMap \ freed,
           block |-> [b \in DOMAIN block |-> IF b \in freed THEN Zeros ELSE block[b]]]
  BY DEF Shrunk
<1>5. freed = ToSet(SubSeq(node.blocks, k + 1, Len(node.blocks)))
  BY DEF FreedBlocks
<1> HIDE DEF node, k, freed, r
<1>6. cut.free = node.free /\ cut.size = size /\ cut.blocks = left
  BY <1>1 DEF NodeRec
<1>7. IsInjective(node.blocks) /\ ToSet(node.blocks) \subseteq bitMap \cap DataBlocks
  BY <1>1 DEF NodeSound
<1>8. /\ left \in Seq(Bits) /\ Len(left) = k /\ IsInjective(left)
      /\ IsFiniteSet(freed) /\ Cardinality(freed) = Len(node.blocks) - k
      /\ ToSet(left) \cap freed = {}
      /\ ToSet(node.blocks) = ToSet(left) \cup freed
  <2> DEFINE b == SubSeq(node.blocks, k + 1, Len(node.blocks))
  <2> HIDE DEF left, b
  <2>1. /\ left \in Seq(Bits) /\ Len(left) = k /\ IsInjective(left)
        /\ b \in Seq(Bits) /\ Len(b) = Len(node.blocks) - k /\ IsInjective(b)
        /\ ToSet(left) \cap ToSet(b) = {}
        /\ ToSet(node.blocks) = ToSet(left) \cup ToSet(b)
    BY <1>1, <1>3, <1>7, SplitInjective DEF left, b
  <2>2. IsFiniteSet(ToSet(b)) /\ Cardinality(ToSet(b)) = Len(b)
    BY <2>1, InjectiveCount
  <2> QED BY <1>5, <2>1, <2>2 DEF b
<1> HIDE DEF left, cut
<1>9. r.ok = TRUE /\ r.saved = TRUE /\ r.node = cut /\ r.bitMap = bitMap \ freed
      /\ r.superBlock = superBlock + Len(node.blocks) - k
      /\ r.block = [b \in DOMAIN block |-> IF b \in freed THEN Zeros ELSE block[b]]
  BY <1>4
<1>10. cut \in NodeRec /\ cut.size = size /\ cut.free = node.free /\ cut.blocks = left
  <2>1. SubSeq(node.blocks, 1, k) \in Seq(Bits)
    BY <1>8 DEF left
  <2> QED BY <1>1, <1>6, <2>1 DEF cut, NodeRec
<1>11. NodeSound(cut, r.bitMap)
  <2>1. Len(left) = BlocksFor(size)
    BY <1>8 DEF k
  <2>2. ToSet(left) \subseteq (bitMap \ freed) \cap DataBlocks
    BY <1>7, <1>8
  <2> QED BY <1>8, <1>9, <1>10, <2>1, <2>2 DEF NodeSound
<1>12. r.superBlock = Quota(r.bitMap)
  <2>1. freed \subseteq DataBlocks \cap bitMap
    BY <1>7, <1>8
  <2>2. Quota(bitMap \ freed) = Quota(bitMap) + Cardinality(freed)
    BY <1>8, <2>1, QuotaReturned
  <2>3. Quota(bitMap) \in Nat
    BY QuotaFinite
  <2> QED BY <1>2, <1>3, <1>8, <1>9, <2>2, <2>3
<1>13. r.bitMap \subseteq Bits /\ 0..(FirstData - 1) \subseteq r.bitMap
  <2>1. freed \cap (0..(FirstData - 1)) = {}
    BY <1>7, <1>8, FSAssumption DEF DataBlocks
  <2> QED BY <1>2, <1>9, <2>1
<1>14. \A m \in DOMAIN nodes \ {n} :
         /\ ToSet(nodes[m].blocks) \subseteq r.bitMap
         /\ ToSet(nodes[m].blocks) \cap ToSet(r.node.blocks) = {}
  BY <1>1, <1>8, <1>9, <1>10
<1>15. r.block \in Contents
  <2>1. block \in Contents /\ Zeros \in [Offsets -> 0..MaxWrite]
    BY FSAssumption DEF FSInv, TypeOK, Contents, Zeros
  <2> QED BY <1>9, <2>1 DEF Contents
<1> QED
  BY <1>9, <1>10, <1>11, <1>12, <1>13, <1>14, <1>15 DEF ResultSound, node, r

\* resizeNode keeps the blocks of all i-nodes apart and the count of free blocks exact,
\* whatever the new size is and whether there is space or not.
THEOREM ResizedSound ==
  ASSUME FSInv, NEW n \in DOMAIN nodes, NEW size \in 0..MaxSize
  PROVE  LET r == Resized(nodes[n], size) IN
         ResultSound(n, r) /\ (r.ok => r.node.size = size)
<1>1. block \in Contents /\ nodes[n].size \in Nat /\ size \in Nat
  BY FSAssumption, NodesSound DEF FSInv, TypeOK, Contents
<1>2. CASE size = nodes[n].size
  <2>1. Resized(nodes[n], size) = Unchanged(nodes[n], TRUE, block)
    BY <1>2, Zenon DEF Resized
  <2>2. ResultSound(n, Unchanged(nodes[n], TRUE, block))
    BY <1>1, UnchangedSound
  <2>3. Unchanged(nodes[n], TRUE, block).node = nodes[n]
    BY DEF Unchanged
  <2> QED BY <1>2, <2>1, <2>2, <2>3
<1>3. CASE size > nodes[n].size
  <2>1. size # nodes[n].size
    BY <1>1, <1>3
  <2>2. Resized(nodes[n], size) = Grown(nodes[n], size)
    BY <1>3, <2>1, Zenon DEF Resized
  <2> QED BY <1>3, <2>2, GrownSound
<1>4. CASE size < nodes[n].size
  <2>1. size # nodes[n].size /\ ~(size > nodes[n].size)
    BY <1>1, <1>4
  <2>2. Resized(nodes[n], size) = Shrunk(nodes[n], size)
    BY <2>1, Zenon DEF Resized
  <2> QED BY <1>4, <2>2, ShrunkSound
<1> QED BY <1>1, <1>2, <1>3, <1>4

-----------------------------------------------------------------------------
(* What the callbacks have in common *)

LEMMA LeastOfProperties ==
  ASSUME NEW T \in SUBSET Nat, T # {}
  PROVE  LeastOf(T) \in T
BY LeastElement DEF LeastOf

\* The searches of myFS.c find what they look for when there is one.
LEMMA Found ==
  ASSUME FSInv
  PROVE  /\ Nodes \ DOMAIN nodes # {} => findFreeNode \in Nodes \ DOMAIN nodes
         /\ Entries \ UsedEntries # {} => findFreeFile \in Entries \ UsedEntries
         /\ \A nm : EntriesOf(nm) # {} => findFileByName(nm) \in UsedEntries
<1>1. Nodes \in SUBSET Nat /\ Entries \in SUBSET Nat
  BY FSAssumption DEF Nodes, Entries
<1>2. ASSUME NEW nm PROVE EntriesOf(nm) \in SUBSET Nat /\ EntriesOf(nm) \subseteq UsedEntries
  BY <1>1 DEF EntriesOf, FSInv, TypeOK
<1> QED BY <1>1, <1>2, LeastOfProperties DEF findFreeNode, findFreeFile, findFileByName

\* The tables of the disk are finite.
LEMMA TablesFinite ==
  ASSUME FSInv
  PROVE  /\ IsFiniteSet(Nodes) /\ Cardinality(Nodes) = NumNodes
         /\ IsFiniteSet(Entries) /\ Cardinality(Entries) = NumEntries
         /\ IsFiniteSet(UsedEntries) /\ directory.numFiles \in Nat
         /\ IsFiniteSet(DOMAIN backup.nodes) /\ Cardinality(DOMAIN backup.nodes) \in 0..NumNodes
<1>1. NumNodes \in Nat /\ NumEntries \in Nat
  BY FSAssumption
<1>2. IsFiniteSet(Nodes) /\ Cardinality(Nodes) = NumNodes
  BY <1>1, FS_Interval DEF Nodes
<1>3. IsFiniteSet(Entries) /\ Cardinality(Entries) = NumEntries
  BY <1>1, FS_Interval DEF Entries
<1>4. UsedEntries \in SUBSET Entries /\ DOMAIN backup.nodes \in SUBSET Nodes
      /\ directory.numFiles \in Nat
  BY <1>1 DEF FSInv, TypeOK
<1>5. IsFiniteSet(UsedEntries) /\ IsFiniteSet(DOMAIN backup.nodes)
      /\ Cardinality(DOMAIN backup.nodes) <= NumNodes
  BY <1>2, <1>3, <1>4, FS_Subset
<1> QED BY <1>1, <1>2, <1>3, <1>4, <1>5, FS_CardinalityType

\* The i-nodes after one of them was replaced by what resizeNode made of it.
LEMMA ReplacedSound ==
  ASSUME FSInv, NEW n \in DOMAIN nodes, NEW r, ResultSound(n, r),
         NEW node, NodeSound(node, r.bitMap), node.blocks = r.node.blocks,
         nodes' = [nodes EXCEPT ![n] = node],
         superBlock' = r.superBlock, bitMap' = r.bitMap
  PROVE  /\ DOMAIN nodes' = DOMAIN nodes
         /\ \A m \in DOMAIN nodes : nodes'[m] = IF m = n THEN node ELSE nodes[m]
         /\ \A m \in DOMAIN nodes' : nodes'[m] \in NodeRec
         /\ superBlock' \in 0..DiskBlocks /\ bitMap' \subseteq Bits
         /\ BlocksExclusive' /\ QuotaExact' /\ SystemBlocksMarked'
<1>1. /\ DOMAIN nodes' = DOMAIN nodes
      /\ \A m \in DOMAIN nodes : nodes'[m] = IF m = n THEN node ELSE nodes[m]
  OBVIOUS
<1>2. /\ bitMap' \subseteq Bits /\ 0..(FirstData - 1) \subseteq bitMap'
      /\ superBlock' = Quota(bitMap')
      /\ \A m \in DOMAIN nodes \ {n} :
           /\ ToSet(nodes[m].blocks) \subseteq bitMap'
           /\ ToSet(nodes[m].blocks) \cap ToSet(node.blocks) = {}
  BY DEF ResultSound
<1>3. superBlock' \in 0..DiskBlocks
  <2>1. Quota(bitMap') \in Nat /\ Quota(bitMap') <= DiskBlocks
    BY QuotaFinite
  <2> QED BY <1>2, <2>1, FSAssumption
<1>4. QuotaExact' /\ SystemBlocksMarked'
  BY <1>2 DEF QuotaExact, SystemBlocksMarked, Quota
<1>5. \A m \in DOMAIN nodes : NodeSound(nodes'[m], bitMap')
  BY <1>1, <1>2, NodesSound DEF NodeSound
<1>6. \A m \in DOMAIN nodes' : nodes'[m] \in NodeRec
  BY <1>1, <1>5 DEF NodeSound
<1>7. \A l, m \in DOMAIN nodes :
        l # m => ToSet(nodes'[l].blocks) \cap ToSet(nodes'[m].blocks) = {}
  BY <1>1, <1>2 DEF FSInv, BlocksExclusive
<1>8. BlocksExclusive'
  BY <1>1, <1>5, <1>7 DEF BlocksExclusive, NodeSound
<1> QED BY <1>1, <1>2, <1>3, <1>4, <1>6, <1>8

\* updateNode keeps the i-nodes of the backup file equal to those of memory.
LEMMA WithNodeFollows ==
  ASSUME FSInv, NEW n, NEW node,
         DOMAIN nodes' = DOMAIN nodes \cup {n},
         \A m \in DOMAIN nodes' : nodes'[m] = IF m = n THEN node ELSE nodes[m]
  PROVE  WithNode(n, node) = Restrict(nodes', {m \in DOMAIN nodes' : ~nodes'[m].free})
<1>1. /\ DOMAIN backup.nodes = {m \in DOMAIN nodes : ~nodes[m].free}
      /\ \A m \in DOMAIN backup.nodes : backup.nodes[m] = nodes[m]
  BY DEF FSInv, WriteThrough, Restrict
<1>2. {x \in DOMAIN backup.nodes \cup {n} : x = n => ~node.free} =
      {m \in DOMAIN nodes' : ~nodes'[m].free}
  BY <1>1
<1>3. \A m \in {x \in DOMAIN backup.nodes \cup {n} : x = n => ~node.free} :
        (IF m = n THEN node ELSE backup.nodes[m]) = nodes'[m]
  BY <1>1
<1> QED BY <1>2, <1>3 DEF WithNode, Restrict

\* What TypeOK says of the backup file follows from what it says of memory.
LEMMA BackupTyped ==
  ASSUME WriteThrough, DOMAIN nodes \subseteq Nodes, \A n \in DOMAIN nodes : nodes[n] \in NodeRec
  PROVE  /\ DOMAIN backup.nodes = {n \in DOMAIN nodes : ~nodes[n].free}
         /\ DOMAIN backup.nodes \subseteq Nodes
         /\ \A n \in DOMAIN backup.nodes :
              backup.nodes[n] \in NodeRec /\ ~backup.nodes[n].free
BY DEF WriteThrough, Restrict

LEMMA FSInvInit == Init => FSInv
<1> SUFFICES ASSUME Init PROVE FSInv
  OBVIOUS
<1>2. /\ bitMap = 0..(FirstData - 1) /\ superBlock = Quota(bitMap)
      /\ DOMAIN nodes = {} /\ DOMAIN tipo = {} /\ DOMAIN fh = {}
      /\ directory = [numFiles |-> 0, files |-> Nothing] /\ DOMAIN directory.files = {}
      /\ numFreeNodes = NumNodes /\ running = TRUE
      /\ block = [b \in DataBlocks |-> Zeros] /\ nodes = Nothing
      /\ backup = [superBlock |-> superBlock, bitMap |-> bitMap, directory |-> directory,
                   nodes |-> Nothing] /\ DOMAIN backup.nodes = {}
  BY DEF Init, Nothing
<1>3. TypeOK
  <2>1. superBlock \in 0..DiskBlocks
    <3>1. Quota(bitMap) \in Nat /\ Quota(bitMap) <= DiskBlocks
      BY QuotaFinite
    <3> QED BY <1>2, <3>1, FSAssumption
  <2>2. bitMap \subseteq Bits
    BY <1>2, FSAssumption DEF Bits
  <2>3. block \in [DataBlocks -> [Offsets -> 0..MaxWrite]]
    BY <1>2, FSAssumption DEF Zeros
  <2> QED BY <1>2, <2>1, <2>2, <2>3, FSAssumption DEF TypeOK, UsedEntries
<1>4. BlocksExclusive /\ QuotaExact /\ SystemBlocksMarked /\ HandlesLive /\ BackupShape
  BY <1>2 DEF BlocksExclusive, QuotaExact, SystemBlocksMarked, HandlesLive, BackupShape
<1>5. WriteThrough
  BY <1>2 DEF WriteThrough, Restrict, Nothing
<1>6. FilesCounted /\ NodesCounted
  BY <1>2, FS_EmptySet, FSAssumption DEF FilesCounted, NodesCounted, UsedEntries
<1> QED BY <1>3, <1>4, <1>5, <1>6 DEF FSInv

-----------------------------------------------------------------------------
(* Each callback keeps the invariant *)

\* A new file or directory.
LEMMA MakeKeeps ==
  ASSUME FSInv, NEW nm \in Names, NEW kind \in Kinds, Make(nm, kind)
  PROVE  FSInv'
<1> DEFINE n == findFreeNode
           e == findFreeFile
           entry == [name |-> nm, node |-> n]
<1>1. n \in Nodes \ DOMAIN nodes /\ e \in Entries \ UsedEntries
  BY Found DEF Make
<1>2. /\ directory' = [numFiles |-> directory.numFiles + 1, files |-> With(directory.files, e, entry)]
      /\ nodes' = With(nodes, n, FreshNode)
      /\ tipo' = With(tipo, n, kind)
      /\ backup' = [backup EXCEPT !.directory = directory', !.nodes = WithNode(n, FreshNode)]
      /\ numFreeNodes' = numFreeNodes - 1 /\ numFreeNodes > 0 /\ directory.numFiles < NumEntries
      /\ UNCHANGED <<running, superBlock, bitMap, fh, block>>
  BY DEF Make
<1> HIDE DEF n, e
<1>3. /\ DOMAIN nodes' = DOMAIN nodes \cup {n}
      /\ \A m \in DOMAIN nodes' : nodes'[m] = IF m = n THEN FreshNode ELSE nodes[m]
      /\ DOMAIN tipo' = DOMAIN tipo \cup {n}
      /\ \A m \in DOMAIN tipo' : tipo'[m] = IF m = n THEN kind ELSE tipo[m]
      /\ directory'.numFiles = directory.numFiles + 1
      /\ DOMAIN directory'.files = UsedEntries \cup {e}
      /\ \A x \in DOMAIN directory'.files :
           directory'.files[x] = IF x = e THEN entry ELSE directory.files[x]
  BY <1>1, <1>2 DEF UsedEntries, With
<1>4. /\ backup'.superBlock = backup.superBlock /\ backup'.bitMap = backup.bitMap
      /\ backup'.directory = directory' /\ backup'.nodes = WithNode(n, FreshNode)
      /\ DOMAIN backup' = DOMAIN backup
  BY <1>2 DEF FSInv, BackupShape
<1>5. FreshNode \in NodeRec /\ FreshNode.blocks = <<>> /\ FreshNode.size = 0
      /\ FreshNode.free = FALSE
  BY FSAssumption DEF FreshNode, NodeRec
<1>6. WriteThrough'
  BY <1>2, <1>3, <1>4, WithNodeFollows DEF FSInv, WriteThrough
<1>7. DOMAIN nodes' \subseteq Nodes /\ \A m \in DOMAIN nodes' : nodes'[m] \in NodeRec
  BY <1>1, <1>3, <1>5 DEF FSInv, TypeOK
<1>8. /\ DOMAIN backup'.nodes = DOMAIN backup.nodes \cup {n} /\ n \notin DOMAIN backup.nodes
      /\ DOMAIN backup'.nodes \subseteq Nodes
      /\ \A m \in DOMAIN backup'.nodes : backup'.nodes[m] \in NodeRec /\ ~backup'.nodes[m].free
  <2>1. DOMAIN backup.nodes = {m \in DOMAIN nodes : ~nodes[m].free}
    BY BackupTyped DEF FSInv, TypeOK
  <2>2. /\ DOMAIN backup'.nodes = {m \in DOMAIN nodes' : ~nodes'[m].free}
        /\ DOMAIN backup'.nodes \subseteq Nodes
        /\ \A m \in DOMAIN backup'.nodes : backup'.nodes[m] \in NodeRec /\ ~backup'.nodes[m].free
    BY <1>6, <1>7 DEF WriteThrough, Restrict
  <2> QED BY <1>1, <1>3, <1>5, <2>1, <2>2
<1>9. TypeOK'
  <2>1. directory'.numFiles \in 0..NumEntries /\ numFreeNodes' \in 0..NumNodes
    BY <1>2, <1>3, FSAssumption DEF FSInv, TypeOK
  <2>2. /\ UsedEntries' \subseteq Entries
        /\ \A x \in UsedEntries' : directory'.files[x] \in [name : Names, node : Nodes]
    BY <1>1, <1>3 DEF FSInv, TypeOK, UsedEntries
  <2>3. DOMAIN tipo' \subseteq DOMAIN nodes' /\ \A m \in DOMAIN tipo' : tipo'[m] \in Kinds
    BY <1>3 DEF FSInv, TypeOK
  <2> QED BY <1>2, <1>7, <1>8, <2>1, <2>2, <2>3 DEF FSInv, TypeOK
<1>10. BlocksExclusive'
  <2>1. IsInjective(<<>>) /\ ToSet(<<>>) = {} /\ Len(<<>>) = BlocksFor(0)
    BY BlocksForProperties, EmptySeq DEF IsInjective, ToSet
  <2>2. \A m \in DOMAIN nodes' :
          /\ IsInjective(nodes'[m].blocks)
          /\ ToSet(nodes'[m].blocks) \subseteq bitMap' \cap DataBlocks
          /\ Len(nodes'[m].blocks) = BlocksFor(nodes'[m].size)
    BY <1>2, <1>3, <1>5, <2>1 DEF FSInv, BlocksExclusive
  <2>3. \A l, m \in DOMAIN nodes' :
          l # m => ToSet(nodes'[l].blocks) \cap ToSet(nodes'[m].blocks) = {}
    BY ZenonT(40), <1>3, <1>5, <2>1 DEF FSInv, BlocksExclusive
  <2> QED BY <2>2, <2>3 DEF BlocksExclusive
<1>11. FilesCounted' /\ NodesCounted'
  <2>1. Cardinality(UsedEntries \cup {e}) = Cardinality(UsedEntries) + 1
    BY <1>1, TablesFinite, FS_AddElement
  <2>2. Cardinality(DOMAIN backup'.nodes) = Cardinality(DOMAIN backup.nodes) + 1
    BY <1>8, TablesFinite, FS_AddElement
  <2>3. Cardinality(UsedEntries) \in Nat /\ Cardinality(DOMAIN backup.nodes) \in Nat
        /\ directory.numFiles \in Nat
    BY TablesFinite, FS_CardinalityType
  <2>4. FilesCounted'
    BY <1>3, <2>1 DEF FSInv, FilesCounted, UsedEntries
  <2>5. numFreeNodes \in Nat /\ NumNodes \in Nat
    BY FSAssumption DEF FSInv, TypeOK
  <2>6. NodesCounted'
    BY <1>2, <1>3, <2>2, <2>3, <2>5 DEF FSInv, NodesCounted
  <2> QED BY <2>4, <2>6
<1>12. QuotaExact' /\ SystemBlocksMarked' /\ HandlesLive' /\ BackupShape'
  BY <1>2, <1>3, <1>4
  DEF FSInv, QuotaExact, Quota, SystemBlocksMarked, HandlesLive, BackupShape
<1> QED BY <1>6, <1>9, <1>10, <1>11, <1>12 DEF FSInv

\* An i-node and the backup file after resizeNode, when nothing else changes.
LEMMA ResizeKeeps ==
  ASSUME FSInv, NEW n \in DOMAIN nodes, NEW r, ResultSound(n, r),
         nodes' = [nodes EXCEPT ![n] = r.node],
         superBlock' = r.superBlock, bitMap' = r.bitMap, block' \in Contents,
         backup' = SavedNode(n, r) \/ (backup' = backup /\ ~r.saved),
         UNCHANGED <<running, directory, tipo, numFreeNodes, fh>>
  PROVE  FSInv'
<1>1. /\ DOMAIN nodes' = DOMAIN nodes
      /\ \A m \in DOMAIN nodes : nodes'[m] = IF m = n THEN r.node ELSE nodes[m]
      /\ \A m \in DOMAIN nodes' : nodes'[m] \in NodeRec
      /\ superBlock' \in 0..DiskBlocks /\ bitMap' \subseteq Bits
      /\ BlocksExclusive' /\ QuotaExact' /\ SystemBlocksMarked'
  <2>1. NodeSound(r.node, r.bitMap)
    BY DEF ResultSound
  <2> QED BY <2>1, ReplacedSound
<1>2. r.node.free = nodes[n].free
  BY DEF ResultSound
<1>3. WriteThrough' /\ BackupShape'
  <2>1. CASE backup' = SavedNode(n, r)
    <3>1. /\ backup'.superBlock = r.superBlock /\ backup'.bitMap = r.bitMap
          /\ backup'.directory = backup.directory /\ backup'.nodes = WithNode(n, r.node)
          /\ DOMAIN backup' = DOMAIN backup
      BY <2>1 DEF FSInv, BackupShape, SavedNode
    <3>2. WithNode(n, r.node) = Restrict(nodes', {m \in DOMAIN nodes' : ~nodes'[m].free})
      BY <1>1, WithNodeFollows
    <3> QED BY <3>1, <3>2 DEF FSInv, WriteThrough, BackupShape
  <2>2. CASE backup' = backup /\ ~r.saved
    <3>1. r.node = nodes[n] /\ bitMap' = bitMap /\ superBlock' = superBlock
      BY <2>2 DEF ResultSound
    <3>2. Restrict(nodes', {m \in DOMAIN nodes' : ~nodes'[m].free}) =
          Restrict(nodes, {m \in DOMAIN nodes : ~nodes[m].free})
      BY <1>1, <3>1 DEF Restrict
    <3> QED BY <2>2, <3>1, <3>2 DEF FSInv, WriteThrough, BackupShape
  <2> QED BY <2>1, <2>2
<1>4. DOMAIN nodes' \subseteq Nodes
  BY <1>1 DEF FSInv, TypeOK
<1>5. /\ DOMAIN backup'.nodes = {m \in DOMAIN nodes' : ~nodes'[m].free}
      /\ DOMAIN backup'.nodes \subseteq Nodes
      /\ \A m \in DOMAIN backup'.nodes : backup'.nodes[m] \in NodeRec /\ ~backup'.nodes[m].free
  BY <1>1, <1>3, <1>4 DEF WriteThrough, Restrict
<1>6. DOMAIN backup'.nodes = DOMAIN backup.nodes
  <2>1. DOMAIN backup.nodes = {m \in DOMAIN nodes : ~nodes[m].free}
    BY BackupTyped DEF FSInv, TypeOK
  <2> QED BY <1>1, <1>2, <1>5, <2>1
<1>7. TypeOK'
  BY <1>1, <1>4, <1>5 DEF FSInv, TypeOK, UsedEntries, Contents
<1>8. FilesCounted' /\ NodesCounted' /\ HandlesLive'
  BY <1>1, <1>6 DEF FSInv, FilesCounted, NodesCounted, HandlesLive, UsedEntries
<1> QED BY <1>1, <1>3, <1>7, <1>8 DEF FSInv

LEMMA TruncateKeeps ==
  ASSUME FSInv, NEW nm \in Names, NEW size \in 0..MaxSize, my_truncate(nm, size)
  PROVE  FSInv'
<1> DEFINE n == NodeOf(nm)
           r == Resized(nodes[n], size)
<1>1. n \in DOMAIN nodes
  BY DEF my_truncate, IsFile, Exists
<1>2. /\ nodes' = [nodes EXCEPT ![n] = r.node]
      /\ superBlock' = r.superBlock /\ bitMap' = r.bitMap /\ block' = r.block
      /\ backup' = IF r.saved THEN SavedNode(n, r) ELSE backup
      /\ UNCHANGED <<running, directory, tipo, numFreeNodes, fh>>
  BY DEF my_truncate
<1>3. ResultSound(n, r)
  BY <1>1, ResizedSound
<1> HIDE DEF n, r
<1>4. block' \in Contents
  BY <1>2, <1>3 DEF ResultSound
<1>5. backup' = SavedNode(n, r) \/ (backup' = backup /\ ~r.saved)
  BY <1>2
<1> QED BY <1>1, <1>2, <1>3, <1>4, <1>5, ResizeKeeps

\* The bytes of the buffer are bytes, wherever they end up.
LEMMA StoredType ==
  ASSUME NEW data \in Contents, NEW blocks, NEW off \in Nat, NEW k \in 1..MaxWrite
  PROVE  Stored(data, blocks, off, k) \in Contents
<1> DEFINE at(b, o) == {i \in off..(off + k - 1) :
                          blocks[i \div BlockSize + 1] = b /\ i % BlockSize = o}
           new(b, o) == IF at(b, o) = {} THEN data[b][o] ELSE Buf(k)[LeastOf(at(b, o)) - off]
<1>1. ASSUME NEW b \in DataBlocks, NEW o \in Offsets PROVE new(b, o) \in 0..MaxWrite
  <2>1. CASE at(b, o) = {}
    BY <2>1 DEF Contents
  <2>2. CASE at(b, o) # {}
    <3>1. at(b, o) \in SUBSET Nat
      BY FSAssumption
    <3>2. LeastOf(at(b, o)) \in at(b, o)
      <4> HIDE DEF at
      <4> QED BY <2>2, <3>1, LeastOfProperties
    <3>3. LeastOf(at(b, o)) \in off..(off + k - 1)
      BY <3>2
    <3> HIDE DEF at
    <3>4. LeastOf(at(b, o)) - off \in 0..(k - 1)
      BY <3>3, FSAssumption
    <3>5. Buf(k)[LeastOf(at(b, o)) - off] \in 1..k
      BY <3>4, FSAssumption DEF Buf
    <3> QED BY <2>2, <3>5, FSAssumption
  <2> QED BY <2>1, <2>2
<1>2. DOMAIN data = DataBlocks
  BY DEF Contents
<1>3. Stored(data, blocks, off, k) = [b \in DataBlocks |-> [o \in Offsets |-> new(b, o)]]
  BY <1>2 DEF Stored
<1> HIDE DEF new
<1> QED BY <1>1, <1>3 DEF Contents

LEMMA WriteKeeps ==
  ASSUME FSInv, NEW nm \in Names, NEW off \in 0..(MaxSize - 1), NEW k \in 1..MaxWrite,
         off + k <= MaxSize, my_write(nm, off, k)
  PROVE  FSInv'
<1> DEFINE n == fh[nm]
           r == Resized(nodes[n], off + k)
<1>1. n \in DOMAIN nodes /\ off \in Nat /\ off + k \in 0..MaxSize
  BY FSAssumption DEF FSInv, HandlesLive, my_write
<1>2. /\ nodes' = [nodes EXCEPT ![n] = r.node]
      /\ superBlock' = r.superBlock /\ bitMap' = r.bitMap
      /\ block' = IF r.ok THEN Stored(r.block, r.node.blocks, off, k) ELSE r.block
      /\ backup' = IF r.ok THEN SavedNode(n, r) ELSE backup
      /\ UNCHANGED <<running, directory, tipo, numFreeNodes, fh>>
  BY DEF my_write
<1>3. ResultSound(n, r)
  BY <1>1, ResizedSound
<1> HIDE DEF n, r
<1>4. block' \in Contents
  <2>1. r.block \in Contents
    BY <1>3 DEF ResultSound
  <2> QED BY <1>1, <1>2, <2>1, StoredType
<1>5. backup' = SavedNode(n, r) \/ (backup' = backup /\ ~r.saved)
  BY <1>2, <1>3 DEF ResultSound
<1> QED BY <1>1, <1>2, <1>3, <1>4, <1>5, ResizeKeeps

\* The i-node under the index of the entry is emptied and marked free, whosever it is.
LEMMA UnlinkKeeps ==
  ASSUME FSInv, NEW nm \in Names, my_unlink(nm)
  PROVE  FSInv'
<1> DEFINE e == findFileByName(nm)
           r == Resized(nodes[e], 0)
           node == [r.node EXCEPT !.free = TRUE]
<1>1. /\ e \in DOMAIN nodes
      /\ superBlock' = r.superBlock /\ bitMap' = r.bitMap /\ block' = r.block
      /\ directory' = [numFiles |-> directory.numFiles - 1,
                       files |-> [x \in UsedEntries \ {e} |-> directory.files[x]]]
      /\ nodes' = [nodes EXCEPT ![e] = node]
      /\ backup' = SavedUnlink(e, r)
      /\ numFreeNodes' = numFreeNodes + 1
      /\ tipo' = Restrict(tipo, DOMAIN tipo \cap
                      {directory'.files[x].node : x \in DOMAIN directory'.files})
      /\ UNCHANGED <<running, fh>>
  BY DEF my_unlink
<1>2. e \in UsedEntries
  BY Found DEF my_unlink, IsFile, Exists
<1>3. ResultSound(e, r)
  <2>1. 0 \in 0..MaxSize
    BY FSAssumption
  <2> QED BY <1>1, <2>1, ResizedSound
<1> HIDE DEF e, r
<1>4. NodeSound(node, r.bitMap) /\ node.blocks = r.node.blocks /\ node.free = TRUE
  <2>1. NodeSound(r.node, r.bitMap) /\ r.node \in NodeRec
    BY <1>3 DEF ResultSound, NodeSound
  <2>2. node \in NodeRec /\ node.blocks = r.node.blocks /\ node.size = r.node.size
        /\ node.free = TRUE
    BY <2>1 DEF NodeRec
  <2> HIDE DEF node
  <2> QED BY <2>1, <2>2 DEF NodeSound
<1> HIDE DEF node
<1>5. /\ DOMAIN nodes' = DOMAIN nodes
      /\ \A m \in DOMAIN nodes : nodes'[m] = IF m = e THEN node ELSE nodes[m]
      /\ \A m \in DOMAIN nodes' : nodes'[m] \in NodeRec
      /\ superBlock' \in 0..DiskBlocks /\ bitMap' \subseteq Bits
      /\ BlocksExclusive' /\ QuotaExact' /\ SystemBlocksMarked'
  BY <1>1, <1>3, <1>4, ReplacedSound
<1>6. WriteThrough' /\ BackupShape'
  <2>1. /\ backup'.superBlock = r.superBlock /\ backup'.bitMap = r.bitMap
        /\ backup'.directory = directory' /\ backup'.nodes = WithNode(e, node)
        /\ DOMAIN backup' = DOMAIN backup
    BY <1>1 DEF FSInv, BackupShape, SavedUnlink
  <2>2. WithNode(e, node) = Restrict(nodes', {m \in DOMAIN nodes' : ~nodes'[m].free})
    BY <1>1, <1>5, WithNodeFollows
  <2> QED BY <1>1, <2>1, <2>2 DEF FSInv, WriteThrough, BackupShape
<1>7. DOMAIN nodes' \subseteq Nodes
  BY <1>5 DEF FSInv, TypeOK
<1>8. /\ DOMAIN backup'.nodes = {m \in DOMAIN nodes' : ~nodes'[m].free}
      /\ DOMAIN backup'.nodes \subseteq Nodes
      /\ \A m \in DOMAIN backup'.nodes : backup'.nodes[m] \in NodeRec /\ ~backup'.nodes[m].free
  BY <1>5, <1>6, <1>7 DEF WriteThrough, Restrict
<1>9. DOMAIN backup'.nodes = DOMAIN backup.nodes \ {e}
  <2>1. DOMAIN backup.nodes = {m \in DOMAIN nodes : ~nodes[m].free}
    BY BackupTyped DEF FSInv, TypeOK
  <2> QED BY <1>4, <1>5, <1>8, <2>1
<1>10. /\ directory'.numFiles = directory.numFiles - 1
       /\ DOMAIN directory'.files = UsedEntries \ {e}
       /\ \A x \in DOMAIN directory'.files : directory'.files[x] = directory.files[x]
  BY <1>1
<1>11. FilesCounted' /\ directory.numFiles \in Nat \ {0} /\ NodesCounted'
  <2>1. Cardinality(UsedEntries \ {e}) = Cardinality(UsedEntries) - 1
    BY <1>2, TablesFinite, FS_RemoveElement
  <2>2. Cardinality(DOMAIN backup.nodes \ {e}) >= Cardinality(DOMAIN backup.nodes) - 1
    <3>1. IsFiniteSet(DOMAIN backup.nodes) /\ Cardinality(DOMAIN backup.nodes) \in Nat
      BY TablesFinite, FS_CardinalityType
    <3>2. Cardinality(DOMAIN backup.nodes \ {e}) =
          IF e \in DOMAIN backup.nodes THEN Cardinality(DOMAIN backup.nodes) - 1
                                       ELSE Cardinality(DOMAIN backup.nodes)
      BY <3>1, FS_RemoveElement
    <3> QED BY <3>1, <3>2
  <2>3. directory.numFiles = Cardinality(UsedEntries) /\ directory.numFiles \in Nat
    BY TablesFinite DEF FSInv, FilesCounted
  <2>4. Cardinality(UsedEntries \ {e}) \in Nat
    BY TablesFinite, FS_RemoveElement, FS_CardinalityType
  <2>5. FilesCounted'
    BY <1>10, <2>1, <2>3 DEF FilesCounted, UsedEntries
  <2>6. numFreeNodes \in Nat /\ NumNodes \in Nat /\ Cardinality(DOMAIN backup.nodes) \in Nat
        /\ Cardinality(DOMAIN backup.nodes \ {e}) \in Nat
    <3>1. numFreeNodes \in Nat /\ NumNodes \in Nat
      BY FSAssumption DEF FSInv, TypeOK
    <3>2. /\ Cardinality(DOMAIN backup.nodes) \in Nat
          /\ Cardinality(DOMAIN backup.nodes \ {e}) \in Nat
      <4>1. IsFiniteSet(DOMAIN backup.nodes)
        BY TablesFinite
      <4>2. IsFiniteSet(DOMAIN backup.nodes \ {e})
        BY <4>1, FS_RemoveElement
      <4> QED BY <4>1, <4>2, FS_CardinalityType
    <3> QED BY <3>1, <3>2
  <2>7. NodesCounted'
    BY <1>1, <1>9, <1>10, <2>2, <2>3, <2>6 DEF FSInv, NodesCounted
  <2> QED BY <2>1, <2>3, <2>4, <2>5, <2>7
<1>12. TypeOK'
  <2>1. directory'.numFiles \in 0..NumEntries
    BY <1>10, <1>11, FSAssumption DEF FSInv, TypeOK
  <2>2. numFreeNodes' \in 0..NumNodes
    <3>1. numFreeNodes \in Nat /\ NumNodes \in Nat
      BY FSAssumption DEF FSInv, TypeOK
    <3>2. numFreeNodes + directory.numFiles <= NumNodes
      BY DEF FSInv, NodesCounted
    <3> QED BY <1>1, <1>11, <3>1, <3>2
  <2>3. /\ UsedEntries' \subseteq Entries
        /\ \A x \in UsedEntries' : directory'.files[x] \in [name : Names, node : Nodes]
    BY <1>10 DEF FSInv, TypeOK, UsedEntries
  <2>4. DOMAIN tipo' \subseteq DOMAIN nodes' /\ \A m \in DOMAIN tipo' : tipo'[m] \in Kinds
    BY <1>1, <1>5 DEF FSInv, TypeOK, Restrict
  <2>5. block' \in [DataBlocks -> [Offsets -> 0..MaxWrite]]
    BY <1>1, <1>3 DEF ResultSound, Contents
  <2> QED BY <1>1, <1>5, <1>7, <1>8, <2>1, <2>2, <2>3, <2>4, <2>5 DEF FSInv, TypeOK
<1>13. HandlesLive'
  BY <1>1, <1>5 DEF FSInv, HandlesLive
<1> QED BY <1>5, <1>6, <1>11, <1>12, <1>13 DEF FSInv

LEMMA OpenKeeps ==
  ASSUME FSInv, NEW nm \in Names, my_open(nm) \/ my_release(nm) \/ Segfault(nm)
  PROVE  FSInv'
<1>1. /\ UNCHANGED <<superBlock, bitMap, directory, nodes, tipo, numFreeNodes, block, backup>>
      /\ running' \in BOOLEAN
      /\ DOMAIN fh' \subseteq Names
      /\ \A x \in DOMAIN fh' : fh'[x] \in DOMAIN nodes
  <2>1. CASE my_open(nm)
    BY <2>1 DEF my_open, IsFile, Exists, memVars, FSInv, TypeOK, HandlesLive, With
  <2>2. CASE my_release(nm)
    BY <2>2 DEF my_release, memVars, FSInv, TypeOK, HandlesLive
  <2>3. CASE Segfault(nm)
    BY <2>3 DEF Segfault, memVars, FSInv, TypeOK, HandlesLive
  <2> QED BY <2>1, <2>2, <2>3
<1>2. TypeOK'
  BY <1>1 DEF FSInv, TypeOK, UsedEntries
<1>3. BlocksExclusive' /\ QuotaExact' /\ WriteThrough' /\ SystemBlocksMarked' /\ FilesCounted'
      /\ NodesCounted' /\ BackupShape'
  BY <1>1 DEF FSInv, BlocksExclusive, QuotaExact, Quota, WriteThrough, SystemBlocksMarked,
    FilesCounted, NodesCounted, BackupShape, UsedEntries
<1> QED BY <1>1, <1>2, <1>3 DEF FSInv, HandlesLive

\* A restart reads back what the backup file has; the i-nodes that are marked free are gone.
LEMMA RemountKeeps ==
  ASSUME FSInv, Remount
  PROVE  FSInv'
<1> DEFINE kept == {m \in DOMAIN nodes : ~nodes[m].free}
<1>1. /\ superBlock' = superBlock /\ bitMap' = bitMap /\ directory' = directory
      /\ nodes' = [m \in kept |-> nodes[m]] /\ nodes' = backup.nodes
      /\ tipo' \in CopiedKinds(directory.files, nodes')
      /\ numFreeNodes' = NumNodes - Cardinality(DOMAIN backup.nodes)
      /\ running' = TRUE /\ fh' = Nothing /\ UNCHANGED <<block, backup>>
  BY DEF Remount, myMount, FSInv, WriteThrough, Restrict
<1>2. DOMAIN nodes' = kept /\ \A m \in kept : nodes'[m] = nodes[m]
  BY <1>1
<1>3. WriteThrough'
  <2>1. {m \in DOMAIN nodes' : ~nodes'[m].free} = kept
    BY <1>2
  <2> QED BY <1>1, <1>2, <2>1 DEF FSInv, WriteThrough, Restrict
<1>4. TypeOK'
  <2>1. numFreeNodes' \in 0..NumNodes
    <3>1. Cardinality(DOMAIN backup.nodes) \in 0..NumNodes
      BY TablesFinite
    <3> QED BY <1>1, <3>1, FSAssumption
  <2>2. DOMAIN tipo' \subseteq DOMAIN nodes' /\ \A m \in DOMAIN tipo' : tipo'[m] \in Kinds
    BY <1>1 DEF CopiedKinds
  <2>3. DOMAIN nodes' \subseteq Nodes /\ \A m \in DOMAIN nodes' : nodes'[m] \in NodeRec
    BY <1>2 DEF FSInv, TypeOK
  <2>4. DOMAIN fh' = {}
    BY <1>1 DEF Nothing
  <2> QED BY <1>1, <2>1, <2>2, <2>3, <2>4 DEF FSInv, TypeOK, UsedEntries
<1>5. BlocksExclusive'
  <2>1. /\ \A m \in DOMAIN nodes' : m \in DOMAIN nodes /\ nodes'[m] = nodes[m]
        /\ bitMap' = bitMap
    BY <1>1, <1>2
  <2> HIDE DEF kept
  <2> QED BY <2>1 DEF FSInv, BlocksExclusive
<1>6. NodesCounted'
  <2>1. Cardinality(DOMAIN backup.nodes) \in 0..NumNodes /\ directory.numFiles \in Nat
    BY TablesFinite
  <2>2. directory.numFiles <= Cardinality(DOMAIN backup.nodes)
    BY DEF FSInv, NodesCounted
  <2> QED BY <1>1, <2>1, <2>2, FSAssumption DEF NodesCounted
<1>7. QuotaExact' /\ SystemBlocksMarked' /\ FilesCounted' /\ HandlesLive' /\ BackupShape'
  BY <1>1 DEF FSInv, QuotaExact, Quota, SystemBlocksMarked, FilesCounted, HandlesLive,
    BackupShape, UsedEntries, Nothing
<1> QED BY <1>3, <1>4, <1>5, <1>6, <1>7 DEF FSInv

LEMMA StepKeeps == FSInv /\ [Next]_vars => FSInv'
<1> SUFFICES ASSUME FSInv, [Next]_vars PROVE FSInv'
  OBVIOUS
<1>1. CASE Remount
  BY <1>1, RemountKeeps
<1>2. ASSUME NEW nm \in Names, my_mknod(nm) PROVE FSInv'
  BY <1>2, MakeKeeps DEF my_mknod, Kinds
<1>3. ASSUME NEW nm \in Names, my_mkdir(nm) PROVE FSInv'
  BY <1>3, MakeKeeps DEF my_mkdir, Kinds
<1>4. ASSUME NEW nm \in Names, my_open(nm) \/ my_release(nm) \/ Segfault(nm) PROVE FSInv'
  BY <1>4, OpenKeeps
<1>5. ASSUME NEW nm \in Names, my_unlink(nm) PROVE FSInv'
  BY <1>5, UnlinkKeeps
<1>6. ASSUME NEW nm \in Names, NEW size \in 0..MaxSize, my_truncate(nm, size) PROVE FSInv'
  BY <1>6, TruncateKeeps
<1>7. ASSUME NEW nm \in Names, NEW off \in 0..(MaxSize - 1), NEW k \in 1..MaxWrite,
             off + k <= MaxSize, my_write(nm, off, k)
      PROVE  FSInv'
  BY <1>7, WriteKeeps
<1>8. CASE UNCHANGED vars
  <2>1. UNCHANGED <<running, superBlock, bitMap, directory, nodes, tipo, numFreeNodes, fh,
                    block, backup>>
    BY <1>8 DEF vars, memVars
  <2> QED BY <2>1 DEF FSInv, TypeOK, BlocksExclusive, QuotaExact, Quota, WriteThrough,
        SystemBlocksMarked, FilesCounted, NodesCounted, HandlesLive, BackupShape, UsedEntries
<1> QED BY <1>1, <1>2, <1>3, <1>4, <1>5, <1>6, <1>7, <1>8 DEF Next

\* Every reachable state of the file system satisfies the invariant.
THEOREM FSInvariance == Spec => []FSInv
<1>1. FSInv /\ [Next]_vars => FSInv'
  BY StepKeeps
<1> QED BY <1>1, FSInvInit, PTL DEF Spec

-----------------------------------------------------------------------------
(* The properties *)

\* The structures keep the shape of their C types; in particular the counter of free
\* i-nodes never leaves its range, although my_unlink may free the same one twice.
THEOREM TypesHold == Spec => []TypeOK
<1>1. FSInv => TypeOK
  BY DEF FSInv
<1> QED BY <1>1, FSInvariance, PTL

\* No block of data is ever shared, unmarked or outside the disk, also after my_unlink has
\* emptied an i-node that belongs to another file.
THEOREM BlocksStayExclusive == Spec => []BlocksExclusive
<1>1. FSInv => BlocksExclusive
  BY DEF FSInv
<1> QED BY <1>1, FSInvariance, PTL

\* The counter of the super block is the number of unmarked blocks, so the search of
\* resizeNode, which has no bound of its own, always ends inside the disk.
THEOREM QuotaStaysExact == Spec => []QuotaExact
<1>1. FSInv => QuotaExact
  BY DEF FSInv
<1> QED BY <1>1, FSInvariance, PTL

\* A restart between two callbacks finds what memory held.
THEOREM BackupFollows == Spec => []WriteThrough
<1>1. FSInv => WriteThrough
  BY DEF FSInv
<1> QED BY <1>1, FSInvariance, PTL

-----------------------------------------------------------------------------
(* Bytes of files *)

\* Byte i of a file with these blocks.
Byte(data, blocks, i) == data[blocks[i \div BlockSize + 1]][i % BlockSize]

\* Every byte has its own place in its own block.
LEMMA Positions ==
  ASSUME NEW i \in Nat
  PROVE  /\ i \div BlockSize \in Nat /\ i % BlockSize \in Offsets /\ i % BlockSize \in Nat
         /\ i % BlockSize < BlockSize
         /\ i = BlockSize * (i \div BlockSize) + (i % BlockSize)
<1>1. BlockSize \in Nat /\ BlockSize > 0
  BY FSAssumption
<1>2. i \div BlockSize \in Nat
  BY <1>1
<1>3. i % BlockSize \in Nat /\ i % BlockSize < BlockSize
  BY <1>1
<1>4. i = BlockSize * (i \div BlockSize) + (i % BlockSize)
  BY <1>1
<1>5. i % BlockSize \in Offsets
  BY <1>1, <1>3 DEF Offsets
<1> QED BY <1>2, <1>3, <1>4, <1>5

LEMMA SamePosition ==
  ASSUME NEW i \in Nat, NEW j \in Nat, i \div BlockSize = j \div BlockSize,
         i % BlockSize = j % BlockSize
  PROVE  i = j
BY Positions

LEMMA Times ==
  ASSUME NEW a \in Nat, NEW b \in Nat, a < b
  PROVE  BlockSize * a + BlockSize <= BlockSize * b
<1>1. BlockSize \in Nat
  BY FSAssumption
<1>2. PICK d \in Nat : b = a + 1 + d
  <2>1. b - a - 1 \in Nat /\ b = a + 1 + (b - a - 1)
    OBVIOUS
  <2> QED BY <2>1
<1>3. BlockSize * (a + 1 + d) = BlockSize * a + BlockSize + BlockSize * d
  BY <1>1
<1>4. BlockSize * d \in Nat /\ BlockSize * a \in Nat
  BY <1>1
<1> QED BY <1>1, <1>2, <1>3, <1>4

\* How many blocks a size needs, by what it has in the last one.
LEMMA BlocksCounted ==
  ASSUME NEW size \in Nat
  PROVE  BlocksFor(size) = IF size % BlockSize = 0 THEN size \div BlockSize
                                                   ELSE size \div BlockSize + 1
<1>1. BlockSize \in Nat /\ BlockSize > 0
  BY FSAssumption
<1>2. PICK p \in Nat, off \in Nat : /\ p = size \div BlockSize /\ off = size % BlockSize
                                    /\ off < BlockSize /\ size = BlockSize * p + off
  BY Positions
<1>3. PICK x \in Nat : x = size + BlockSize - 1
  BY <1>1
<1>4. PICK q \in Nat, rest \in Nat : /\ q = x \div BlockSize /\ rest = x % BlockSize
                                     /\ rest < BlockSize /\ x = BlockSize * q + rest
  BY Positions
<1>5. q = IF off = 0 THEN p ELSE p + 1
  <2>0. BlockSize * p \in Nat /\ BlockSize * q \in Nat
    BY <1>1
  <2>1. ~(q < p)
    BY <1>1, <1>2, <1>3, <1>4, <2>0, Times
  <2>2. CASE off = 0
    <3>1. ~(p < q)
      BY <1>1, <1>2, <1>3, <1>4, <2>0, <2>2, Times
    <3> QED BY <2>1, <2>2, <3>1
  <2>3. CASE off # 0
    <3>1. q # p
      BY <1>1, <1>2, <1>3, <1>4, <2>0, <2>3
    <3>2. BlockSize * (p + 1) = BlockSize * p + BlockSize
      BY <1>1
    <3>3. ~(p + 1 < q)
      BY <1>1, <1>2, <1>3, <1>4, <2>0, <3>2, Times
    <3> QED BY <2>1, <2>3, <3>1, <3>3
  <2> QED BY <2>2, <2>3
<1> QED BY <1>2, <1>3, <1>4, <1>5 DEF BlocksFor

\* Bytes before the end of a file are in its blocks; those of its last block behind the
\* end are as far from the end as their place is from the end's place.
LEMMA TailBytes ==
  ASSUME NEW size \in Nat, NEW i \in Nat
  PROVE  /\ i < size => /\ i \div BlockSize + 1 \in 1..BlocksFor(size)
                        /\ i \div BlockSize + 1 = BlocksFor(size) /\ size % BlockSize # 0
                             => i % BlockSize < size % BlockSize
         /\ size <= i /\ i \div BlockSize + 1 <= BlocksFor(size) =>
              /\ size % BlockSize # 0 /\ i \div BlockSize + 1 = BlocksFor(size)
              /\ i % BlockSize = (size % BlockSize) + (i - size)
<1>1. BlockSize \in Nat /\ BlockSize > 0
  BY FSAssumption
<1>2. PICK p \in Nat, off \in Nat : /\ p = size \div BlockSize /\ off = size % BlockSize
                                    /\ off < BlockSize /\ size = BlockSize * p + off
  BY Positions
<1>3. PICK q \in Nat, o \in Nat : /\ q = i \div BlockSize /\ o = i % BlockSize
                                  /\ o < BlockSize /\ i = BlockSize * q + o
  BY Positions
<1>4. PICK k : k = BlocksFor(size)
  OBVIOUS
<1>5. k = IF off = 0 THEN p ELSE p + 1
  BY <1>2, <1>4, BlocksCounted
<1>6. BlockSize * p \in Nat /\ BlockSize * q \in Nat
  BY <1>1
<1>7. ASSUME i < size
      PROVE  q + 1 \in 1..k /\ (q + 1 = k /\ off # 0 => o < off)
  <2>1. ~(p < q)
    BY <1>1, <1>2, <1>3, <1>6, <1>7, Times
  <2>2. off = 0 => q # p
    BY <1>1, <1>2, <1>3, <1>6, <1>7
  <2>3. q = p => o < off
    BY <1>1, <1>2, <1>3, <1>6, <1>7
  <2> QED BY <1>5, <2>1, <2>2, <2>3
<1>8. ASSUME size <= i, q + 1 <= k
      PROVE  off # 0 /\ q + 1 = k /\ o = off + (i - size)
  <2>1. ~(q < p)
    BY <1>1, <1>2, <1>3, <1>6, <1>8, Times
  <2>2. off # 0 /\ q = p /\ q + 1 = k
    BY <1>5, <1>8, <2>1
  <2> QED BY <1>1, <1>2, <1>3, <1>6, <2>2
<1> QED BY <1>2, <1>3, <1>4, <1>7, <1>8

\* The block a byte is in.
LEMMA BlockOf ==
  ASSUME NEW map, NEW node, NodeSound(node, map), NEW i \in 0..(node.size - 1)
  PROVE  /\ i \in Nat /\ i < node.size /\ i % BlockSize \in Offsets
         /\ i \div BlockSize + 1 \in 1..Len(node.blocks)
         /\ node.blocks[i \div BlockSize + 1] \in ToSet(node.blocks)
         /\ ToSet(node.blocks) \subseteq DataBlocks
<1>1. /\ node.size \in Nat /\ node.blocks \in Seq(Bits) /\ Len(node.blocks) = BlocksFor(node.size)
      /\ ToSet(node.blocks) \subseteq DataBlocks
  BY FSAssumption DEF NodeSound, NodeRec
<1>2. i \in Nat /\ i < node.size
  BY <1>1
<1>3. i % BlockSize \in Offsets /\ i \div BlockSize + 1 \in 1..Len(node.blocks)
  BY <1>1, <1>2, Positions, TailBytes
<1>4. DOMAIN node.blocks = 1..Len(node.blocks)
  BY <1>1, LenProperties
<1> QED BY <1>1, <1>2, <1>3, <1>4 DEF ToSet

\* Blocks that a function leaves alone.
LEMMA SameBytes ==
  ASSUME NEW map, NEW node, NodeSound(node, map), NEW old, NEW new,
         \A b \in ToSet(node.blocks) : new[b] = old[b]
  PROVE  \A i \in 0..(node.size - 1) : Byte(new, node.blocks, i) = Byte(old, node.blocks, i)
BY BlockOf DEF Byte

\* What is left of the last block is cleared, and nothing else.
LEMMA TailCleared ==
  ASSUME FSInv, NEW n \in DOMAIN nodes, NEW size \in 0..MaxSize, size > nodes[n].size
  PROVE  LET node == nodes[n]
             cleared == ClearedTail(node, size)
         IN  /\ \A b \in DataBlocks : b \notin ToSet(node.blocks) => cleared[b] = block[b]
             /\ \A i \in 0..(node.size - 1) : Byte(cleared, node.blocks, i) = Byte(block, node.blocks, i)
             /\ \A i \in node.size..(size - 1) :
                  i \div BlockSize + 1 <= Len(node.blocks) => Byte(cleared, node.blocks, i) = 0
<1>1. PICK node : node = nodes[n]
  OBVIOUS
<1>2. /\ NodeSound(node, bitMap) /\ node.size \in Nat /\ size \in Nat /\ node.size < size
      /\ node.blocks \in Seq(Bits) /\ Len(node.blocks) = BlocksFor(node.size)
  BY <1>1, NodesSound, FSAssumption DEF NodeSound
<1>3. PICK cleared : cleared = ClearedTail(node, size)
  OBVIOUS
<1>4. PICK off \in Nat : off = node.size % BlockSize /\ off < BlockSize
  BY <1>2, Positions
<1>5. PICK k \in Nat : k = Len(node.blocks) /\ k = BlocksFor(node.size) /\ DOMAIN node.blocks = 1..k
  BY <1>2, LenProperties
<1>6. block \in [DataBlocks -> [Offsets -> 0..MaxWrite]]
  BY DEF FSInv, TypeOK
<1>7. CASE k = 0 \/ off = 0
  <2>1. cleared = block
    <3>1. k = 0 => node.blocks = <<>>
      BY <1>2, <1>5, EmptySeq
    <3> QED BY <1>3, <1>4, <1>7, <3>1 DEF ClearedTail
  <2>2. ASSUME NEW i \in node.size..(size - 1), i \div BlockSize + 1 <= k PROVE FALSE
    <3>1. i \in Nat /\ node.size <= i
      BY <1>2
    <3>2. off # 0 /\ i \div BlockSize + 1 = k /\ i \div BlockSize \in Nat
      BY <1>2, <1>4, <1>5, <2>2, <3>1, TailBytes, Positions
    <3> QED BY <1>7, <3>2
  <2> QED BY <1>1, <1>3, <1>5, <2>1, <2>2
<1>8. CASE k # 0 /\ off # 0
  <2>1. PICK last \in ToSet(node.blocks) : last = node.blocks[k] /\ last \in DataBlocks
    <3>1. node.blocks[k] \in ToSet(node.blocks)
      BY <1>5, <1>8 DEF ToSet
    <3> QED BY <1>2, <3>1 DEF NodeSound
  <2>2. cleared = [block EXCEPT ![last] =
                     [o \in Offsets |-> IF off <= o /\ o < off + size - node.size THEN 0 ELSE @[o]]]
    <3>1. Last(node.blocks) = last /\ node.blocks # <<>>
      BY <1>2, <1>5, <1>8, <2>1, EmptySeq DEF Last
    <3> QED BY <1>3, <1>4, <1>8, <3>1 DEF ClearedTail
  <2>3. /\ \A b \in DataBlocks : b # last => cleared[b] = block[b]
        /\ \A o \in Offsets : cleared[last][o] = IF off <= o /\ o < off + size - node.size
                                                 THEN 0 ELSE block[last][o]
    BY <1>6, <2>1, <2>2
  <2>4. ASSUME NEW i \in 0..(node.size - 1)
        PROVE  Byte(cleared, node.blocks, i) = Byte(block, node.blocks, i)
    <3>1. PICK j \in 1..k, o \in Offsets : j = i \div BlockSize + 1 /\ o = i % BlockSize
      BY <1>2, <1>5, BlockOf
    <3>2. node.blocks[j] \in DataBlocks
      BY <1>2, <3>1, BlockOf
    <3>3. CASE j = k
      <4>1. o < off
        BY <1>2, <1>4, <1>5, <1>8, <3>1, <3>3, TailBytes, BlockOf
      <4>2. o \in Nat
        BY FSAssumption DEF Offsets
      <4>3. cleared[last][o] = block[last][o]
        BY <2>3, <4>1, <4>2
      <4> QED BY <2>1, <3>1, <3>3, <4>3 DEF Byte
    <3>4. CASE j # k
      <4>1. node.blocks[j] # last
        BY <1>2, <1>5, <1>8, <2>1, <3>4 DEF NodeSound, IsInjective
      <4> QED BY <2>3, <3>1, <3>2, <4>1 DEF Byte
    <3> QED BY <3>3, <3>4
  <2>5. ASSUME NEW i \in node.size..(size - 1), i \div BlockSize + 1 <= k
        PROVE  Byte(cleared, node.blocks, i) = 0
    <3>1. i \in Nat /\ node.size <= i /\ i < size
      BY <1>2
    <3>2. i \div BlockSize + 1 = k /\ i % BlockSize = off + (i - node.size)
      BY <1>2, <1>4, <1>5, <2>5, <3>1, TailBytes
    <3>3. PICK o \in Offsets : o = i % BlockSize
      BY <3>1, Positions
    <3>4. off <= o /\ o < off + size - node.size
      BY <1>2, <3>1, <3>2, <3>3
    <3>5. cleared[last][o] = 0
      BY <2>3, <3>4
    <3> QED BY <2>1, <3>2, <3>3, <3>5 DEF Byte
  <2>6. \A b \in DataBlocks : b \notin ToSet(node.blocks) => cleared[b] = block[b]
    BY <2>1, <2>3
  <2> QED BY <1>1, <1>3, <1>5, <2>4, <2>5, <2>6
<1> QED BY <1>7, <1>8

\* What resizeNode leaves of the contents of i-node n, asked to become size bytes long, and
\* of the others: a longer file ends in zeros, a shorter one in its first bytes.
ContentsKept(n, size, r) ==
    /\ \A m \in DOMAIN nodes \ {n}, i \in Nat :
         i < nodes[m].size =>
           Byte(r.block, nodes[m].blocks, i) = Byte(block, nodes[m].blocks, i)
    /\ r.ok => \A i \in 0..(size - 1) :
         Byte(r.block, r.node.blocks, i) =
           IF i < nodes[n].size THEN Byte(block, nodes[n].blocks, i) ELSE 0
    /\ ~r.ok => /\ size > nodes[n].size /\ r.node = nodes[n]
                /\ \A i \in 0..(nodes[n].size - 1) :
                     Byte(r.block, nodes[n].blocks, i) = Byte(block, nodes[n].blocks, i)

\* Data that differs only in blocks of i-node n, or in blocks no i-node has, leaves the
\* contents of the other i-nodes alone.
LEMMA OthersKept ==
  ASSUME FSInv, NEW n \in DOMAIN nodes, NEW new, NEW T,
         \A b \in DataBlocks : b \notin T => new[b] = block[b],
         T \subseteq ToSet(nodes[n].blocks) \cup (DataBlocks \ bitMap)
  PROVE  \A m \in DOMAIN nodes \ {n}, i \in Nat :
           i < nodes[m].size =>
             Byte(new, nodes[m].blocks, i) = Byte(block, nodes[m].blocks, i)
<1> SUFFICES ASSUME NEW m \in DOMAIN nodes \ {n}, NEW i \in Nat, i < nodes[m].size
             PROVE  Byte(new, nodes[m].blocks, i) = Byte(block, nodes[m].blocks, i)
  OBVIOUS
<1>1. NodeSound(nodes[m], bitMap) /\ nodes[m].size \in Nat
      /\ ToSet(nodes[m].blocks) \cap ToSet(nodes[n].blocks) = {}
  <2>1. NodeSound(nodes[m], bitMap) /\ nodes[m].size \in 0..MaxSize
    BY NodesSound
  <2>2. ToSet(nodes[m].blocks) \cap ToSet(nodes[n].blocks) = {}
    BY NodesSound
  <2> QED BY <2>1, <2>2, FSAssumption
<1>2. \A b \in ToSet(nodes[m].blocks) : b \in DataBlocks /\ b \notin T
  BY <1>1 DEF NodeSound
<1>3. i \in 0..(nodes[m].size - 1)
  BY <1>1
<1> QED BY <1>1, <1>2, <1>3, SameBytes

LEMMA GrownContents ==
  ASSUME FSInv, NEW n \in DOMAIN nodes, NEW size \in 0..MaxSize, size > nodes[n].size
  PROVE  ContentsKept(n, size, Grown(nodes[n], size))
<1> DEFINE k == BlocksFor(size) - Len(nodes[n].blocks)
           new == FirstFree(k)
           r == Grown(nodes[n], size)
<1>0. PICK node : node = nodes[n]
  OBVIOUS
<1>1. /\ NodeSound(node, bitMap) /\ node.size \in Nat /\ size \in Nat /\ node.size < size
      /\ node.blocks \in Seq(Bits) /\ Len(node.blocks) = BlocksFor(node.size)
      /\ ToSet(node.blocks) \subseteq bitMap \cap DataBlocks
      /\ node = [free |-> node.free, size |-> node.size, blocks |-> node.blocks]
  BY <1>0, NodesSound, FSAssumption DEF NodeSound
<1>2. PICK cleared : cleared = ClearedTail(nodes[n], size)
  OBVIOUS
<1>3. /\ \A b \in DataBlocks : b \notin ToSet(node.blocks) => cleared[b] = block[b]
      /\ \A i \in 0..(node.size - 1) : Byte(cleared, node.blocks, i) = Byte(block, node.blocks, i)
      /\ \A i \in node.size..(size - 1) :
           i \div BlockSize + 1 <= Len(node.blocks) => Byte(cleared, node.blocks, i) = 0
  BY <1>0, <1>2, TailCleared
<1>4. CASE ~EnoughSpace(k)
  <2>1. r = Unchanged(nodes[n], FALSE, cleared)
    BY <1>2, <1>4 DEF Grown
  <2>2. r.ok = FALSE /\ r.node = nodes[n] /\ r.block = cleared
    BY <2>1 DEF Unchanged
  <2> HIDE DEF r
  <2>3. \A m \in DOMAIN nodes \ {n}, i \in Nat :
          i < nodes[m].size =>
            Byte(r.block, nodes[m].blocks, i) = Byte(block, nodes[m].blocks, i)
    <3>1. PICK T : T = ToSet(nodes[n].blocks)
      OBVIOUS
    <3>2. \A b \in DataBlocks : b \notin T => r.block[b] = block[b]
      BY <1>0, <1>3, <2>2, <3>1
    <3> QED BY <3>1, <3>2, OthersKept
  <2>4. ContentsKept(n, size, r)
    BY <1>0, <1>3, <2>2, <2>3 DEF ContentsKept
  <2> QED BY <2>4 DEF r
<1>5. CASE EnoughSpace(k)
  <2>1. 0..(FirstData - 1) \subseteq bitMap /\ superBlock = Quota(bitMap)
    BY DEF FSInv, QuotaExact, SystemBlocksMarked
  <2>2. k \in Nat /\ Len(node.blocks) + k = BlocksFor(size)
    <3>1. /\ BlocksFor(size) \in Nat /\ BlocksFor(node.size) \in Nat
          /\ BlocksFor(node.size) <= BlocksFor(size)
      BY <1>1, BlocksForProperties
    <3> QED BY <1>0, <1>1, <3>1
  <2>3. k <= Quota(bitMap)
    BY <1>5, <2>1 DEF EnoughSpace
  <2> HIDE DEF k
  <2>4. new \in Seq(Bits) /\ Len(new) = k /\ ToSet(new) \subseteq DataBlocks \ bitMap
    BY <2>1, <2>2, <2>3, FirstFreeProperties
  <2>5. /\ r.ok = TRUE /\ r.node = [node EXCEPT !.size = size, !.blocks = @ \o new]
        /\ r.block = [b \in DOMAIN block |-> IF b \in ToSet(new) THEN Zeros ELSE cleared[b]]
    BY <1>0, <1>2, <1>5 DEF Grown, k
  <2>6. r.node.blocks = node.blocks \o new
    BY <1>1, <2>5
  <2>7. DOMAIN block = DataBlocks
    BY DEF FSInv, TypeOK
  <2>8. \A b \in DataBlocks : r.block[b] = IF b \in ToSet(new) THEN Zeros ELSE cleared[b]
    BY <2>5, <2>7
  <2> HIDE DEF r, new
  <2>9. PICK len \in Nat : len = Len(node.blocks) /\ DOMAIN node.blocks = 1..len
    BY <1>1, LenProperties
  <2>10. /\ \A j \in 1..len : r.node.blocks[j] = node.blocks[j]
         /\ \A j \in (len + 1)..(len + k) : r.node.blocks[j] \in ToSet(new)
    <3>1. /\ Len(node.blocks \o new) = len + k
          /\ \A j \in 1..(len + k) : (node.blocks \o new)[j] =
               IF j <= len THEN node.blocks[j] ELSE new[j - len]
      <4>1. Len(new) = k /\ new \in Seq(Bits) /\ k \in Nat
        BY <2>2, <2>4
      <4> QED BY <1>1, <2>9, <4>1, ConcatProperties
    <3>2. ASSUME NEW j \in (len + 1)..(len + k) PROVE new[j - len] \in ToSet(new)
      <4>1. j - len \in DOMAIN new
        BY <2>2, <2>4, <2>9, LenProperties
      <4> QED BY <4>1 DEF ToSet
    <3>3. ASSUME NEW j \in 1..len PROVE j \in 1..(len + k) /\ j <= len
      BY <2>2, <2>9
    <3>4. ASSUME NEW j \in (len + 1)..(len + k) PROVE j \in 1..(len + k) /\ ~(j <= len)
      BY <2>2, <2>9
    <3> QED BY <2>6, <3>1, <3>2, <3>3, <3>4
  <2>11. ASSUME NEW i \in 0..(size - 1)
         PROVE  Byte(r.block, r.node.blocks, i) =
                  IF i < node.size THEN Byte(block, node.blocks, i) ELSE 0
    <3>1. i \in Nat /\ i < size
      BY <1>1
    <3>2. PICK j \in 1..(len + k), o \in Offsets : j = i \div BlockSize + 1 /\ o = i % BlockSize
      BY <1>1, <2>2, <2>9, <3>1, TailBytes, Positions
    <3>3. CASE j <= len
      <4>1. r.node.blocks[j] = node.blocks[j] /\ node.blocks[j] \in ToSet(node.blocks)
        BY <2>9, <2>10, <3>2, <3>3 DEF ToSet
      <4>2. r.block[node.blocks[j]] = cleared[node.blocks[j]]
        BY <1>1, <2>4, <2>8, <4>1
      <4>3. Byte(r.block, r.node.blocks, i) = Byte(cleared, node.blocks, i)
        BY <3>2, <4>1, <4>2 DEF Byte
      <4>4. CASE i < node.size
        BY <1>1, <1>3, <3>1, <4>3, <4>4
      <4>5. CASE ~(i < node.size)
        <5>1. i \in node.size..(size - 1) /\ i \div BlockSize + 1 <= Len(node.blocks)
          BY <1>1, <2>9, <3>1, <3>2, <3>3, <4>5
        <5> QED BY <1>3, <4>3, <4>5, <5>1
      <4> QED BY <4>4, <4>5
    <3>4. CASE ~(j <= len)
      <4>1. r.node.blocks[j] \in ToSet(new)
        BY <2>2, <2>9, <2>10, <3>2, <3>4
      <4>2. r.block[r.node.blocks[j]] = Zeros
        BY <2>4, <2>8, <4>1
      <4>3. Byte(r.block, r.node.blocks, i) = 0
        BY <3>2, <4>2 DEF Byte, Zeros
      <4>4. ~(i < node.size)
        <5>1. i < node.size => i \div BlockSize + 1 \in 1..len
          BY <1>1, <2>9, <3>1, TailBytes
        <5> QED BY <3>2, <3>4, <5>1
      <4> QED BY <4>3, <4>4
    <3> QED BY <3>3, <3>4
  <2>12. \A m \in DOMAIN nodes \ {n}, i \in Nat :
          i < nodes[m].size =>
            Byte(r.block, nodes[m].blocks, i) = Byte(block, nodes[m].blocks, i)
    <3>1. PICK T : T = ToSet(node.blocks) \cup ToSet(new)
      OBVIOUS
    <3>2. /\ \A b \in DataBlocks : b \notin T => r.block[b] = block[b]
          /\ T \subseteq ToSet(nodes[n].blocks) \cup (DataBlocks \ bitMap)
      BY <1>0, <1>3, <2>4, <2>8, <3>1
    <3> QED BY <3>2, OthersKept
  <2>13. ContentsKept(n, size, r)
    BY <1>0, <2>5, <2>11, <2>12 DEF ContentsKept
  <2> QED BY <2>13 DEF r
<1> QED BY <1>4, <1>5

LEMMA ShrunkContents ==
  ASSUME FSInv, NEW n \in DOMAIN nodes, NEW size \in 0..MaxSize, size < nodes[n].size
  PROVE  ContentsKept(n, size, Shrunk(nodes[n], size))
<1> DEFINE k == BlocksFor(size)
           freed == FreedBlocks(nodes[n], k)
           r == Shrunk(nodes[n], size)
<1>0. PICK node : node = nodes[n]
  OBVIOUS
<1>1. /\ NodeSound(node, bitMap) /\ node.size \in Nat /\ size \in Nat /\ size < node.size
      /\ node.blocks \in Seq(Bits) /\ Len(node.blocks) = BlocksFor(node.size)
      /\ IsInjective(node.blocks) /\ ToSet(node.blocks) \subseteq bitMap \cap DataBlocks
      /\ node = [free |-> node.free, size |-> node.size, blocks |-> node.blocks]
  BY <1>0, NodesSound, FSAssumption DEF NodeSound
<1>2. PICK len \in Nat : len = Len(node.blocks) /\ DOMAIN node.blocks = 1..len
  BY <1>1, LenProperties
<1>3. k \in 0..len
  <2>1. BlocksFor(size) \in Nat /\ BlocksFor(node.size) \in Nat
        /\ BlocksFor(size) <= BlocksFor(node.size)
    BY <1>1, BlocksForProperties
  <2> QED BY <1>1, <1>2, <2>1
<1>4. /\ r.ok = TRUE /\ r.node = [node EXCEPT !.size = size, !.blocks = SubSeq(@, 1, k)]
      /\ r.block = [b \in DOMAIN block |-> IF b \in freed THEN Zeros ELSE block[b]]
  BY <1>0 DEF Shrunk
<1>5. r.node.blocks = SubSeq(node.blocks, 1, k)
  BY <1>1, <1>4
<1>6. freed = ToSet(SubSeq(node.blocks, k + 1, Len(node.blocks)))
  BY <1>0 DEF FreedBlocks
<1> HIDE DEF r, freed
<1>7. PICK left : left = SubSeq(node.blocks, 1, k)
  OBVIOUS
<1>8. /\ left \in Seq(Bits) /\ Len(left) = k /\ ToSet(left) \cap freed = {}
      /\ ToSet(node.blocks) = ToSet(left) \cup freed
  BY <1>1, <1>2, <1>3, <1>6, <1>7, SplitInjective
<1>9. \A j \in 1..k : left[j] = node.blocks[j] /\ left[j] \in ToSet(left)
  <2>1. \A j \in 1..k : node.blocks[j] \in Bits
    BY <1>1, <1>2, <1>3, ElementOfSeq
  <2>2. \A j \in 1..k : left[j] = node.blocks[j]
    BY <1>3, <1>7, <2>1, SubSeqProperties
  <2>3. DOMAIN left = 1..k
    BY <1>8, LenProperties
  <2> QED BY <2>2, <2>3 DEF ToSet
<1>10. \A b \in DataBlocks : r.block[b] = IF b \in freed THEN Zeros ELSE block[b]
  BY <1>4 DEF FSInv, TypeOK
<1>11. ASSUME NEW i \in 0..(size - 1)
       PROVE  i < node.size /\ Byte(r.block, r.node.blocks, i) = Byte(block, node.blocks, i)
  <2>1. i \in Nat /\ i < size /\ i < node.size
    BY <1>1
  <2>2. PICK j \in 1..k : j = i \div BlockSize + 1
    BY <1>1, <2>1, TailBytes
  <2>3. r.node.blocks[j] = node.blocks[j] /\ node.blocks[j] \in DataBlocks \ freed
    BY <1>1, <1>5, <1>7, <1>8, <1>9
  <2>4. r.block[node.blocks[j]] = block[node.blocks[j]]
    BY <1>10, <2>3
  <2> QED BY <2>1, <2>2, <2>3, <2>4 DEF Byte
<1>12. \A m \in DOMAIN nodes \ {n}, i \in Nat :
         i < nodes[m].size =>
           Byte(r.block, nodes[m].blocks, i) = Byte(block, nodes[m].blocks, i)
  <2>1. PICK T : T = freed
    OBVIOUS
  <2>2. /\ \A b \in DataBlocks : b \notin T => r.block[b] = block[b]
        /\ T \subseteq ToSet(nodes[n].blocks) \cup (DataBlocks \ bitMap)
    BY <1>0, <1>8, <1>10, <2>1
  <2> QED BY <2>2, OthersKept
<1>13. ContentsKept(n, size, r)
  BY <1>0, <1>4, <1>11, <1>12 DEF ContentsKept
<1> QED BY <1>13 DEF r

\* resizeNode keeps the bytes of every other i-node and those its own keeps, and fills
\* what it adds with zeros, whatever the blocks held before.
THEOREM ResizedContents ==
  ASSUME FSInv, NEW n \in DOMAIN nodes, NEW size \in 0..MaxSize
  PROVE  ContentsKept(n, size, Resized(nodes[n], size))
<1>1. nodes[n].size \in Nat /\ size \in Nat
  BY FSAssumption, NodesSound
<1>2. CASE size = nodes[n].size
  <2>1. Resized(nodes[n], size) = Unchanged(nodes[n], TRUE, block)
    BY <1>2, Zenon DEF Resized
  <2>2. PICK r : r = Resized(nodes[n], size)
    OBVIOUS
  <2>3. r.ok = TRUE /\ r.node = nodes[n] /\ r.block = block
    BY <2>1, <2>2 DEF Unchanged
  <2>4. \A i \in 0..(size - 1) : i < nodes[n].size
    BY <1>1, <1>2
  <2>5. ContentsKept(n, size, r)
    BY <2>3, <2>4 DEF ContentsKept
  <2> QED BY <2>2, <2>5
<1>3. CASE size > nodes[n].size
  <2>1. size # nodes[n].size
    BY <1>1, <1>3
  <2>2. Resized(nodes[n], size) = Grown(nodes[n], size)
    BY <1>3, <2>1, Zenon DEF Resized
  <2> QED BY <1>3, <2>2, GrownContents
<1>4. CASE size < nodes[n].size
  <2>1. size # nodes[n].size /\ ~(size > nodes[n].size)
    BY <1>1, <1>4
  <2>2. Resized(nodes[n], size) = Shrunk(nodes[n], size)
    BY <2>1, Zenon DEF Resized
  <2> QED BY <1>4, <2>2, ShrunkContents
<1> QED BY <1>1, <1>2, <1>3, <1>4

\* The loop of my_write puts each byte of the buffer where its byte of the file is, and
\* leaves everything else.
LEMMA StoredBytes ==
  ASSUME NEW map, NEW node, NodeSound(node, map), NEW data \in Contents,
         NEW off \in Nat, NEW k \in 1..MaxWrite, node.size = off + k
  PROVE  LET new == Stored(data, node.blocks, off, k)
         IN  /\ \A b \in DataBlocks : b \notin ToSet(node.blocks) => new[b] = data[b]
             /\ \A i \in 0..(off + k - 1) :
                  Byte(new, node.blocks, i) = IF i >= off THEN Buf(k)[i - off]
                                              ELSE Byte(data, node.blocks, i)
<1> DEFINE at(b, o) == {i \in off..(off + k - 1) :
                          node.blocks[i \div BlockSize + 1] = b /\ i % BlockSize = o}
           byte(b, o) == IF at(b, o) = {} THEN data[b][o] ELSE Buf(k)[LeastOf(at(b, o)) - off]
<1>1. PICK new : new = Stored(data, node.blocks, off, k)
  OBVIOUS
<1>2. DOMAIN data = DataBlocks /\ \A b \in DataBlocks : data[b] \in [Offsets -> 0..MaxWrite]
  BY DEF Contents
<1>3. \A b \in DataBlocks : new[b] = [o \in Offsets |-> byte(b, o)]
  BY <1>1, <1>2 DEF Stored
<1>4. \A i \in off..(off + k - 1) : i \in Nat /\ i \in 0..(off + k - 1) /\ i >= off
  BY FSAssumption
<1>5. \A i \in 0..(off + k - 1) :
        /\ node.blocks[i \div BlockSize + 1] \in ToSet(node.blocks) \cap DataBlocks
        /\ i \div BlockSize + 1 \in DOMAIN node.blocks
        /\ i % BlockSize \in Offsets /\ i \in Nat
  <2> SUFFICES ASSUME NEW i \in 0..(off + k - 1)
               PROVE  /\ node.blocks[i \div BlockSize + 1] \in ToSet(node.blocks) \cap DataBlocks
                      /\ i \div BlockSize + 1 \in DOMAIN node.blocks
                      /\ i % BlockSize \in Offsets /\ i \in Nat
    OBVIOUS
  <2>1. i \in 0..(node.size - 1) /\ node.blocks \in Seq(Bits)
    BY DEF NodeSound, NodeRec
  <2> QED BY <2>1, BlockOf, LenProperties
<1>6. ASSUME NEW b \in DataBlocks, b \notin ToSet(node.blocks) PROVE new[b] = data[b]
  <2>1. \A o : at(b, o) = {}
    BY <1>4, <1>5, <1>6
  <2>2. \A o : byte(b, o) = data[b][o]
    BY <2>1
  <2> HIDE DEF byte
  <2> QED BY <1>2, <1>3, <2>2
<1>7. ASSUME NEW i \in 0..(off + k - 1)
      PROVE  Byte(new, node.blocks, i) = IF i >= off THEN Buf(k)[i - off]
                                         ELSE Byte(data, node.blocks, i)
  <2>1. PICK b \in DataBlocks, o \in Offsets :
          b = node.blocks[i \div BlockSize + 1] /\ o = i % BlockSize
    BY <1>5
  <2>2. Byte(new, node.blocks, i) = byte(b, o)
    <3>1. new[b][o] = byte(b, o)
      <4> HIDE DEF byte
      <4> QED BY <1>3
    <3> QED BY <2>1, <3>1 DEF Byte
  <2>3. ASSUME NEW j \in off..(off + k - 1), j \in at(b, o) PROVE j = i
    <3>1. /\ node.blocks[j \div BlockSize + 1] = node.blocks[i \div BlockSize + 1]
          /\ j % BlockSize = i % BlockSize
      BY <2>1, <2>3
    <3>2. /\ j \div BlockSize + 1 \in DOMAIN node.blocks /\ i \div BlockSize + 1 \in DOMAIN node.blocks
          /\ j \in Nat /\ i \in Nat
      BY <1>4, <1>5
    <3>3. j \div BlockSize + 1 = i \div BlockSize + 1
      BY <3>1, <3>2 DEF NodeSound, IsInjective
    <3>4. j \div BlockSize = i \div BlockSize
      <4>1. j \div BlockSize \in Nat /\ i \div BlockSize \in Nat
        BY <3>2, Positions
      <4> QED BY <3>3, <4>1
    <3> QED BY <3>1, <3>2, <3>4, SamePosition
  <2>4. CASE i >= off
    <3>1. at(b, o) = {i}
      <4>1. i \in off..(off + k - 1)
        BY <2>4, FSAssumption
      <4>2. i \in at(b, o)
        BY <2>1, <4>1
      <4> QED BY <2>3, <4>2
    <3>2. LeastOf({i}) = i
      BY LeastOfProperties
    <3>3. byte(b, o) = Buf(k)[i - off]
      <4> HIDE DEF at
      <4> QED BY <3>1, <3>2
    <3> HIDE DEF byte
    <3> QED BY <2>2, <2>4, <3>3
  <2>5. CASE ~(i >= off)
    <3>1. at(b, o) = {}
      BY <1>4, <2>3, <2>5
    <3>2. byte(b, o) = data[b][o]
      <4> HIDE DEF at
      <4> QED BY <3>1
    <3>3. data[b][o] = Byte(data, node.blocks, i)
      BY <2>1 DEF Byte
    <3> HIDE DEF byte
    <3> QED BY <2>2, <2>5, <3>2, <3>3
  <2> QED BY <2>4, <2>5
<1> QED BY <1>1, <1>6, <1>7

\* What my_write leaves: r tells what resizeNode made of the i-node.
LEMMA WriteContents ==
  ASSUME FSInv, NEW nm \in DOMAIN fh, NEW off \in 0..(MaxSize - 1), NEW k \in 1..MaxWrite,
         off + k <= MaxSize, my_write(nm, off, k)
  PROVE  LET n == fh[nm]
             r == Resized(nodes[n], off + k)
         IN  /\ n \in DOMAIN nodes /\ nodes' = [nodes EXCEPT ![n] = r.node]
             /\ r.ok <=> r.node.size = off + k
             /\ \A m \in DOMAIN nodes \ {n}, i \in Nat :
                  i < nodes[m].size =>
                    Byte(block', nodes[m].blocks, i) = Byte(block, nodes[m].blocks, i)
             /\ ~r.ok => /\ r.node = nodes[n]
                         /\ \A i \in 0..(nodes[n].size - 1) :
                              Byte(block', nodes[n].blocks, i) = Byte(block, nodes[n].blocks, i)
             /\ r.ok => \A i \in 0..(off + k - 1) :
                  Byte(block', r.node.blocks, i) =
                    IF i >= off THEN Buf(k)[i - off]
                    ELSE IF i < nodes[n].size THEN Byte(block, nodes[n].blocks, i) ELSE 0
<1> DEFINE n == fh[nm]
           r == Resized(nodes[n], off + k)
<1>1. n \in DOMAIN nodes /\ off \in Nat /\ k \in Nat /\ off + k \in 0..MaxSize
  BY FSAssumption DEF FSInv, HandlesLive
<1>2. /\ nodes' = [nodes EXCEPT ![n] = r.node]
      /\ block' = IF r.ok THEN Stored(r.block, r.node.blocks, off, k) ELSE r.block
  BY DEF my_write
<1>3. ResultSound(n, r) /\ (r.ok => r.node.size = off + k)
  BY <1>1, ResizedSound
<1>4. ContentsKept(n, off + k, r)
  BY <1>1, ResizedContents
<1> HIDE DEF n, r
<1>5. CASE ~r.ok
  <2>1. /\ block' = r.block /\ r.node = nodes[n] /\ off + k > nodes[n].size
        /\ \A i \in 0..(nodes[n].size - 1) :
             Byte(r.block, nodes[n].blocks, i) = Byte(block, nodes[n].blocks, i)
        /\ \A m \in DOMAIN nodes \ {n}, i \in Nat :
             i < nodes[m].size =>
               Byte(r.block, nodes[m].blocks, i) = Byte(block, nodes[m].blocks, i)
    BY <1>2, <1>4, <1>5 DEF ContentsKept
  <2>2. nodes[n].size \in Nat
    BY <1>1, NodesSound, FSAssumption
  <2>3. ~(r.node.size = off + k)
    BY <1>1, <2>1, <2>2
  <2>4. /\ \A i \in 0..(nodes[n].size - 1) :
             Byte(block', nodes[n].blocks, i) = Byte(block, nodes[n].blocks, i)
        /\ \A m \in DOMAIN nodes \ {n}, i \in Nat :
             i < nodes[m].size =>
               Byte(block', nodes[m].blocks, i) = Byte(block, nodes[m].blocks, i)
    BY <2>1
  <2> QED BY <1>1, <1>2, <1>5, <2>1, <2>3, <2>4 DEF n, r
<1>6. CASE r.ok
  <2>1. /\ block' = Stored(r.block, r.node.blocks, off, k)
        /\ NodeSound(r.node, r.bitMap) /\ r.block \in Contents /\ r.node.size = off + k
        /\ \A m \in DOMAIN nodes \ {n} :
             ToSet(nodes[m].blocks) \cap ToSet(r.node.blocks) = {}
        /\ \A m \in DOMAIN nodes \ {n}, i \in Nat :
             i < nodes[m].size =>
               Byte(r.block, nodes[m].blocks, i) = Byte(block, nodes[m].blocks, i)
        /\ \A i \in 0..(off + k - 1) :
             Byte(r.block, r.node.blocks, i) =
               IF i < nodes[n].size THEN Byte(block, nodes[n].blocks, i) ELSE 0
    BY <1>2, <1>3, <1>4, <1>6 DEF ResultSound, ContentsKept
  <2>2. PICK data : data = block'
    OBVIOUS
  <2>3. /\ \A b \in DataBlocks : b \notin ToSet(r.node.blocks) => data[b] = r.block[b]
        /\ \A i \in 0..(off + k - 1) :
             Byte(data, r.node.blocks, i) = IF i >= off THEN Buf(k)[i - off]
                                            ELSE Byte(r.block, r.node.blocks, i)
    BY <1>1, <2>1, <2>2, StoredBytes
  <2>4. ASSUME NEW m \in DOMAIN nodes \ {n}, NEW i \in Nat, i < nodes[m].size
        PROVE  Byte(data, nodes[m].blocks, i) = Byte(block, nodes[m].blocks, i)
    <3>1. NodeSound(nodes[m], bitMap) /\ nodes[m].size \in 0..MaxSize
      BY NodesSound
    <3>2. \A b \in ToSet(nodes[m].blocks) : data[b] = r.block[b]
      BY <2>1, <2>3, <3>1 DEF NodeSound
    <3>3. i \in 0..(nodes[m].size - 1)
      BY <2>4, <3>1, FSAssumption
    <3>4. Byte(data, nodes[m].blocks, i) = Byte(r.block, nodes[m].blocks, i)
      BY <3>1, <3>2, <3>3, SameBytes
    <3> QED BY <2>1, <2>4, <3>4
  <2> QED BY <1>1, <1>2, <1>3, <1>6, <2>1, <2>2, <2>3, <2>4 DEF n, r
<1> QED BY <1>5, <1>6

\* The contents of all i-nodes after a write.
LEMMA WriteStep ==
  ASSUME FSInv, NEW nm \in DOMAIN fh, NEW off \in 0..(MaxSize - 1), NEW k \in 1..MaxWrite,
         off + k <= MaxSize, my_write(nm, off, k)
  PROVE  LET n == fh[nm]
             done == nodes'[n].size = off + k
         IN  /\ \A m \in DOMAIN nodes \ {n} : Content(m)' = Content(m)
             /\ ~done => Content(n)' = Content(n)
             /\ done => \A i \in 0..(off + k - 1) :
                  Content(n)'[i] = IF i >= off THEN Buf(k)[i - off]
                                   ELSE IF i < nodes[n].size THEN Content(n)[i] ELSE 0
<1>1. PICK n \in DOMAIN nodes : n = fh[nm]
  BY WriteContents
<1>2. PICK r : r = Resized(nodes[n], off + k)
  OBVIOUS
<1>3. PICK data : data = block'
  OBVIOUS
<1>4. /\ nodes' = [nodes EXCEPT ![n] = r.node]
      /\ r.ok <=> r.node.size = off + k
      /\ \A m \in DOMAIN nodes \ {n}, i \in Nat :
           i < nodes[m].size =>
             Byte(data, nodes[m].blocks, i) = Byte(block, nodes[m].blocks, i)
      /\ ~r.ok => /\ r.node = nodes[n]
                  /\ \A i \in 0..(nodes[n].size - 1) :
                       Byte(data, nodes[n].blocks, i) = Byte(block, nodes[n].blocks, i)
      /\ r.ok => \A i \in 0..(off + k - 1) :
           Byte(data, r.node.blocks, i) =
             IF i >= off THEN Buf(k)[i - off]
             ELSE IF i < nodes[n].size THEN Byte(block, nodes[n].blocks, i) ELSE 0
  BY <1>1, <1>2, <1>3, WriteContents
<1>5. nodes'[n] = r.node /\ \A m \in DOMAIN nodes \ {n} : nodes'[m] = nodes[m]
  BY <1>4
<1>6. fh' = fh
  BY DEF my_write
<1>7. ASSUME NEW m \in DOMAIN nodes PROVE nodes[m].size \in Nat
  BY NodesSound, FSAssumption
<1>8. ASSUME NEW m \in DOMAIN nodes \ {n}
      PROVE  [i \in 0..(nodes'[m].size - 1) |-> Byte(data, nodes'[m].blocks, i)] =
             [i \in 0..(nodes[m].size - 1) |-> Byte(block, nodes[m].blocks, i)]
  <2>1. \A i \in 0..(nodes[m].size - 1) :
          Byte(data, nodes[m].blocks, i) = Byte(block, nodes[m].blocks, i)
    BY <1>4, <1>7
  <2> QED BY <1>5, <2>1
<1>9. ASSUME ~r.ok
      PROVE  [i \in 0..(nodes'[n].size - 1) |-> Byte(data, nodes'[n].blocks, i)] =
             [i \in 0..(nodes[n].size - 1) |-> Byte(block, nodes[n].blocks, i)]
  BY <1>4, <1>5, <1>9
<1>10. PICK before, after :
         /\ before = [j \in 0..(nodes[n].size - 1) |-> Byte(block, nodes[n].blocks, j)]
         /\ after = [j \in 0..(nodes'[n].size - 1) |-> Byte(data, nodes'[n].blocks, j)]
  OBVIOUS
<1>11. before = Content(n) /\ after = Content(fh[nm])'
  BY <1>1, <1>3, <1>6, <1>10 DEF Content, ByteAt, Byte
<1>12. ASSUME nodes'[n].size = off + k, NEW i \in 0..(off + k - 1)
       PROVE  after[i] = IF i >= off THEN Buf(k)[i - off]
                         ELSE IF i < nodes[n].size THEN before[i] ELSE 0
  <2>1. r.ok
    BY <1>4, <1>5, <1>12, Zenon
  <2>2. i < nodes[n].size => i \in 0..(nodes[n].size - 1)
    BY <1>7, FSAssumption
  <2>3. i < nodes[n].size => before[i] = Byte(block, nodes[n].blocks, i)
    BY <1>10, <2>2
  <2>4. after[i] = Byte(data, r.node.blocks, i)
    BY <1>5, <1>10, <1>12
  <2> QED BY <1>4, <2>1, <2>3, <2>4
<1>13. \A m \in DOMAIN nodes \ {n} : Content(m)' = Content(m)
  BY <1>3, <1>8 DEF Content, ByteAt, Byte
<1>14. nodes'[n].size # off + k => after = before
  BY <1>4, <1>5, <1>9, <1>10
<1> QED BY <1>1, <1>11, <1>12, <1>13, <1>14

\* A write changes exactly its bytes: neither another file, nor what a full disk refuses,
\* nor bytes that a block had kept from an earlier file can be seen.
THEOREM WritesAreExact == Spec => WritesExact
<1>1. FSInv =>
        \A nm \in DOMAIN fh, off \in 0..(MaxSize - 1), k \in 1..MaxWrite :
          off + k <= MaxSize /\ my_write(nm, off, k) =>
            LET n == fh[nm]
                done == nodes'[n].size = off + k
            IN /\ \A m \in DOMAIN nodes \ {n} : Content(m)' = Content(m)
               /\ ~done => Content(n)' = Content(n)
               /\ done => \A i \in 0..(off + k - 1) :
                    Content(n)'[i] = IF i >= off THEN Buf(k)[i - off]
                                     ELSE IF i < nodes[n].size THEN Content(n)[i] ELSE 0
  BY WriteStep
<1> QED BY <1>1, FSInvariance, PTL DEF WritesExact

-----------------------------------------------------------------------------
(* The abstract store *)

\* No two entries have the same name.
NamesDiffer ==
    \A d, e \in UsedEntries : directory.files[d].name = directory.files[e].name => d = e

\* An open file keeps its entry, and its handle the i-node the entry leads to.
HandlesNamed == \A nm \in DOMAIN fh : EntriesOf(nm) # {} /\ fh[nm] = NodeOf(nm)

\* An i-node whose entry has the same index has not been marked free by my_unlink.
OwnNodesLive ==
    \A e \in UsedEntries : directory.files[e].node = e /\ e \in DOMAIN nodes => ~nodes[e].free

StoreInv == NamesDiffer /\ HandlesNamed /\ OwnNodesLive

\* The entries with a name, and the i-node a lookup of it leads to.
Named(entries, nm) == {e \in DOMAIN entries : entries[e].name = nm}
NodeIn(entries, nm) == entries[LeastOf(Named(entries, nm))].node

\* The bytes of an i-node, and the files that readers see in a directory.
Seen(inodes, data, n) ==
    [i \in 0..(inodes[n].size - 1) |-> Byte(data, inodes[n].blocks, i)]

View(entries, inodes, data) ==
    [nm \in {x \in Names : Named(entries, x) # {} /\ NodeIn(entries, x) \in DOMAIN inodes} |->
       Seen(inodes, data, NodeIn(entries, nm))]

LEMMA LookupIs ==
  ASSUME NEW nm
  PROVE  /\ EntriesOf(nm) = Named(directory.files, nm)
         /\ NodeOf(nm) = NodeIn(directory.files, nm)
         /\ findFileByName(nm) = LeastOf(Named(directory.files, nm))
BY DEF EntriesOf, NodeOf, findFileByName, Named, NodeIn, UsedEntries

\* A lookup finds an entry of that name.
LEMMA LookupFinds ==
  ASSUME NEW entries, DOMAIN entries \subseteq Nat, NEW nm, Named(entries, nm) # {}
  PROVE  LeastOf(Named(entries, nm)) \in Named(entries, nm)
<1>1. Named(entries, nm) \in SUBSET Nat
  BY DEF Named
<1> QED BY <1>1, LeastOfProperties

\* A new entry is found under its name and hides none.
LEMMA EntryAdded ==
  ASSUME NEW entries, DOMAIN entries \subseteq Nat, NEW e \in Nat, e \notin DOMAIN entries,
         NEW nm, Named(entries, nm) = {}, NEW n
  PROVE  LET new == With(entries, e, [name |-> nm, node |-> n])
         IN  /\ Named(new, nm) = {e} /\ NodeIn(new, nm) = n
             /\ \A x : x # nm =>
                  /\ Named(new, x) = Named(entries, x)
                  /\ Named(entries, x) # {} => NodeIn(new, x) = NodeIn(entries, x)
<1>1. PICK new : new = With(entries, e, [name |-> nm, node |-> n])
  OBVIOUS
<1>2. /\ DOMAIN new = DOMAIN entries \cup {e}
      /\ new[e].name = nm /\ new[e].node = n
      /\ \A d \in DOMAIN entries : new[d] = entries[d]
  BY <1>1 DEF With
<1>3. Named(new, nm) = {e}
  BY <1>2 DEF Named
<1>4. NodeIn(new, nm) = n
  <2>1. LeastOf({e}) = e
    BY LeastOfProperties
  <2> QED BY <1>2, <1>3, <2>1 DEF NodeIn
<1>5. ASSUME NEW x, x # nm
      PROVE  /\ Named(new, x) = Named(entries, x)
             /\ Named(entries, x) # {} => NodeIn(new, x) = NodeIn(entries, x)
  <2>1. Named(new, x) = Named(entries, x)
    BY <1>2, <1>5 DEF Named
  <2>2. ASSUME Named(entries, x) # {} PROVE NodeIn(new, x) = NodeIn(entries, x)
    <3>1. LeastOf(Named(entries, x)) \in DOMAIN entries
      BY <2>2, LookupFinds DEF Named
    <3> QED BY <1>2, <2>1, <3>1 DEF NodeIn
  <2> QED BY <2>1, <2>2
<1> QED BY <1>1, <1>3, <1>4, <1>5

\* A directory without entry e.
Without(new, entries, e) ==
    /\ DOMAIN new = DOMAIN entries \ {e}
    /\ \A d \in DOMAIN entries \ {e} : new[d] = entries[d]

AloneInName(entries, e) ==
    \A d \in DOMAIN entries : entries[d].name = entries[e].name => d = e

\* An entry that is removed leaves the others where they are.
LEMMA EntryRemoved ==
  ASSUME NEW entries, DOMAIN entries \subseteq Nat, NEW e \in DOMAIN entries,
         AloneInName(entries, e), NEW new, Without(new, entries, e)
  PROVE  /\ Named(new, entries[e].name) = {}
         /\ \A x : x # entries[e].name =>
              /\ Named(new, x) = Named(entries, x)
              /\ Named(entries, x) # {} => NodeIn(new, x) = NodeIn(entries, x)
<1>1. Named(new, entries[e].name) = {}
  BY DEF Named, Without, AloneInName
<1>2. ASSUME NEW x, x # entries[e].name
      PROVE  /\ Named(new, x) = Named(entries, x)
             /\ Named(entries, x) # {} => NodeIn(new, x) = NodeIn(entries, x)
  <2>1. Named(new, x) = Named(entries, x)
    BY <1>2 DEF Named, Without
  <2>2. ASSUME Named(entries, x) # {} PROVE NodeIn(new, x) = NodeIn(entries, x)
    <3>1. LeastOf(Named(entries, x)) \in Named(entries, x)
      BY <2>2, LookupFinds
    <3>2. LeastOf(Named(entries, x)) \in DOMAIN entries \ {e}
      BY <1>2, <3>1 DEF Named
    <3> QED BY <2>1, <3>2 DEF NodeIn, Without
  <2> QED BY <2>1, <2>2
<1> QED BY <1>1, <1>2

LEMMA HandlesAre ==
  /\ HandlesNamed <=> \A nm \in DOMAIN fh : /\ Named(directory.files, nm) # {}
                                            /\ fh[nm] = NodeIn(directory.files, nm)
  /\ HandlesNamed' <=> \A nm \in DOMAIN fh' : /\ Named(directory'.files, nm) # {}
                                              /\ fh'[nm] = NodeIn(directory'.files, nm)
BY DEF HandlesNamed, EntriesOf, NodeOf, findFileByName, UsedEntries, Named, NodeIn

LEMMA EntriesAreNat == FSInv => DOMAIN directory.files \subseteq Nat
BY FSAssumption DEF FSInv, TypeOK, UsedEntries, Entries

LEMMA StoreInvInit == Init => StoreInv
BY DEF Init, Nothing, StoreInv, NamesDiffer, HandlesNamed, OwnNodesLive, UsedEntries

LEMMA MakeKeepsStore ==
  ASSUME FSInv, StoreInv, NEW nm \in Names, NEW kind \in Kinds, Make(nm, kind)
  PROVE  StoreInv'
<1>1. PICK n \in Nodes \ DOMAIN nodes, e \in Entries \ UsedEntries :
        n = findFreeNode /\ e = findFreeFile
  BY Found DEF Make
<1>2. PICK entries : entries = directory.files
  OBVIOUS
<1>3. /\ directory'.files = With(entries, e, [name |-> nm, node |-> n])
      /\ nodes' = With(nodes, n, FreshNode)
      /\ fh' = fh /\ Named(entries, nm) = {}
  BY <1>1, <1>2, LookupIs DEF Make
<1>4. e \in Nat /\ DOMAIN entries \subseteq Nat /\ e \notin DOMAIN entries
  BY <1>1, <1>2, EntriesAreNat, FSAssumption DEF Entries, UsedEntries
<1>5. PICK new : new = With(entries, e, [name |-> nm, node |-> n])
  OBVIOUS
<1>6. /\ Named(new, nm) = {e} /\ NodeIn(new, nm) = n
      /\ \A x : x # nm => /\ Named(new, x) = Named(entries, x)
                          /\ Named(entries, x) # {} => NodeIn(new, x) = NodeIn(entries, x)
  BY <1>3, <1>4, <1>5, EntryAdded
<1>7. /\ DOMAIN new = DOMAIN entries \cup {e} /\ new[e] = [name |-> nm, node |-> n]
      /\ \A d \in DOMAIN entries : new[d] = entries[d]
  BY <1>4, <1>5 DEF With
<1>8. NamesDiffer'
  <2>1. \A d \in DOMAIN entries : entries[d].name # nm
    BY <1>3 DEF Named
  <2>2. \A c, d \in DOMAIN entries : entries[c].name = entries[d].name => c = d
    BY <1>2 DEF StoreInv, NamesDiffer, UsedEntries
  <2>3. \A c, d \in DOMAIN new : new[c].name = new[d].name => c = d
    BY <1>7, <2>1, <2>2
  <2> QED BY <1>3, <1>5, <2>3 DEF NamesDiffer, UsedEntries
<1>9. HandlesNamed'
  <2>1. \A x \in DOMAIN fh : Named(entries, x) # {} /\ fh[x] = NodeIn(entries, x)
    BY <1>2, HandlesAre DEF StoreInv
  <2>2. \A x \in DOMAIN fh : Named(new, x) # {} /\ fh[x] = NodeIn(new, x)
    BY <1>3, <1>6, <2>1
  <2> QED BY <1>3, <1>5, <2>2, HandlesAre
<1>10. OwnNodesLive'
  <2>1. \A d \in DOMAIN entries : entries[d].node = d /\ d \in DOMAIN nodes => ~nodes[d].free
    BY <1>2 DEF StoreInv, OwnNodesLive, UsedEntries
  <2>2. /\ DOMAIN nodes' = DOMAIN nodes \cup {n} /\ nodes'[n].free = FALSE
        /\ \A m \in DOMAIN nodes : nodes'[m] = nodes[m]
    BY <1>1, <1>3 DEF With, FreshNode
  <2>3. \A d \in DOMAIN new : new[d].node = d /\ d \in DOMAIN nodes' => ~nodes'[d].free
    BY <1>7, <2>1, <2>2
  <2> QED BY <1>3, <1>5, <2>3 DEF OwnNodesLive, UsedEntries
<1> QED BY <1>8, <1>9, <1>10 DEF StoreInv

LEMMA UnlinkKeepsStore ==
  ASSUME FSInv, StoreInv, NEW nm \in Names, my_unlink(nm)
  PROVE  StoreInv'
<1>1. PICK entries : entries = directory.files
  OBVIOUS
<1>2. PICK e : e = findFileByName(nm)
  OBVIOUS
<1>3. /\ Named(entries, nm) # {} /\ e = LeastOf(Named(entries, nm)) /\ DOMAIN entries \subseteq Nat
  <2>1. EntriesOf(nm) # {}
    BY DEF my_unlink, IsFile, Exists
  <2>2. DOMAIN entries \subseteq Nat
    BY <1>1, EntriesAreNat
  <2> QED BY <1>1, <1>2, <2>1, <2>2, LookupIs
<1>4. e \in DOMAIN entries /\ entries[e].name = nm
  BY <1>3, LookupFinds DEF Named
<1>5. \A c, d \in DOMAIN entries : entries[c].name = entries[d].name => c = d
  BY <1>1 DEF StoreInv, NamesDiffer, UsedEntries
<1>6. PICK new : new = [x \in DOMAIN entries \ {e} |-> entries[x]]
  OBVIOUS
<1>7. /\ directory'.files = new /\ fh' = fh /\ nm \notin DOMAIN fh
      /\ DOMAIN nodes' = DOMAIN nodes
      /\ \A m \in DOMAIN nodes : m # e => nodes'[m] = nodes[m]
  BY <1>1, <1>2, <1>6 DEF my_unlink, UsedEntries
<1>8. \A x : x # nm => /\ Named(new, x) = Named(entries, x)
                       /\ Named(entries, x) # {} => NodeIn(new, x) = NodeIn(entries, x)
  <2>1. AloneInName(entries, e)
    BY <1>4, <1>5 DEF AloneInName
  <2>2. \A x : x # entries[e].name =>
          /\ Named(new, x) = Named(entries, x)
          /\ Named(entries, x) # {} => NodeIn(new, x) = NodeIn(entries, x)
    <3>1. Without(new, entries, e)
      BY <1>6 DEF Without
    <3> QED BY <1>3, <1>4, <2>1, <3>1, EntryRemoved
  <2> QED BY <1>4, <2>2
<1>9. DOMAIN new = DOMAIN entries \ {e} /\ \A d \in DOMAIN new : new[d] = entries[d]
  BY <1>6
<1>10. NamesDiffer'
  BY <1>5, <1>7, <1>9 DEF NamesDiffer, UsedEntries
<1>11. HandlesNamed'
  <2>1. \A x \in DOMAIN fh : Named(entries, x) # {} /\ fh[x] = NodeIn(entries, x)
    BY <1>1, HandlesAre DEF StoreInv
  <2> QED BY <1>7, <1>8, <2>1, HandlesAre
<1>12. OwnNodesLive'
  <2>1. \A d \in DOMAIN entries : entries[d].node = d /\ d \in DOMAIN nodes => ~nodes[d].free
    BY <1>1 DEF StoreInv, OwnNodesLive, UsedEntries
  <2> QED BY <1>7, <1>9, <2>1 DEF OwnNodesLive, UsedEntries
<1> QED BY <1>10, <1>11, <1>12 DEF StoreInv

LEMMA ResizeKeepsStore ==
  ASSUME FSInv, StoreInv, NEW n \in DOMAIN nodes, NEW size \in 0..MaxSize,
         nodes' = [nodes EXCEPT ![n] = Resized(nodes[n], size).node],
         UNCHANGED <<directory, fh>>
  PROVE  StoreInv'
<1>1. Resized(nodes[n], size).node.free = nodes[n].free
  BY ResizedSound DEF ResultSound
<1>2. DOMAIN nodes' = DOMAIN nodes /\ \A m \in DOMAIN nodes : nodes'[m].free = nodes[m].free
  BY <1>1
<1>3. NamesDiffer' /\ HandlesNamed'
  BY HandlesAre DEF StoreInv, NamesDiffer, UsedEntries
<1>4. OwnNodesLive'
  BY <1>2 DEF StoreInv, OwnNodesLive, UsedEntries
<1> QED BY <1>3, <1>4 DEF StoreInv

LEMMA OpenKeepsStore ==
  ASSUME FSInv, StoreInv, NEW nm \in Names, my_open(nm) \/ my_release(nm) \/ Segfault(nm)
  PROVE  StoreInv'
<1>1. UNCHANGED <<directory, nodes>>
  BY DEF my_open, my_release, Segfault, memVars
<1>2. \A x \in DOMAIN fh' : Named(directory.files, x) # {} /\ fh'[x] = NodeIn(directory.files, x)
  <2>1. \A x \in DOMAIN fh : Named(directory.files, x) # {} /\ fh[x] = NodeIn(directory.files, x)
    BY HandlesAre DEF StoreInv
  <2>2. CASE my_open(nm)
    <3>1. /\ fh' = With(fh, nm, NodeIn(directory.files, nm))
          /\ Named(directory.files, nm) # {}
      BY <2>2, LookupIs DEF my_open, IsFile, Exists
    <3> QED BY <2>1, <3>1 DEF With
  <2>3. CASE my_release(nm)
    BY <2>1, <2>3 DEF my_release
  <2>4. CASE Segfault(nm)
    BY <2>1, <2>4 DEF Segfault
  <2> QED BY <2>2, <2>3, <2>4
<1>3. HandlesNamed'
  BY <1>1, <1>2, HandlesAre
<1>4. NamesDiffer' /\ OwnNodesLive'
  BY <1>1 DEF StoreInv, NamesDiffer, OwnNodesLive, UsedEntries
<1> QED BY <1>3, <1>4 DEF StoreInv

LEMMA RemountKeepsStore ==
  ASSUME FSInv, StoreInv, Remount
  PROVE  StoreInv'
<1>1. /\ directory' = directory /\ fh' = Nothing
      /\ nodes' = Restrict(nodes, {m \in DOMAIN nodes : ~nodes[m].free})
  BY DEF Remount, myMount, FSInv, WriteThrough
<1>2. \A m \in DOMAIN nodes' : ~nodes'[m].free
  BY <1>1 DEF Restrict
<1> QED BY <1>1, <1>2 DEF StoreInv, NamesDiffer, HandlesNamed, OwnNodesLive, UsedEntries, Nothing

LEMMA StoreStepKeeps == FSInv /\ StoreInv /\ [Next]_vars => StoreInv'
<1> SUFFICES ASSUME FSInv, StoreInv, [Next]_vars PROVE StoreInv'
  OBVIOUS
<1>1. CASE Remount
  BY <1>1, RemountKeepsStore
<1>2. ASSUME NEW nm \in Names, my_mknod(nm) \/ my_mkdir(nm) PROVE StoreInv'
  BY <1>2, MakeKeepsStore DEF my_mknod, my_mkdir, Kinds
<1>3. ASSUME NEW nm \in Names, my_open(nm) \/ my_release(nm) \/ Segfault(nm) PROVE StoreInv'
  BY <1>3, OpenKeepsStore
<1>4. ASSUME NEW nm \in Names, my_unlink(nm) PROVE StoreInv'
  BY <1>4, UnlinkKeepsStore
<1>5. ASSUME NEW nm \in Names, NEW size \in 0..MaxSize, my_truncate(nm, size) PROVE StoreInv'
  <2>1. PICK n \in DOMAIN nodes : n = NodeOf(nm)
    BY <1>5 DEF my_truncate, IsFile, Exists
  <2>2. /\ nodes' = [nodes EXCEPT ![n] = Resized(nodes[n], size).node]
        /\ UNCHANGED <<directory, fh>>
    BY <1>5, <2>1 DEF my_truncate
  <2> QED BY <2>2, ResizeKeepsStore
<1>6. ASSUME NEW nm \in Names, NEW off \in 0..(MaxSize - 1), NEW k \in 1..MaxWrite,
             off + k <= MaxSize, my_write(nm, off, k)
      PROVE  StoreInv'
  <2>1. PICK n \in DOMAIN nodes : n = fh[nm]
    BY <1>6 DEF my_write, FSInv, HandlesLive
  <2>2. /\ nodes' = [nodes EXCEPT ![n] = Resized(nodes[n], off + k).node]
        /\ UNCHANGED <<directory, fh>>
    BY <1>6, <2>1 DEF my_write
  <2>3. off + k \in 0..MaxSize
    BY <1>6, FSAssumption
  <2> QED BY <2>2, <2>3, ResizeKeepsStore
<1>7. CASE UNCHANGED vars
  BY <1>7, HandlesAre DEF vars, memVars, StoreInv, NamesDiffer, OwnNodesLive, UsedEntries
<1> QED BY <1>1, <1>2, <1>3, <1>4, <1>5, <1>6, <1>7 DEF Next

LEMMA StoreInvariance == Spec => [](FSInv /\ StoreInv)
<1>1. FSInv /\ StoreInv /\ [Next]_vars => FSInv' /\ StoreInv'
  BY StepKeeps, StoreStepKeeps
<1> QED BY <1>1, FSInvInit, StoreInvInit, PTL DEF Spec

\* A file read from its start is all of its bytes: no block is taken twice.
LEMMA ReadIs ==
  ASSUME NEW n, NEW size \in Nat
  PROVE  my_read(n, 0, size) = [i \in 0..(size - 1) |-> Byte(block, nodes[n].blocks, i)]
<1>1. BlockSize \in Nat /\ BlockSize > 0
  BY FSAssumption
<1>2. PICK z, c : z = 0 % BlockSize /\ c = 0 \div BlockSize
  OBVIOUS
<1>3. z = 0 /\ c = 0 /\ BlockSize - z = BlockSize
  BY <1>1, <1>2
<1>4. \A t \in 0..(size - 1) :
        /\ t \div BlockSize \in Nat /\ t % BlockSize \in Nat
        /\ c + (t \div BlockSize) + 1 = t \div BlockSize + 1
        /\ z + (t % BlockSize) = t % BlockSize
  BY <1>3, Positions
<1>5. my_read(n, 0, size) =
        [t \in 0..(size - 1) |->
           block[nodes[n].blocks[c + (t \div BlockSize) + 1]][z + (t % BlockSize)]]
  BY <1>2, <1>3 DEF my_read
<1> QED BY <1>4, <1>5 DEF Byte

\* What readers see depends on the directory, the i-nodes and the blocks only.
LEMMA ViewIs ==
  ASSUME FSInv
  PROVE  ReadFiles = View(directory.files, nodes, block)
<1> DEFINE V == View(directory.files, nodes, block)
<1>1. \A nm \in Names : Exists(nm) <=> /\ Named(directory.files, nm) # {}
                                       /\ NodeIn(directory.files, nm) \in DOMAIN nodes
  BY LookupIs DEF Exists
<1>2. DOMAIN ReadFiles = DOMAIN V
  BY <1>1 DEF ReadFiles, View
<1>3. ASSUME NEW nm \in DOMAIN ReadFiles PROVE ReadFiles[nm] = V[nm]
  <2>1. PICK n : n = NodeOf(nm)
    OBVIOUS
  <2>2. n \in DOMAIN nodes /\ nodes[n].size \in Nat /\ n = NodeIn(directory.files, nm)
    <3>1. n \in DOMAIN nodes /\ n = NodeIn(directory.files, nm)
      BY <2>1, LookupIs DEF ReadFiles, Exists
    <3> QED BY <3>1, NodesSound, FSAssumption
  <2>3. ReadFiles[nm] = my_read(n, 0, nodes[n].size)
    BY <2>1 DEF ReadFiles
  <2>4. V[nm] = [i \in 0..(nodes[n].size - 1) |-> Byte(block, nodes[n].blocks, i)]
    BY <1>2, <2>2 DEF View, Seen
  <2> HIDE DEF V
  <2> QED BY <2>2, <2>3, <2>4, ReadIs
<1>4. ReadFiles = [nm \in DOMAIN ReadFiles |-> ReadFiles[nm]] /\ V = [nm \in DOMAIN V |-> V[nm]]
  BY DEF ReadFiles, View
<1> HIDE DEF V
<1> QED BY <1>2, <1>3, <1>4 DEF V

LEMMA ViewNext ==
  FSInv' => ReadFiles' = View(directory'.files, nodes', block')
<1>1. FSInv => ReadFiles = View(directory.files, nodes, block)
  BY ViewIs
<1>2. (FSInv => ReadFiles = View(directory.files, nodes, block))'
  BY <1>1, PTL
<1>3. View(directory.files, nodes, block)' = View(directory'.files, nodes', block')
  BY DEF View, Seen, Named, NodeIn, LeastOf, Byte
<1> QED BY <1>2, <1>3

\* As long as the indices agree, every name that is found has an i-node of its own.
LEMMA OwnNodes ==
  ASSUME FSInv, IndicesAgree, NEW entries, entries = directory.files
  PROVE  \A x : Named(entries, x) # {} =>
           /\ NodeIn(entries, x) = LeastOf(Named(entries, x))
           /\ NodeIn(entries, x) \in DOMAIN nodes /\ NodeIn(entries, x) \in DOMAIN entries
           /\ entries[NodeIn(entries, x)].name = x
<1> SUFFICES ASSUME NEW x, Named(entries, x) # {}
             PROVE  /\ NodeIn(entries, x) = LeastOf(Named(entries, x))
                    /\ NodeIn(entries, x) \in DOMAIN nodes /\ NodeIn(entries, x) \in DOMAIN entries
                    /\ entries[NodeIn(entries, x)].name = x
  OBVIOUS
<1>1. PICK e : e = LeastOf(Named(entries, x))
  OBVIOUS
<1>2. e \in DOMAIN entries /\ entries[e].name = x
  <2>1. DOMAIN entries \subseteq Nat
    BY EntriesAreNat
  <2>2. e \in Named(entries, x)
    BY <1>1, <2>1, LookupFinds
  <2> QED BY <2>2 DEF Named
<1>3. entries[e].node = e /\ e \in DOMAIN nodes
  BY <1>2 DEF IndicesAgree, UsedEntries
<1> QED BY <1>1, <1>2, <1>3 DEF NodeIn

\* I-node n and its bytes are the only ones that change.
OnlyChanged(inodes, data, n) ==
    /\ DOMAIN inodes = DOMAIN nodes
    /\ \A m \in DOMAIN nodes \ {n} :
         /\ inodes[m] = nodes[m]
         /\ \A i \in Nat : i < nodes[m].size =>
              Byte(data, nodes[m].blocks, i) = Byte(block, nodes[m].blocks, i)

\* What readers see after one i-node, the one of nm, has changed.
LEMMA OneChanged ==
  ASSUME FSInv, IndicesAgree, NEW nm \in Names, NEW inodes, NEW data,
         Named(directory.files, nm) # {},
         OnlyChanged(inodes, data, NodeIn(directory.files, nm))
  PROVE  /\ nm \in DOMAIN View(directory.files, nodes, block)
         /\ View(directory.files, nodes, block)[nm] =
              Seen(nodes, block, NodeIn(directory.files, nm))
         /\ View(directory.files, inodes, data) =
              With(View(directory.files, nodes, block), nm,
                   Seen(inodes, data, NodeIn(directory.files, nm)))
<1>1. PICK n : n = NodeIn(directory.files, nm)
  OBVIOUS
<1>2. PICK entries, V, W :
        /\ entries = directory.files /\ Named(entries, nm) # {} /\ n = NodeIn(entries, nm)
        /\ V = View(entries, nodes, block) /\ W = View(entries, inodes, data)
  BY <1>1
<1>3. n \in DOMAIN nodes /\ DOMAIN inodes = DOMAIN nodes
      /\ \A m \in DOMAIN nodes \ {n} : inodes[m] = nodes[m]
  BY <1>1, <1>2, OwnNodes DEF OnlyChanged
<1>4. DOMAIN V = DOMAIN W /\ nm \in DOMAIN V
  <2>1. DOMAIN V = {x \in Names : /\ Named(entries, x) # {}
                                  /\ NodeIn(entries, x) \in DOMAIN nodes}
    BY <1>2 DEF View
  <2>2. DOMAIN W = {x \in Names : /\ Named(entries, x) # {}
                                  /\ NodeIn(entries, x) \in DOMAIN inodes}
    BY <1>2 DEF View
  <2> QED BY <1>2, <1>3, <2>1, <2>2
<1>5. ASSUME NEW x \in DOMAIN V
      PROVE  /\ Named(entries, x) # {} /\ V[x] = Seen(nodes, block, NodeIn(entries, x))
             /\ W[x] = Seen(inodes, data, NodeIn(entries, x))
  <2>1. V[x] = Seen(nodes, block, NodeIn(entries, x)) /\ Named(entries, x) # {}
    BY <1>2 DEF View
  <2>2. W[x] = Seen(inodes, data, NodeIn(entries, x))
    BY <1>2, <1>4 DEF View
  <2> QED BY <2>1, <2>2
<1>6. ASSUME NEW x \in DOMAIN V, x # nm PROVE W[x] = V[x]
  <2>1. PICK m : m = NodeIn(entries, x)
    OBVIOUS
  <2>2. m \in DOMAIN nodes \ {n}
    BY <1>2, <1>5, <1>6, <2>1, OwnNodes
  <2>3. nodes[m].size \in Nat /\ inodes[m] = nodes[m]
    BY <1>3, <2>2, NodesSound, FSAssumption
  <2>4. \A i \in 0..(nodes[m].size - 1) :
          Byte(data, nodes[m].blocks, i) = Byte(block, nodes[m].blocks, i)
    BY <1>1, <2>2, <2>3 DEF OnlyChanged
  <2>5. Seen(inodes, data, m) = Seen(nodes, block, m)
    BY <2>3, <2>4 DEF Seen
  <2> QED BY <1>5, <2>1, <2>5
<1>7. W[nm] = Seen(inodes, data, n) /\ V[nm] = Seen(nodes, block, n)
  BY <1>2, <1>4, <1>5
<1>8. W = With(V, nm, Seen(inodes, data, n))
  <2>1. W = [x \in DOMAIN W |-> W[x]]
    BY <1>2 DEF View
  <2> QED BY <1>4, <1>6, <1>7, <2>1 DEF With
<1> QED BY <1>1, <1>2, <1>4, <1>7, <1>8

LEMMA MakeStores ==
  ASSUME FSInv, FSInv', IndicesAgree, NEW nm \in Names, NEW kind \in Kinds, Make(nm, kind)
  PROVE  Store!Next
<1>1. PICK n \in Nodes \ DOMAIN nodes, e \in Entries \ UsedEntries :
        n = findFreeNode /\ e = findFreeFile
  BY Found DEF Make
<1>2. PICK entries : entries = directory.files
  OBVIOUS
<1>3. PICK new, inodes : /\ new = With(entries, e, [name |-> nm, node |-> n])
                         /\ inodes = With(nodes, n, FreshNode)
  OBVIOUS
<1>4. /\ directory'.files = new /\ nodes' = inodes /\ block' = block
      /\ Named(entries, nm) = {}
  BY <1>1, <1>2, <1>3, LookupIs DEF Make
<1>5. e \in Nat /\ DOMAIN entries \subseteq Nat /\ e \notin DOMAIN entries
  BY <1>1, <1>2, EntriesAreNat, FSAssumption DEF Entries, UsedEntries
<1>6. /\ Named(new, nm) = {e} /\ NodeIn(new, nm) = n
      /\ \A x : x # nm => /\ Named(new, x) = Named(entries, x)
                          /\ Named(entries, x) # {} => NodeIn(new, x) = NodeIn(entries, x)
  BY <1>3, <1>4, <1>5, EntryAdded
<1>7. /\ DOMAIN inodes = DOMAIN nodes \cup {n} /\ inodes[n] = FreshNode
      /\ \A m \in DOMAIN nodes : inodes[m] = nodes[m]
  BY <1>1, <1>3 DEF With
<1>8. PICK V, W : V = View(entries, nodes, block) /\ W = View(new, inodes, block)
  OBVIOUS
<1>9. ReadFiles = V /\ ReadFiles' = W
  BY <1>2, <1>4, <1>8, ViewIs, ViewNext
<1>10. DOMAIN V = {x \in Names : Named(entries, x) # {}}
  <2>1. DOMAIN V = {x \in Names : /\ Named(entries, x) # {}
                                  /\ NodeIn(entries, x) \in DOMAIN nodes}
    BY <1>8 DEF View
  <2> QED BY <1>2, <2>1, OwnNodes
<1>11. DOMAIN W = DOMAIN V \cup {nm} /\ nm \notin DOMAIN V
  <2>1. DOMAIN W = {x \in Names : /\ Named(new, x) # {}
                                  /\ NodeIn(new, x) \in DOMAIN inodes}
    BY <1>8 DEF View
  <2>2. \A x : Named(entries, x) # {} => NodeIn(entries, x) \in DOMAIN nodes
    BY <1>2, OwnNodes
  <2>3. ASSUME NEW x \in Names PROVE x \in DOMAIN W <=> x \in DOMAIN V \cup {nm}
    <3>1. CASE x = nm
      BY <1>6, <1>7, <2>1, <3>1
    <3>2. CASE x # nm
      BY <1>6, <1>7, <1>10, <2>1, <2>2, <3>2
    <3> QED BY <3>1, <3>2
  <2> QED BY <1>4, <1>10, <2>1, <2>3
<1>12. ASSUME NEW x \in DOMAIN V PROVE W[x] = V[x]
  <2>1. PICK m : m = NodeIn(entries, x)
    OBVIOUS
  <2>2. m \in DOMAIN nodes /\ x # nm /\ NodeIn(new, x) = m
    BY <1>2, <1>6, <1>10, <1>11, <2>1, OwnNodes
  <2>3. V[x] = Seen(nodes, block, m)
    BY <1>8, <2>1 DEF View
  <2>4. W[x] = Seen(inodes, block, m)
    BY <1>8, <1>11, <2>2 DEF View
  <2>5. Seen(inodes, block, m) = Seen(nodes, block, m)
    BY <1>7, <2>2 DEF Seen
  <2> QED BY <2>3, <2>4, <2>5
<1>13. W[nm] = Store!Cut(<<>>, 0)
  <2>1. W[nm] = Seen(inodes, block, n)
    BY <1>6, <1>8, <1>11 DEF View
  <2>2. inodes[n].size = 0
    BY <1>7 DEF FreshNode
  <2>3. 0..(0 - 1) = {}
    OBVIOUS
  <2>4. Seen(inodes, block, n) = [i \in {} |-> 0]
    BY <2>2, <2>3 DEF Seen
  <2>5. Store!Cut(<<>>, 0) = [i \in {} |-> 0]
    BY <2>3 DEF Store!Cut
  <2> QED BY <2>1, <2>4, <2>5
<1>14. W = [x \in DOMAIN V \cup {nm} |-> IF x = nm THEN Store!Cut(<<>>, 0) ELSE V[x]]
  <2>1. W = [x \in DOMAIN W |-> W[x]]
    BY <1>8 DEF View
  <2> QED BY <1>11, <1>12, <1>13, <2>1
<1>15. Store!Create(nm)
  BY <1>9, <1>11, <1>14 DEF Store!Create
<1> QED BY <1>15 DEF Store!Next

LEMMA TruncateStores ==
  ASSUME FSInv, FSInv', IndicesAgree, NEW nm \in Names, NEW size \in 0..MaxSize,
         my_truncate(nm, size)
  PROVE  Store!Next \/ ReadFiles' = ReadFiles
<1>1. PICK entries : entries = directory.files
  OBVIOUS
<1>2. PICK n \in DOMAIN nodes : n = NodeOf(nm) /\ n = NodeIn(entries, nm)
  BY <1>1, LookupIs DEF my_truncate, IsFile, Exists
<1>3. PICK r : r = Resized(nodes[n], size)
  OBVIOUS
<1>4. PICK inodes : inodes = [nodes EXCEPT ![n] = r.node]
  OBVIOUS
<1>5. /\ nodes' = inodes /\ block' = r.block /\ directory' = directory
      /\ Named(entries, nm) # {}
  BY <1>1, <1>2, <1>3, <1>4, LookupIs DEF my_truncate, IsFile, Exists
<1>6. PICK V, W : V = View(entries, nodes, block) /\ W = View(entries, inodes, r.block)
  OBVIOUS
<1>7. ReadFiles = V /\ ReadFiles' = W
  BY <1>1, <1>5, <1>6, ViewIs, ViewNext
<1>8. ContentsKept(n, size, r) /\ (r.ok => r.node.size = size)
  BY <1>3, ResizedContents, ResizedSound
<1>9. PICK g : g = [i \in 0..(r.node.size - 1) |-> Byte(r.block, r.node.blocks, i)]
  OBVIOUS
<1>10. nm \in DOMAIN V /\ V[nm] = Seen(nodes, block, n) /\ W = [V EXCEPT ![nm] = g]
  <2>1. PICK data : data = r.block
    OBVIOUS
  <2>2. OnlyChanged(inodes, data, n)
    BY <1>4, <1>8, <2>1 DEF ContentsKept, OnlyChanged
  <2>3. Seen(inodes, data, n) = g
    BY <1>4, <1>9, <2>1 DEF Seen
  <2>4. /\ nm \in DOMAIN V /\ V[nm] = Seen(nodes, block, n)
        /\ W = With(V, nm, Seen(inodes, data, n))
    BY <1>1, <1>2, <1>5, <1>6, <2>1, <2>2, OneChanged
  <2> QED BY <2>3, <2>4 DEF With
<1>11. nodes[n].size \in Nat
  BY NodesSound, FSAssumption
<1>12. CASE ~r.ok
  <2>1. /\ r.node = nodes[n]
        /\ \A i \in 0..(nodes[n].size - 1) :
             Byte(r.block, nodes[n].blocks, i) = Byte(block, nodes[n].blocks, i)
    BY <1>8, <1>12 DEF ContentsKept
  <2>2. g = V[nm]
    BY <1>9, <1>10, <2>1 DEF Seen
  <2>3. V = [x \in DOMAIN V |-> V[x]]
    BY <1>6 DEF View
  <2> QED BY <1>7, <1>10, <2>2, <2>3
<1>13. CASE r.ok
  <2>1. /\ r.node.size = size
        /\ \A i \in 0..(size - 1) : Byte(r.block, r.node.blocks, i) =
             IF i < nodes[n].size THEN Byte(block, nodes[n].blocks, i) ELSE 0
    BY <1>8, <1>13 DEF ContentsKept
  <2>2. \A i \in 0..(size - 1) : i < nodes[n].size <=> i \in 0..(nodes[n].size - 1)
    BY <1>11, FSAssumption
  <2>3. g = Store!Cut(Seen(nodes, block, n), size)
    <3>1. /\ DOMAIN Seen(nodes, block, n) = 0..(nodes[n].size - 1)
          /\ \A i \in 0..(nodes[n].size - 1) :
               Seen(nodes, block, n)[i] = Byte(block, nodes[n].blocks, i)
      BY DEF Seen
    <3> QED BY <1>9, <2>1, <2>2, <3>1 DEF Store!Cut
  <2>4. W = [V EXCEPT ![nm] = Store!Cut(@, size)]
    BY <1>10, <2>3
  <2>5. Store!Truncate(nm, size)
    BY <1>7, <1>10, <2>4 DEF Store!Truncate
  <2> QED BY <2>5 DEF Store!Next
<1> QED BY <1>12, <1>13

LEMMA WriteStores ==
  ASSUME FSInv, FSInv', StoreInv, IndicesAgree, NEW nm \in Names,
         NEW off \in 0..(MaxSize - 1), NEW k \in 1..MaxWrite,
         off + k <= MaxSize, my_write(nm, off, k)
  PROVE  Store!Next \/ ReadFiles' = ReadFiles
<1>1. PICK entries : entries = directory.files
  OBVIOUS
<1>2. nm \in DOMAIN fh
  BY DEF my_write
<1>3. PICK n \in DOMAIN nodes : n = fh[nm]
  BY <1>2, WriteContents
<1>4. n = NodeIn(entries, nm) /\ Named(entries, nm) # {}
  BY <1>1, <1>2, <1>3, HandlesAre DEF StoreInv
<1>5. PICK r, data : r = Resized(nodes[n], off + k) /\ data = block'
  OBVIOUS
<1>6. PICK inodes, node : inodes = [nodes EXCEPT ![n] = node] /\ node = r.node
  <2>1. PICK node : node = r.node
    OBVIOUS
  <2> QED BY <2>1
<1>7. /\ nodes' = inodes
      /\ r.ok <=> node.size = off + k
      /\ \A m \in DOMAIN nodes \ {n}, i \in Nat :
           i < nodes[m].size =>
             Byte(data, nodes[m].blocks, i) = Byte(block, nodes[m].blocks, i)
      /\ ~r.ok => /\ node = nodes[n]
                  /\ \A i \in 0..(nodes[n].size - 1) :
                       Byte(data, nodes[n].blocks, i) = Byte(block, nodes[n].blocks, i)
      /\ r.ok => \A i \in 0..(off + k - 1) :
           Byte(data, node.blocks, i) =
             IF i >= off THEN Buf(k)[i - off]
             ELSE IF i < nodes[n].size THEN Byte(block, nodes[n].blocks, i) ELSE 0
  BY <1>2, <1>3, <1>5, <1>6, WriteContents
<1>8. directory' = directory
  BY DEF my_write
<1>9. PICK V, W : V = View(entries, nodes, block) /\ W = View(entries, inodes, data)
  OBVIOUS
<1>10. ReadFiles = V /\ ReadFiles' = W
  BY <1>1, <1>5, <1>7, <1>8, <1>9, ViewIs, ViewNext
<1>11. PICK g : g = [i \in 0..(node.size - 1) |-> Byte(data, node.blocks, i)]
  OBVIOUS
<1>12. nm \in DOMAIN V /\ V[nm] = Seen(nodes, block, n) /\ W = [V EXCEPT ![nm] = g]
  <2>1. OnlyChanged(inodes, data, n)
    BY <1>6, <1>7 DEF OnlyChanged
  <2>2. Seen(inodes, data, n) = g
    BY <1>6, <1>11 DEF Seen
  <2>3. /\ nm \in DOMAIN V /\ V[nm] = Seen(nodes, block, n)
        /\ W = With(V, nm, Seen(inodes, data, n))
    BY <1>1, <1>4, <1>9, <2>1, OneChanged
  <2> QED BY <2>2, <2>3 DEF With
<1>13. nodes[n].size \in Nat /\ off \in Nat /\ k \in Nat
  BY NodesSound, FSAssumption
<1>14. CASE ~r.ok
  <2>1. g = V[nm]
    BY <1>7, <1>11, <1>12, <1>14 DEF Seen
  <2>2. V = [x \in DOMAIN V |-> V[x]]
    BY <1>9 DEF View
  <2> QED BY <1>10, <1>12, <2>1, <2>2
<1>15. CASE r.ok
  <2>1. node.size = off + k
    BY <1>7, <1>15, Zenon
  <2>2. 0..(off - 1) \cup {off + j : j \in DOMAIN Buf(k)} = 0..(off + k - 1)
    <3>1. DOMAIN Buf(k) = 0..(k - 1)
      BY DEF Buf
    <3>2. ASSUME NEW i \in 0..(off + k - 1) PROVE i \in 0..(off - 1) \cup {off + j : j \in 0..(k - 1)}
      <4>1. CASE i < off
        BY <1>13, <4>1
      <4>2. CASE ~(i < off)
        <5>1. i - off \in 0..(k - 1) /\ i = off + (i - off)
          BY <1>13, <4>2
        <5> QED BY <5>1
      <4> QED BY <4>1, <4>2
    <3>3. \A i \in 0..(off - 1) : i \in 0..(off + k - 1)
      BY <1>13
    <3>4. \A j \in 0..(k - 1) : off + j \in 0..(off + k - 1)
      BY <1>13
    <3> QED BY <3>1, <3>2, <3>3, <3>4
  <2>3. PICK old : old = Seen(nodes, block, n)
    OBVIOUS
  <2>4. /\ DOMAIN old = 0..(nodes[n].size - 1)
        /\ \A i \in 0..(nodes[n].size - 1) : old[i] = Byte(block, nodes[n].blocks, i)
    BY <2>3 DEF Seen
  <2>5. ASSUME NEW i \in 0..(off + k - 1)
        PROVE  g[i] = IF i < off THEN Store!Cut(old, off)[i] ELSE Buf(k)[i - off]
    <3>1. g[i] = Byte(data, node.blocks, i)
      BY <1>11, <2>1
    <3>2. i \in Nat
      BY <1>13
    <3>3. CASE i < off
      <4>1. i \in 0..(off - 1) /\ (i < nodes[n].size <=> i \in 0..(nodes[n].size - 1))
        BY <1>13, <3>2, <3>3
      <4>2. Store!Cut(old, off)[i] = IF i \in DOMAIN old THEN old[i] ELSE 0
        BY <4>1 DEF Store!Cut
      <4>3. ~(i >= off)
        BY <1>13, <3>2, <3>3
      <4> QED BY <1>7, <1>15, <2>4, <3>1, <3>3, <4>1, <4>2, <4>3
    <3>4. CASE ~(i < off)
      <4>1. i >= off
        BY <1>13, <3>2, <3>4
      <4> QED BY <1>7, <1>15, <3>1, <3>4, <4>1
    <3> QED BY <3>3, <3>4
  <2>6. g = [i \in 0..(off + k - 1) |->
               IF i < off THEN Store!Cut(old, off)[i] ELSE Buf(k)[i - off]]
    <3>1. g = [i \in 0..(off + k - 1) |-> g[i]]
      BY <1>11, <2>1
    <3> QED BY <2>5, <3>1
  <2>7. W = [V EXCEPT ![nm] = [i \in 0..(off - 1) \cup {off + j : j \in DOMAIN Buf(k)} |->
                                 IF i < off THEN Store!Cut(@, off)[i] ELSE Buf(k)[i - off]]]
    BY <1>12, <2>2, <2>3, <2>6
  <2>8. Store!Write(nm, off, Buf(k))
    BY <1>10, <1>12, <2>7 DEF Store!Write
  <2>9. off \in 0..MaxSize /\ Buf(k) \in {Buf(j) : j \in 1..MaxWrite}
    BY <1>13, FSAssumption
  <2> QED BY <2>8, <2>9 DEF Store!Next
<1> QED BY <1>14, <1>15

LEMMA UnlinkStores ==
  ASSUME FSInv, FSInv', StoreInv, IndicesAgree, NEW nm \in Names, my_unlink(nm)
  PROVE  Store!Next
<1>1. PICK entries : entries = directory.files
  OBVIOUS
<1>2. PICK e : e = findFileByName(nm)
  OBVIOUS
<1>3. /\ Named(entries, nm) # {} /\ e = LeastOf(Named(entries, nm)) /\ e \in DOMAIN nodes
      /\ DOMAIN entries \subseteq Nat
  <2>1. EntriesOf(nm) # {} /\ e \in DOMAIN nodes
    BY <1>2 DEF my_unlink, IsFile, Exists
  <2>2. DOMAIN entries \subseteq Nat
    BY <1>1, EntriesAreNat
  <2> QED BY <1>1, <1>2, <2>1, <2>2, LookupIs
<1>4. e = NodeIn(entries, nm) /\ e \in DOMAIN entries /\ entries[e].name = nm
  BY <1>1, <1>3, OwnNodes
<1>5. PICK r, new, inodes : /\ r = Resized(nodes[e], 0)
                            /\ new = [x \in DOMAIN entries \ {e} |-> entries[x]]
                            /\ inodes = [nodes EXCEPT ![e] = [r.node EXCEPT !.free = TRUE]]
  <2>1. PICK r : r = Resized(nodes[e], 0)
    OBVIOUS
  <2> QED BY <2>1
<1>6. directory'.files = new /\ nodes' = inodes /\ block' = r.block
  BY <1>1, <1>2, <1>5 DEF my_unlink, UsedEntries
<1>7. AloneInName(entries, e)
  BY <1>1, <1>4 DEF AloneInName, StoreInv, NamesDiffer, UsedEntries
<1>8. /\ Named(new, nm) = {}
      /\ \A x : x # nm => /\ Named(new, x) = Named(entries, x)
                          /\ Named(entries, x) # {} => NodeIn(new, x) = NodeIn(entries, x)
  <2>1. /\ Named(new, entries[e].name) = {}
        /\ \A x : x # entries[e].name =>
             /\ Named(new, x) = Named(entries, x)
             /\ Named(entries, x) # {} => NodeIn(new, x) = NodeIn(entries, x)
    <3>1. Without(new, entries, e)
      BY <1>5 DEF Without
    <3> QED BY <1>3, <1>4, <1>7, <3>1, EntryRemoved
  <2> QED BY <1>4, <2>1
<1>9. OnlyChanged(inodes, r.block, e)
  <2>1. ContentsKept(e, 0, r)
    BY <1>3, <1>5, ResizedContents, FSAssumption
  <2> QED BY <1>3, <1>5, <2>1 DEF ContentsKept, OnlyChanged
<1>10. PICK V, W : V = View(entries, nodes, block) /\ W = View(new, inodes, r.block)
  OBVIOUS
<1>11. ReadFiles = V /\ ReadFiles' = W
  BY <1>1, <1>6, <1>10, ViewIs, ViewNext
<1>12. DOMAIN V = {x \in Names : Named(entries, x) # {}}
  <2>1. DOMAIN V = {x \in Names : /\ Named(entries, x) # {}
                                  /\ NodeIn(entries, x) \in DOMAIN nodes}
    BY <1>10 DEF View
  <2> QED BY <1>1, <2>1, OwnNodes
<1>13. DOMAIN W = DOMAIN V \ {nm}
  <2>1. DOMAIN W = {x \in Names : /\ Named(new, x) # {}
                                  /\ NodeIn(new, x) \in DOMAIN inodes}
    BY <1>10 DEF View
  <2>2. \A x : Named(entries, x) # {} => NodeIn(entries, x) \in DOMAIN inodes
    BY <1>1, <1>9, OwnNodes DEF OnlyChanged
  <2>3. ASSUME NEW x \in Names PROVE x \in DOMAIN W <=> x \in DOMAIN V \ {nm}
    <3>1. CASE x = nm
      BY <1>8, <2>1, <3>1
    <3>2. CASE x # nm
      BY <1>8, <1>12, <2>1, <2>2, <3>2
    <3> QED BY <3>1, <3>2
  <2> QED BY <1>12, <2>1, <2>3
<1>14. ASSUME NEW x \in DOMAIN V \ {nm} PROVE W[x] = V[x]
  <2>1. PICK m : m = NodeIn(entries, x)
    OBVIOUS
  <2>2. Named(entries, x) # {} /\ NodeIn(new, x) = m
    BY <1>8, <1>12, <2>1
  <2>3. m \in DOMAIN nodes \ {e}
    BY <1>1, <1>4, <2>1, <2>2, OwnNodes
  <2>4. nodes[m].size \in Nat
    BY <2>3, NodesSound, FSAssumption
  <2>5. inodes[m] = nodes[m] /\ \A i \in 0..(nodes[m].size - 1) :
          Byte(r.block, nodes[m].blocks, i) = Byte(block, nodes[m].blocks, i)
    BY <1>9, <2>3, <2>4 DEF OnlyChanged
  <2>6. Seen(inodes, r.block, m) = Seen(nodes, block, m)
    BY <2>5 DEF Seen
  <2>7. V[x] = Seen(nodes, block, m)
    BY <1>10, <2>1 DEF View
  <2>8. W[x] = Seen(inodes, r.block, m)
    BY <1>10, <1>13, <2>2 DEF View
  <2> QED BY <2>6, <2>7, <2>8
<1>15. W = [x \in DOMAIN V \ {nm} |-> V[x]]
  <2>1. W = [x \in DOMAIN W |-> W[x]]
    BY <1>10 DEF View
  <2> QED BY <1>13, <1>14, <2>1
<1>16. nm \in DOMAIN V
  BY <1>3, <1>12
<1>17. Store!Unlink(nm)
  BY <1>11, <1>15, <1>16 DEF Store!Unlink
<1> QED BY <1>17 DEF Store!Next

\* A restart loses the i-nodes that are marked free, and no file has one of those.
LEMMA RemountStores ==
  ASSUME FSInv, FSInv', StoreInv, IndicesAgree, Remount
  PROVE  ReadFiles' = ReadFiles
<1>1. PICK entries, inodes : entries = directory.files /\ inodes = nodes'
  OBVIOUS
<1>2. /\ directory' = directory /\ block' = block
      /\ inodes = Restrict(nodes, {m \in DOMAIN nodes : ~nodes[m].free})
  BY <1>1 DEF Remount, myMount, FSInv, WriteThrough
<1>3. /\ DOMAIN inodes = {m \in DOMAIN nodes : ~nodes[m].free}
      /\ \A m \in DOMAIN inodes : inodes[m] = nodes[m]
  BY <1>2 DEF Restrict
<1>4. PICK V, W : V = View(entries, nodes, block) /\ W = View(entries, inodes, block)
  OBVIOUS
<1>5. ReadFiles = V /\ ReadFiles' = W
  BY <1>1, <1>2, <1>4, ViewIs, ViewNext
<1>6. \A x : Named(entries, x) # {} =>
        NodeIn(entries, x) \in DOMAIN nodes /\ NodeIn(entries, x) \in DOMAIN inodes
  <2>1. \A d \in DOMAIN entries : d \in DOMAIN nodes => ~nodes[d].free
    BY <1>1 DEF StoreInv, OwnNodesLive, IndicesAgree, UsedEntries
  <2> QED BY <1>1, <1>3, <2>1, OwnNodes
<1>7. DOMAIN V = {x \in Names : Named(entries, x) # {}} /\ DOMAIN W = DOMAIN V
  <2>1. DOMAIN V = {x \in Names : /\ Named(entries, x) # {}
                                  /\ NodeIn(entries, x) \in DOMAIN nodes}
    BY <1>4 DEF View
  <2>2. DOMAIN W = {x \in Names : /\ Named(entries, x) # {}
                                  /\ NodeIn(entries, x) \in DOMAIN inodes}
    BY <1>4 DEF View
  <2> QED BY <1>6, <2>1, <2>2
<1>8. ASSUME NEW x \in DOMAIN V PROVE W[x] = V[x]
  <2>1. PICK m : m = NodeIn(entries, x)
    OBVIOUS
  <2>2. V[x] = Seen(nodes, block, m)
    BY <1>4, <2>1 DEF View
  <2>3. W[x] = Seen(inodes, block, m)
    BY <1>4, <1>7, <2>1 DEF View
  <2>4. inodes[m] = nodes[m]
    BY <1>3, <1>6, <1>7, <2>1
  <2> QED BY <2>2, <2>3, <2>4 DEF Seen
<1>9. V = [x \in DOMAIN V |-> V[x]] /\ W = [x \in DOMAIN W |-> W[x]]
  BY <1>4 DEF View
<1>10. V = W
  BY <1>7, <1>8, <1>9
<1> QED BY <1>5, <1>10

\* Every step of the file system, seen by the readers, is a step of the abstract store or
\* none.
LEMMA StepStores ==
  ASSUME FSInv, FSInv', StoreInv, IndicesAgree, [Next]_vars
  PROVE  [Store!Next]_ReadFiles
<1>1. ASSUME UNCHANGED <<directory, nodes, block>> PROVE ReadFiles' = ReadFiles
  BY <1>1, ViewIs, ViewNext
<1>2. CASE Remount
  BY <1>2, RemountStores
<1>3. ASSUME NEW nm \in Names, my_mknod(nm) \/ my_mkdir(nm) PROVE Store!Next
  BY <1>3, MakeStores DEF my_mknod, my_mkdir, Kinds
<1>4. ASSUME NEW nm \in Names, my_open(nm) \/ my_release(nm) \/ Segfault(nm)
      PROVE  ReadFiles' = ReadFiles
  BY <1>1, <1>4 DEF my_open, my_release, Segfault, memVars
<1>5. ASSUME NEW nm \in Names, my_unlink(nm) PROVE Store!Next
  BY <1>5, UnlinkStores
<1>6. ASSUME NEW nm \in Names, NEW size \in 0..MaxSize, my_truncate(nm, size)
      PROVE  Store!Next \/ ReadFiles' = ReadFiles
  BY <1>6, TruncateStores
<1>7. ASSUME NEW nm \in Names, NEW off \in 0..(MaxSize - 1), NEW k \in 1..MaxWrite,
             off + k <= MaxSize, my_write(nm, off, k)
      PROVE  Store!Next \/ ReadFiles' = ReadFiles
  BY <1>7, WriteStores
<1>8. CASE UNCHANGED vars
  BY <1>1, <1>8 DEF vars, memVars
<1> QED BY <1>2, <1>3, <1>4, <1>5, <1>6, <1>7, <1>8 DEF Next

\* For every disk: as long as entries and i-nodes have the same indices, what the callbacks
\* and restarts do to blocks, bitmap, i-nodes and backup file is for those who read the
\* files one step of the abstract store, or nothing.
THEOREM FileStoreImplemented == Spec => ImplementsFileStore
<1>1. FSInv /\ StoreInv /\ FSInv' /\ [Next]_vars => (IndicesAgree => [Store!Next]_ReadFiles)
  BY StepStores
<1> QED BY <1>1, StoreInvariance, PTL DEF Spec, ImplementsFileStore

=============================================================================
