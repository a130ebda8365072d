----------------------------- MODULE BrFSProofs -----------------------------
(***************************************************************************)
(* Proofs about BrFS, for every disk, inode table and set of names and     *)
(* values: whatever is called, the disk stays sound until the first call   *)
(* of Damages.                                                             *)
(*                                                                         *)
(* The inductive invariant is the conjunction of BrFS's invariants with    *)
(* two facts about what never happens: a regular file has no failed block, *)
(* and the root stays a directory.  They need each other: a block that is  *)
(* stored into belongs to no other directory (OwnersDiffer), so      *)
(* directories keep their entries; entries name inodes once, so unlink     *)
(* frees what nobody else names; and unlink, which seeks the entry by its  *)
(* inode, cannot meet "." or ".." first, because the parent is named in a  *)
(* directory that has it, and the child is empty.                          *)
(*                                                                         *)
(* What a call leaves behind is said once (Unchanged, Writes, Created,     *)
(* Unlinked); the action properties and the step of Tree that the call is  *)
(* follow from that.                                                       *)
(***************************************************************************)
EXTENDS BrFS, FiniteSetTheorems, WellFoundedInduction, TLAPS

(* Truncating a regular file frees blocks of the disk.                     *)
FilesHaveBlocks == \A i \in Live : inodes[i].type = FILE => -1 \notin BlocksOf(i)

RootIsADirectory ==
  inodes[Root].type = DIR /\ (Whole(Root) => EntryAt(Root, 1).ino = Root)

Sound ==
  /\ Typed
  /\ OwnersDiffer
  /\ CountIsRight
  /\ DirectoriesWhole
  /\ NamedOnce
  /\ FilesHaveBlocks
  /\ RootIsADirectory

-----------------------------------------------------------------------------
(* Places, minima and counts.                                              *)

LEMMA DivMod ==
  ASSUME NEW x \in Nat, NEW u \in Nat, u > 0
  PROVE  /\ x \div u \in Nat /\ x % u \in 0 .. (u - 1)
         /\ x = u * (x \div u) + (x % u)
OBVIOUS

LEMMA DivLess ==
  ASSUME NEW x \in Nat, NEW u \in Nat, u > 0, NEW m \in Nat, x < m * u
  PROVE  x \div u < m
<1> DEFINE q == x \div u
<1>1. q \in Nat /\ u * q <= x
  BY DivMod
<1> HIDE DEF q
<1>2. ASSUME q >= m PROVE FALSE
  <2>1. u * q >= u * m
    BY <1>1, <1>2
  <2>2. u * m = m * u
    OBVIOUS
  <2> QED
    BY <1>1, <2>1, <2>2
<1> QED
  BY <1>1, <1>2 DEF q

LEMMA MaxSizeIs == MaxSize \in Nat /\ MaxSize >= 3
<1>1. MaxDirect * UnitsPerBlock >= 1 * UnitsPerBlock
  BY BrFSAssumption
<1> QED
  BY <1>1, BrFSAssumption DEF MaxSize

(* A place below MaxSize has a pointer and a slot, and no two have both.   *)
LEMMA Places ==
  ASSUME NEW x \in 0 .. (MaxSize - 1)
  PROVE  Index(x) \in Direct /\ Within(x) \in Slot
<1>1. x \in Nat /\ x < MaxDirect * UnitsPerBlock
  BY MaxSizeIs DEF MaxSize
<1> QED
  BY <1>1, DivMod, DivLess, BrFSAssumption DEF Index, Within, Direct, Slot

LEMMA PlacesDiffer ==
  ASSUME NEW x \in Nat, NEW y \in Nat, Index(x) = Index(y), Within(x) = Within(y)
  PROVE  x = y
<1>1. /\ x = UnitsPerBlock * Index(x) + Within(x)
      /\ y = UnitsPerBlock * Index(y) + Within(y)
  BY DivMod, BrFSAssumption DEF Index, Within
<1> QED
  BY <1>1

(* The places of a directory without entries are in its first block.       *)
LEMMA FirstPlaces ==
  ASSUME NEW x \in {0, 1, 2}
  PROVE  Index(x) = 0 /\ Within(x) = x
BY BrFSAssumption DEF Index, Within

LEMMA IndexMonotone ==
  ASSUME NEW x \in Nat, NEW y \in Nat, x <= y
  PROVE  Index(x) <= Index(y)
BY BrFSAssumption DEF Index

LEMMA BlockStart ==
  ASSUME NEW k \in Direct
  PROVE  k * UnitsPerBlock \in 0 .. MaxSize
<1>1. k \in Nat /\ k <= MaxDirect /\ UnitsPerBlock \in Nat /\ MaxDirect \in Nat
  BY BrFSAssumption DEF Direct
<1>2. k * UnitsPerBlock \in Nat
  BY <1>1
<1>3. k * UnitsPerBlock <= MaxDirect * UnitsPerBlock
  BY <1>1
<1> QED
  BY <1>2, <1>3, MaxSizeIs DEF MaxSize

LEMMA MinIs ==
  ASSUME NEW S, S \subseteq Nat, S # {}
  PROVE  Min(S) \in S /\ \A y \in S : Min(S) <= y
<1> DEFINE R == OpToRel(<, Nat)
<1>1. PICK x \in S : \A y \in S : ~ (<<y, x>> \in R)
  BY NatLessThanWellFounded, WFMin
<1>2. \A a, b \in Nat : a < b => <<a, b>> \in R
  BY DEF OpToRel
<1>3. \A y \in S : x <= y
  <2> HIDE DEF R
  <2> TAKE y \in S
  <2>1. x \in Nat /\ y \in Nat
    OBVIOUS
  <2>2. ~ (y < x)
    BY <1>1, <1>2, <2>1
  <2> QED
    BY <2>1, <2>2
<1> QED
  BY <1>3 DEF Min

LEMMA MaxIs ==
  ASSUME NEW a \in Int, NEW b \in Int
  PROVE  Max({a, b}) = IF a >= b THEN a ELSE b
<1> DEFINE m == IF a >= b THEN a ELSE b
<1>1. m \in {a, b} /\ \A y \in {a, b} : m >= y
  OBVIOUS
<1>2. \A x \in {a, b} : (\A y \in {a, b} : x >= y) => x = m
  OBVIOUS
<1> QED
  BY <1>1, <1>2 DEF Max

LEMMA BlockIsNoMark == 0 \notin Block /\ -1 \notin Block
BY BrFSAssumption DEF Block

LEMMA BlocksFinite == IsFiniteSet(Block)
BY FS_Interval, BrFSAssumption DEF Block

LEMMA FreeBlocksFinite == IsFiniteSet(FreeBlocks)
BY BlocksFinite, FS_Subset DEF FreeBlocks

LEMMA TakeCounts ==
  ASSUME Typed, CountIsRight, NEW bs, bs \subseteq FreeBlocks, Take(bs)
  PROVE  /\ bitmap' \in [Block -> BOOLEAN]
         /\ fs_free_blocks' \in Int
         /\ CountIsRight'
         /\ \A b \in Block : bitmap'[b] <=> bitmap[b] \/ b \in bs
<1>1. \A b \in Block : bitmap'[b] <=> bitmap[b] \/ b \in bs
  BY DEF Take, Typed
<1>2. FreeBlocks' = FreeBlocks \ bs
  BY <1>1 DEF FreeBlocks
<1>3. FreeBlocks \cap bs = bs
  OBVIOUS
<1>4. Cardinality(FreeBlocks') = Cardinality(FreeBlocks) - Cardinality(bs)
  <2>1. Cardinality(FreeBlocks \ bs) = Cardinality(FreeBlocks) - Cardinality(FreeBlocks \cap bs)
    BY FS_Difference, FreeBlocksFinite
  <2> QED
    BY <1>2, <1>3, <2>1
<1>5. Cardinality(FreeBlocks) \in Int /\ Cardinality(bs) \in Int
  BY FreeBlocksFinite, FS_Subset, FS_CardinalityType
<1> QED
  BY <1>1, <1>4, <1>5 DEF Take, Typed, CountIsRight

LEMMA GiveCounts ==
  ASSUME Typed, CountIsRight, NEW bs, bs \subseteq Block,
         \A b \in bs : bitmap[b], Give(bs)
  PROVE  /\ bitmap' \in [Block -> BOOLEAN]
         /\ fs_free_blocks' \in Int
         /\ CountIsRight'
         /\ \A b \in Block : bitmap'[b] <=> bitmap[b] /\ b \notin bs
<1>1. \A b \in Block : bitmap'[b] <=> bitmap[b] /\ b \notin bs
  BY DEF Give, Typed
<1>2. FreeBlocks' = FreeBlocks \cup bs /\ FreeBlocks \cap bs = {}
  BY <1>1 DEF FreeBlocks
<1>3. IsFiniteSet(bs)
  BY BlocksFinite, FS_Subset
<1>4. Cardinality(FreeBlocks') = Cardinality(FreeBlocks) + Cardinality(bs)
  <2>1. Cardinality(FreeBlocks \cup bs)
          = Cardinality(FreeBlocks) + Cardinality(bs) - Cardinality({})
    BY <1>2, <1>3, FS_Union, FreeBlocksFinite
  <2> QED
    BY <1>2, <1>3, <2>1, FS_EmptySet, FS_CardinalityType, FreeBlocksFinite
<1>5. Cardinality(FreeBlocks) \in Int /\ Cardinality(bs) \in Int
  BY <1>3, FreeBlocksFinite, FS_CardinalityType
<1> QED
  BY <1>1, <1>4, <1>5 DEF Give, Typed, CountIsRight

-----------------------------------------------------------------------------
(* Directories.                                                            *)

(* Inode d stays, and so does what its blocks hold.                        *)
Keeps(d) ==
  /\ inodes'[d] = inodes[d]
  /\ \A k \in Direct :
       inodes[d].direct[k] \in Block =>
         blocks'[inodes[d].direct[k]] = blocks[inodes[d].direct[k]]

LEMMA InodeTypes ==
  ASSUME Typed, NEW i \in Inode
  PROVE  /\ inodes[i] \in INodeStruct
         /\ inodes[i].type \in {FREE, FILE, DIR}
         /\ inodes[i].size \in 0 .. MaxSize
         /\ inodes[i].size \in Int
         /\ \A k \in Direct : inodes[i].direct[k] \in Block \cup {-1, 0}
BY MaxSizeIs DEF Typed, INodeStruct

LEMMA BlockAtIs ==
  ASSUME NEW i \in Inode, NEW x \in 0 .. (MaxSize - 1)
  PROVE  BlockAt(inodes[i], x) = inodes[i].direct[Index(x)] /\ Index(x) \in Direct
BY Places DEF BlockAt

(* The loops see all of a directory, or nothing of one without a block.    *)
LEMMA VisitedIs ==
  ASSUME Typed, NEW d \in Directories, inodes[d].size >= 2
  PROVE  /\ Whole(d) => Visited(d) = 0 .. (inodes[d].size - 1)
         /\ Blockless(d) => Visited(d) = {} /\ ~ Whole(d)
<1>1. /\ d \in Inode
      /\ inodes[d].size \in Int
      /\ 0 \in 0 .. (inodes[d].size - 1)
  BY InodeTypes DEF Directories, Live
<1>2. Whole(d) => Visited(d) = 0 .. (inodes[d].size - 1)
  BY <1>1 DEF Whole, Visited
<1>3. Blockless(d) => BlockAt(inodes[d], 0) \notin Block
  BY FirstPlaces, BrFSAssumption DEF Blockless, BlockAt, NoBlocks, Direct, Block
<1>4. Blockless(d) => ~ Whole(d)
  BY <1>1, <1>3 DEF Whole
<1>5. Blockless(d) => Visited(d) = {}
  <2>1. ASSUME Blockless(d), NEW x \in Visited(d) PROVE FALSE
    <3>1. x \in 0 .. (inodes[d].size - 1) /\ \A y \in 0 .. x : BlockAt(inodes[d], y) \in Block
      BY <2>1 DEF Visited
    <3>2. 0 \in 0 .. x
      BY <3>1
    <3> QED
      BY <1>3, <2>1, <3>1, <3>2
  <2> QED
    BY <2>1
<1> QED
  BY <1>2, <1>4, <1>5

LEMMA VisitedTypes ==
  ASSUME Typed, NEW d \in Inode, NEW x \in Visited(d)
  PROVE  /\ x \in 0 .. (inodes[d].size - 1) /\ x \in 0 .. (MaxSize - 1)
         /\ BlockAt(inodes[d], x) = inodes[d].direct[Index(x)]
         /\ BlockAt(inodes[d], x) \in Block
         /\ Index(x) \in Direct /\ Within(x) \in Slot
<1>1. x \in 0 .. (inodes[d].size - 1) /\ BlockAt(inodes[d], x) \in Block
  BY DEF Visited
<1>2. x \in 0 .. (MaxSize - 1)
  BY <1>1, InodeTypes, MaxSizeIs
<1> QED
  BY <1>1, <1>2, Places, BlockAtIs

LEMMA KeptDirectory ==
  ASSUME Typed, NEW d \in Inode, Keeps(d)
  PROVE  /\ Visited(d)' = Visited(d)
         /\ Entries(d)' = Entries(d)
         /\ \A x \in Visited(d) : EntryAt(d, x)' = EntryAt(d, x)
         /\ inodes[d].size >= 2 /\ Whole(d) => Whole(d)'
         /\ Blockless(d) => Blockless(d)'
<1>1. inodes'[d] = inodes[d]
  BY DEF Keeps
<1>2. \A x : BlockAt(inodes[d], x)' = BlockAt(inodes[d], x)
  BY <1>1 DEF BlockAt
<1>3. Visited(d)' = Visited(d)
  BY <1>1, <1>2 DEF Visited
<1>4. ASSUME NEW x \in Visited(d)
      PROVE  EntryAt(d, x)' = EntryAt(d, x)
  BY <1>1, <1>2, <1>4, VisitedTypes DEF EntryAt, Keeps
<1>5. ASSUME inodes[d].size >= 2, Whole(d)
      PROVE  Whole(d)'
  <2>1. Visited(d) = 0 .. (inodes[d].size - 1)
    BY <1>5, InodeTypes DEF Whole, Visited
  <2>2. 0 \in Visited(d) /\ 1 \in Visited(d)
    BY <1>5, <2>1, InodeTypes
  <2>3. BlocksOf(d)' = BlocksOf(d)
    BY <1>1 DEF BlocksOf
  <2> QED
    BY <1>1, <1>2, <1>4, <1>5, <2>1, <2>2, <2>3 DEF Whole
<1>6. Blockless(d) => Blockless(d)'
  BY <1>1 DEF Blockless
<1> QED
  BY <1>3, <1>4, <1>5, <1>6 DEF Entries

LEMMA RootKept ==
  ASSUME Typed, DirectoriesWhole, RootIsADirectory, Keeps(Root)
  PROVE  RootIsADirectory'
<1>1. Root \in Directories /\ Root \in Inode
  BY BrFSAssumption DEF RootIsADirectory, Directories, Live, Root, Inode, FREE, DIR
<1>2. /\ inodes'[Root] = inodes[Root]
      /\ \A x \in Visited(Root) : EntryAt(Root, x)' = EntryAt(Root, x)
      /\ inodes[Root].size >= 2
      /\ Blockless(Root) => Blockless(Root)'
  BY <1>1, KeptDirectory DEF Keeps, DirectoriesWhole
<1>3. ASSUME Whole(Root)' PROVE Whole(Root) /\ 1 \in Visited(Root)
  <2>1. inodes[Root].size \in Int
    BY <1>1, InodeTypes
  <2>2. ~ Blockless(Root)
    <3>1. BlockAt(inodes[Root], 0) \in Block
      BY <1>2, <1>3, <2>1 DEF Whole, BlockAt
    <3> QED
      BY <3>1, FirstPlaces, BrFSAssumption DEF Blockless, BlockAt, NoBlocks, Direct, Block
  <2>3. Whole(Root)
    BY <1>1, <2>2 DEF DirectoriesWhole
  <2> QED
    BY <1>1, <1>2, <2>1, <2>3, VisitedIs
<1> QED
  BY <1>1, <1>2, <1>3 DEF RootIsADirectory

(* What every call that leaves the directories alone keeps.                *)
LEMMA KeptDirectories ==
  ASSUME Typed, DirectoriesWhole, NamedOnce, RootIsADirectory,
         \A i \in Inode : inodes'[i].type = inodes[i].type,
         \A d \in Directories : Keeps(d)
  PROVE  DirectoriesWhole' /\ NamedOnce' /\ RootIsADirectory'
<1>1. Live' = Live /\ Directories' = Directories
  BY DEF Live, Directories
<1>2. \A d \in Directories :
        /\ d \in Inode
        /\ inodes'[d] = inodes[d]
        /\ Visited(d)' = Visited(d)
        /\ Entries(d)' = Entries(d)
        /\ \A x \in Visited(d) : EntryAt(d, x)' = EntryAt(d, x)
        /\ inodes[d].size >= 2 /\ Whole(d) => Whole(d)'
        /\ Blockless(d) => Blockless(d)'
  BY KeptDirectory DEF Directories, Live, Keeps
<1>3. DirectoriesWhole'
  BY <1>1, <1>2 DEF DirectoriesWhole
<1>4. \A d \in Directories : Entries(d) \subseteq Visited(d)
  BY DEF Entries
<1>5. NamedOnce'
  <2> SUFFICES ASSUME NEW d \in Directories, NEW x \in Entries(d), NEW i,
                      i = EntryAt(d, x)
               PROVE  /\ i.ino \in Live \ {Root}
                      /\ \A e \in Directories : \A y \in Entries(e) :
                           EntryAt(e, y).ino = i.ino => e = d /\ y = x
                      /\ inodes'[i.ino].type = DIR /\ 1 \in Visited(i.ino)' =>
                           EntryAt(i.ino, 1)'.ino = d
    BY <1>1, <1>2, <1>4 DEF NamedOnce
  <2>1. /\ i.ino \in Live \ {Root}
        /\ \A e \in Directories : \A y \in Entries(e) :
             EntryAt(e, y).ino = i.ino => e = d /\ y = x
        /\ inodes[i.ino].type = DIR /\ 1 \in Visited(i.ino) =>
             EntryAt(i.ino, 1).ino = d
    BY DEF NamedOnce
  <2>2. inodes'[i.ino].type = DIR => i.ino \in Directories
    BY <2>1 DEF Directories, Live
  <2> QED
    BY <1>2, <2>1, <2>2 DEF Directories
<1>6. RootIsADirectory'
  <2>1. Root \in Directories
    BY BrFSAssumption DEF RootIsADirectory, Directories, Live, Root, Inode, FREE, DIR
  <2> QED
    BY <2>1, RootKept
<1> QED
  BY <1>3, <1>5, <1>6

-----------------------------------------------------------------------------
(* Owners.                                                                 *)

LEMMA OwnersGrow ==
  ASSUME OwnersDiffer, NEW bs, bs \subseteq FreeBlocks,
         \A b \in Block : bitmap'[b] <=> bitmap[b] \/ b \in bs,
         \A i \in Inode, k \in Direct :
           inodes'[i].direct[k] \in Block =>
             inodes'[i].direct[k] \in bs \cup {inodes[i].direct[k]},
         \A i, j \in Inode, k, l \in Direct :
           inodes'[i].direct[k] \in bs /\ inodes'[j].direct[l] = inodes'[i].direct[k]
             => i = j /\ k = l
  PROVE  OwnersDiffer'
<1> SUFFICES ASSUME NEW i \in Inode, NEW j \in Inode, NEW k \in Direct, NEW l \in Direct,
                    inodes'[i].direct[k] \in Block
             PROVE  /\ bitmap'[inodes'[i].direct[k]]
                    /\ inodes'[j].direct[l] = inodes'[i].direct[k] => i = j /\ k = l
  BY DEF OwnersDiffer
<1>1. CASE inodes'[i].direct[k] \in bs
  BY <1>1
<1>2. CASE inodes'[i].direct[k] \notin bs
  <2>1. inodes'[i].direct[k] = inodes[i].direct[k]
    BY <1>2
  <2>2. inodes'[j].direct[l] = inodes'[i].direct[k] =>
          inodes'[j].direct[l] = inodes[j].direct[l]
    BY <1>2
  <2> QED
    BY <2>1, <2>2 DEF OwnersDiffer
<1> QED
  BY <1>1, <1>2

LEMMA OwnersShrink ==
  ASSUME OwnersDiffer, NEW i \in Inode,
         \A b \in Block : bitmap'[b] <=> bitmap[b] /\ b \notin BlocksOf(i),
         \A k \in Direct : inodes'[i].direct[k] \notin Block,
         \A j \in Inode \ {i} : inodes'[j].direct = inodes[j].direct
  PROVE  OwnersDiffer'
<1> SUFFICES ASSUME NEW j \in Inode, NEW m \in Inode, NEW k \in Direct, NEW l \in Direct,
                    inodes'[j].direct[k] \in Block
             PROVE  /\ bitmap'[inodes'[j].direct[k]]
                    /\ inodes'[m].direct[l] = inodes'[j].direct[k] => j = m /\ k = l
  BY DEF OwnersDiffer
<1>1. j # i /\ inodes'[j].direct[k] = inodes[j].direct[k]
  OBVIOUS
<1>2. inodes[j].direct[k] \notin BlocksOf(i)
  BY <1>1 DEF OwnersDiffer, BlocksOf
<1>3. inodes'[m].direct[l] = inodes'[j].direct[k] => m # i
  OBVIOUS
<1> QED
  BY <1>1, <1>2, <1>3 DEF OwnersDiffer

(* The blocks of an inode without a failed block are its own to give.      *)
LEMMA OwnBlocks ==
  ASSUME Typed, OwnersDiffer, NEW i \in Inode, -1 \notin BlocksOf(i)
  PROVE  BlocksOf(i) \subseteq Block /\ \A b \in BlocksOf(i) : bitmap[b]
<1>1. BlocksOf(i) \subseteq Block
  BY InodeTypes DEF BlocksOf
<1> QED
  BY <1>1 DEF BlocksOf, OwnersDiffer

(* Blocks that are free, or belong to another inode, are no directory's.   *)
LEMMA KeepsOthers ==
  ASSUME Typed, OwnersDiffer, NEW i \in Inode, NEW d \in Inode \ {i},
         inodes'[d] = inodes[d],
         \A b \in Block \ FreeBlocks : b \notin BlocksOf(i) => blocks'[b] = blocks[b]
  PROVE  Keeps(d)
<1> SUFFICES ASSUME NEW k \in Direct, inodes[d].direct[k] \in Block
             PROVE  blocks'[inodes[d].direct[k]] = blocks[inodes[d].direct[k]]
  BY DEF Keeps
<1>1. inodes[d].direct[k] \notin FreeBlocks
  BY DEF OwnersDiffer, FreeBlocks
<1>2. inodes[d].direct[k] \notin BlocksOf(i)
  BY DEF OwnersDiffer, BlocksOf
<1> QED
  BY <1>1, <1>2

-----------------------------------------------------------------------------
(* Calls that store nothing, and calls on regular files.                   *)

(* Nothing that an inode holds has changed.                                *)
Unchanged ==
  UNCHANGED <<bitmap, inodes>> /\ \A b \in Block \ FreeBlocks : blocks'[b] = blocks[b]

LEMMA NothingStored ==
  ASSUME Sound, UNCHANGED <<bitmap, fs_free_blocks, inodes, blocks>>,
         fs_inode_buf' \in INodeStruct, ret' \in {0, -1, -2}
  PROVE  Sound'
<1>1. Typed'
  BY DEF Sound, Typed
<1>2. OwnersDiffer' /\ CountIsRight'
  BY DEF Sound, OwnersDiffer, CountIsRight, FreeBlocks
<1>3. DirectoriesWhole' /\ NamedOnce' /\ RootIsADirectory'
  BY KeptDirectories DEF Sound, Keeps
<1>4. FilesHaveBlocks'
  BY DEF Sound, FilesHaveBlocks, Live, BlocksOf
<1> QED
  BY <1>1, <1>2, <1>3, <1>4 DEF Sound

(* A call on file i that gives it this inode and stores, at most, into its *)
(* own blocks and into free ones.                                          *)
LEMMA FileChanged ==
  ASSUME Sound, NEW i \in Inode, inodes[i].type = FILE, NEW node \in INodeStruct,
         node.type = FILE, \A k \in Direct : node.direct[k] # -1,
         inodes' = [inodes EXCEPT ![i] = node],
         \A b \in Block \ FreeBlocks : b \notin BlocksOf(i) => blocks'[b] = blocks[b]
  PROVE  /\ inodes' \in [Inode -> INodeStruct]
         /\ DirectoriesWhole' /\ NamedOnce' /\ RootIsADirectory'
         /\ FilesHaveBlocks'
<1>1. inodes' \in [Inode -> INodeStruct]
  BY DEF Sound, Typed
<1>2. inodes'[i] = node /\ \A j \in Inode \ {i} : inodes'[j] = inodes[j]
  BY DEF Sound, Typed
<1>3. \A d \in Directories : d \in Inode \ {i}
  BY DEF Directories, Live, FILE, DIR
<1>4. \A d \in Directories : Keeps(d)
  BY <1>2, <1>3, KeepsOthers DEF Sound
<1>5. DirectoriesWhole' /\ NamedOnce' /\ RootIsADirectory'
  <2>1. \A j \in Inode : inodes'[j].type = inodes[j].type
    BY <1>2
  <2> QED
    BY <1>4, <2>1, KeptDirectories DEF Sound
<1>6. FilesHaveBlocks'
  BY <1>2 DEF Sound, FilesHaveBlocks, Live, BlocksOf
<1> QED
  BY <1>1, <1>5, <1>6

LEMMA ReadStep ==
  ASSUME Sound, NEW i \in Inode, Read(i)
  PROVE  Sound'
BY NothingStored, InodeTypes DEF Read, Sound

LEMMA TruncateStep ==
  ASSUME Sound, NEW i \in Live, inodes[i].type = FILE, Truncate(i)
  PROVE  Sound'
<1> DEFINE node == [inodes[i] EXCEPT !.size = 0, !.direct = NoBlocks]
<1>1. i \in Inode /\ inodes[i] \in INodeStruct
  BY InodeTypes DEF Live, Sound
<1>2. /\ node \in INodeStruct /\ node.type = FILE
      /\ \A k \in Direct : node.direct[k] = 0
  <2>1. NoBlocks \in [Direct -> Block \cup {-1, 0}] /\ \A k \in Direct : NoBlocks[k] = 0
    BY DEF NoBlocks
  <2>2. 0 \in 0 .. MaxSize
    BY MaxSizeIs
  <2> QED
    BY <1>1, <2>1, <2>2 DEF INodeStruct
<1>3. /\ inodes' = [inodes EXCEPT ![i] = node]
      /\ fs_inode_buf' = node /\ ret' = 0 /\ blocks' = blocks
      /\ Give(BlocksOf(i))
  BY DEF Truncate
<1> HIDE DEF node
<1>4. BlocksOf(i) \subseteq Block /\ \A b \in BlocksOf(i) : bitmap[b]
  BY <1>1, OwnBlocks DEF Sound, FilesHaveBlocks
<1>5. /\ bitmap' \in [Block -> BOOLEAN] /\ fs_free_blocks' \in Int
      /\ CountIsRight'
      /\ \A b \in Block : bitmap'[b] <=> bitmap[b] /\ b \notin BlocksOf(i)
  BY <1>3, <1>4, GiveCounts DEF Sound
<1>6. /\ inodes' \in [Inode -> INodeStruct]
      /\ DirectoriesWhole' /\ NamedOnce' /\ RootIsADirectory'
      /\ FilesHaveBlocks'
  <2>1. \A k \in Direct : node.direct[k] # -1
    BY <1>2
  <2>2. \A b \in Block \ FreeBlocks : b \notin BlocksOf(i) => blocks'[b] = blocks[b]
    BY <1>3
  <2> QED
    BY <1>1, <1>2, <1>3, <2>1, <2>2, FileChanged
<1>7. OwnersDiffer'
  <2>1. \A k \in Direct : inodes'[i].direct[k] \notin Block
    BY <1>1, <1>2, <1>3 DEF Block, Sound, Typed
  <2>2. \A j \in Inode \ {i} : inodes'[j].direct = inodes[j].direct
    BY <1>3 DEF Sound, Typed
  <2> QED
    BY <1>1, <1>5, <2>1, <2>2, OwnersShrink DEF Sound
<1>8. Typed'
  BY <1>2, <1>3, <1>5, <1>6 DEF Sound, Typed
<1> QED
  BY <1>5, <1>6, <1>7, <1>8 DEF Sound

LEMMA AtLeastIs ==
  ASSUME NEW node \in INodeStruct, NEW size \in 0 .. MaxSize
  PROVE  /\ AtLeast(node, size) \in INodeStruct
         /\ AtLeast(node, size).type = node.type
         /\ AtLeast(node, size).direct = node.direct
         /\ AtLeast(node, size).size = IF node.size >= size THEN node.size ELSE size
<1> DEFINE most == Max({node.size, size})
<1>1. /\ most \in 0 .. MaxSize
      /\ most = IF node.size >= size THEN node.size ELSE size
  <2>1. node.size \in 0 .. MaxSize /\ node.size \in Int /\ size \in Int
    BY MaxSizeIs DEF INodeStruct
  <2> QED
    BY <2>1, MaxIs, MaxSizeIs
<1>2. AtLeast(node, size) = [node EXCEPT !.size = most]
  BY DEF AtLeast
<1> HIDE DEF most
<1> QED
  BY <1>1, <1>2 DEF INodeStruct

LEMMA WriteNothingStep ==
  ASSUME Sound, NEW i \in Live, inodes[i].type = FILE, NEW from \in Offsets,
         fs_inode_buf = inodes[i], WriteNothing(i, from)
  PROVE  Sound'
<1> DEFINE node == AtLeast(inodes[i], from)
<1>1. i \in Inode /\ inodes[i] \in INodeStruct
  BY InodeTypes DEF Live, Sound
<1>2. from \in 0 .. MaxSize
  BY BrFSAssumption, MaxSizeIs
<1>3. node \in INodeStruct /\ node.type = FILE /\ node.direct = inodes[i].direct
  BY <1>1, <1>2, AtLeastIs
<1>4. /\ inodes' = [inodes EXCEPT ![i] = node]
      /\ fs_inode_buf' = node /\ ret' = 0
      /\ UNCHANGED <<bitmap, fs_free_blocks, blocks>>
  BY DEF WriteNothing
<1> HIDE DEF node
<1>5. \A k \in Direct : node.direct[k] # -1
  BY <1>1, <1>3 DEF Sound, FilesHaveBlocks, BlocksOf
<1>6. /\ inodes' \in [Inode -> INodeStruct]
      /\ DirectoriesWhole' /\ NamedOnce' /\ RootIsADirectory'
      /\ FilesHaveBlocks'
  BY <1>1, <1>3, <1>4, <1>5, FileChanged
<1>7. OwnersDiffer'
  <2>1. \A j \in Inode : inodes'[j].direct = inodes[j].direct
    BY <1>3, <1>4 DEF Sound, Typed
  <2> QED
    BY <1>4, <2>1 DEF Sound, OwnersDiffer
<1>8. Typed' /\ CountIsRight'
  BY <1>3, <1>4, <1>6 DEF Sound, Typed, CountIsRight, FreeBlocks
<1> QED
  BY <1>6, <1>7, <1>8 DEF Sound

-----------------------------------------------------------------------------
(* Writes.                                                                 *)

LEMMA TouchedIs ==
  ASSUME NEW from \in Nat, NEW n \in Nat \ {0}, from + n <= MaxSize
  PROVE  Touched(from, n) \subseteq Direct
<1>1. from \in 0 .. (MaxSize - 1) /\ from + n - 1 \in 0 .. (MaxSize - 1)
  BY MaxSizeIs
<1>2. Index(from) \in Direct /\ Index(from + n - 1) \in Direct
  BY <1>1, Places
<1> QED
  BY <1>2, BrFSAssumption DEF Touched, Direct

LEMMA StoreIs ==
  ASSUME Typed, NEW node \in INodeStruct, NEW from \in Nat, NEW to \in 0 .. MaxSize,
         NEW v \in Value, NEW taken
  PROVE  /\ Store(node, from, to, v, taken)
              \in [Block -> [Slot -> Entry \cup Value \cup {Zero}]]
         /\ \A b \in Block :
              b \notin taken /\ (\A k \in Direct : node.direct[k] # b) =>
                Store(node, from, to, v, taken)[b] = blocks[b]
<1>1. \A b \in Block : blocks[b] \in [Slot -> Entry \cup Value \cup {Zero}]
  BY DEF Typed
<1>2. Store(node, from, to, v, taken)
        \in [Block -> [Slot -> Entry \cup Value \cup {Zero}]]
  BY <1>1 DEF Store
<1>3. ASSUME NEW b \in Block, b \notin taken, \A k \in Direct : node.direct[k] # b
      PROVE  Store(node, from, to, v, taken)[b] = blocks[b]
  <2>1. ASSUME NEW x \in from .. (to - 1) PROVE BlockAt(node, x) # b
    <3>1. x \in 0 .. (MaxSize - 1)
      BY <2>1, MaxSizeIs
    <3> QED
      BY <1>3, <3>1, Places DEF BlockAt
  <2>2. Store(node, from, to, v, taken)[b] = [s \in Slot |-> blocks[b][s]]
    BY <1>3, <2>1 DEF Store
  <2> QED
    BY <1>1, <2>2
<1> QED
  BY <1>2, <1>3

LEMMA AllocationsAre ==
  ASSUME Typed, NEW ks, ks \subseteq Direct, NEW f \in Allocations(ks)
  PROVE  /\ f \in [ks -> FreeBlocks]
         /\ Range(f) \subseteq FreeBlocks
         /\ \A k \in ks : f[k] \in Range(f)
         /\ \A j, k \in ks : f[j] = f[k] => j = k
<1>1. f \in [ks -> FreeBlocks] /\ \A j, k \in ks : j < k => f[j] < f[k]
  BY DEF Allocations
<1>2. ASSUME NEW j \in ks, NEW k \in ks, f[j] = f[k] PROVE j = k
  <2>1. j \in Int /\ k \in Int /\ f[j] \in Int /\ f[k] \in Int
    BY <1>1, BrFSAssumption DEF Direct, FreeBlocks, Block
  <2>2. ~ (j < k) /\ ~ (k < j)
    BY <1>1, <1>2, <2>1
  <2> QED
    BY <2>1, <2>2
<1> QED
  BY <1>1, <1>2 DEF Range

LEMMA WithBlocksIs ==
  ASSUME Typed, NEW i \in Inode, NEW ks, ks \subseteq Direct,
         NEW f \in [ks -> FreeBlocks]
  PROVE  /\ WithBlocks(inodes[i], f) \in INodeStruct
         /\ WithBlocks(inodes[i], f).type = inodes[i].type
         /\ WithBlocks(inodes[i], f).size = inodes[i].size
         /\ \A k \in Direct : WithBlocks(inodes[i], f).direct[k] =
              IF k \in ks THEN f[k] ELSE inodes[i].direct[k]
<1> DEFINE ds == [k \in Direct |-> IF k \in ks THEN f[k] ELSE inodes[i].direct[k]]
<1>1. WithBlocks(inodes[i], f) = [inodes[i] EXCEPT !.direct = ds]
  BY DEF WithBlocks
<1>2. ds \in [Direct -> Block \cup {-1, 0}]
  <2>1. ASSUME NEW k \in Direct
        PROVE  (IF k \in ks THEN f[k] ELSE inodes[i].direct[k]) \in Block \cup {-1, 0}
    BY InodeTypes DEF FreeBlocks
  <2> QED
    BY <2>1
<1>3. \A k \in Direct : ds[k] = IF k \in ks THEN f[k] ELSE inodes[i].direct[k]
  OBVIOUS
<1> HIDE DEF ds
<1>4. inodes[i] \in INodeStruct
  BY InodeTypes
<1> QED
  BY <1>1, <1>2, <1>3, <1>4 DEF INodeStruct

(* What a write does before its end: blocks are taken and linked in node,  *)
(* and text is stored in them.                                             *)
LEMMA WriteStores ==
  ASSUME Sound, NEW i \in Inode, inodes[i].type = FILE,
         NEW ks, ks \subseteq Direct, NEW f \in Allocations(ks),
         NEW node \in INodeStruct,
         \A k \in Direct : node.direct[k] = IF k \in ks THEN f[k] ELSE inodes[i].direct[k],
         NEW from \in Nat, NEW to \in 0 .. MaxSize, NEW v \in Value,
         Take(Range(f)), blocks' = Store(node, from, to, v, Range(f))
  PROVE  /\ blocks' \in [Block -> [Slot -> Entry \cup Value \cup {Zero}]]
         /\ \A b \in Block \ FreeBlocks : b \notin BlocksOf(i) => blocks'[b] = blocks[b]
         /\ \A k \in Direct : node.direct[k] # -1
         /\ bitmap' \in [Block -> BOOLEAN] /\ fs_free_blocks' \in Int
         /\ CountIsRight'
         /\ \A b \in Block : bitmap'[b] <=> bitmap[b] \/ b \in Range(f)
<1>1. Typed /\ CountIsRight
  BY DEF Sound
<1>2. /\ f \in [ks -> FreeBlocks]
      /\ Range(f) \subseteq FreeBlocks
      /\ \A k \in ks : f[k] \in Range(f)
  BY <1>1, AllocationsAre
<1>3. /\ blocks' \in [Block -> [Slot -> Entry \cup Value \cup {Zero}]]
      /\ \A b \in Block :
           b \notin Range(f) /\ (\A k \in Direct : node.direct[k] # b) =>
             blocks'[b] = blocks[b]
  <2>1. /\ Store(node, from, to, v, Range(f))
             \in [Block -> [Slot -> Entry \cup Value \cup {Zero}]]
        /\ \A b \in Block :
             b \notin Range(f) /\ (\A k \in Direct : node.direct[k] # b) =>
               Store(node, from, to, v, Range(f))[b] = blocks[b]
    BY <1>1, StoreIs
  <2> QED
    BY <2>1
<1>4. ASSUME NEW b \in Block \ FreeBlocks, b \notin BlocksOf(i)
      PROVE  blocks'[b] = blocks[b]
  <2>1. b # 0
    BY DEF Block
  <2>2. \A k \in Direct : inodes[i].direct[k] # b
    BY <1>4, <2>1 DEF BlocksOf
  <2>3. \A k \in Direct : node.direct[k] # b
    BY <1>2, <1>4, <2>2
  <2> QED
    BY <1>2, <1>3, <1>4, <2>3
<1>5. \A k \in Direct : node.direct[k] # -1
  <2>1. -1 \notin FreeBlocks
    BY DEF FreeBlocks, Block
  <2>2. \A k \in Direct : inodes[i].direct[k] # -1
    BY DEF Sound, FilesHaveBlocks, Live, FREE, FILE, BlocksOf
  <2> QED
    BY <1>2, <2>1, <2>2
<1>6. /\ bitmap' \in [Block -> BOOLEAN] /\ fs_free_blocks' \in Int
      /\ CountIsRight'
      /\ \A b \in Block : bitmap'[b] <=> bitmap[b] \/ b \in Range(f)
  BY <1>1, <1>2, TakeCounts
<1> QED
  BY <1>3, <1>4, <1>5, <1>6

LEMMA MissingIs ==
  ASSUME NEW i \in Inode, NEW from \in Nat, NEW n \in Nat \ {0}, from + n <= MaxSize
  PROVE  /\ Granted(i, from, n) \subseteq Direct
         /\ Denied(i, from, n) \subseteq Direct
         /\ \A k \in Granted(i, from, n) : inodes[i].direct[k] = 0
<1>1. Touched(from, n) \subseteq Direct
  BY TouchedIs
<1>2. ASSUME NEW k \in Granted(i, from, n) PROVE inodes[i].direct[k] = 0
  <2>1. k \in Missing(i, from, n) /\ k \in Int
    BY <1>1, <1>2 DEF Granted, Missing, Direct
  <2> DEFINE before == {j \in Missing(i, from, n) : j <= k}
  <2>2. k \in before
    BY <2>1
  <2>3. \A j \in before : inodes[i].direct[j] = 0
    BY <1>2 DEF Granted
  <2> QED
    BY <2>2, <2>3
<1> QED
  BY <1>1, <1>2 DEF Granted, Denied, Missing

(* A write, or its part before a fault: blocks f for the indexes ks are     *)
(* linked in node, and v is stored from one place up to another.           *)
Writes(i, from, to, v, ks, f, node) ==
  /\ i \in Inode /\ inodes[i].type = FILE
  /\ ks \subseteq Direct /\ \A k \in ks : inodes[i].direct[k] = 0
  /\ f \in Allocations(ks)
  /\ to \in 0 .. MaxSize /\ from <= to
  /\ node \in INodeStruct /\ node.type = FILE
  /\ \A k \in Direct : node.direct[k] = IF k \in ks THEN f[k] ELSE inodes[i].direct[k]
  /\ Take(Range(f)) /\ blocks' = Store(node, from, to, v, Range(f))
  /\ fs_inode_buf' = node

(* The write that ends finds a block for all it stores.                    *)
WriteEnds(i, from, to, node) ==
  /\ node.size = IF inodes[i].size >= to THEN inodes[i].size ELSE to
  /\ \A x \in from .. (to - 1) : node.direct[Index(x)] \in Block
  /\ inodes' = [inodes EXCEPT ![i] = node] /\ ret' = 0

LEMMA WriteIs ==
  ASSUME Sound, NEW i \in Live, inodes[i].type = FILE, NEW from \in Nat,
         NEW n \in Nat \ {0}, from + n <= MaxSize, NEW v \in Value,
         Write(i, from, n, v)
  PROVE  \E to, ks, f, node :
           Writes(i, from, to, v, ks, f, node) /\ WriteEnds(i, from, to, node)
<1> DEFINE denied == Denied(i, from, n)
           start == Min(denied) * UnitsPerBlock
           end == IF denied = {} THEN from + n ELSE Max({from, start})
           ks == Granted(i, from, n)
<1>1. PICK f \in Allocations(ks) :
        /\ Take(Range(f))
        /\ inodes' = [inodes EXCEPT ![i] = AtLeast(WithBlocks(inodes[i], f), end)]
        /\ blocks' = Store(AtLeast(WithBlocks(inodes[i], f), end), from, end, v, Range(f))
        /\ fs_inode_buf' = AtLeast(WithBlocks(inodes[i], f), end)
        /\ ret' = 0
  BY DEF Write
<1>2. i \in Inode /\ Typed
  BY DEF Live, Sound
<1>3. ks \subseteq Direct /\ denied \subseteq Direct /\ \A k \in ks : inodes[i].direct[k] = 0
  BY <1>2, MissingIs
<1>4. denied # {} => /\ Min(denied) \in denied /\ \A k \in denied : Min(denied) <= k
                     /\ start \in 0 .. MaxSize
  <2>1. ASSUME denied # {} PROVE Min(denied) \in denied /\ \A k \in denied : Min(denied) <= k
    BY <1>3, <2>1, MinIs DEF Direct
  <2>2. ASSUME denied # {} PROVE start \in 0 .. MaxSize
    BY <1>3, <2>1, <2>2, BlockStart
  <2> QED
    BY <2>1, <2>2
<1>5. end = IF denied = {} THEN from + n ELSE IF from >= start THEN from ELSE start
  <2> HIDE DEF start, denied
  <2>1. denied # {} => start \in Int
    BY <1>4
  <2> QED
    BY <2>1, MaxIs
<1>6. end \in 0 .. MaxSize /\ from <= end
  <2> HIDE DEF start, denied, end
  <2> QED
    BY <1>4, <1>5, MaxSizeIs
<1>7. f \in [ks -> FreeBlocks] /\ \A k \in ks : f[k] \in Block
  BY <1>2, <1>3, AllocationsAre DEF FreeBlocks
<1> DEFINE linked == WithBlocks(inodes[i], f)
           node == AtLeast(linked, end)
<1>8. /\ linked \in INodeStruct /\ linked.type = FILE /\ linked.size = inodes[i].size
      /\ \A k \in Direct : linked.direct[k] = IF k \in ks THEN f[k] ELSE inodes[i].direct[k]
  <2> HIDE DEF ks
  <2> QED
    BY <1>2, <1>3, <1>7, WithBlocksIs
<1> HIDE DEF linked, end
<1>9. /\ node \in INodeStruct /\ node.type = FILE /\ node.direct = linked.direct
      /\ node.size = IF linked.size >= end THEN linked.size ELSE end
  BY <1>6, <1>8, AtLeastIs
<1> HIDE DEF node
(* The places stored into have a block: they lie before the first denied.  *)
<1>10. ASSUME NEW x \in from .. (end - 1)
       PROVE  node.direct[Index(x)] \in Block
  <2> DEFINE k == Index(x)
             m == Min(denied)
  <2>1. x \in Nat /\ x <= end - 1 /\ x \in 0 .. (MaxSize - 1)
    BY <1>6, MaxSizeIs
  <2>2. k \in Direct /\ k \in Nat /\ Index(from) <= k
    BY <2>1, Places, IndexMonotone DEF Direct
  <2>3. ASSUME denied = {} PROVE k \in Touched(from, n) /\ k \notin denied
    <3>1. x <= from + n - 1 /\ from + n - 1 \in Nat
      BY <1>5, <2>1, <2>3
    <3>2. k <= Index(from + n - 1)
      BY <2>1, <3>1, IndexMonotone
    <3> HIDE DEF k, denied
    <3>3. k \in Touched(from, n) /\ k \notin denied
      BY <2>2, <2>3, <3>1, <3>2, TouchedIs DEF Touched, Direct
    <3> QED
      BY <3>3
  <2>4. ASSUME denied # {} PROVE k \in Touched(from, n) /\ k \notin denied
    <3>1. m \in denied /\ m \in Touched(from, n) /\ m \in Nat
      <4> HIDE DEF m
      <4>1. m \in denied
        BY <1>4, <2>4 DEF m
      <4>2. denied \subseteq Touched(from, n) /\ denied \subseteq Nat
        BY <1>3 DEF Denied, Missing, Direct
      <4> QED
        BY <4>1, <4>2
    <3>2. x < m * UnitsPerBlock
      <4> HIDE DEF start, denied, m
      <4>1. start \in Int
        BY <1>4, <2>4
      <4>2. x < start
        BY <1>5, <2>1, <2>4, <4>1
      <4> QED
        BY <4>2 DEF start, m
    <3>3. k < m
      BY <2>1, <3>1, <3>2, DivLess, BrFSAssumption DEF Index
    <3>4. \A j \in denied : m <= j
      BY <1>4, <2>4
    <3> HIDE DEF k, m, denied
    <3>5. k \notin denied
      BY <2>2, <3>1, <3>3, <3>4
    <3>6. k \in Touched(from, n)
      <4>1. from + n - 1 \in Nat
        OBVIOUS
      <4>2. Index(from) \in Int /\ Index(from + n - 1) \in Int
        BY <4>1, DivMod, BrFSAssumption DEF Index
      <4> QED
        BY <2>2, <3>1, <3>3, <4>2 DEF Touched
    <3> QED
      BY <3>5, <3>6
  <2>5. k \in Touched(from, n) /\ k \notin denied
    BY <2>3, <2>4
  <2>6. inodes[i].direct[k] = 0 => k \in ks
    BY <2>5 DEF Denied, Missing
  <2>7. inodes[i].direct[k] # 0 => inodes[i].direct[k] \in Block
    <3>1. inodes[i].direct[k] # -1
      BY <2>2 DEF Sound, FilesHaveBlocks, BlocksOf
    <3> QED
      BY <1>2, <2>2, <3>1, InodeTypes
  <2>8. node.direct[k] = IF k \in ks THEN f[k] ELSE inodes[i].direct[k]
    BY <1>8, <1>9, <2>2
  <2> QED
    BY <1>7, <2>6, <2>7, <2>8
<1>11. Writes(i, from, end, v, ks, f, node)
  <2> HIDE DEF ks
  <2> QED
    BY <1>1, <1>2, <1>3, <1>6, <1>8, <1>9 DEF Writes, linked, node
<1>12. WriteEnds(i, from, end, node)
  BY <1>1, <1>8, <1>9, <1>10 DEF WriteEnds, linked, node
<1> QED
  BY <1>11, <1>12

LEMMA WriteStep ==
  ASSUME Sound, NEW i \in Live, inodes[i].type = FILE, NEW from \in Nat,
         NEW n \in Nat \ {0}, from + n <= MaxSize, NEW v \in Value,
         Write(i, from, n, v)
  PROVE  Sound'
<1>1. PICK end, ks, f, node :
        Writes(i, from, end, v, ks, f, node) /\ WriteEnds(i, from, end, node)
  BY WriteIs
<1>2. i \in Inode /\ Typed
  BY DEF Live, Sound
<1>3. ks \subseteq Direct /\ f \in Allocations(ks)
  BY <1>1 DEF Writes
<1>4. end \in 0 .. MaxSize
  BY <1>1 DEF Writes
<1>5. f \in [ks -> FreeBlocks] /\ Range(f) \subseteq FreeBlocks
      /\ (\A k \in ks : f[k] \in Range(f))
      /\ \A j, k \in ks : f[j] = f[k] => j = k
  BY <1>2, <1>3, AllocationsAre
<1>7. node \in INodeStruct /\ node.type = FILE
  BY <1>1 DEF Writes
<1>8. /\ inodes' = [inodes EXCEPT ![i] = node] /\ fs_inode_buf' = node /\ ret' = 0
      /\ Take(Range(f)) /\ blocks' = Store(node, from, end, v, Range(f))
  BY <1>1 DEF Writes, WriteEnds
<1>9. \A k \in Direct : node.direct[k] = IF k \in ks THEN f[k] ELSE inodes[i].direct[k]
  BY <1>1 DEF Writes
<1>10. /\ blocks' \in [Block -> [Slot -> Entry \cup Value \cup {Zero}]]
       /\ \A b \in Block \ FreeBlocks : b \notin BlocksOf(i) => blocks'[b] = blocks[b]
       /\ \A k \in Direct : node.direct[k] # -1
       /\ bitmap' \in [Block -> BOOLEAN] /\ fs_free_blocks' \in Int
       /\ CountIsRight'
       /\ \A b \in Block : bitmap'[b] <=> bitmap[b] \/ b \in Range(f)
  BY <1>2, <1>3, <1>4, <1>7, <1>8, <1>9, WriteStores
<1>11. /\ inodes' \in [Inode -> INodeStruct]
       /\ DirectoriesWhole' /\ NamedOnce' /\ RootIsADirectory'
       /\ FilesHaveBlocks'
  BY <1>2, <1>7, <1>8, <1>10, FileChanged
<1>12. OwnersDiffer'
  <2>1. inodes'[i] = node /\ \A j \in Inode \ {i} : inodes'[j] = inodes[j]
    BY <1>2, <1>8 DEF Typed
  <2>2. \A j \in Inode, k \in Direct :
          inodes'[j].direct[k] \in Block =>
            inodes'[j].direct[k] \in Range(f) \cup {inodes[j].direct[k]}
    BY <1>5, <1>9, <2>1
  <2>3. \A j \in Inode, k \in Direct : inodes[j].direct[k] \notin Range(f)
    BY <1>5 DEF FreeBlocks, Sound, OwnersDiffer
  <2>4. \A j, m \in Inode, k, l \in Direct :
          inodes'[j].direct[k] \in Range(f) /\ inodes'[m].direct[l] = inodes'[j].direct[k]
            => j = m /\ k = l
    BY <1>5, <1>9, <2>1, <2>3
  <2> QED
    BY <1>5, <1>10, <2>2, <2>4, OwnersGrow DEF Sound
<1>13. Typed'
  BY <1>2, <1>7, <1>8, <1>10, <1>11 DEF Typed
<1> QED
  BY <1>10, <1>11, <1>12, <1>13 DEF Sound

LEMMA WriteFaultsIs ==
  ASSUME Sound, NEW i \in Live, inodes[i].type = FILE, NEW from \in Nat,
         NEW n \in Nat \ {0}, from + n <= MaxSize, NEW v \in Value,
         WriteFaults(i, from, n, v)
  PROVE  /\ \E to, ks, f, node : Writes(i, from, to, v, ks, f, node)
         /\ inodes' = inodes /\ ret' = -2
<1>1. PICK k \in Touched(from, n) :
        \E f \in Allocations({j \in Granted(i, from, n) : j <= k}) :
          /\ Take(Range(f))
          /\ blocks' = Store(WithBlocks(inodes[i], f), from,
                             Max({from, k * UnitsPerBlock}), v, Range(f))
          /\ fs_inode_buf' = WithBlocks(inodes[i], f)
          /\ Killed
          /\ UNCHANGED inodes
  BY DEF WriteFaults
<1> DEFINE ks == {j \in Granted(i, from, n) : j <= k}
           start == k * UnitsPerBlock
           to == Max({from, start})
<1>2. PICK f \in Allocations(ks) :
        /\ Take(Range(f))
        /\ blocks' = Store(WithBlocks(inodes[i], f), from, to, v, Range(f))
        /\ fs_inode_buf' = WithBlocks(inodes[i], f)
        /\ ret' = -2
        /\ inodes' = inodes
  BY <1>1 DEF Killed
<1>3. i \in Inode /\ Typed
  BY DEF Live, Sound
<1>4. ks \subseteq Direct /\ \A l \in ks : inodes[i].direct[l] = 0
  BY <1>3, MissingIs
<1>5. to \in 0 .. MaxSize /\ from <= to
  <2>1. start \in 0 .. MaxSize
    BY TouchedIs, BlockStart
  <2> HIDE DEF start
  <2>2. start \in Int /\ from \in Int
    BY <2>1
  <2> QED
    BY <2>1, <2>2, MaxIs, MaxSizeIs
<1> HIDE DEF ks, start, to
<1>6. f \in [ks -> FreeBlocks]
  BY <1>3, <1>4, AllocationsAre
<1> DEFINE node == WithBlocks(inodes[i], f)
<1>7. /\ node \in INodeStruct /\ node.type = FILE
      /\ \A l \in Direct : node.direct[l] = IF l \in ks THEN f[l] ELSE inodes[i].direct[l]
  BY <1>3, <1>4, <1>6, WithBlocksIs
<1>8. Writes(i, from, to, v, ks, f, node)
  <2> HIDE DEF node
  <2> QED
    BY <1>2, <1>3, <1>4, <1>5, <1>7 DEF Writes, node
<1> QED
  BY <1>2, <1>8

LEMMA WriteFaultsStep ==
  ASSUME Sound, NEW i \in Live, inodes[i].type = FILE, NEW from \in Nat,
         NEW n \in Nat \ {0}, from + n <= MaxSize, NEW v \in Value,
         WriteFaults(i, from, n, v)
  PROVE  Sound'
<1>1. PICK to, ks, f, node : Writes(i, from, to, v, ks, f, node)
  BY WriteFaultsIs
<1>2. Take(Range(f)) /\ f \in Allocations(ks) /\ ret' = -2 /\ inodes' = inodes
  BY <1>1, WriteFaultsIs DEF Writes
<1>3. i \in Inode /\ Typed
  BY DEF Live, Sound
<1>4. ks \subseteq Direct
  BY <1>1 DEF Writes
<1>5. to \in 0 .. MaxSize
  BY <1>1 DEF Writes
<1>6. f \in [ks -> FreeBlocks] /\ Range(f) \subseteq FreeBlocks
  BY <1>2, <1>3, <1>4, AllocationsAre
<1>7. /\ node \in INodeStruct
      /\ \A l \in Direct : node.direct[l] = IF l \in ks THEN f[l] ELSE inodes[i].direct[l]
      /\ blocks' = Store(node, from, to, v, Range(f))
      /\ fs_inode_buf' = node
  BY <1>1 DEF Writes
<1>8. /\ blocks' \in [Block -> [Slot -> Entry \cup Value \cup {Zero}]]
      /\ \A b \in Block \ FreeBlocks : b \notin BlocksOf(i) => blocks'[b] = blocks[b]
      /\ bitmap' \in [Block -> BOOLEAN] /\ fs_free_blocks' \in Int
      /\ CountIsRight'
      /\ \A b \in Block : bitmap'[b] <=> bitmap[b] \/ b \in Range(f)
  BY <1>2, <1>3, <1>4, <1>5, <1>7, WriteStores
<1>9. \A j \in Inode, l \in Direct : inodes[j].direct[l] \notin Range(f)
  BY <1>6 DEF FreeBlocks, Sound, OwnersDiffer
<1>10. OwnersDiffer'
  <2>1. \A j \in Inode, l \in Direct :
          inodes'[j].direct[l] \in Block =>
            inodes'[j].direct[l] \in Range(f) \cup {inodes[j].direct[l]}
    BY <1>2
  <2>2. \A j, m \in Inode, h, l \in Direct :
          inodes'[j].direct[h] \in Range(f) /\ inodes'[m].direct[l] = inodes'[j].direct[h]
            => j = m /\ h = l
    BY <1>2, <1>9
  <2> QED
    BY <1>6, <1>8, <2>1, <2>2, OwnersGrow DEF Sound
<1>11. DirectoriesWhole' /\ NamedOnce' /\ RootIsADirectory'
  <2>1. \A d \in Directories : d \in Inode \ {i}
    BY DEF Directories, Live, FILE, DIR
  <2>2. \A d \in Directories : Keeps(d)
    BY <1>2, <1>3, <1>8, <2>1, KeepsOthers DEF Sound
  <2> QED
    BY <1>2, <2>2, KeptDirectories DEF Sound
<1>12. FilesHaveBlocks'
  BY <1>2 DEF Sound, FilesHaveBlocks, Live, BlocksOf
<1>13. Typed'
  BY <1>2, <1>3, <1>7, <1>8 DEF Typed
<1> QED
  BY <1>8, <1>10, <1>11, <1>12, <1>13 DEF Sound

-----------------------------------------------------------------------------
(* Creates.                                                                *)

(* A directory that takes another entry has blocks for those it has.       *)
LEMMA GrowingIsWhole ==
  ASSUME Sound, NEW p \in Directories, BlockAt(inodes[p], inodes[p].size) # -1
  PROVE  Whole(p) /\ inodes[p].size >= 2
<1>1. inodes[p].size >= 2 /\ (Whole(p) \/ Blockless(p))
  BY DEF Sound, DirectoriesWhole
<1>2. Blockless(p) => BlockAt(inodes[p], inodes[p].size) = -1
  BY FirstPlaces, BrFSAssumption DEF Blockless, BlockAt, NoBlocks, Direct
<1> QED
  BY <1>1, <1>2

LEMMA UnusedIsUnnamed ==
  ASSUME Sound, NEW i \in Inode \ Live, NEW d \in Directories, NEW x \in Entries(d)
  PROVE  EntryAt(d, x).ino # i
BY DEF Sound, NamedOnce

(* fs_create has found the inode and the blocks it needs.                  *)
Creates(p, name, type, i, own, size, at, b, child, parent) ==
  /\ IF type = DIR THEN own \in FreeBlocks \cup {-1} ELSE own = 0
  /\ size = inodes[p].size /\ size < MaxSize
  /\ at = BlockAt(inodes[p], size)
  /\ b \in Block /\ (at = b \/ (at = 0 /\ b \in FreeBlocks \ {own}))
  /\ child = [type |-> type, size |-> IF type = DIR THEN 2 ELSE 0,
              direct |-> [NoBlocks EXCEPT ![0] = own]]
  /\ parent = [inodes[p] EXCEPT !.size = size + 1, !.direct[Index(size)] = b]
  /\ Take(({own} \cup IF at = 0 THEN {b} ELSE {}) \cap Block)
  /\ inodes' = [inodes EXCEPT ![i] = child, ![p] = parent]
  /\ blocks' = [[c \in Block |-> IF c = own THEN Dots(i, p) ELSE blocks[c]] EXCEPT ![b] =
       [s \in Slot |-> IF s = Within(size) THEN [ino |-> i, name |-> name]
                       ELSE IF at = 0 THEN Zero
                       ELSE [c \in Block |-> IF c = own THEN Dots(i, p) ELSE blocks[c]][b][s]]]
  /\ fs_inode_buf' = parent /\ ret' = 0

(* What that leaves behind.                                                *)
Created(p, name, type, i, size, b) ==
  LET at == inodes[p].direct[Index(size)]
  IN /\ p \in Inode /\ i \in Inode \ Live /\ p # i
     /\ size = inodes[p].size /\ size \in 0 .. (MaxSize - 1)
     /\ Live' = Live \cup {i}
     /\ Directories' = Directories \cup IF type = DIR THEN {i} ELSE {}
     /\ \A j \in Inode \ {i, p} : Keeps(j)
     /\ inodes'[i].type = type /\ inodes'[i].size = IF type = DIR THEN 2 ELSE 0
     /\ type = FILE => \A k \in Direct : inodes'[i].direct[k] = 0
     /\ type = DIR => Visited(i)' \subseteq {0, 1}
     /\ inodes'[p].type = inodes[p].type /\ inodes'[p].size = size + 1
     /\ b \in Block /\ (at = b \/ at = 0)
     /\ \A k \in Direct :
          inodes'[p].direct[k] = IF k = Index(size) THEN b ELSE inodes[p].direct[k]
     /\ \A k \in Direct \ {Index(size)} :
          inodes[p].direct[k] \in Block =>
            blocks'[inodes[p].direct[k]] = blocks[inodes[p].direct[k]]
     /\ \A s \in Slot : blocks'[b][s] =
          IF s = Within(size) THEN [ino |-> i, name |-> name]
          ELSE IF at = 0 THEN Zero ELSE blocks[b][s]
     /\ p \in Directories =>
          /\ size >= 2 /\ Visited(p) = 0 .. (size - 1) /\ Visited(p)' = 0 .. size
          /\ \A y \in 0 .. (size - 1) : EntryAt(p, y)' = EntryAt(p, y)
          /\ EntryAt(p, size)' = [ino |-> i, name |-> name]
     /\ \A c \in Block : bitmap'[c] => bitmap[c] \/ c \in {b, inodes'[i].direct[0]}

LEMMA CreateSucceeds ==
  ASSUME Sound, NEW p \in Live, NEW name \in Name, NEW type \in {FILE, DIR},
         NEW i \in Inode \ Live, NEW own, NEW size, NEW at, NEW b, NEW child, NEW parent,
         Creates(p, name, type, i, own, size, at, b, child, parent)
  PROVE  Sound' /\ Created(p, name, type, i, size, b)
<1> USE DEF Creates
<1>1. /\ Typed /\ p \in Inode /\ i \in Inode /\ p # i
      /\ inodes[p] \in INodeStruct
      /\ size \in 0 .. (MaxSize - 1) /\ size \in Nat
  <2>1. p \in Inode /\ Typed /\ i \in Inode /\ p # i
    BY DEF Live, Sound
  <2>2. inodes[p] \in INodeStruct /\ inodes[p].size \in 0 .. MaxSize
    BY <2>1, InodeTypes
  <2> QED
    BY <2>1, <2>2, MaxSizeIs
<1>2. /\ Index(size) \in Direct /\ Within(size) \in Slot
      /\ at = inodes[p].direct[Index(size)] /\ b \in Block
  BY <1>1, Places, BlockAtIs
<1>3. own # b
  BY <1>1, <1>2 DEF Block, FreeBlocks, Sound, OwnersDiffer
<1>4. /\ child.type = type /\ child.size = IF type = DIR THEN 2 ELSE 0
      /\ child \in INodeStruct
      /\ child.direct = [NoBlocks EXCEPT ![0] = own]
      /\ \A k \in Direct : child.direct[k] = IF k = 0 THEN own ELSE 0
  <2>1. 0 \in Direct /\ own \in Block \cup {-1, 0}
    BY BrFSAssumption DEF Direct, FreeBlocks
  <2>2. \A k \in Direct : [NoBlocks EXCEPT ![0] = own][k] = IF k = 0 THEN own ELSE 0
    BY <2>1 DEF NoBlocks
  <2>3. [NoBlocks EXCEPT ![0] = own] \in [Direct -> Block \cup {-1, 0}]
    BY <2>1 DEF NoBlocks
  <2>4. (IF type = DIR THEN 2 ELSE 0) \in 0 .. MaxSize
    BY MaxSizeIs
  <2> QED
    BY <2>2, <2>3, <2>4 DEF INodeStruct
<1>5. /\ parent \in INodeStruct /\ parent.type = inodes[p].type
      /\ parent.size = size + 1
      /\ \A k \in Direct : parent.direct[k] =
           IF k = Index(size) THEN b ELSE inodes[p].direct[k]
  <2>1. size + 1 \in 0 .. MaxSize
    BY <1>1, MaxSizeIs
  <2> DEFINE ds == [inodes[p].direct EXCEPT ![Index(size)] = b]
  <2>2. /\ ds \in [Direct -> Block \cup {-1, 0}]
        /\ \A k \in Direct : ds[k] = IF k = Index(size) THEN b ELSE inodes[p].direct[k]
    BY <1>1, <1>2 DEF INodeStruct
  <2>3. parent = [inodes[p] EXCEPT !.size = size + 1, !.direct = ds]
    BY <1>1 DEF INodeStruct
  <2> HIDE DEF ds
  <2> QED
    BY <1>1, <2>1, <2>2, <2>3 DEF INodeStruct
<1>6. /\ inodes'[i] = child /\ inodes'[p] = parent
      /\ \A j \in Inode \ {i, p} : inodes'[j] = inodes[j]
      /\ inodes' \in [Inode -> INodeStruct]
  BY <1>1, <1>4, <1>5 DEF Typed
<1>7. /\ blocks' \in [Block -> [Slot -> Entry \cup Value \cup {Zero}]]
      /\ \A c \in Block \ {b, own} : blocks'[c] = blocks[c]
      /\ own \in Block => blocks'[own] = Dots(i, p)
      /\ \A s \in Slot : blocks'[b][s] =
           IF s = Within(size) THEN [ino |-> i, name |-> name]
           ELSE IF at = 0 THEN Zero ELSE blocks[b][s]
  <2>1. Dots(i, p) \in [Slot -> Entry \cup Value \cup {Zero}]
    BY <1>1 DEF Dots, Entry
  <2>2. [ino |-> i, name |-> name] \in Entry
    BY <1>1 DEF Entry
  <2> DEFINE made == [c \in Block |-> IF c = own THEN Dots(i, p) ELSE blocks[c]]
             full == [s \in Slot |-> IF s = Within(size) THEN [ino |-> i, name |-> name]
                                     ELSE IF at = 0 THEN Zero ELSE made[b][s]]
  <2>3. made \in [Block -> [Slot -> Entry \cup Value \cup {Zero}]]
    BY <1>1, <2>1 DEF Typed
  <2>4. made[b] = blocks[b]
    BY <1>3
  <2>5. /\ full \in [Slot -> Entry \cup Value \cup {Zero}]
        /\ \A s \in Slot : full[s] =
             IF s = Within(size) THEN [ino |-> i, name |-> name]
             ELSE IF at = 0 THEN Zero ELSE blocks[b][s]
    BY <1>1, <2>2, <2>4 DEF Typed
  <2>6. \A c \in Block : made[c] = IF c = own THEN Dots(i, p) ELSE blocks[c]
    OBVIOUS
  <2>7. blocks' = [made EXCEPT ![b] = full]
    OBVIOUS
  <2> HIDE DEF made, full
  <2> QED
    BY <1>3, <2>3, <2>5, <2>6, <2>7
<1> DEFINE bs == ({own} \cup IF at = 0 THEN {b} ELSE {}) \cap Block
<1>8. /\ bs \subseteq FreeBlocks
      /\ \A c : c \in bs <=> c \in Block /\ (c = own \/ (at = 0 /\ c = b))
  BY DEF FreeBlocks, Block
<1>9. /\ bitmap' \in [Block -> BOOLEAN] /\ fs_free_blocks' \in Int
      /\ CountIsRight'
      /\ \A c \in Block : bitmap'[c] <=> bitmap[c] \/ c \in bs
  BY <1>1, <1>8, TakeCounts DEF Sound
<1> HIDE DEF bs
<1>10. Typed'
  BY <1>5, <1>6, <1>7, <1>9 DEF Typed
<1>11. \A j \in Inode, k \in Direct : inodes[j].direct[k] \notin bs
  BY <1>8 DEF FreeBlocks, Sound, OwnersDiffer
<1>12. OwnersDiffer'
  <2>1. ASSUME NEW j \in Inode, NEW k \in Direct, inodes'[j].direct[k] \in Block
        PROVE  \/ inodes'[j].direct[k] = inodes[j].direct[k]
               \/ j = i /\ k = 0 /\ inodes'[j].direct[k] = own /\ own \in bs
               \/ /\ j = p /\ k = Index(size) /\ inodes'[j].direct[k] = b
                  /\ b \in bs
    <3>1. CASE j = i
      <4>1. inodes'[j].direct[k] = IF k = 0 THEN own ELSE 0
        BY <1>4, <1>6, <3>1
      <4>2. k = 0 /\ own \in Block
        BY <2>1, <4>1, BlockIsNoMark
      <4> QED
        BY <1>8, <3>1, <4>1, <4>2
    <3>2. CASE j = p
      BY <1>2, <1>5, <1>6, <1>8, <2>1, <3>2
    <3>3. CASE j \notin {i, p}
      BY <1>6, <3>3
    <3> QED
      BY <3>1, <3>2, <3>3
  <2>2. \A j \in Inode, k \in Direct :
          inodes'[j].direct[k] \in bs =>
            \/ j = i /\ k = 0 /\ inodes'[j].direct[k] = own
            \/ j = p /\ k = Index(size) /\ inodes'[j].direct[k] = b
    BY <1>8, <1>11, <2>1
  <2>3. \A j, m \in Inode, k, l \in Direct :
          inodes'[j].direct[k] \in bs /\ inodes'[m].direct[l] = inodes'[j].direct[k]
            => j = m /\ k = l
    BY <1>3, <2>2
  <2> QED
    <3>1. \A j \in Inode, k \in Direct :
            inodes'[j].direct[k] \in Block =>
              inodes'[j].direct[k] \in bs \cup {inodes[j].direct[k]}
      <4> SUFFICES ASSUME NEW j \in Inode, NEW k \in Direct, inodes'[j].direct[k] \in Block
                   PROVE  inodes'[j].direct[k] \in bs \cup {inodes[j].direct[k]}
        OBVIOUS
      <4> QED
        BY <2>1
    <3> QED
      BY <1>8, <1>9, <2>3, <3>1, OwnersGrow DEF Sound
(* Other directories.                                                      *)
<1>13. /\ \A d \in Directories : d \in Inode /\ d # i
       /\ \A j \in Inode \ {i, p} : Keeps(j)
  <2>1. \A d \in Directories : d \in Inode /\ d # i
    BY DEF Directories, Live
  <2>2. ASSUME NEW d \in Inode \ {i, p}, NEW k \in Direct, inodes[d].direct[k] \in Block
        PROVE  inodes[d].direct[k] \notin {b, own}
    <3>1. inodes[d].direct[k] \notin FreeBlocks
      BY <2>2 DEF Sound, OwnersDiffer, FreeBlocks
    <3>2. inodes[d].direct[k] = b => at # b
      <4>1. inodes[p].direct[Index(size)] = inodes[d].direct[k] => d = p
        BY <1>1, <1>2, <2>2 DEF Sound, OwnersDiffer
      <4> QED
        BY <1>2, <2>2, <4>1
    <3> QED
      BY <2>2, <3>1, <3>2, BlockIsNoMark
  <2>3. \A j \in Inode \ {i, p} : inodes'[j] = inodes[j]
    BY <1>6
  <2>4. ASSUME NEW d \in Inode \ {i, p}, NEW k \in Direct, inodes[d].direct[k] \in Block
        PROVE  blocks'[inodes[d].direct[k]] = blocks[inodes[d].direct[k]]
    BY <1>7, <2>2, <2>4
  <2> QED
    BY <2>1, <2>3, <2>4 DEF Keeps
<1>14. \A d \in Directories \ {p} :
         /\ inodes'[d] = inodes[d]
         /\ Visited(d)' = Visited(d)
         /\ Entries(d)' = Entries(d)
         /\ \A x \in Visited(d) : EntryAt(d, x)' = EntryAt(d, x)
         /\ inodes[d].size >= 2 /\ Whole(d) => Whole(d)'
         /\ Blockless(d) => Blockless(d)'
  BY <1>1, <1>13, KeptDirectory DEF Keeps
(* The parent, when it is a directory.                                     *)
<1>15. ASSUME p \in Directories
       PROVE  /\ size >= 2 /\ Whole(p) /\ Whole(p)'
              /\ Visited(p) = 0 .. (size - 1) /\ Visited(p)' = 0 .. size
              /\ \A y \in 0 .. (size - 1) : EntryAt(p, y)' = EntryAt(p, y)
              /\ EntryAt(p, size)' = [ino |-> i, name |-> name]
  <2>1. size >= 2 /\ Whole(p)
    BY <1>15, GrowingIsWhole DEF Block
  <2>2. ASSUME NEW y \in 0 .. (size - 1)
        PROVE  /\ BlockAt(inodes[p], y)' = BlockAt(inodes[p], y)
               /\ BlockAt(inodes[p], y) \in Block
               /\ EntryAt(p, y) \in Entry
               /\ EntryAt(p, y)' = EntryAt(p, y)
    <3> DEFINE c == BlockAt(inodes[p], y)
    <3>1. c \in Block /\ EntryAt(p, y) \in Entry
      BY <2>1, <2>2 DEF Whole
    <3>2. y \in 0 .. (MaxSize - 1) /\ y \in Nat
      BY <1>1, <2>2, MaxSizeIs
    <3>3. Index(y) \in Direct /\ Within(y) \in Slot /\ c = inodes[p].direct[Index(y)]
      BY <1>1, <3>2, Places, BlockAtIs
    <3>4. c \notin bs
      BY <1>1, <1>11, <3>3
    <3>5. Index(y) = Index(size) => c = b
      BY <1>2, <3>1, <3>3 DEF Block
    <3>6. inodes'[p].direct[Index(y)] = c
      BY <1>5, <1>6, <3>3, <3>5
    <3>7. c = b => Index(y) = Index(size) /\ at # 0
      <4>1. inodes[p].direct[Index(size)] = inodes[p].direct[Index(y)]
              => Index(y) = Index(size)
        BY <1>1, <1>2, <3>1, <3>3 DEF Sound, OwnersDiffer
      <4>2. c = b => at # 0
        BY <1>8, <3>1, <3>4
      <4>3. c = b /\ at # 0 => inodes[p].direct[Index(size)] = inodes[p].direct[Index(y)]
        BY <1>2, <3>3
      <4> QED
        BY <4>1, <4>2, <4>3
    <3>8. c = b => Within(y) # Within(size)
      BY <1>1, <2>2, <3>2, <3>7, PlacesDiffer
    <3>9. blocks'[c][Within(y)] = blocks[c][Within(y)]
      BY <1>7, <1>8, <3>1, <3>3, <3>4, <3>7, <3>8
    <3> QED
      BY <3>1, <3>6, <3>9 DEF BlockAt, EntryAt
  <2>3. BlockAt(inodes[p], size)' = b /\ EntryAt(p, size)' = [ino |-> i, name |-> name]
    <3>1. BlockAt(inodes[p], size)' = b
      BY <1>2, <1>5, <1>6 DEF BlockAt
    <3>2. EntryAt(p, size)' = blocks'[b][Within(size)]
      BY <3>1 DEF EntryAt
    <3>3. blocks'[b][Within(size)] = [ino |-> i, name |-> name]
      BY <1>2, <1>7
    <3> QED
      BY <3>1, <3>2, <3>3
  <2>4. [ino |-> i, name |-> name] \in Entry
    BY <1>1 DEF Entry
  <2>5. Whole(p)'
    <3>1. \A x \in 0 .. (inodes'[p].size - 1) :
            x \in 0 .. (size - 1) \/ x = size
      BY <1>1, <1>5, <1>6
    <3>2. EntryAt(p, 0)' = [ino |-> p, name |-> Dot] /\ EntryAt(p, 1)'.name = DotDot
      BY <1>1, <2>1, <2>2 DEF Whole
    <3>3. \A k \in Direct : inodes'[p].direct[k] # -1
      BY <1>5, <1>6, <2>1 DEF Whole, BlocksOf, Block
    <3> QED
      BY <2>2, <2>3, <2>4, <3>1, <3>2, <3>3 DEF Whole, BlocksOf
  <2>6. Visited(p) = 0 .. (size - 1)
    BY <1>1, <1>15, <2>1, VisitedIs
  <2>7. Visited(p)' = 0 .. size
    BY <1>1, <1>5, <1>6, <2>5 DEF Whole, Visited
  <2> QED
    BY <2>1, <2>2, <2>3, <2>5, <2>6, <2>7
(* The child.                                                              *)
<1>16. ASSUME type = DIR
       PROVE  /\ inodes'[i].size = 2
              /\ Whole(i)' \/ Blockless(i)'
              /\ Visited(i)' \subseteq {0, 1}
              /\ 1 \in Visited(i)' => EntryAt(i, 1)'.ino = p
  <2>1. inodes'[i].size = 2
    BY <1>4, <1>6, <1>16
  <2>2. \A x \in {0, 1} : BlockAt(inodes[i], x)' = own /\ Within(x) = x /\ x \in Slot
    <3>1. \A x \in {0, 1} : Index(x) = 0 /\ Within(x) = x /\ x \in Slot
      BY FirstPlaces, BrFSAssumption DEF Slot
    <3>2. 0 \in Direct
      BY BrFSAssumption DEF Direct
    <3>3. inodes'[i].direct[0] = own
      BY <1>4, <1>6, <3>2
    <3> QED
      BY <3>1, <3>3 DEF BlockAt
  <2>3. own \in Block => EntryAt(i, 0)' = [ino |-> i, name |-> Dot]
                      /\ EntryAt(i, 1)' = [ino |-> p, name |-> DotDot]
    <3>1. \A x \in {0, 1} : EntryAt(i, x)' = blocks'[own][x] /\ x \in Slot
      BY <2>2 DEF EntryAt
    <3>2. own \in Block => \A x \in Slot : blocks'[own][x] = Dots(i, p)[x]
      BY <1>7
    <3>3. /\ 0 \in Slot => Dots(i, p)[0] = [ino |-> i, name |-> Dot]
          /\ 1 \in Slot => Dots(i, p)[1] = [ino |-> p, name |-> DotDot]
      BY DEF Dots
    <3> QED
      BY <3>1, <3>2, <3>3
  <2>4. Visited(i)' \subseteq {0, 1}
    BY <2>1 DEF Visited
  <2>5. 1 \in Visited(i)' => own \in Block
    <3>1. 1 \in Visited(i)' => BlockAt(inodes[i], 1)' \in Block
      <4>1. 1 \in 0 .. 1
        OBVIOUS
      <4> QED
        BY <4>1 DEF Visited
    <3> QED
      BY <2>2, <3>1
  <2>6. own \in Block => Whole(i)'
    <3>1. \A k \in Direct : own \in Block => inodes'[i].direct[k] # -1
      <4>1. \A k \in Direct : inodes'[i].direct[k] = IF k = 0 THEN own ELSE 0
        BY <1>4, <1>6
      <4>2. own \in Block => own # -1
        BY BlockIsNoMark
      <4>3. 0 # -1
        OBVIOUS
      <4> QED
        BY <4>1, <4>2, <4>3
    <3>2. [ino |-> i, name |-> Dot] \in Entry /\ [ino |-> p, name |-> DotDot] \in Entry
      BY <1>1 DEF Entry
    <3>3. inodes'[i].size - 1 = 1 /\ 0 .. 1 = {0, 1}
      BY <2>1
    <3>4. own \in Block => -1 \notin BlocksOf(i)'
      BY <3>1 DEF BlocksOf
    <3>5. own \in Block => \A x \in 0 .. (inodes'[i].size - 1) :
            BlockAt(inodes[i], x)' \in Block /\ EntryAt(i, x)' \in Entry
      BY <2>2, <2>3, <3>2, <3>3
    <3> QED
      <4>1. own \in Block => EntryAt(i, 1)'.name = DotDot
        BY <2>3
      <4> QED
        BY <2>3, <3>4, <3>5, <4>1 DEF Whole
  <2>7. own \notin Block => Blockless(i)'
    BY <1>4, <1>6, <1>16, <2>1 DEF Blockless, FreeBlocks
  <2> QED
    BY <2>1, <2>3, <2>4, <2>5, <2>6, <2>7
<1>17. /\ Live' = Live \cup {i}
       /\ Directories' = Directories \cup IF type = DIR THEN {i} ELSE {}
  <2>1. \A j \in Inode \ {i} : inodes'[j].type = inodes[j].type
    BY <1>5, <1>6
  <2>2. inodes'[i].type = type /\ type # FREE
    BY <1>4, <1>6 DEF FREE, FILE, DIR
  <2>3. Live' = Live \cup {i}
    BY <1>1, <2>1, <2>2 DEF Live
  <2>4. Directories' = Directories \cup IF type = DIR THEN {i} ELSE {}
    BY <1>1, <2>1, <2>2, <2>3 DEF Live, Directories, DIR, FREE
  <2> QED
    BY <2>3, <2>4
<1> HIDE DEF Creates
<1>18. DirectoriesWhole'
  <2> SUFFICES ASSUME NEW d \in Directories'
               PROVE  inodes'[d].size >= 2 /\ (Whole(d)' \/ Blockless(d)')
    BY DEF DirectoriesWhole
  <2>1. CASE d = p /\ p \in Directories
    BY <1>1, <1>5, <1>6, <1>15, <2>1
  <2>2. CASE d \in Directories \ {p}
    BY <1>14, <2>2 DEF Sound, DirectoriesWhole
  <2>3. CASE d = i /\ type = DIR
    BY <1>16, <2>3
  <2> QED
    BY <1>17, <2>1, <2>2, <2>3
(* Every entry is an old one, or the new one.                              *)
<1>19. ASSUME NEW d \in Directories', NEW x \in Entries(d)'
       PROVE  \/ /\ d \in Directories /\ x \in Entries(d)
                 /\ EntryAt(d, x)' = EntryAt(d, x)
              \/ /\ d = p /\ p \in Directories /\ x = size
                 /\ EntryAt(d, x)'.ino = i
  <2>1. CASE d = p /\ p \in Directories
    <3>1. x \in 0 .. size /\ x >= 2
      BY <1>15, <1>19, <2>1 DEF Entries
    <3>2. x # size => x \in Entries(p) /\ x \in 0 .. (size - 1)
      BY <1>1, <1>15, <2>1, <3>1 DEF Entries
    <3> QED
      BY <1>15, <2>1, <3>2
  <2>2. CASE d \in Directories \ {p}
    BY <1>14, <1>19, <2>2 DEF Entries
  <2>3. CASE d = i /\ type = DIR
    BY <1>16, <1>19, <2>3 DEF Entries
  <2> QED
    BY <1>17, <2>1, <2>2, <2>3
<1>20. NamedOnce'
  <2> SUFFICES ASSUME NEW d \in Directories', NEW x \in Entries(d)', NEW n,
                      n = EntryAt(d, x)'.ino
               PROVE  /\ n \in Live' \ {Root}
                      /\ \A e \in Directories' : \A y \in Entries(e)' :
                           EntryAt(e, y)'.ino = n => e = d /\ y = x
                      /\ inodes'[n].type = DIR /\ 1 \in Visited(n)' => EntryAt(n, 1)'.ino = d
    BY DEF NamedOnce
  <2>1. \A e \in Directories : \A y \in Entries(e) : EntryAt(e, y).ino # i
    BY UnusedIsUnnamed
  <2>2. i # Root
    BY BrFSAssumption DEF Sound, RootIsADirectory, Live, Root, Inode, FREE, DIR
  <2>3. CASE d \in Directories /\ x \in Entries(d) /\ EntryAt(d, x)' = EntryAt(d, x)
    <3>1. /\ n \in Live \ {Root}
          /\ \A e \in Directories : \A y \in Entries(e) :
               EntryAt(e, y).ino = n => e = d /\ y = x
          /\ inodes[n].type = DIR /\ 1 \in Visited(n) => EntryAt(n, 1).ino = d
      BY <2>3 DEF Sound, NamedOnce
    <3>2. \A e \in Directories' : \A y \in Entries(e)' :
            EntryAt(e, y)'.ino = n => e = d /\ y = x
      BY <1>19, <2>1, <2>3, <3>1
    <3>3. n # i /\ n \in Inode
      BY <3>1 DEF Live
    <3>4. inodes'[n].type = inodes[n].type
      BY <1>5, <1>6, <3>3
    <3>5. ASSUME inodes'[n].type = DIR, 1 \in Visited(n)'
          PROVE  EntryAt(n, 1)'.ino = d
      <4>1. n \in Directories
        BY <3>1, <3>4, <3>5 DEF Directories
      <4>2. CASE n = p
        BY <1>1, <1>15, <3>1, <3>4, <3>5, <4>1, <4>2
      <4>3. CASE n # p
        BY <1>14, <3>1, <3>4, <3>5, <4>1, <4>3
      <4> QED
        BY <4>2, <4>3
    <3> QED
      BY <1>17, <2>3, <3>1, <3>2, <3>5
  <2>4. CASE d = p /\ p \in Directories /\ x = size /\ EntryAt(d, x)'.ino = i
    <3>1. \A e \in Directories' : \A y \in Entries(e)' :
            EntryAt(e, y)'.ino = i => e = d /\ y = x
      BY <1>19, <2>1, <2>4
    <3>2. inodes'[i].type = DIR /\ 1 \in Visited(i)' => EntryAt(i, 1)'.ino = d
      BY <1>4, <1>6, <1>16, <2>4 DEF FILE, DIR
    <3> QED
      BY <1>17, <2>2, <2>4, <3>1, <3>2
  <2> QED
    BY <1>19, <2>3, <2>4
<1>21. FilesHaveBlocks'
  <2>1. ASSUME NEW j \in Live', inodes'[j].type = FILE, NEW k \in Direct
        PROVE  inodes'[j].direct[k] # -1
    <3>1. CASE j = i
      <4>1. type # DIR
        BY <1>4, <1>6, <2>1, <3>1 DEF FILE, DIR
      <4>2. own = 0
        BY <4>1 DEF Creates
      <4>3. inodes'[j].direct[k] = 0
        BY <1>4, <1>6, <3>1, <4>2
      <4> QED
        BY <4>3
    <3>2. CASE j # i
      <4>1. j \in Live /\ j \in Inode /\ inodes[j].type = FILE
        BY <1>5, <1>6, <1>17, <2>1, <3>2 DEF Live
      <4>2. inodes[j].direct[k] # -1
        BY <4>1 DEF Sound, FilesHaveBlocks, BlocksOf
      <4> QED
        BY <1>2, <1>5, <1>6, <3>2, <4>1, <4>2, BlockIsNoMark
    <3> QED
      BY <3>1, <3>2
  <2> QED
    BY <2>1 DEF FilesHaveBlocks, BlocksOf
<1>22. RootIsADirectory'
  <2>1. Root \in Directories /\ Root \in Inode
    BY BrFSAssumption DEF Sound, RootIsADirectory, Directories, Live, Root, Inode, FREE, DIR
  <2>2. inodes'[Root].type = DIR
    BY <1>5, <1>6, <1>13, <2>1 DEF Sound, RootIsADirectory
  <2>3. CASE Root = p
    BY <1>1, <1>15, <2>1, <2>2, <2>3 DEF Sound, RootIsADirectory
  <2>4. CASE Root # p
    BY <1>1, <1>13, <2>1, <2>4, RootKept DEF Sound
  <2> QED
    BY <2>3, <2>4
<1>23. Created(p, name, type, i, size, b)
  <2>1. /\ size = inodes[p].size /\ (at = b \/ at = 0)
        /\ type = FILE => own = 0
    BY DEF Creates, FILE, DIR
  <2>2. type = FILE => \A k \in Direct : inodes'[i].direct[k] = 0
    BY <1>4, <1>6, <2>1
  <2>3. ASSUME NEW k \in Direct \ {Index(size)}, inodes[p].direct[k] \in Block
        PROVE  blocks'[inodes[p].direct[k]] = blocks[inodes[p].direct[k]]
    <3>1. inodes[p].direct[k] \notin bs
      BY <1>1, <1>11
    <3>2. inodes[p].direct[k] # own
      BY <1>8, <2>3, <3>1
    <3>3. inodes[p].direct[k] # b
      <4>1. CASE at = 0
        BY <1>8, <2>3, <3>1, <4>1
      <4>2. CASE at = b
        BY <1>1, <1>2, <2>3, <4>2 DEF Sound, OwnersDiffer
      <4> QED
        BY <2>1, <4>1, <4>2
    <3> QED
      BY <1>7, <2>3, <3>2, <3>3
  <2>4. \A c \in Block : bitmap'[c] => bitmap[c] \/ c \in {b, inodes'[i].direct[0]}
    <3>1. 0 \in Direct
      BY BrFSAssumption DEF Direct
    <3>2. inodes'[i].direct[0] = own
      BY <1>4, <1>6, <3>1
    <3> QED
      BY <1>8, <1>9, <3>2
  <2>5. /\ \A k \in Direct :
             inodes'[p].direct[k] = IF k = Index(size) THEN b ELSE inodes[p].direct[k]
        /\ inodes'[p].type = inodes[p].type /\ inodes'[p].size = size + 1
        /\ inodes'[i].type = type /\ inodes'[i].size = IF type = DIR THEN 2 ELSE 0
    BY <1>4, <1>5, <1>6
  <2>6. \A s \in Slot : blocks'[b][s] =
          IF s = Within(size) THEN [ino |-> i, name |-> name]
          ELSE IF inodes[p].direct[Index(size)] = 0 THEN Zero ELSE blocks[b][s]
    BY <1>2, <1>7
  <2>7. inodes[p].direct[Index(size)] \in {b, 0}
    BY <1>2, <2>1
  <2>8. type = DIR => Visited(i)' \subseteq {0, 1}
    BY <1>16
  <2>9. p \in Directories =>
          /\ size >= 2 /\ Visited(p) = 0 .. (size - 1) /\ Visited(p)' = 0 .. size
          /\ \A y \in 0 .. (size - 1) : EntryAt(p, y)' = EntryAt(p, y)
          /\ EntryAt(p, size)' = [ino |-> i, name |-> name]
    BY <1>15
  <2> QED
    BY <1>1, <1>2, <1>13, <1>17, <2>1, <2>2, <2>3, <2>4, <2>5, <2>6, <2>7, <2>8, <2>9
       DEF Created
<1> QED
  BY <1>9, <1>10, <1>12, <1>18, <1>20, <1>21, <1>22, <1>23 DEF Sound

LEMMA LowestIs ==
  ASSUME NEW S, S \subseteq Block
  PROVE  Lowest(S) \in S \/ Lowest(S) = -1
<1>1. Block \subseteq Nat
  BY DEF Block
<1>2. S # {} => Min(S) \in S
  BY <1>1, MinIs
<1> QED
  BY <1>2 DEF Lowest

(* A new directory that got no block stays behind, without entries.        *)
LEMMA CreateFaults ==
  ASSUME Sound, NEW i \in Inode \ Live, NEW child,
         child = [type |-> DIR, size |-> 2, direct |-> [NoBlocks EXCEPT ![0] = -1]],
         inodes' = [inodes EXCEPT ![i] = child], fs_inode_buf' = child, ret' = -2,
         UNCHANGED <<bitmap, fs_free_blocks, blocks>>
  PROVE  Sound'
<1>1. Typed
  BY DEF Sound
<1>2. /\ child \in INodeStruct /\ child.type = DIR /\ child.size = 2
      /\ child.direct = [NoBlocks EXCEPT ![0] = -1]
      /\ \A k \in Direct : child.direct[k] \in {-1, 0}
  <2>1. [NoBlocks EXCEPT ![0] = -1] \in [Direct -> {-1, 0}]
    BY DEF NoBlocks
  <2>2. 2 \in 0 .. MaxSize
    BY MaxSizeIs
  <2> QED
    BY <2>1, <2>2 DEF INodeStruct
<1>3. /\ inodes'[i] = child /\ \A j \in Inode \ {i} : inodes'[j] = inodes[j]
      /\ inodes' \in [Inode -> INodeStruct]
  BY <1>1, <1>2 DEF Typed
<1>4. /\ Live' = Live \cup {i} /\ Directories' = Directories \cup {i}
  BY <1>2, <1>3 DEF Live, Directories, FREE, DIR
<1>5. Typed'
  BY <1>1, <1>2, <1>3 DEF Typed
<1>6. OwnersDiffer'
  <2>1. \A k \in Direct : inodes'[i].direct[k] \notin Block
    BY <1>2, <1>3, BlockIsNoMark
  <2>2. \A j \in Inode, k \in Direct :
          inodes'[j].direct[k] \in Block => inodes'[j].direct[k] = inodes[j].direct[k]
    BY <1>3, <2>1
  <2>3. bitmap' = bitmap
    OBVIOUS
  <2> QED
    BY <2>2, <2>3 DEF Sound, OwnersDiffer
<1>7. CountIsRight'
  BY DEF Sound, CountIsRight, FreeBlocks
<1>8. \A d \in Directories : d \in Inode /\ d # i /\ Keeps(d)
  BY <1>3 DEF Directories, Live, Keeps
<1>9. \A d \in Directories :
        /\ inodes'[d] = inodes[d]
        /\ Visited(d)' = Visited(d)
        /\ Entries(d)' = Entries(d)
        /\ \A x \in Visited(d) : EntryAt(d, x)' = EntryAt(d, x)
        /\ inodes[d].size >= 2 /\ Whole(d) => Whole(d)'
        /\ Blockless(d) => Blockless(d)'
  BY <1>1, <1>8, KeptDirectory DEF Keeps
<1>10. Blockless(i)' /\ inodes'[i].size = 2
  BY <1>2, <1>3 DEF Blockless
<1>11. DirectoriesWhole'
  BY <1>4, <1>9, <1>10 DEF Sound, DirectoriesWhole
<1>12. Entries(i)' = {}
  <2>1. \A x \in Visited(i)' : x \in {0, 1}
    BY <1>10 DEF Visited
  <2> QED
    BY <2>1 DEF Entries
<1>13. \A d \in Directories : Entries(d) \subseteq Visited(d)
  BY DEF Entries
<1>14. NamedOnce'
  <2> SUFFICES ASSUME NEW d \in Directories, NEW x \in Entries(d), NEW n,
                      n = EntryAt(d, x).ino
               PROVE  /\ n \in Live' \ {Root}
                      /\ \A e \in Directories : \A y \in Entries(e) :
                           EntryAt(e, y).ino = n => e = d /\ y = x
                      /\ inodes'[n].type = DIR /\ 1 \in Visited(n)' =>
                           EntryAt(n, 1)'.ino = d
    BY <1>4, <1>9, <1>12, <1>13 DEF NamedOnce
  <2>1. /\ n \in Live \ {Root}
        /\ \A e \in Directories : \A y \in Entries(e) :
             EntryAt(e, y).ino = n => e = d /\ y = x
        /\ inodes[n].type = DIR /\ 1 \in Visited(n) => EntryAt(n, 1).ino = d
    BY DEF Sound, NamedOnce
  <2>2. n \in Inode /\ n # i
    BY <2>1 DEF Live
  <2>3. inodes'[n].type = DIR => n \in Directories
    BY <1>3, <2>1, <2>2 DEF Directories
  <2> QED
    BY <1>4, <1>9, <2>1, <2>3 DEF Directories
<1>15. FilesHaveBlocks'
  <2>1. \A j \in Live' : inodes'[j].type = FILE => j \in Live /\ inodes'[j] = inodes[j]
    BY <1>2, <1>3, <1>4 DEF Live, FILE, DIR
  <2> QED
    BY <2>1 DEF Sound, FilesHaveBlocks, BlocksOf
<1>16. RootIsADirectory'
  <2>1. Root \in Directories
    BY BrFSAssumption DEF Sound, RootIsADirectory, Directories, Live, Root, Inode, FREE, DIR
  <2> QED
    BY <1>1, <1>8, <2>1, RootKept DEF Sound
<1> QED
  BY <1>5, <1>6, <1>7, <1>11, <1>14, <1>15, <1>16 DEF Sound

(* How a create ends: without a trace, with an entry, or cut short.        *)
CreateEnds(p, name, type) ==
  \/ Unchanged
  \/ \E i, size, b : Created(p, name, type, i, size, b)
  \/ /\ ret' = -2 /\ UNCHANGED <<bitmap, blocks>>
     /\ \E i \in Inode \ Live : inodes' = [inodes EXCEPT ![i] =
          [type |-> DIR, size |-> 2, direct |-> [NoBlocks EXCEPT ![0] = -1]]]

LEMMA CreateFailsStep ==
  ASSUME Sound, NEW p \in Live, NEW name \in Name, NEW type \in {FILE, DIR},
         CreateFails(p, type)
  PROVE  Sound' /\ CreateEnds(p, name, type)
<1> DEFINE unused == Inode \ Live
           i == Min(unused)
           own == IF type = DIR THEN Lowest(FreeBlocks) ELSE 0
           child == [type |-> type, size |-> IF type = DIR THEN 2 ELSE 0,
                     direct |-> [NoBlocks EXCEPT ![0] = own]]
           made == [c \in Block |-> IF c = own THEN Dots(i, p) ELSE blocks[c]]
<1>1. \/ /\ unused = {}
         /\ fs_inode_buf' = inodes[NInodes - 1] /\ ret' = -1
         /\ UNCHANGED <<bitmap, fs_free_blocks, inodes, blocks>>
      \/ /\ unused # {} /\ own # -1
         /\ blocks' = made /\ fs_inode_buf' = Zeroed /\ ret' = -1
         /\ UNCHANGED <<bitmap, fs_free_blocks, inodes>>
      \/ /\ unused # {} /\ own = -1
         /\ inodes' = [inodes EXCEPT ![i] = child]
         /\ fs_inode_buf' = child /\ ret' = -2
         /\ UNCHANGED <<bitmap, fs_free_blocks, blocks>>
  BY DEF CreateFails, Killed, Own, Child, Made
<1>2. Typed /\ p \in Inode
  BY DEF Sound, Live
<1>3. unused # {} => i \in unused
  BY MinIs DEF Inode
<1>4. IF type = DIR THEN own \in FreeBlocks \cup {-1} ELSE own = 0
  BY LowestIs DEF FreeBlocks
(* No inode.                                                               *)
<1>6. CASE /\ fs_inode_buf' = inodes[NInodes - 1] /\ ret' = -1
           /\ UNCHANGED <<bitmap, fs_free_blocks, inodes, blocks>>
  <2>1. NInodes - 1 \in Inode
    BY BrFSAssumption DEF Inode
  <2> QED
    BY <1>2, <1>6, <2>1, InodeTypes, NothingStored DEF CreateEnds, Unchanged
(* It got no block for its entry: what was taken is given back.            *)
<1>8. CASE /\ unused # {} /\ own # -1
           /\ blocks' = made /\ fs_inode_buf' = Zeroed /\ ret' = -1
           /\ UNCHANGED <<bitmap, fs_free_blocks, inodes>>
  <2>1. i \in Inode
    BY <1>3, <1>8
  <2>2. own \in FreeBlocks \/ own = 0
    BY <1>4, <1>8
  <2>3. /\ blocks' \in [Block -> [Slot -> Entry \cup Value \cup {Zero}]]
        /\ \A c \in Block \ {own} : blocks'[c] = blocks[c]
    <3>1. Dots(i, p) \in [Slot -> Entry \cup Value \cup {Zero}]
      BY <1>2, <2>1 DEF Dots, Entry
    <3> HIDE DEF i, own
    <3> QED
      BY <1>2, <1>8, <3>1 DEF Typed
  <2>4. Zeroed \in INodeStruct
    BY MaxSizeIs DEF Zeroed, NoBlocks, INodeStruct
  <2> HIDE DEF i, own
  <2>5. Typed'
    BY <1>2, <1>8, <2>3, <2>4 DEF Typed
  <2>6. OwnersDiffer' /\ CountIsRight'
    BY <1>8 DEF Sound, OwnersDiffer, CountIsRight, FreeBlocks
  <2>7. ASSUME NEW d \in Directories PROVE Keeps(d)
    <3>1. d \in Inode
      BY DEF Directories, Live
    <3>2. ASSUME NEW k \in Direct, inodes[d].direct[k] \in Block
          PROVE  inodes[d].direct[k] # own
      BY <2>2, <3>1, <3>2, BlockIsNoMark DEF Sound, OwnersDiffer, FreeBlocks
    <3> QED
      BY <1>8, <2>3, <3>2 DEF Keeps
  <2>8. DirectoriesWhole' /\ NamedOnce' /\ RootIsADirectory'
    BY <1>8, <2>7, KeptDirectories DEF Sound
  <2>9. FilesHaveBlocks'
    BY <1>8 DEF Sound, FilesHaveBlocks, Live, BlocksOf
  <2>10. Unchanged
    <3>1. own \notin Block \ FreeBlocks
      BY <2>2, BlockIsNoMark
    <3> QED
      BY <1>8, <2>3, <3>1 DEF Unchanged
  <2> QED
    BY <2>5, <2>6, <2>8, <2>9, <2>10 DEF Sound, CreateEnds
(* A new directory without a block stays behind.                           *)
<1>9. CASE /\ unused # {} /\ own = -1
           /\ inodes' = [inodes EXCEPT ![i] = child]
           /\ fs_inode_buf' = child /\ ret' = -2
           /\ UNCHANGED <<bitmap, fs_free_blocks, blocks>>
  <2>1. i \in Inode \ Live /\ type = DIR
    BY <1>3, <1>4, <1>9
  <2>2. child = [type |-> DIR, size |-> 2, direct |-> [NoBlocks EXCEPT ![0] = -1]]
    BY <1>9, <2>1
  <2> HIDE DEF i, child
  <2> QED
    BY <1>9, <2>1, <2>2, CreateFaults DEF CreateEnds
<1> QED
  BY <1>1, <1>6, <1>8, <1>9

LEMMA CreateStep ==
  ASSUME Sound, NEW p \in Live, NEW name \in Name, NEW type \in {FILE, DIR},
         Create(p, name, type)
  PROVE  Sound' /\ CreateEnds(p, name, type)
<1> DEFINE unused == Inode \ Live
           i == Min(unused)
           size == inodes[p].size
           own == IF type = DIR THEN Lowest(FreeBlocks) ELSE 0
           at == BlockAt(inodes[p], size)
           b == IF at = 0 THEN Lowest(FreeBlocks \ {own}) ELSE at
           child == [type |-> type, size |-> IF type = DIR THEN 2 ELSE 0,
                     direct |-> [NoBlocks EXCEPT ![0] = own]]
           made == [c \in Block |-> IF c = own THEN Dots(i, p) ELSE blocks[c]]
           parent == [inodes[p] EXCEPT !.size = size + 1,
                                       !.direct[Index(size)] = b]
           full == [s \in Slot |-> IF s = Within(size) THEN [ino |-> i, name |-> name]
                                   ELSE IF at = 0 THEN Zero ELSE made[b][s]]
<1>1. /\ size < MaxSize
      /\ \/ CreateFails(p, type)
         \/ /\ unused # {} /\ b # -1
            /\ Take(({own} \cup IF at = 0 THEN {b} ELSE {}) \cap Block)
            /\ inodes' = [inodes EXCEPT ![i] = child, ![p] = parent]
            /\ blocks' = [made EXCEPT ![b] = full]
            /\ fs_inode_buf' = parent /\ ret' = 0
  BY DEF Create, EntryBlock, Own, Child, Made
<1>2. /\ Typed /\ p \in Inode /\ size \in 0 .. (MaxSize - 1)
      /\ at \in Block \cup {-1, 0}
  <2>1. Typed /\ p \in Inode
    BY DEF Sound, Live
  <2>2. size \in 0 .. MaxSize /\ \A k \in Direct : inodes[p].direct[k] \in Block \cup {-1, 0}
    BY <2>1, InodeTypes
  <2>3. size \in 0 .. (MaxSize - 1)
    BY <1>1, <2>2, MaxSizeIs
  <2> QED
    BY <2>1, <2>2, <2>3, BlockAtIs
<1>3. unused # {} => i \in unused
  BY MinIs DEF Inode
<1>4. IF type = DIR THEN own \in FreeBlocks \cup {-1} ELSE own = 0
  BY LowestIs DEF FreeBlocks
<1>5. b # -1 => b \in Block /\ (at = b \/ (at = 0 /\ b \in FreeBlocks \ {own}))
  <2>1. FreeBlocks \ {own} \subseteq Block
    BY DEF FreeBlocks
  <2>2. at = 0 => b \in FreeBlocks \ {own} \/ b = -1
    BY <2>1, LowestIs
  <2>3. at # 0 => b = at
    OBVIOUS
  <2> HIDE DEF at, b, own
  <2> QED
    BY <1>2, <2>1, <2>2, <2>3
(* The directory has its entry.                                            *)
<1>7. CASE /\ unused # {} /\ b # -1
           /\ Take(({own} \cup IF at = 0 THEN {b} ELSE {}) \cap Block)
           /\ inodes' = [inodes EXCEPT ![i] = child, ![p] = parent]
           /\ blocks' = [made EXCEPT ![b] = full]
           /\ fs_inode_buf' = parent /\ ret' = 0
  <2>1. i \in Inode \ Live /\ b \in Block
    BY <1>3, <1>5, <1>7
  <2>2. at = b \/ (at = 0 /\ b \in FreeBlocks \ {own})
    BY <1>5, <1>7
  <2>3. /\ size = inodes[p].size /\ at = BlockAt(inodes[p], size)
        /\ child = [type |-> type, size |-> IF type = DIR THEN 2 ELSE 0,
                    direct |-> [NoBlocks EXCEPT ![0] = own]]
        /\ parent = [inodes[p] EXCEPT !.size = size + 1, !.direct[Index(size)] = b]
    OBVIOUS
  <2> HIDE DEF i, own, b, size, at, child, parent
  <2>4. /\ Take(({own} \cup IF at = 0 THEN {b} ELSE {}) \cap Block)
        /\ inodes' = [inodes EXCEPT ![i] = child, ![p] = parent]
        /\ blocks' = [[c \in Block |-> IF c = own THEN Dots(i, p) ELSE blocks[c]] EXCEPT ![b] =
             [s \in Slot |-> IF s = Within(size) THEN [ino |-> i, name |-> name]
                             ELSE IF at = 0 THEN Zero
                             ELSE [c \in Block |-> IF c = own THEN Dots(i, p) ELSE blocks[c]][b][s]]]
        /\ fs_inode_buf' = parent /\ ret' = 0
    BY <1>7
  <2>5. size < MaxSize
    BY <1>1
  <2> QED
    <3>1. Creates(p, name, type, i, own, size, at, b, child, parent)
      BY <1>4, <2>1, <2>2, <2>3, <2>4, <2>5 DEF Creates
    <3>2. Sound' /\ Created(p, name, type, i, size, b)
      BY <2>1, <3>1, CreateSucceeds
    <3> QED
      BY <3>2 DEF CreateEnds
<1> QED
  BY <1>1, <1>7, CreateFailsStep

-----------------------------------------------------------------------------
(* Unlinks.                                                                *)

(* The entry found by name is the only one with that inode: "." is another *)
(* inode, and ".." would name an empty directory that is not empty.        *)
LEMMA UnlinkFinds ==
  ASSUME Sound, NEW p \in Live \cap Named, NEW name \in Name, Found(p, name) # {},
         NEW m, m = Min(Found(p, name)), NEW child, child = EntryAt(p, m).ino,
         inodes[child].type = DIR => fs_dir_empty(child)
  PROVE  /\ p \in Directories /\ Whole(p) /\ inodes[p].size >= 3
         /\ Visited(p) = 0 .. (inodes[p].size - 1)
         /\ m \in Entries(p) /\ child \in Live \ {Root} /\ child # p
         /\ {x \in Visited(p) : EntryAt(p, x).ino = child} = {m}
<1>1. Typed /\ p \in Inode
  BY DEF Sound, Live
<1>2. m \in Found(p, name)
  <2>1. \A x \in Visited(p) : x \in Nat
    BY DEF Visited
  <2>2. Found(p, name) \subseteq Nat
    BY <2>1 DEF Found
  <2> QED
    BY <2>2, MinIs
<1>3. p \in Directories /\ m \in Visited(p) /\ EntryAt(p, m).name = name
  BY <1>2 DEF Found, Directories
<1>4. /\ Whole(p) /\ inodes[p].size >= 2
      /\ Visited(p) = 0 .. (inodes[p].size - 1)
  BY <1>1, <1>3, VisitedIs DEF Sound, DirectoriesWhole
<1>5. /\ EntryAt(p, 0) = [ino |-> p, name |-> Dot] /\ EntryAt(p, 1).name = DotDot
      /\ name # Dot /\ name # DotDot
  BY <1>4, BrFSAssumption DEF Whole
<1>6. m \in Entries(p) /\ inodes[p].size >= 3
  <2>1. m \in Int /\ m <= inodes[p].size - 1 /\ m >= 0 /\ inodes[p].size \in Int
    BY <1>1, <1>3, <1>4, InodeTypes
  <2>2. m # 0 /\ m # 1
    BY <1>3, <1>5
  <2> QED
    BY <1>3, <2>1, <2>2 DEF Entries
<1>7. /\ child \in Live \ {Root}
      /\ \A e \in Directories : \A y \in Entries(e) : EntryAt(e, y).ino = child => e = p /\ y = m
  BY <1>3, <1>6 DEF Sound, NamedOnce
<1>8. \A y \in Entries(child) : inodes[child].type = DIR => EntryAt(child, y).ino = Root
  BY DEF fs_dir_empty, Entries
<1>9. child # p
  <2>1. child = p => EntryAt(p, m).ino = Root
    BY <1>3, <1>6, <1>8 DEF Directories
  <2> QED
    BY <1>7, <2>1
<1>10. EntryAt(p, 1).ino # child
  <2>1. 1 \in Visited(p)
    BY <1>1, <1>4, <1>6, InodeTypes
  <2>2. CASE p = Root
    BY <1>4, <1>7, <2>2 DEF Sound, RootIsADirectory
  <2>3. CASE p # Root
    <3>1. PICK d \in Directories : \E y \in Entries(d) : EntryAt(d, y).ino = p
      BY <2>3 DEF Named
    <3> PICK y \in Entries(d) : EntryAt(d, y).ino = p
      BY <3>1
    <3>2. EntryAt(p, 1).ino = d
      BY <1>3, <2>1, <3>1 DEF Sound, NamedOnce, Directories
    <3>3. d # child
      BY <1>8, <2>3, <3>1 DEF Directories
    <3> QED
      BY <3>2, <3>3
  <2> QED
    BY <2>2, <2>3
<1>11. \A x \in Visited(p) : EntryAt(p, x).ino = child => x = m
  <2> TAKE x \in Visited(p)
  <2>1. x \in Nat
    BY <1>4
  <2>2. x = 0 => EntryAt(p, x).ino # child
    BY <1>5, <1>9
  <2>3. x = 1 => EntryAt(p, x).ino # child
    BY <1>10
  <2>4. x \notin {0, 1} => x \in Entries(p)
    BY <2>1 DEF Entries
  <2> QED
    BY <1>3, <1>7, <2>2, <2>3, <2>4
<1> QED
  BY <1>3, <1>4, <1>6, <1>7, <1>9, <1>11

(* fs_unlink frees the child and moves the last entry to place m.          *)
Unlinks(p, m, child, size, parent) ==
  /\ size = inodes[p].size /\ child = EntryAt(p, m).ino
  /\ parent = [inodes[p] EXCEPT !.size = size - 1]
  /\ -1 \notin BlocksOf(child) /\ Give(BlocksOf(child))
  /\ inodes' = [inodes EXCEPT ![child] = Zeroed, ![p] = parent]
  /\ blocks' = [blocks EXCEPT ![BlockAt(inodes[p], m)][Within(m)] = LastEntry(p)]
  /\ fs_inode_buf' = parent /\ ret' = 0

(* What that leaves behind.                                                *)
Unlinked(p, m, child, size) ==
  /\ p \in Directories /\ child \in Live /\ child # p
  /\ size \in Nat /\ m \in 2 .. (size - 1)
  /\ Live' = Live \ {child} /\ Directories' = Directories \ {child}
  /\ \A j \in Inode \ {child, p} : Keeps(j)
  /\ inodes'[child] = Zeroed
  /\ inodes'[p].type = DIR /\ inodes'[p].direct = inodes[p].direct
  /\ Visited(p) = 0 .. (size - 1) /\ Visited(p)' = 0 .. (size - 2)
  /\ \A x \in 0 .. (size - 2) :
       EntryAt(p, x)' = IF x = m THEN EntryAt(p, size - 1) ELSE EntryAt(p, x)
  /\ \A h \in Block : bitmap'[h] <=> bitmap[h] /\ h \notin BlocksOf(child)

LEMMA UnlinkSucceeds ==
  ASSUME Sound, NEW p \in Directories, Whole(p), NEW m \in Entries(p),
         NEW child \in Live \ {Root}, child # p,
         NEW size, size >= 3, Visited(p) = 0 .. (size - 1), NEW parent,
         Unlinks(p, m, child, size, parent)
  PROVE  Sound' /\ Unlinked(p, m, child, size)
<1> USE DEF Unlinks
<1>1. /\ Typed /\ p \in Inode /\ child \in Inode
      /\ inodes[p] \in INodeStruct /\ inodes[p].type = DIR
      /\ size \in 0 .. MaxSize /\ size \in Nat
      /\ m \in 2 .. (size - 1) /\ m \in Nat
  <2>1. Typed /\ p \in Inode /\ child \in Inode /\ inodes[p].type = DIR
    BY DEF Sound, Live, Directories
  <2>2. inodes[p] \in INodeStruct /\ size \in 0 .. MaxSize
    BY <2>1, InodeTypes
  <2>3. size \in Nat
    BY <2>2, MaxSizeIs
  <2>4. m \in Visited(p) /\ m >= 2
    BY DEF Entries
  <2> QED
    BY <2>1, <2>2, <2>3, <2>4
<1>2. \A x \in 0 .. (size - 1) :
        /\ x \in Nat /\ x \in 0 .. (MaxSize - 1)
        /\ Index(x) \in Direct /\ Within(x) \in Slot
        /\ BlockAt(inodes[p], x) = inodes[p].direct[Index(x)]
        /\ BlockAt(inodes[p], x) \in Block /\ EntryAt(p, x) \in Entry
        /\ EntryAt(p, x) = blocks[BlockAt(inodes[p], x)][Within(x)]
  <2> TAKE x \in 0 .. (size - 1)
  <2>1. x \in Nat /\ x \in 0 .. (MaxSize - 1)
    BY <1>1, MaxSizeIs
  <2>2. BlockAt(inodes[p], x) \in Block /\ EntryAt(p, x) \in Entry
    BY DEF Whole
  <2> QED
    BY <1>1, <2>1, <2>2, Places, BlockAtIs DEF EntryAt
<1> DEFINE c == BlockAt(inodes[p], m)
<1>3. /\ c \in Block /\ c = inodes[p].direct[Index(m)]
      /\ Index(m) \in Direct /\ Within(m) \in Slot
      /\ LastEntry(p) = EntryAt(p, size - 1) /\ LastEntry(p) \in Entry
  <2>1. m \in 0 .. (size - 1) /\ size - 1 \in 0 .. (size - 1)
    BY <1>1
  <2> QED
    BY <1>2, <2>1 DEF LastEntry
<1>4. /\ parent \in INodeStruct /\ parent.type = DIR /\ parent.size = size - 1
      /\ parent.direct = inodes[p].direct
  <2>1. size - 1 \in 0 .. MaxSize
    BY <1>1, MaxSizeIs
  <2> QED
    BY <1>1, <2>1 DEF INodeStruct
<1>5. /\ Zeroed \in INodeStruct /\ Zeroed.type = FREE
      /\ \A k \in Direct : Zeroed.direct[k] = 0
  BY MaxSizeIs DEF Zeroed, NoBlocks, INodeStruct
<1>6. /\ inodes'[child] = Zeroed /\ inodes'[p] = parent
      /\ \A j \in Inode \ {child, p} : inodes'[j] = inodes[j]
      /\ inodes' \in [Inode -> INodeStruct]
  BY <1>1, <1>4, <1>5 DEF Typed
<1>7. /\ blocks' \in [Block -> [Slot -> Entry \cup Value \cup {Zero}]]
      /\ \A h \in Block, s \in Slot : blocks'[h][s] =
           IF h = c /\ s = Within(m) THEN LastEntry(p) ELSE blocks[h][s]
      /\ \A h \in Block \ {c} : blocks'[h] = blocks[h]
  <2> DEFINE last == LastEntry(p)
             held == [blocks[c] EXCEPT ![Within(m)] = last]
  <2>1. last \in Entry
    BY <1>3
  <2>2. blocks' = [blocks EXCEPT ![c] = held]
    OBVIOUS
  <2> HIDE DEF c, last
  <2>3. /\ held \in [Slot -> Entry \cup Value \cup {Zero}]
        /\ \A s \in Slot : held[s] = IF s = Within(m) THEN last ELSE blocks[c][s]
    BY <1>1, <1>3, <2>1 DEF Typed
  <2> HIDE DEF held
  <2>4. \A h \in Block : blocks'[h] = IF h = c THEN held ELSE blocks[h]
    BY <1>1, <1>3, <2>2 DEF Typed
  <2>5. blocks' \in [Block -> [Slot -> Entry \cup Value \cup {Zero}]]
    BY <1>1, <1>3, <2>2, <2>3 DEF Typed
  <2>6. \A h \in Block, s \in Slot : blocks'[h][s] =
           IF h = c /\ s = Within(m) THEN last ELSE blocks[h][s]
    BY <2>3, <2>4
  <2> QED
    BY <2>4, <2>5, <2>6 DEF last
<1> HIDE DEF c
<1>8. BlocksOf(child) \subseteq Block /\ \A h \in BlocksOf(child) : bitmap[h]
  BY <1>1, OwnBlocks DEF Sound
<1>9. /\ bitmap' \in [Block -> BOOLEAN] /\ fs_free_blocks' \in Int
      /\ CountIsRight'
      /\ \A h \in Block : bitmap'[h] <=> bitmap[h] /\ h \notin BlocksOf(child)
  BY <1>1, <1>8, GiveCounts DEF Sound
<1>10. Typed'
  BY <1>4, <1>6, <1>7, <1>9 DEF Typed
<1>11. OwnersDiffer'
  <2>1. \A k \in Direct : inodes'[child].direct[k] \notin Block
    BY <1>5, <1>6, BlockIsNoMark
  <2>2. \A j \in Inode \ {child} : inodes'[j].direct = inodes[j].direct
    BY <1>4, <1>6
  <2> QED
    BY <1>1, <1>9, <2>1, <2>2, OwnersShrink DEF Sound
(* Other directories.                                                      *)
<1>12. /\ \A d \in Directories : d \in Inode
       /\ \A j \in Inode \ {child, p} : Keeps(j)
  <2>1. \A d \in Directories : d \in Inode
    BY DEF Directories, Live
  <2>2. ASSUME NEW d \in Inode \ {p, child}, NEW k \in Direct,
               inodes[d].direct[k] \in Block
        PROVE  inodes[d].direct[k] # c
    <3>1. inodes[p].direct[Index(m)] = inodes[d].direct[k] => d = p
      BY <1>1, <1>3, <2>2 DEF Sound, OwnersDiffer
    <3> QED
      BY <1>3, <2>2, <3>1
  <2> QED
    <3>1. \A d \in Inode \ {p, child} : inodes'[d] = inodes[d]
      BY <1>6
    <3>2. ASSUME NEW d \in Inode \ {p, child}, NEW k \in Direct,
                 inodes[d].direct[k] \in Block
          PROVE  blocks'[inodes[d].direct[k]] = blocks[inodes[d].direct[k]]
      BY <1>7, <2>2, <3>2
    <3> QED
      BY <2>1, <3>1, <3>2 DEF Keeps
<1>13. \A d \in Directories \ {p, child} :
         /\ inodes'[d] = inodes[d]
         /\ Visited(d)' = Visited(d)
         /\ Entries(d)' = Entries(d)
         /\ \A x \in Visited(d) : EntryAt(d, x)' = EntryAt(d, x)
         /\ inodes[d].size >= 2 /\ Whole(d) => Whole(d)'
         /\ Blockless(d) => Blockless(d)'
  BY <1>1, <1>12, KeptDirectory DEF Keeps
(* The parent.                                                             *)
<1>14. /\ Whole(p)' /\ Visited(p)' = 0 .. (size - 2)
       /\ \A x \in 0 .. (size - 2) :
            EntryAt(p, x)' = IF x = m THEN EntryAt(p, size - 1) ELSE EntryAt(p, x)
  <2>1. \A x \in 0 .. (size - 1) :
          /\ BlockAt(inodes[p], x)' = BlockAt(inodes[p], x)
          /\ EntryAt(p, x)' = IF x = m THEN EntryAt(p, size - 1) ELSE EntryAt(p, x)
    <3> TAKE x \in 0 .. (size - 1)
    <3> DEFINE h == BlockAt(inodes[p], x)
    <3>1. /\ x \in Nat /\ h \in Block /\ h = inodes[p].direct[Index(x)]
          /\ Index(x) \in Direct /\ Within(x) \in Slot
          /\ EntryAt(p, x) = blocks[h][Within(x)]
      BY <1>2
    <3>2. inodes'[p].direct[Index(x)] = h
      BY <1>4, <1>6, <3>1
    <3>3. BlockAt(inodes[p], x)' = h /\ EntryAt(p, x)' = blocks'[h][Within(x)]
      BY <3>2 DEF BlockAt, EntryAt
    <3>4. h = c /\ Within(x) = Within(m) => x = m
      <4>1. inodes[p].direct[Index(x)] = inodes[p].direct[Index(m)] => Index(x) = Index(m)
        BY <1>1, <1>3, <3>1 DEF Sound, OwnersDiffer
      <4> QED
        BY <1>1, <1>3, <3>1, <4>1, PlacesDiffer
    <3>5. x = m => h = c
      BY DEF c
    <3>6. blocks'[h][Within(x)] =
            IF h = c /\ Within(x) = Within(m) THEN LastEntry(p) ELSE blocks[h][Within(x)]
      BY <1>7, <3>1
    <3>7. h = c /\ Within(x) = Within(m) <=> x = m
      BY <3>4, <3>5
    <3>8. BlockAt(inodes[p], x)' = BlockAt(inodes[p], x)
      BY <3>3
    <3>9. EntryAt(p, x)' = IF x = m THEN LastEntry(p) ELSE EntryAt(p, x)
      BY <3>1, <3>3, <3>6, <3>7
    <3> QED
      BY <1>3, <3>8, <3>9
  <2>2. \A x \in 0 .. (size - 2) : x \in 0 .. (size - 1) /\ size - 1 \in 0 .. (size - 1)
    BY <1>1
  <2>3. inodes'[p].size - 1 = size - 2
    BY <1>1, <1>4, <1>6
  <2>4. Whole(p)'
    <3>1. \A x \in 0 .. (inodes'[p].size - 1) :
            BlockAt(inodes[p], x)' \in Block /\ EntryAt(p, x)' \in Entry
      <4> TAKE x \in 0 .. (inodes'[p].size - 1)
      <4>1. x \in 0 .. (size - 1) /\ size - 1 \in 0 .. (size - 1)
        BY <2>2, <2>3
      <4>2. BlockAt(inodes[p], x)' \in Block
        BY <1>2, <2>1, <4>1
      <4>3. EntryAt(p, x) \in Entry /\ EntryAt(p, size - 1) \in Entry
        BY <1>2, <4>1
      <4>4. EntryAt(p, x)' = IF x = m THEN EntryAt(p, size - 1) ELSE EntryAt(p, x)
        BY <2>1, <4>1
      <4> QED
        BY <4>2, <4>3, <4>4
    <3>2. EntryAt(p, 0)' = EntryAt(p, 0) /\ EntryAt(p, 1)' = EntryAt(p, 1)
      BY <1>1, <2>1
    <3>3. BlocksOf(p)' = BlocksOf(p)
      BY <1>4, <1>6 DEF BlocksOf
    <3>4. EntryAt(p, 0)' = [ino |-> p, name |-> Dot] /\ EntryAt(p, 1)'.name = DotDot
      BY <3>2 DEF Whole
    <3>5. -1 \notin BlocksOf(p)'
      BY <3>3 DEF Whole
    <3> QED
      BY <3>1, <3>4, <3>5 DEF Whole
  <2>5. Visited(p)' = 0 .. (size - 2)
    <3>1. \A x \in 0 .. (size - 2) : \A y \in 0 .. x : y \in 0 .. (size - 2)
      BY <1>1
    <3>2. \A y \in 0 .. (size - 2) : BlockAt(inodes[p], y)' \in Block
      BY <2>3, <2>4 DEF Whole
    <3>3. \A x \in 0 .. (size - 2) : \A y \in 0 .. x : BlockAt(inodes[p], y)' \in Block
      BY <3>1, <3>2
    <3> QED
      BY <2>3, <3>3 DEF Visited
  <2> QED
    BY <2>1, <2>2, <2>4, <2>5
<1>15. /\ Live' = Live \ {child} /\ Directories' = Directories \ {child}
       /\ p \in Directories'
  <2>1. \A j \in Inode \ {child} : inodes'[j].type = inodes[j].type
    BY <1>1, <1>4, <1>6
  <2>2. inodes'[child].type = FREE
    BY <1>5, <1>6
  <2>3. Live' = Live \ {child}
    BY <1>1, <2>1, <2>2 DEF Live
  <2>4. Directories' = Directories \ {child}
    BY <1>1, <2>1, <2>2, <2>3 DEF Live, Directories, DIR, FREE
  <2>5. p \in Directories'
    BY <2>4
  <2> QED
    BY <2>3, <2>4, <2>5
<1>16. DirectoriesWhole'
  <2> SUFFICES ASSUME NEW d \in Directories'
               PROVE  inodes'[d].size >= 2 /\ (Whole(d)' \/ Blockless(d)')
    BY DEF DirectoriesWhole
  <2>1. CASE d = p
    BY <1>1, <1>4, <1>6, <1>14, <2>1
  <2>2. CASE d \in Directories \ {p, child}
    BY <1>13, <2>2 DEF Sound, DirectoriesWhole
  <2> QED
    BY <1>15, <2>1, <2>2
(* Every entry was there before, at place old(d, x), and is not m.         *)
<1> DEFINE old(d, x) == IF d = p /\ x = m THEN size - 1 ELSE x
<1>17. ASSUME NEW d \in Directories', NEW x \in Entries(d)'
       PROVE  /\ d \in Directories /\ old(d, x) \in Entries(d)
              /\ EntryAt(d, x)' = EntryAt(d, old(d, x))
              /\ d = p => x \in 0 .. (size - 2)
              /\ d = p => old(d, x) # m
  <2>1. CASE d = p
    <3>1. x \in 0 .. (size - 2) /\ x >= 2
      BY <1>14, <1>17, <2>1 DEF Entries
    <3>2. size - 1 \in Entries(p) /\ x \in Entries(p)
      BY <1>1, <3>1 DEF Entries
    <3>3. x # m \/ size - 1 # m
      BY <1>1, <3>1
    <3> QED
      BY <1>14, <2>1, <3>1, <3>2, <3>3
  <2>2. CASE d # p
    BY <1>13, <1>15, <1>17, <2>2 DEF Entries
  <2> QED
    BY <2>1, <2>2
<1>18. NamedOnce'
  <2> SUFFICES ASSUME NEW d \in Directories', NEW x \in Entries(d)', NEW n,
                      n = EntryAt(d, x)'.ino
               PROVE  /\ n \in Live' \ {Root}
                      /\ \A e \in Directories' : \A y \in Entries(e)' :
                           EntryAt(e, y)'.ino = n => e = d /\ y = x
                      /\ inodes'[n].type = DIR /\ 1 \in Visited(n)' => EntryAt(n, 1)'.ino = d
    BY DEF NamedOnce
  <2>1. d \in Directories /\ old(d, x) \in Entries(d) /\ n = EntryAt(d, old(d, x)).ino
    BY <1>17
  <2>2. /\ n \in Live \ {Root}
        /\ \A e \in Directories : \A y \in Entries(e) :
             EntryAt(e, y).ino = n => e = d /\ y = old(d, x)
        /\ inodes[n].type = DIR /\ 1 \in Visited(n) => EntryAt(n, 1).ino = d
    <3> HIDE DEF old
    <3> QED
      BY <2>1 DEF Sound, NamedOnce
  <2>3. n # child
    <3>1. EntryAt(p, m).ino = n => p = d /\ m = old(d, x)
      <4> HIDE DEF old
      <4> QED
        BY <2>2
    <3>2. d = p => old(d, x) # m
      BY <1>17
    <3> HIDE DEF old
    <3> QED
      BY <3>1, <3>2
  <2>4. ASSUME NEW e \in Directories', NEW y \in Entries(e)', EntryAt(e, y)'.ino = n
        PROVE  e = d /\ y = x
    <3>1. /\ e \in Directories /\ old(e, y) \in Entries(e)
          /\ EntryAt(e, old(e, y)).ino = n
      BY <1>17, <2>4
    <3>2. e = d /\ old(e, y) = old(d, x)
      <4> HIDE DEF old
      <4> QED
        BY <2>2, <3>1
    <3>3. d = p => x \in 0 .. (size - 2) /\ y \in 0 .. (size - 2)
      BY <1>17, <3>2
    <3>4. d = p => x = y
      BY <1>1, <3>2, <3>3
    <3>5. d # p => x = y
      BY <3>2
    <3> QED
      BY <3>2, <3>4, <3>5
  <2>5. n \in Inode /\ inodes'[n].type = inodes[n].type
    BY <1>1, <1>4, <1>6, <2>2, <2>3 DEF Live
  <2>6. ASSUME inodes'[n].type = DIR, 1 \in Visited(n)'
        PROVE  EntryAt(n, 1)'.ino = d
    <3>1. n \in Directories
      BY <2>2, <2>5, <2>6 DEF Directories
    <3>2. CASE n = p
      <4>1. 1 \in 0 .. (size - 2) /\ 1 \in Visited(p) /\ m # 1
        BY <1>1
      <4> QED
        BY <1>14, <2>2, <2>5, <2>6, <3>2, <4>1
    <3>3. CASE n # p
      BY <1>13, <2>2, <2>3, <2>5, <2>6, <3>1, <3>3
    <3> QED
      BY <3>2, <3>3
  <2> QED
    BY <1>15, <2>2, <2>3, <2>4, <2>6
<1>19. FilesHaveBlocks'
  <2>1. \A j \in Live' : inodes'[j].type = FILE => j \in Live /\ inodes'[j] = inodes[j]
    BY <1>1, <1>4, <1>6, <1>15 DEF Live, FILE, DIR
  <2>2. ASSUME NEW j \in Live', inodes'[j].type = FILE
        PROVE  -1 \notin BlocksOf(j)'
    <3>1. j \in Live /\ inodes'[j] = inodes[j]
      BY <2>1, <2>2
    <3>2. BlocksOf(j)' = BlocksOf(j)
      BY <3>1 DEF BlocksOf
    <3> QED
      BY <2>2, <3>1, <3>2 DEF Sound, FilesHaveBlocks
  <2> QED
    BY <2>2 DEF FilesHaveBlocks
<1>20. RootIsADirectory'
  <2>1. Root \in Directories
    BY BrFSAssumption DEF Sound, RootIsADirectory, Directories, Live, Root, Inode, FREE, DIR
  <2>2. CASE Root = p
    <3>1. 1 \in 0 .. (size - 2) /\ m # 1
      BY <1>1
    <3>2. EntryAt(p, 1)' = EntryAt(p, 1)
      BY <1>14, <3>1
    <3> QED
      BY <1>4, <1>6, <2>2, <3>2 DEF Sound, RootIsADirectory
  <2>3. CASE Root # p
    BY <1>1, <1>12, <2>1, <2>3, RootKept DEF Sound
  <2> QED
    BY <2>2, <2>3
<1>21. Unlinked(p, m, child, size)
  <2>1. /\ inodes'[p].type = DIR /\ inodes'[p].direct = inodes[p].direct
        /\ inodes'[child] = Zeroed
    BY <1>4, <1>6
  <2> QED
    BY <1>1, <1>9, <1>12, <1>14, <1>15, <2>1 DEF Unlinked
<1> QED
  BY <1>9, <1>10, <1>11, <1>16, <1>18, <1>19, <1>20, <1>21 DEF Sound

LEMMA EntryIsInode ==
  ASSUME Sound, NEW p \in Live, NEW name \in Name, Found(p, name) # {},
         NEW child, child = EntryAt(p, Min(Found(p, name))).ino
  PROVE  inodes[child] \in INodeStruct
<1>1. \A x \in Visited(p) : x \in Nat
  BY DEF Visited
<1>2. Found(p, name) \subseteq Nat
  BY <1>1 DEF Found
<1>3. Min(Found(p, name)) \in Found(p, name)
  BY <1>2, MinIs
<1>4. p \in Directories /\ Min(Found(p, name)) \in Visited(p)
  BY <1>3 DEF Found, Directories
<1>5. Typed /\ p \in Inode
  BY DEF Sound, Live
<1>6. Whole(p) /\ Visited(p) = 0 .. (inodes[p].size - 1)
  BY <1>4, <1>5, VisitedIs DEF Sound, DirectoriesWhole
<1>7. EntryAt(p, Min(Found(p, name))) \in Entry
  BY <1>4, <1>6 DEF Whole
<1>8. child \in Inode
  BY <1>7 DEF Entry
<1> QED
  BY <1>5, <1>8, InodeTypes

(* How an unlink ends: without a trace, or with the entry and what it      *)
(* named gone.                                                             *)
UnlinkEnds(p, name) ==
  \/ Unchanged
  \/ \E m, child, size :
       /\ Unlinked(p, m, child, size)
       /\ EntryAt(p, m).ino = child /\ EntryAt(p, m).name = name
       /\ inodes[child].type = DIR => fs_dir_empty(child)

LEMMA UnlinkStep ==
  ASSUME Sound, NEW p \in Live \cap Named, NEW name \in Name, Unlink(p, name)
  PROVE  Sound' /\ UnlinkEnds(p, name)
<1> DEFINE found == Found(p, name)
           m == Min(found)
           child == EntryAt(p, m).ino
           place == Min({x \in Visited(p) : EntryAt(p, x).ino = child})
           size == inodes[p].size
           parent == [inodes[p] EXCEPT !.size = size - 1]
<1>1. \/ /\ found = {}
         /\ fs_inode_buf' = inodes[p] /\ ret' = -1
         /\ UNCHANGED <<bitmap, fs_free_blocks, inodes, blocks>>
      \/ /\ found # {} /\ inodes[child].type = DIR /\ ~ fs_dir_empty(child)
         /\ fs_inode_buf' = inodes[child] /\ ret' = -1
         /\ UNCHANGED <<bitmap, fs_free_blocks, inodes, blocks>>
      \/ /\ found # {} /\ (inodes[child].type = DIR => fs_dir_empty(child))
         /\ fs_inode_buf' = inodes[child] /\ ret' = -2
         /\ UNCHANGED <<bitmap, fs_free_blocks, inodes, blocks>>
      \/ /\ found # {} /\ (inodes[child].type = DIR => fs_dir_empty(child))
         /\ -1 \notin BlocksOf(child) /\ Give(BlocksOf(child))
         /\ inodes' = [inodes EXCEPT ![child] = Zeroed, ![p] = parent]
         /\ blocks' = [blocks EXCEPT ![BlockAt(inodes[p], place)][Within(place)] = LastEntry(p)]
         /\ fs_inode_buf' = parent /\ ret' = 0
  BY DEF Unlink, Killed
<1>2. Typed /\ p \in Inode /\ inodes[p] \in INodeStruct
  BY InodeTypes DEF Sound, Live
<1>3. CASE /\ found = {}
           /\ fs_inode_buf' = inodes[p] /\ ret' = -1
           /\ UNCHANGED <<bitmap, fs_free_blocks, inodes, blocks>>
  BY <1>2, <1>3, NothingStored DEF UnlinkEnds, Unchanged
<1>4. CASE /\ found # {} /\ inodes[child].type = DIR /\ ~ fs_dir_empty(child)
           /\ fs_inode_buf' = inodes[child] /\ ret' = -1
           /\ UNCHANGED <<bitmap, fs_free_blocks, inodes, blocks>>
  <2>1. inodes[child] \in INodeStruct
    BY <1>2, <1>4, EntryIsInode
  <2> QED
    BY <1>4, <2>1, NothingStored DEF UnlinkEnds, Unchanged
<1>5. ASSUME found # {}, inodes[child].type = DIR => fs_dir_empty(child)
      PROVE  /\ p \in Directories /\ Whole(p) /\ size >= 3
             /\ Visited(p) = 0 .. (size - 1)
             /\ m \in Entries(p) /\ child \in Live \ {Root} /\ child # p
             /\ place = m
  <2>1. /\ p \in Directories /\ Whole(p) /\ size >= 3
        /\ Visited(p) = 0 .. (size - 1)
        /\ m \in Entries(p) /\ child \in Live \ {Root} /\ child # p
        /\ {x \in Visited(p) : EntryAt(p, x).ino = child} = {m}
    BY <1>5, UnlinkFinds
  <2>2. m \in Nat
    BY <2>1 DEF Entries
  <2> HIDE DEF m, child
  <2>3. Min({m}) = m
    <3>1. {m} \subseteq Nat
      BY <2>2
    <3> QED
      BY <3>1, MinIs
  <2> QED
    BY <2>1, <2>3
<1>6. CASE /\ found # {} /\ (inodes[child].type = DIR => fs_dir_empty(child))
           /\ fs_inode_buf' = inodes[child] /\ ret' = -2
           /\ UNCHANGED <<bitmap, fs_free_blocks, inodes, blocks>>
  <2>1. inodes[child] \in INodeStruct
    BY <1>2, <1>5, <1>6, InodeTypes DEF Live
  <2> QED
    BY <1>6, <2>1, NothingStored DEF UnlinkEnds, Unchanged
<1>7. CASE /\ found # {} /\ (inodes[child].type = DIR => fs_dir_empty(child))
           /\ -1 \notin BlocksOf(child) /\ Give(BlocksOf(child))
           /\ inodes' = [inodes EXCEPT ![child] = Zeroed, ![p] = parent]
           /\ blocks' = [blocks EXCEPT ![BlockAt(inodes[p], place)][Within(place)] = LastEntry(p)]
           /\ fs_inode_buf' = parent /\ ret' = 0
  <2>1. /\ p \in Directories /\ Whole(p) /\ size >= 3
        /\ Visited(p) = 0 .. (size - 1)
        /\ m \in Entries(p) /\ child \in Live \ {Root} /\ child # p
        /\ place = m
    BY <1>5, <1>7
  <2>2. Unlinks(p, m, child, size, parent)
    <3>1. /\ size = inodes[p].size /\ child = EntryAt(p, m).ino
          /\ parent = [inodes[p] EXCEPT !.size = size - 1]
      OBVIOUS
    <3> HIDE DEF m, child, size, parent, place
    <3> QED
      BY <1>7, <2>1, <3>1 DEF Unlinks
  <2>3. EntryAt(p, m).ino = child /\ EntryAt(p, m).name = name
    <3>1. \A x \in Visited(p) : x \in Nat
      BY DEF Visited
    <3>2. found \subseteq Nat
      BY <3>1 DEF Found
    <3>3. m \in found
      BY <1>7, <3>2, MinIs
    <3> QED
      BY <3>3 DEF Found
  <2>4. inodes[child].type = DIR => fs_dir_empty(child)
    BY <1>7
  <2> HIDE DEF m, child, size, parent, place
  <2>5. Sound' /\ Unlinked(p, m, child, size)
    BY <2>1, <2>2, UnlinkSucceeds
  <2> QED
    BY <2>3, <2>4, <2>5 DEF UnlinkEnds
<1> QED
  BY <1>1, <1>3, <1>4, <1>6, <1>7

-----------------------------------------------------------------------------
(* The invariant.                                                          *)

LEMMA InitHolds == Init => Sound
<1> SUFFICES ASSUME Init PROVE Sound
  OBVIOUS
<1>1. /\ Root \in Inode /\ 0 \in Direct /\ 1 \in Block /\ {0, 1} \subseteq Slot
      /\ 0 \in 0 .. MaxSize /\ 2 \in 0 .. MaxSize
  BY BrFSAssumption, MaxSizeIs DEF Root, Inode, Direct, Block, Slot
<1> DEFINE node == [type |-> DIR, size |-> 2, direct |-> [NoBlocks EXCEPT ![0] = 1]]
<1>2. /\ node \in INodeStruct /\ node.type = DIR /\ node.size = 2
      /\ \A k \in Direct : node.direct[k] = IF k = 0 THEN 1 ELSE 0
  <2>1. /\ [NoBlocks EXCEPT ![0] = 1] \in [Direct -> Block \cup {-1, 0}]
        /\ \A k \in Direct : [NoBlocks EXCEPT ![0] = 1][k] = IF k = 0 THEN 1 ELSE 0
    BY <1>1 DEF NoBlocks
  <2> QED
    BY <1>1, <2>1 DEF INodeStruct
<1>3. /\ Zeroed \in INodeStruct /\ Zeroed.type = FREE
      /\ \A k \in Direct : Zeroed.direct[k] = 0
  BY <1>1 DEF Zeroed, NoBlocks, INodeStruct
<1>4. \A i \in Inode : inodes[i] = IF i = Root THEN node ELSE Zeroed
  BY DEF Init
<1>5. /\ inodes \in [Inode -> INodeStruct]
      /\ bitmap \in [Block -> BOOLEAN] /\ \A b \in Block : bitmap[b] <=> b = 1
      /\ fs_free_blocks = NBlocks - 1 /\ fs_inode_buf = Zeroed /\ ret = 0
  <2> HIDE DEF node
  <2> QED
    BY <1>2, <1>3 DEF Init, node
<1> HIDE DEF node
<1>6. /\ blocks \in [Block -> [Slot -> Entry \cup Value \cup {Zero}]]
      /\ blocks[1] = Dots(Root, Root)
  <2>1. Dots(Root, Root) \in [Slot -> Entry \cup Value \cup {Zero}]
    BY <1>1 DEF Dots, Entry
  <2> QED
    BY <1>1, <2>1 DEF Init
<1>7. Typed
  BY <1>3, <1>5, <1>6, BrFSAssumption DEF Typed
<1>8. OwnersDiffer
  <2>1. \A i \in Inode, k \in Direct :
          inodes[i].direct[k] \in Block => i = Root /\ k = 0 /\ inodes[i].direct[k] = 1
    BY <1>2, <1>3, <1>4, BlockIsNoMark
  <2> QED
    BY <1>1, <1>5, <2>1 DEF OwnersDiffer
<1>9. CountIsRight
  <2>1. FreeBlocks = Block \ {1}
    BY <1>5 DEF FreeBlocks
  <2>2. Cardinality(Block) = NBlocks
    BY FS_Interval, BrFSAssumption DEF Block
  <2>3. Cardinality(Block \ {1}) = Cardinality(Block) - 1
    BY <1>1, BlocksFinite, FS_RemoveElement
  <2> QED
    BY <1>5, <2>1, <2>2, <2>3 DEF CountIsRight
<1>10. Directories = {Root}
  BY <1>1, <1>2, <1>3, <1>4 DEF Directories, Live, FREE, DIR
<1>11. /\ inodes[Root].size = 2
       /\ \A x \in {0, 1} : BlockAt(inodes[Root], x) = 1 /\ Within(x) = x
  BY <1>1, <1>2, <1>4, FirstPlaces DEF BlockAt
<1>12. /\ EntryAt(Root, 0) = [ino |-> Root, name |-> Dot]
       /\ EntryAt(Root, 1) = [ino |-> Root, name |-> DotDot]
  BY <1>1, <1>6, <1>11 DEF EntryAt, Dots
<1>13. Whole(Root)
  <2>1. inodes[Root].size - 1 = 1 /\ 0 .. 1 = {0, 1}
    BY <1>11
  <2>2. EntryAt(Root, 0) \in Entry /\ EntryAt(Root, 1) \in Entry
    BY <1>1, <1>12 DEF Entry
  <2>3. \A k \in Direct : inodes[Root].direct[k] # -1
    BY <1>1, <1>2, <1>4
  <2>4. EntryAt(Root, 1).name = DotDot
    BY <1>12
  <2> QED
    BY <1>1, <1>11, <1>12, <2>1, <2>2, <2>3, <2>4 DEF Whole, BlocksOf
<1>14. DirectoriesWhole
  BY <1>10, <1>11, <1>13 DEF DirectoriesWhole
<1>15. NamedOnce
  <2>1. \A x \in Visited(Root) : x \in {0, 1}
    BY <1>11 DEF Visited
  <2>2. Entries(Root) = {}
    BY <2>1 DEF Entries
  <2> QED
    BY <1>10, <2>2 DEF NamedOnce
<1>16. FilesHaveBlocks
  BY <1>2, <1>3, <1>4 DEF FilesHaveBlocks, Live, FREE, FILE, DIR
<1>17. RootIsADirectory
  BY <1>1, <1>2, <1>4, <1>12 DEF RootIsADirectory
<1> QED
  BY <1>7, <1>8, <1>9, <1>14, <1>15, <1>16, <1>17 DEF Sound

LEMMA CallsHold ==
  ASSUME Sound, Calls \/ UNCHANGED disk
  PROVE  Sound'
<1>1. ASSUME NEW i \in Inode, Read(i) PROVE Sound'
  BY <1>1, ReadStep
<1>2. ASSUME NEW p \in Live \cap Named, NEW name \in Name, NEW type \in {FILE, DIR},
             Create(p, name, type) \/ CreateAcrossFails(p, type)
      PROVE  Sound'
  BY <1>2, CreateStep, CreateFailsStep DEF CreateAcrossFails
<1>3. ASSUME NEW p \in Live \cap Named, NEW name \in Name, Unlink(p, name)
      PROVE  Sound'
  BY <1>3, UnlinkStep
<1>4. ASSUME NEW i \in Live, inodes[i].type = FILE, Truncate(i) PROVE Sound'
  BY <1>4, TruncateStep
<1>5. ASSUME NEW i \in Live, inodes[i].type = FILE, NEW from \in Offsets,
             NEW n \in Lengths \ {0}, NEW v \in Value, from + n <= MaxSize,
             Write(i, from, n, v) \/ WriteFaults(i, from, n, v)
      PROVE  Sound'
  <2>1. from \in Nat /\ n \in Nat \ {0}
    BY BrFSAssumption
  <2> QED
    BY <1>5, <2>1, WriteStep, WriteFaultsStep
<1>6. ASSUME NEW i \in Live, inodes[i].type = FILE, NEW from \in Offsets,
             fs_inode_buf = inodes[i], WriteNothing(i, from)
      PROVE  Sound'
  BY <1>6, WriteNothingStep
<1>7. ASSUME UNCHANGED disk PROVE Sound'
  BY <1>7, NothingStored DEF disk, Sound, Typed
<1> QED
  BY <1>1, <1>2, <1>3, <1>4, <1>5, <1>6, <1>7 DEF Calls

-----------------------------------------------------------------------------
(* What a call does to the things a caller sees.                           *)

At == 0 .. (MaxSize - 1)

LEMMA ViewIs ==
  ASSUME NEW i \in Inode
  PROVE  /\ Kinds[i] = inodes[i].type
         /\ Sizes[i] = IF inodes[i].type = FILE THEN inodes[i].size ELSE 0
         /\ Texts[i] = Text(i)
         /\ NameSets[i] = IF i \in Directories THEN NamesIn(i) ELSE {}
BY DEF Kinds, Sizes, Texts, NameSets

LEMMA TextIs ==
  ASSUME NEW i \in Inode, NEW x \in At
  PROVE  /\ Index(x) \in Direct /\ Within(x) \in Slot
         /\ Text(i)[x] = IF inodes[i].type = FILE /\ inodes[i].direct[Index(x)] \in Block
                         THEN blocks[inodes[i].direct[Index(x)]][Within(x)] ELSE Hole
<1>1. Index(x) \in Direct /\ Within(x) \in Slot
  BY Places DEF At
<1> QED
  BY <1>1 DEF Text, At, BlockAt, EntryAt

LEMMA NewTextIs ==
  ASSUME NEW i \in Inode, NEW x \in At
  PROVE  Text(i)'[x] = IF inodes'[i].type = FILE /\ inodes'[i].direct[Index(x)] \in Block
                       THEN blocks'[inodes'[i].direct[Index(x)]][Within(x)] ELSE Hole
BY DEF Text, At, BlockAt, EntryAt

(* An inode that is kept looks the same.                                   *)
LEMMA KeptView ==
  ASSUME Typed, NEW i \in Inode, Keeps(i)
  PROVE  /\ i \in Directories' <=> i \in Directories
         /\ Kinds'[i] = Kinds[i] /\ Sizes'[i] = Sizes[i]
         /\ Texts'[i] = Texts[i] /\ NameSets'[i] = NameSets[i]
         /\ Entries(i)' = Entries(i)
         /\ \A x \in Entries(i) : EntryAt(i, x)' = EntryAt(i, x)
         /\ BlocksOf(i)' = BlocksOf(i)
<1>1. inodes'[i] = inodes[i]
  BY DEF Keeps
<1>2. i \in Directories' <=> i \in Directories
  BY <1>1 DEF Directories, Live
<1>3. /\ Entries(i)' = Entries(i)
      /\ \A x \in Entries(i) : EntryAt(i, x)' = EntryAt(i, x)
  BY KeptDirectory DEF Entries
<1>4. NamesIn(i)' = NamesIn(i)
  BY <1>3 DEF NamesIn
<1>5. Text(i)' = Text(i)
  <2>1. ASSUME NEW x \in At PROVE Text(i)'[x] = Text(i)[x]
    BY <1>1, TextIs, NewTextIs DEF Keeps
  <2> QED
    BY <2>1 DEF Text, At
<1>6. BlocksOf(i)' = BlocksOf(i)
  BY <1>1 DEF BlocksOf
<1>7. Kinds'[i] = Kinds[i] /\ Sizes'[i] = Sizes[i]
  BY <1>1 DEF Kinds, Sizes
<1>8. Texts'[i] = Texts[i]
  BY <1>5 DEF Texts
<1>9. NameSets'[i] = NameSets[i]
  BY <1>2, <1>4 DEF NameSets
<1> QED
  BY <1>2, <1>3, <1>6, <1>7, <1>8, <1>9

(* The view is four functions: it changes where they change.               *)
LEMMA ViewFunctions ==
  /\ Kinds = [i \in Inode |-> Kinds[i]] /\ Sizes = [i \in Inode |-> Sizes[i]]
  /\ Texts = [i \in Inode |-> Texts[i]] /\ NameSets = [i \in Inode |-> NameSets[i]]
  /\ \A i \in Inode : Texts[i] = [x \in At |-> Texts[i][x]]
BY DEF Kinds, Sizes, Texts, NameSets, Text, At

(* Directories that keep their entries name what they named.               *)
LEMMA SameNames ==
  ASSUME Directories' = Directories,
         \A d \in Directories :
           /\ Entries(d)' = Entries(d)
           /\ \A x \in Entries(d) : EntryAt(d, x)' = EntryAt(d, x)
  PROVE  Named' = Named
<1> DEFINE old(d) == {EntryAt(d, x).ino : x \in Entries(d)}
           new(d) == {EntryAt(d, x)'.ino : x \in Entries(d)'}
<1>1. \A d \in Directories : new(d) = old(d)
  OBVIOUS
<1>2. /\ Named = {Root} \cup UNION {old(d) : d \in Directories}
      /\ Named' = {Root} \cup UNION {new(d) : d \in Directories}
  BY DEF Named
<1> HIDE DEF old, new
<1> QED
  BY <1>1, <1>2

(* A call on a regular file: the names stay, and no inode comes or goes.   *)
LEMMA FileCall ==
  ASSUME Typed, NEW i \in Inode, inodes[i].type = FILE, inodes'[i].type = FILE,
         \A j \in Inode \ {i} : Keeps(j)
  PROVE  /\ Kinds' = Kinds /\ NameSets' = NameSets /\ Orphans' = Orphans
         /\ \A j \in Inode \ {i} : Sizes'[j] = Sizes[j] /\ Texts'[j] = Texts[j]
<1>1. \A j \in Inode \ {i} :
        /\ j \in Directories' <=> j \in Directories
        /\ Kinds'[j] = Kinds[j] /\ Sizes'[j] = Sizes[j]
        /\ Texts'[j] = Texts[j] /\ NameSets'[j] = NameSets[j]
        /\ Entries(j)' = Entries(j)
        /\ \A x \in Entries(j) : EntryAt(j, x)' = EntryAt(j, x)
  BY KeptView
<1>2. i \notin Directories /\ i \notin Directories'
  BY DEF Directories, FILE, DIR
<1>3. Directories' = Directories /\ Directories \subseteq Inode \ {i}
  BY <1>1, <1>2 DEF Directories, Live
<1>4. Kinds'[i] = Kinds[i] /\ NameSets'[i] = NameSets[i]
  BY <1>2 DEF Kinds, NameSets
<1>5. Kinds' = Kinds /\ NameSets' = NameSets
  <2>1. \A j \in Inode : Kinds'[j] = Kinds[j] /\ NameSets'[j] = NameSets[j]
    BY <1>1, <1>4
  <2> QED
    BY <2>1 DEF Kinds, NameSets
<1>6. Live' = Live
  <2>1. \A j \in Inode : inodes'[j].type = inodes[j].type
    BY DEF Keeps
  <2> QED
    BY <2>1 DEF Live
<1>7. Named' = Named
  BY <1>1, <1>3, SameNames
<1> QED
  BY <1>1, <1>5, <1>6, <1>7 DEF Orphans

(* The three things to show of every step.                                 *)
Promise == T!Next \/ UNCHANGED T!vars

(* An inode that is not in use has no blocks.                              *)
FreeInodesBlank == \A i \in Inode \ Live : \A k \in Direct : inodes[i].direct[k] = 0

LEMMA NoneLost ==
  ASSUME \A b \in Block : bitmap'[b] => bitmap[b] \/ \E i \in Inode : b \in BlocksOf(i)',
         \A i \in Inode : \A b \in BlocksOf(i) :
           bitmap'[b] => \E j \in Inode : b \in BlocksOf(j)'
  PROVE  NoneLeak
BY DEF NoneLeak, Leaked

LEMMA Same ==
  ASSUME NEW S, NEW g, NEW h, g = [j \in S |-> g[j]], h = [j \in S |-> h[j]],
         \A j \in S : h[j] = g[j]
  PROVE  h = g
OBVIOUS

LEMMA NewViewFunctions ==
  /\ Kinds' = [i \in Inode |-> Kinds'[i]] /\ Sizes' = [i \in Inode |-> Sizes'[i]]
  /\ Texts' = [i \in Inode |-> Texts'[i]] /\ NameSets' = [i \in Inode |-> NameSets'[i]]
BY DEF Kinds, Sizes, Texts, NameSets

(* Nothing has happened.                                                   *)
LEMMA UnchangedKeeps ==
  ASSUME Sound, Unchanged
  PROVE  NoneLeak /\ NoneOrphaned /\ Promise
<1>1. Typed /\ inodes' = inodes /\ bitmap' = bitmap
  BY DEF Sound, Unchanged
<1>2. ASSUME NEW i \in Inode PROVE Keeps(i)
  <2>1. ASSUME NEW k \in Direct, inodes[i].direct[k] \in Block
        PROVE  blocks'[inodes[i].direct[k]] = blocks[inodes[i].direct[k]]
    <3>1. inodes[i].direct[k] \notin FreeBlocks
      BY <2>1 DEF Sound, OwnersDiffer, FreeBlocks
    <3> QED
      BY <2>1, <3>1 DEF Unchanged
  <2> QED
    BY <1>1, <2>1 DEF Keeps
<1>3. \A i \in Inode :
        /\ i \in Directories' <=> i \in Directories
        /\ Kinds'[i] = Kinds[i] /\ Sizes'[i] = Sizes[i]
        /\ Texts'[i] = Texts[i] /\ NameSets'[i] = NameSets[i]
        /\ Entries(i)' = Entries(i)
        /\ \A x \in Entries(i) : EntryAt(i, x)' = EntryAt(i, x)
        /\ BlocksOf(i)' = BlocksOf(i)
  BY <1>1, <1>2, KeptView
<1>4. NoneLeak
  BY <1>1, <1>3 DEF NoneLeak, Leaked
<1>5. NoneOrphaned
  <2>1. Live' = Live /\ Directories' = Directories /\ Directories \subseteq Inode
    BY <1>1 DEF Live, Directories
  <2>2. Named' = Named
    BY <1>3, <2>1, SameNames
  <2> QED
    BY <2>1, <2>2 DEF NoneOrphaned, Orphans
<1>6. Kinds' = Kinds /\ Sizes' = Sizes /\ Texts' = Texts /\ NameSets' = NameSets
  BY <1>3, ViewFunctions, NewViewFunctions, Same
<1> QED
  BY <1>4, <1>5, <1>6 DEF Promise, T!vars

(* A call on a file keeps the promise if its text and size do.             *)
LEMMA FilePromise ==
  ASSUME Typed, NEW i \in Inode, inodes[i].type = FILE, inodes'[i].type = FILE,
         \A j \in Inode \ {i} : Keeps(j),
         \/ T!Truncate(i)
         \/ \E from \in Offsets, v \in Value : \E to \in from .. MaxSize :
              T!Write(i, from, to, v) \/ T!WriteDies(i, from, to, v)
  PROVE  NoneOrphaned /\ Promise
<1>1. Kinds' = Kinds /\ NameSets' = NameSets /\ Orphans' = Orphans
  BY FileCall
<1>2. Kinds[i] = T!File
  BY ViewIs DEF T!File, FILE
<1>3. T!Next
  BY <1>1, <1>2 DEF T!Next
<1> QED
  BY <1>1, <1>3 DEF NoneOrphaned, Promise

LEMMA TruncateKeeps ==
  ASSUME Sound, NEW i \in Live, inodes[i].type = FILE, Truncate(i)
  PROVE  NoneLeak /\ NoneOrphaned /\ Promise
<1> DEFINE node == [inodes[i] EXCEPT !.size = 0, !.direct = NoBlocks]
<1>1. Typed /\ i \in Inode /\ inodes[i] \in INodeStruct
  BY InodeTypes DEF Live, Sound
<1>2. node.type = FILE /\ node.size = 0 /\ \A k \in Direct : node.direct[k] = 0
  BY <1>1 DEF INodeStruct, NoBlocks
<1>3. inodes' = [inodes EXCEPT ![i] = node] /\ blocks' = blocks /\ Give(BlocksOf(i))
  BY DEF Truncate
<1> HIDE DEF node
<1>4. inodes'[i] = node /\ \A j \in Inode \ {i} : inodes'[j] = inodes[j]
  BY <1>1, <1>3 DEF Typed
<1>5. \A j \in Inode \ {i} : Keeps(j)
  BY <1>3, <1>4 DEF Keeps
<1>6. NoneLeak
  <2>1. \A j \in Inode \ {i} : BlocksOf(j)' = BlocksOf(j)
    BY <1>1, <1>5, KeptView
  <2>2. BlocksOf(i) \subseteq Block
    BY <1>1, OwnBlocks DEF Sound, FilesHaveBlocks
  <2>3. \A b \in Block : bitmap'[b] => bitmap[b] /\ b \notin BlocksOf(i)
    BY <1>3 DEF Give
  <2> QED
    BY <2>1, <2>2, <2>3, NoneLost
<1>7. T!Truncate(i)
  <2>1. \A j \in Inode \ {i} : Sizes'[j] = Sizes[j] /\ Texts'[j] = Texts[j]
    BY <1>1, <1>2, <1>4, <1>5, FileCall
  <2>2. Sizes'[i] = 0
    BY <1>1, <1>2, <1>4 DEF Sizes
  <2>3. Texts'[i] = T!NoText
    <3>1. \A x \in At : Text(i)'[x] = Hole
      BY <1>1, <1>2, <1>4, TextIs, NewTextIs, BlockIsNoMark
    <3>2. Text(i)' = [x \in At |-> Hole]
      BY <3>1 DEF Text, At
    <3> QED
      BY <1>1, <3>2 DEF Texts, T!NoText, T!At, At
  <2>4. Sizes' = [Sizes EXCEPT ![i] = 0]
    BY <1>1, <2>1, <2>2, ViewFunctions, NewViewFunctions
  <2>5. Texts' = [Texts EXCEPT ![i] = T!NoText]
    BY <1>1, <2>1, <2>3, ViewFunctions, NewViewFunctions
  <2> QED
    BY <2>4, <2>5 DEF T!Truncate
<1> QED
  BY <1>1, <1>2, <1>4, <1>5, <1>6, <1>7, FilePromise

-----------------------------------------------------------------------------
(* Writes, as a caller sees them.                                          *)

(* What the stores of a write change.                                      *)
Wrote(i, from, to, v, ks, node) ==
  /\ i \in Inode /\ inodes[i].type = FILE /\ to \in 0 .. MaxSize /\ from <= to
  /\ \A j \in Inode \ {i} : inodes'[j] = inodes[j] => Keeps(j)
  /\ \A b \in Block : bitmap'[b] => bitmap[b] \/ \E k \in ks : b = node.direct[k]
  /\ \A k \in Direct : IF k \in ks THEN inodes[i].direct[k] = 0 /\ node.direct[k] \in Block
                                   ELSE node.direct[k] = inodes[i].direct[k]
  /\ ks \subseteq Direct
  /\ \A x \in At : node.direct[Index(x)] \in Block =>
       blocks'[node.direct[Index(x)]][Within(x)] =
         IF from <= x /\ x < to THEN v
         ELSE IF Index(x) \in ks THEN Zero
         ELSE blocks[inodes[i].direct[Index(x)]][Within(x)]

LEMMA WrittenBlocks ==
  ASSUME Sound, NEW i, NEW from \in Nat, NEW to, NEW v \in Value, NEW ks, NEW f, NEW node,
         Writes(i, from, to, v, ks, f, node)
  PROVE  Wrote(i, from, to, v, ks, node)
<1>1. /\ Typed /\ i \in Inode /\ inodes[i].type = FILE
      /\ ks \subseteq Direct /\ \A k \in ks : inodes[i].direct[k] = 0
      /\ f \in Allocations(ks) /\ to \in 0 .. MaxSize /\ from <= to
      /\ node \in INodeStruct
      /\ \A k \in Direct : node.direct[k] = IF k \in ks THEN f[k] ELSE inodes[i].direct[k]
      /\ Take(Range(f)) /\ blocks' = Store(node, from, to, v, Range(f))
  BY DEF Writes, Sound
<1>2. /\ f \in [ks -> FreeBlocks] /\ Range(f) \subseteq FreeBlocks
      /\ \A k \in ks : f[k] \in Range(f)
      /\ \A j, k \in ks : f[j] = f[k] => j = k
  BY <1>1, AllocationsAre
<1>3. /\ \A b \in Block \ FreeBlocks : b \notin BlocksOf(i) => blocks'[b] = blocks[b]
      /\ \A b \in Block : bitmap'[b] <=> bitmap[b] \/ b \in Range(f)
  BY <1>1, WriteStores
<1>4. \A j \in Inode \ {i} : inodes'[j] = inodes[j] => Keeps(j)
  BY <1>1, <1>3, KeepsOthers DEF Sound
<1>5. \A b \in Block : bitmap'[b] => bitmap[b] \/ \E k \in ks : b = node.direct[k]
  <2>1. \A b \in Range(f) : \E k \in ks : b = f[k]
    BY <1>2 DEF Range
  <2>2. \A k \in ks : node.direct[k] = f[k]
    BY <1>1
  <2> QED
    BY <1>3, <2>1, <2>2
<1>6. \A k \in Direct : IF k \in ks THEN inodes[i].direct[k] = 0 /\ node.direct[k] \in Block
                                    ELSE node.direct[k] = inodes[i].direct[k]
  BY <1>1, <1>2 DEF FreeBlocks
<1>7. \A k, l \in Direct :
        node.direct[k] \in Block /\ node.direct[k] = node.direct[l] => k = l
  <2>1. \A k, l \in Direct \ ks :
          node.direct[k] \in Block /\ node.direct[k] = node.direct[l] => k = l
    BY <1>1, <1>6 DEF Sound, OwnersDiffer
  <2>2. \A k, l \in ks : node.direct[k] = node.direct[l] => k = l
    BY <1>1, <1>2
  <2>3. \A k \in ks, l \in Direct \ ks : node.direct[k] # node.direct[l]
    <3>1. \A l \in Direct : inodes[i].direct[l] \notin FreeBlocks
      BY <1>1 DEF FreeBlocks, Sound, OwnersDiffer
    <3> QED
      BY <1>1, <1>2, <3>1
  <2> QED
    BY <2>1, <2>2, <2>3
<1>8. ASSUME NEW x \in At, node.direct[Index(x)] \in Block
      PROVE  blocks'[node.direct[Index(x)]][Within(x)] =
               IF from <= x /\ x < to THEN v
               ELSE IF Index(x) \in ks THEN Zero
               ELSE blocks[inodes[i].direct[Index(x)]][Within(x)]
  <2> DEFINE b == node.direct[Index(x)]
             s == Within(x)
             within == \E y \in from .. (to - 1) :
                         node.direct[Index(y)] = b /\ Within(y) = s
  <2>1. Index(x) \in Direct /\ s \in Slot /\ x \in Nat
    BY Places, MaxSizeIs DEF At
  <2>2. blocks'[b][s] = IF within THEN v ELSE IF b \in Range(f) THEN Zero ELSE blocks[b][s]
    BY <1>1, <1>8, <2>1 DEF Store, BlockAt
  <2>3. within <=> from <= x /\ x < to
    <3>1. ASSUME from <= x, x < to PROVE within
      <4>1. x \in from .. (to - 1)
        BY <1>1, <2>1, <3>1, MaxSizeIs
      <4> QED
        BY <4>1
    <3>2. ASSUME within PROVE from <= x /\ x < to
      <4>1. PICK y \in from .. (to - 1) : node.direct[Index(y)] = b /\ Within(y) = s
        BY <3>2
      <4>2. y \in Nat /\ y \in 0 .. (MaxSize - 1) /\ y < to
        BY <1>1, MaxSizeIs
      <4>3. Index(y) \in Direct
        BY <4>2, Places
      <4>4. Index(y) = Index(x)
        BY <1>7, <1>8, <2>1, <4>1, <4>3
      <4>5. y = x
        BY <2>1, <4>1, <4>2, <4>4, PlacesDiffer
      <4> QED
        BY <4>2, <4>5
    <3> QED
      BY <3>1, <3>2
  <2>4. b \in Range(f) <=> Index(x) \in ks
    <3>1. \A l \in Direct : inodes[i].direct[l] \notin FreeBlocks
      BY <1>1 DEF FreeBlocks, Sound, OwnersDiffer
    <3> QED
      BY <1>1, <1>2, <2>1, <3>1
  <2>5. Index(x) \notin ks => b = inodes[i].direct[Index(x)]
    BY <1>6, <2>1
  <2> HIDE DEF b, s, within
  <2>6. blocks'[b][s] = IF from <= x /\ x < to THEN v
                        ELSE IF Index(x) \in ks THEN Zero
                        ELSE blocks[inodes[i].direct[Index(x)]][s]
    BY <2>2, <2>3, <2>4, <2>5
  <2> QED
    BY <2>6 DEF b, s
<1> QED
  BY <1>1, <1>4, <1>5, <1>6, <1>8 DEF Wrote

LEMMA WriteKeeps ==
  ASSUME Sound, NEW i \in Live, inodes[i].type = FILE, NEW from \in Offsets,
         NEW n \in Nat \ {0}, from + n <= MaxSize, NEW v \in Value,
         Write(i, from, n, v)
  PROVE  NoneLeak /\ NoneOrphaned /\ Promise
<1>0. from \in Nat
  BY BrFSAssumption
<1>1. PICK to, ks, f, node :
        Writes(i, from, to, v, ks, f, node) /\ WriteEnds(i, from, to, node)
  BY <1>0, WriteIs
<1>2. /\ i \in Inode /\ to \in 0 .. MaxSize /\ from <= to
      /\ \A j \in Inode \ {i} : inodes'[j] = inodes[j] => Keeps(j)
      /\ \A b \in Block : bitmap'[b] => bitmap[b] \/ \E k \in ks : b = node.direct[k]
      /\ \A k \in Direct : IF k \in ks THEN inodes[i].direct[k] = 0 /\ node.direct[k] \in Block
                                       ELSE node.direct[k] = inodes[i].direct[k]
      /\ ks \subseteq Direct
      /\ \A x \in At : node.direct[Index(x)] \in Block =>
           blocks'[node.direct[Index(x)]][Within(x)] =
             IF from <= x /\ x < to THEN v
             ELSE IF Index(x) \in ks THEN Zero
             ELSE blocks[inodes[i].direct[Index(x)]][Within(x)]
  <2>1. Wrote(i, from, to, v, ks, node)
    BY <1>0, <1>1, WrittenBlocks
  <2> QED
    BY <2>1 DEF Wrote
<1>3. /\ Typed /\ node.type = FILE
      /\ node.size = IF inodes[i].size >= to THEN inodes[i].size ELSE to
      /\ \A x \in from .. (to - 1) : node.direct[Index(x)] \in Block
      /\ inodes' = [inodes EXCEPT ![i] = node]
  BY <1>1 DEF Writes, WriteEnds, Sound
<1>4. inodes'[i] = node /\ \A j \in Inode \ {i} : inodes'[j] = inodes[j]
  BY <1>2, <1>3 DEF Typed
<1>5. \A j \in Inode \ {i} : Keeps(j)
  BY <1>2, <1>4
<1>6. BlocksOf(i)' = BlocksOf(i) \cup {node.direct[k] : k \in ks}
  <2>1. BlocksOf(i)' = {node.direct[k] : k \in Direct} \ {0}
    BY <1>4 DEF BlocksOf
  <2>2. \A k \in ks : node.direct[k] # 0
    BY <1>2, BlockIsNoMark
  <2> QED
    BY <1>2, <2>1, <2>2 DEF BlocksOf
<1>7. NoneLeak
  <2>1. \A j \in Inode \ {i} : BlocksOf(j)' = BlocksOf(j)
    BY <1>3, <1>5, KeptView
  <2> QED
    BY <1>2, <1>6, <2>1, NoneLost
<1>8. T!Write(i, from, to, v)
  <2>1. \A j \in Inode \ {i} : Sizes'[j] = Sizes[j] /\ Texts'[j] = Texts[j]
    BY <1>2, <1>3, <1>4, <1>5, FileCall
  <2>2. Sizes'[i] = IF Sizes[i] < to THEN to ELSE Sizes[i]
    <3>1. inodes[i].size \in Int /\ to \in Int
      BY <1>2, <1>3, InodeTypes, MaxSizeIs
    <3>2. Sizes'[i] = node.size /\ Sizes[i] = inodes[i].size
      BY <1>2, <1>3, <1>4 DEF Sizes
    <3> QED
      BY <1>3, <3>1, <3>2
  <2>3. Sizes' = [Sizes EXCEPT ![i] = IF Sizes[i] < to THEN to ELSE Sizes[i]]
    BY <1>2, <2>1, <2>2, ViewFunctions, NewViewFunctions
  <2>4. T!Enlarge(i, to)
    BY <2>3 DEF T!Enlarge
  <2>5. ASSUME NEW x \in At
        PROVE  IF from <= x /\ x < to THEN Text(i)'[x] = v
               ELSE \/ Text(i)'[x] = Text(i)[x]
                    \/ Text(i)[x] = Hole /\ Text(i)'[x] = Zero
    <3>1. /\ Index(x) \in Direct
          /\ Text(i)[x] = IF inodes[i].direct[Index(x)] \in Block
                          THEN blocks[inodes[i].direct[Index(x)]][Within(x)] ELSE Hole
          /\ Text(i)'[x] = IF node.direct[Index(x)] \in Block
                           THEN blocks'[node.direct[Index(x)]][Within(x)] ELSE Hole
      BY <1>2, <1>3, <1>4, TextIs, NewTextIs
    <3>2. CASE from <= x /\ x < to
      <4>1. x \in from .. (to - 1)
        BY <1>0, <1>2, <3>2, MaxSizeIs DEF At
      <4>2. node.direct[Index(x)] \in Block
        BY <1>3, <4>1
      <4> QED
        BY <1>2, <3>1, <3>2, <4>2
    <3>3. CASE ~ (from <= x /\ x < to) /\ Index(x) \in ks
      BY <1>2, <3>1, <3>3, BlockIsNoMark
    <3>4. CASE ~ (from <= x /\ x < to) /\ Index(x) \notin ks
      BY <1>2, <3>1, <3>4
    <3> QED
      BY <3>2, <3>3, <3>4
  <2>6. T!Store(i, from, to, v)
    <3>1. Texts[i] = Text(i) /\ Texts'[i] = Text(i)'
      BY <1>2 DEF Texts
    <3> QED
      BY <2>1, <2>5, <3>1 DEF T!Store, T!At, At
  <2> QED
    BY <2>4, <2>6 DEF T!Write
<1>9. to \in from .. MaxSize
  BY <1>0, <1>2, MaxSizeIs
<1> QED
  BY <1>2, <1>3, <1>4, <1>5, <1>7, <1>8, <1>9, FilePromise

LEMMA WriteFaultsKeeps ==
  ASSUME Sound, NEW i \in Live, inodes[i].type = FILE, NEW from \in Offsets,
         NEW n \in Nat \ {0}, from + n <= MaxSize, NEW v \in Value,
         WriteFaults(i, from, n, v)
  PROVE  NoneLeak /\ NoneOrphaned /\ Promise
<1>0. from \in Nat /\ Typed
  BY BrFSAssumption DEF Sound
<1>1. inodes' = inodes /\ ret' = -2
  BY <1>0, WriteFaultsIs
<1>2. PICK to, ks, f, node : Writes(i, from, to, v, ks, f, node)
  BY <1>0, WriteFaultsIs
<1>3. /\ i \in Inode /\ to \in 0 .. MaxSize /\ from <= to
      /\ \A j \in Inode \ {i} : inodes'[j] = inodes[j] => Keeps(j)
      /\ \A k \in Direct : IF k \in ks THEN inodes[i].direct[k] = 0 /\ node.direct[k] \in Block
                                       ELSE node.direct[k] = inodes[i].direct[k]
      /\ \A x \in At : node.direct[Index(x)] \in Block =>
           blocks'[node.direct[Index(x)]][Within(x)] =
             IF from <= x /\ x < to THEN v
             ELSE IF Index(x) \in ks THEN Zero
             ELSE blocks[inodes[i].direct[Index(x)]][Within(x)]
  <2>1. Wrote(i, from, to, v, ks, node)
    BY <1>0, <1>2, WrittenBlocks
  <2> QED
    BY <2>1 DEF Wrote
<1>4. inodes'[i].type = FILE /\ \A j \in Inode \ {i} : Keeps(j)
  BY <1>1, <1>3
<1>5. NoneLeak
  BY <1>1 DEF NoneLeak
<1>6. \A j \in Inode \ {i} : Sizes'[j] = Sizes[j] /\ Texts'[j] = Texts[j]
  BY <1>0, <1>3, <1>4, FileCall
<1>7. Sizes' = Sizes
  <2>1. \A j \in Inode : Sizes'[j] = Sizes[j]
    BY <1>1 DEF Sizes
  <2> QED
    BY <2>1, ViewFunctions, NewViewFunctions, Same
<1>8. ASSUME NEW x \in At
      PROVE  Text(i)'[x] = IF from <= x /\ x < to /\ Text(i)[x] # Hole THEN v ELSE Text(i)[x]
  <2> DEFINE b == inodes[i].direct[Index(x)]
  <2>1. /\ Index(x) \in Direct /\ Within(x) \in Slot
        /\ Text(i)[x] = IF b \in Block THEN blocks[b][Within(x)] ELSE Hole
        /\ Text(i)'[x] = IF b \in Block THEN blocks'[b][Within(x)] ELSE Hole
    BY <1>1, <1>3, TextIs, NewTextIs
  <2>2. b \in Block => blocks[b][Within(x)] # Hole
    BY <1>0, <2>1, ValueAssumption DEF Typed
  <2>3. b \in Block => Index(x) \notin ks /\ node.direct[Index(x)] = b
    BY <1>3, <2>1, BlockIsNoMark
  <2> QED
    BY <1>3, <2>1, <2>2, <2>3
<1>9. Texts' = [Texts EXCEPT ![i] =
        [x \in At |-> IF from <= x /\ x < to /\ Texts[i][x] # Hole THEN v ELSE Texts[i][x]]]
  <2>1. Texts[i] = Text(i) /\ Texts'[i] = Text(i)'
    BY <1>3 DEF Texts
  <2>2. Text(i)' = [x \in At |-> Text(i)'[x]]
    BY DEF Text, At
  <2>3. Texts'[i] =
      [x \in At |-> IF from <= x /\ x < to /\ Texts[i][x] # Hole THEN v ELSE Texts[i][x]]
    BY <1>8, <2>1, <2>2
  <2> QED
    BY <1>3, <1>6, <2>3, ViewFunctions, NewViewFunctions
<1>10. T!WriteDies(i, from, to, v)
  BY <1>7, <1>9 DEF T!WriteDies, T!At, At
<1>11. to \in from .. MaxSize
  BY <1>0, <1>3, MaxSizeIs
<1> QED
  BY <1>0, <1>3, <1>4, <1>5, <1>10, <1>11, FilePromise

LEMMA WriteNothingKeeps ==
  ASSUME Sound, NEW i \in Live, inodes[i].type = FILE, NEW from \in Offsets,
         fs_inode_buf = inodes[i], WriteNothing(i, from)
  PROVE  NoneLeak /\ NoneOrphaned /\ Promise
<1> DEFINE node == AtLeast(inodes[i], from)
<1>1. i \in Inode /\ inodes[i] \in INodeStruct /\ Typed
  BY InodeTypes DEF Live, Sound
<1>2. from \in 0 .. MaxSize /\ from \in Nat
  BY BrFSAssumption, MaxSizeIs
<1>3. /\ node.type = FILE /\ node.direct = inodes[i].direct
      /\ node.size = IF inodes[i].size >= from THEN inodes[i].size ELSE from
  BY <1>1, <1>2, AtLeastIs
<1>4. inodes' = [inodes EXCEPT ![i] = node] /\ bitmap' = bitmap /\ blocks' = blocks
  BY DEF WriteNothing
<1> HIDE DEF node
<1>5. inodes'[i] = node /\ \A j \in Inode \ {i} : inodes'[j] = inodes[j]
  BY <1>1, <1>4 DEF Typed
<1>6. \A j \in Inode \ {i} : Keeps(j)
  BY <1>4, <1>5 DEF Keeps
<1>7. NoneLeak
  <2>1. \A j \in Inode \ {i} : BlocksOf(j)' = BlocksOf(j)
    BY <1>1, <1>6, KeptView
  <2>2. BlocksOf(i)' = BlocksOf(i)
    BY <1>3, <1>5 DEF BlocksOf
  <2> QED
    BY <1>4, <2>1, <2>2, NoneLost
<1>8. PICK v : v \in Value
  BY ValueAssumption
<1>9. T!Write(i, from, from, v)
  <2>1. \A j \in Inode \ {i} : Sizes'[j] = Sizes[j] /\ Texts'[j] = Texts[j]
    BY <1>1, <1>3, <1>5, <1>6, FileCall
  <2>2. Sizes'[i] = IF Sizes[i] < from THEN from ELSE Sizes[i]
    <3>1. inodes[i].size \in Int
      BY <1>1, InodeTypes
    <3>2. Sizes'[i] = node.size /\ Sizes[i] = inodes[i].size
      BY <1>1, <1>3, <1>5 DEF Sizes
    <3> QED
      BY <1>2, <1>3, <3>1, <3>2
  <2>3. Sizes' = [Sizes EXCEPT ![i] = IF Sizes[i] < from THEN from ELSE Sizes[i]]
    BY <1>1, <2>1, <2>2, ViewFunctions, NewViewFunctions
  <2>4. T!Enlarge(i, from)
    BY <2>3 DEF T!Enlarge
  <2>5. ASSUME NEW x \in At PROVE Text(i)'[x] = Text(i)[x] /\ ~ (from <= x /\ x < from)
    BY <1>1, <1>2, <1>3, <1>4, <1>5, TextIs, NewTextIs, MaxSizeIs DEF At
  <2>6. Texts[i] = Text(i) /\ Texts'[i] = Text(i)'
    BY <1>1 DEF Texts
  <2>7. T!Store(i, from, from, v)
    BY <2>1, <2>5, <2>6 DEF T!Store, T!At, At
  <2> QED
    BY <2>4, <2>7 DEF T!Write
<1>10. from \in from .. MaxSize
  BY <1>2, MaxSizeIs
<1> QED
  BY <1>1, <1>3, <1>5, <1>6, <1>7, <1>8, <1>9, <1>10, FilePromise

-----------------------------------------------------------------------------
(* Creates, as a caller sees them.                                         *)

(* What a create does to the view, apart from the directory or file that   *)
(* takes the entry.                                                        *)
LEMMA CreatedView ==
  ASSUME Sound, NEW p, NEW name, NEW type \in {FILE, DIR}, NEW i, NEW size, NEW b,
         Created(p, name, type, i, size, b)
  PROVE  /\ \A j \in Inode \ {p} :
              Sizes'[j] = Sizes[j] /\ Texts'[j] = Texts[j] /\ NameSets'[j] = NameSets[j]
         /\ Kinds' = [Kinds EXCEPT ![i] = type] /\ Kinds[i] = FREE
<1>1. /\ p \in Inode /\ i \in Inode \ Live /\ p # i
      /\ Directories' = Directories \cup IF type = DIR THEN {i} ELSE {}
      /\ \A j \in Inode \ {i, p} : Keeps(j)
      /\ inodes'[i].type = type /\ inodes'[i].size = IF type = DIR THEN 2 ELSE 0
      /\ type = FILE => \A k \in Direct : inodes'[i].direct[k] = 0
      /\ type = DIR => Visited(i)' \subseteq {0, 1}
      /\ inodes'[p].type = inodes[p].type
  BY DEF Created
<1>2. Typed /\ inodes[i].type = FREE
  BY <1>1 DEF Sound, Live
<1>3. \A j \in Inode \ {i, p} :
        /\ Kinds'[j] = Kinds[j] /\ Sizes'[j] = Sizes[j]
        /\ Texts'[j] = Texts[j] /\ NameSets'[j] = NameSets[j]
  BY <1>1, <1>2, KeptView
<1>4. Sizes'[i] = Sizes[i]
  BY <1>1, <1>2 DEF Sizes, FREE, FILE, DIR
<1>5. Texts'[i] = Texts[i]
  <2>1. ASSUME NEW x \in At PROVE Text(i)'[x] = Text(i)[x]
    BY <1>1, <1>2, TextIs, NewTextIs, BlockIsNoMark DEF FREE, FILE, DIR
  <2>2. Text(i)' = Text(i)
    BY <2>1 DEF Text, At
  <2> QED
    BY <1>1, <2>2 DEF Texts
<1>6. NameSets'[i] = NameSets[i]
  <2>1. i \notin Directories
    BY <1>1 DEF Directories
  <2>2. CASE type = DIR
    <3>1. \A x \in Visited(i)' : ~ (x >= 2)
      BY <1>1, <2>2
    <3>2. Entries(i)' = {}
      BY <3>1 DEF Entries
    <3>3. NamesIn(i)' = {}
      BY <3>2 DEF NamesIn
    <3> QED
      BY <1>1, <2>1, <3>3 DEF NameSets
  <2>3. CASE type # DIR
    BY <1>1, <2>1, <2>3 DEF NameSets
  <2> QED
    BY <2>2, <2>3
<1>7. Kinds'[i] = type /\ Kinds[i] = FREE /\ Kinds'[p] = Kinds[p]
  BY <1>1, <1>2 DEF Kinds
<1>8. \A j \in Inode \ {i} : Kinds'[j] = Kinds[j]
  BY <1>3, <1>7
<1>9. Kinds' = [Kinds EXCEPT ![i] = type]
  BY <1>1, <1>7, <1>8, ViewFunctions, NewViewFunctions
<1> QED
  BY <1>1, <1>3, <1>4, <1>5, <1>6, <1>7, <1>9

(* A directory takes the entry.                                            *)
LEMMA CreatedInDirectory ==
  ASSUME Sound, NEW p \in Directories, NEW name, NEW type \in {FILE, DIR}, NEW i, NEW size,
         NEW b, Created(p, name, type, i, size, b)
  PROVE  T!Create(p, name, i)
<1>1. /\ p \in Inode
      /\ Directories' = Directories \cup IF type = DIR THEN {i} ELSE {}
      /\ inodes'[p].type = inodes[p].type
      /\ size >= 2 /\ Visited(p) = 0 .. (size - 1) /\ Visited(p)' = 0 .. size
      /\ \A y \in 0 .. (size - 1) : EntryAt(p, y)' = EntryAt(p, y)
      /\ EntryAt(p, size)' = [ino |-> i, name |-> name]
      /\ size \in Nat
  BY MaxSizeIs DEF Created
<1>2. inodes[p].type = DIR /\ p \in Directories'
  BY <1>1 DEF Directories
<1>3. \A j \in Inode \ {p} :
        Sizes'[j] = Sizes[j] /\ Texts'[j] = Texts[j] /\ NameSets'[j] = NameSets[j]
  BY CreatedView
<1>4. Sizes'[p] = Sizes[p]
  BY <1>1, <1>2 DEF Sizes, FILE, DIR
<1>5. Texts'[p] = Texts[p]
  <2>1. ASSUME NEW x \in At PROVE Text(p)'[x] = Text(p)[x]
    BY <1>1, <1>2, TextIs, NewTextIs DEF FILE, DIR
  <2>2. Text(p)' = Text(p)
    BY <2>1 DEF Text, At
  <2> QED
    BY <1>1, <2>2 DEF Texts
<1>6. NameSets'[p] = NameSets[p] \cup {<<name, i>>}
  <2> DEFINE pair(y) == <<EntryAt(p, y).name, EntryAt(p, y).ino>>
             new(y) == <<EntryAt(p, y)'.name, EntryAt(p, y)'.ino>>
  <2>1. Entries(p) = 2 .. (size - 1) /\ Entries(p)' = 2 .. size
    BY <1>1 DEF Entries
  <2>2. NamesIn(p) = {pair(y) : y \in 2 .. (size - 1)}
    BY <2>1 DEF NamesIn
  <2>3. NamesIn(p)' = {new(y) : y \in 2 .. size}
    BY <2>1 DEF NamesIn
  <2>4. (\A y \in 2 .. (size - 1) : new(y) = pair(y)) /\ new(size) = <<name, i>>
    BY <1>1
  <2>5. 2 .. size = (2 .. (size - 1)) \cup {size}
    BY <1>1
  <2> HIDE DEF pair, new
  <2>6. NamesIn(p)' = NamesIn(p) \cup {<<name, i>>}
    BY <2>2, <2>3, <2>4, <2>5
  <2> QED
    BY <1>1, <1>2, <2>6 DEF NameSets
<1>7. Sizes' = Sizes /\ Texts' = Texts
  <2>1. \A j \in Inode : Sizes'[j] = Sizes[j] /\ Texts'[j] = Texts[j]
    BY <1>3, <1>4, <1>5
  <2> QED
    BY <2>1, ViewFunctions, NewViewFunctions, Same
<1>8. NameSets' = [NameSets EXCEPT ![p] = NameSets[p] \cup {<<name, i>>}]
  BY <1>1, <1>3, <1>6, ViewFunctions, NewViewFunctions
<1>9. Kinds[p] = DIR
  BY <1>1, <1>2 DEF Kinds
<1> QED
  BY <1>7, <1>8, <1>9 DEF T!Create, T!Dir, DIR

(* A regular file takes the entry, at its end.                             *)
LEMMA CreatedInFile ==
  ASSUME Sound, NEW p, inodes[p].type = FILE, NEW name, NEW type \in {FILE, DIR}, NEW i,
         NEW size, NEW b, Created(p, name, type, i, size, b)
  PROVE  /\ T!CreateUnderFile(p, name, i)
         /\ inodes'[p].size > inodes[p].size /\ LastEntry(p)'.ino = i
<1> DEFINE at == inodes[p].direct[Index(size)]
           new == [ino |-> i, name |-> name]
<1>1. /\ p \in Inode
      /\ size = inodes[p].size /\ size \in At
      /\ inodes'[p].type = inodes[p].type /\ inodes'[p].size = size + 1
      /\ Directories' = Directories \cup IF type = DIR THEN {i} ELSE {}
      /\ b \in Block /\ (at = b \/ at = 0) /\ p # i
      /\ \A k \in Direct :
           inodes'[p].direct[k] = IF k = Index(size) THEN b ELSE inodes[p].direct[k]
      /\ \A k \in Direct \ {Index(size)} :
           inodes[p].direct[k] \in Block =>
             blocks'[inodes[p].direct[k]] = blocks[inodes[p].direct[k]]
      /\ \A s \in Slot : blocks'[b][s] =
           IF s = Within(size) THEN new ELSE IF at = 0 THEN Zero ELSE blocks[b][s]
  BY DEF Created, At
<1>2. size \in Nat /\ Index(size) \in Direct /\ Within(size) \in Slot
  BY <1>1, MaxSizeIs, Places DEF At
<1>3. \A j \in Inode \ {p} :
        Sizes'[j] = Sizes[j] /\ Texts'[j] = Texts[j] /\ NameSets'[j] = NameSets[j]
  BY CreatedView
<1>4. Sizes[p] = size /\ Sizes'[p] = size + 1
  BY <1>1 DEF Sizes
<1>5. Sizes' = [Sizes EXCEPT ![p] = IF Sizes[p] < size + 1 THEN size + 1 ELSE Sizes[p]]
  <2>1. Sizes'[p] = IF Sizes[p] < size + 1 THEN size + 1 ELSE Sizes[p]
    BY <1>2, <1>4
  <2> QED
    BY <1>1, <1>3, <2>1, ViewFunctions, NewViewFunctions
<1>6. NameSets' = NameSets
  <2>1. p \notin Directories /\ p \notin Directories'
    BY <1>1 DEF Directories, FILE, DIR
  <2>2. NameSets'[p] = NameSets[p]
    BY <1>1, <2>1 DEF NameSets
  <2>3. \A j \in Inode : NameSets'[j] = NameSets[j]
    BY <1>3, <2>2
  <2> QED
    BY <2>3, ViewFunctions, NewViewFunctions, Same
<1> HIDE DEF new
<1>7. ASSUME NEW x \in At
      PROVE  IF size <= x /\ x < size + 1 THEN Text(p)'[x] = new
             ELSE \/ Text(p)'[x] = Text(p)[x]
                  \/ Text(p)[x] = Hole /\ Text(p)'[x] = Zero
  <2>1. /\ Index(x) \in Direct /\ Within(x) \in Slot /\ x \in Nat
        /\ Text(p)[x] = IF inodes[p].direct[Index(x)] \in Block
                        THEN blocks[inodes[p].direct[Index(x)]][Within(x)] ELSE Hole
        /\ Text(p)'[x] = IF inodes'[p].direct[Index(x)] \in Block
                         THEN blocks'[inodes'[p].direct[Index(x)]][Within(x)] ELSE Hole
    BY <1>1, TextIs, NewTextIs, MaxSizeIs DEF At
  <2>2. CASE x = size
    <3>1. Text(p)'[x] = new
      BY <1>1, <1>2, <2>1, <2>2
    <3> QED
      BY <1>2, <2>2, <3>1
  <2>3. CASE x # size /\ Index(x) = Index(size)
    <3>1. Within(x) # Within(size)
      BY <1>2, <2>1, <2>3, PlacesDiffer
    <3>2. Text(p)'[x] = IF at = 0 THEN Zero ELSE blocks[b][Within(x)]
      BY <1>1, <2>1, <2>3, <3>1
    <3>3. at = 0 => Text(p)[x] = Hole
      BY <2>1, <2>3, BlockIsNoMark
    <3>4. at = b => Text(p)[x] = blocks[b][Within(x)]
      BY <1>1, <2>1, <2>3
    <3>5. ~ (size <= x /\ x < size + 1)
      BY <1>2, <2>1, <2>3
    <3> HIDE DEF at
    <3> QED
      BY <1>1, <3>2, <3>3, <3>4, <3>5, BlockIsNoMark
  <2>4. CASE Index(x) # Index(size)
    <3>1. Text(p)'[x] = Text(p)[x]
      BY <1>1, <2>1, <2>4
    <3>2. ~ (size <= x /\ x < size + 1)
      BY <1>2, <2>1, <2>4
    <3> QED
      BY <3>1, <3>2
  <2> QED
    BY <2>2, <2>3, <2>4
<1>8. T!Store(p, size, size + 1, new)
  <2>1. Texts[p] = Text(p) /\ Texts'[p] = Text(p)'
    BY <1>1 DEF Texts
  <2> QED
    BY <1>3, <1>7, <2>1 DEF T!Store, T!At, At
<1>9. LastEntry(p)' = new
  <2>1. (size + 1) - 1 = size
    BY <1>2
  <2>2. LastEntry(p)' = blocks'[inodes'[p].direct[Index(size)]][Within(size)]
    BY <1>1, <2>1 DEF LastEntry, EntryAt, BlockAt
  <2> QED
    BY <1>1, <1>2, <2>2
<1>10. Kinds[p] = FILE
  BY <1>1 DEF Kinds
<1>11. T!CreateUnderFile(p, name, i)
  <2>1. T!Enlarge(p, Sizes[p] + 1)
    BY <1>4, <1>5 DEF T!Enlarge
  <2>2. T!Store(p, Sizes[p], Sizes[p] + 1, [ino |-> i, name |-> name])
    BY <1>4, <1>8 DEF new
  <2> QED
    BY <1>6, <1>10, <2>1, <2>2 DEF T!CreateUnderFile, T!File, FILE
<1>12. inodes'[p].size > inodes[p].size
  BY <1>1, <1>2
<1> QED
  BY <1>9, <1>11, <1>12 DEF new

(* Nobody loses a name or a block to a create that succeeds.               *)
LEMMA CreatedKeeps ==
  ASSUME Sound, FreeInodesBlank, NEW p, NEW name \in Name, NEW type \in {FILE, DIR}, NEW i,
         NEW size, NEW b, p \in Live, Created(p, name, type, i, size, b)
  PROVE  NoneLeak /\ NoneOrphaned /\ Promise
<1>1. /\ p \in Inode /\ i \in Inode \ Live /\ p # i
      /\ Live' = Live \cup {i}
      /\ Directories' = Directories \cup IF type = DIR THEN {i} ELSE {}
      /\ \A j \in Inode \ {i, p} : Keeps(j)
      /\ b \in Block
      /\ inodes[p].direct[Index(size)] = b \/ inodes[p].direct[Index(size)] = 0
      /\ \A k \in Direct :
           inodes'[p].direct[k] = IF k = Index(size) THEN b ELSE inodes[p].direct[k]
      /\ p \in Directories =>
           /\ size >= 2 /\ Visited(p) = 0 .. (size - 1) /\ Visited(p)' = 0 .. size
           /\ \A y \in 0 .. (size - 1) : EntryAt(p, y)' = EntryAt(p, y)
           /\ EntryAt(p, size)' = [ino |-> i, name |-> name]
      /\ \A c \in Block : bitmap'[c] => bitmap[c] \/ c \in {b, inodes'[i].direct[0]}
      /\ size \in Nat /\ size \in 0 .. (MaxSize - 1)
  BY MaxSizeIs DEF Created
<1>2. Typed /\ Index(size) \in Direct /\ 0 \in Direct
  BY <1>1, Places, BrFSAssumption DEF Sound, Direct
<1>3. NoneLeak
  <2>1. \A j \in Inode \ {i, p} : BlocksOf(j)' = BlocksOf(j)
    BY <1>1, <1>2, KeptView
  <2>2. BlocksOf(i) = {}
    BY <1>1 DEF FreeInodesBlank, BlocksOf
  <2>3. b \in BlocksOf(p)'
    BY <1>1, <1>2, BlockIsNoMark DEF BlocksOf
  <2>4. BlocksOf(p) \subseteq BlocksOf(p)'
    <3>1. ASSUME NEW k \in Direct, inodes[p].direct[k] # 0
          PROVE  inodes'[p].direct[k] = inodes[p].direct[k]
      BY <1>1, <3>1
    <3> QED
      BY <3>1 DEF BlocksOf
  <2>5. \A c \in Block : c = inodes'[i].direct[0] => c \in BlocksOf(i)'
    BY <1>2, BlockIsNoMark DEF BlocksOf
  <2>6. \A c \in Block : bitmap'[c] => bitmap[c] \/ \E j \in Inode : c \in BlocksOf(j)'
    BY <1>1, <2>3, <2>5
  <2>7. \A j \in Inode : \A c \in BlocksOf(j) : \E l \in Inode : c \in BlocksOf(l)'
    BY <1>1, <2>1, <2>2, <2>4
  <2> QED
    BY <2>6, <2>7, NoneLost
<1>4. inodes[p].type \in {FILE, DIR} /\ (p \in Directories <=> inodes[p].type = DIR)
  BY <1>1, <1>2, InodeTypes DEF Live, Directories
<1>5. ASSUME NEW n \in Named PROVE n \in Named'
  <2>1. CASE n = Root
    BY <2>1 DEF Named
  <2>2. CASE n # Root
    <3>1. PICK d \in Directories : \E x \in Entries(d) : EntryAt(d, x).ino = n
      BY <2>2 DEF Named
    <3>2. PICK x \in Entries(d) : EntryAt(d, x).ino = n
      BY <3>1
    <3>3. d \in Inode \ {i} /\ d \in Directories'
      BY <1>1 DEF Directories, Live
    <3>4. x \in Entries(d)' /\ EntryAt(d, x)' = EntryAt(d, x)
      <4>1. CASE d = p
        <5>1. x \in 2 .. (size - 1)
          BY <1>1, <4>1 DEF Entries
        <5>2. x \in Visited(p)' /\ x >= 2 /\ EntryAt(p, x)' = EntryAt(p, x)
          BY <1>1, <4>1, <5>1
        <5> QED
          BY <4>1, <5>2 DEF Entries
      <4>2. CASE d # p
        BY <1>1, <1>2, <3>3, <4>2, KeptView
      <4> QED
        BY <4>1, <4>2
    <3> QED
      BY <3>2, <3>3, <3>4 DEF Named
  <2> QED
    BY <2>1, <2>2
<1>6. p \in Directories => i \in Named'
  <2>1. ASSUME p \in Directories
        PROVE  p \in Directories' /\ size \in Entries(p)' /\ EntryAt(p, size)'.ino = i
    BY <1>1, <2>1 DEF Entries
  <2> QED
    BY <2>1 DEF Named
<1>7. p \notin Directories =>
        /\ T!CreateUnderFile(p, name, i)
        /\ inodes'[p].size > inodes[p].size /\ LastEntry(p)'.ino = i
  BY <1>4, CreatedInFile
<1>8. p \in Directories => T!Create(p, name, i)
  BY CreatedInDirectory
<1>9. NoneOrphaned
  <2>1. \A j \in Orphans' \ Orphans : j = i /\ p \notin Directories
    BY <1>1, <1>5, <1>6 DEF Orphans
  <2> QED
    BY <1>7, <2>1 DEF NoneOrphaned
<1>10. Kinds' = [Kinds EXCEPT ![i] = type] /\ Kinds[i] = FREE
  BY CreatedView
<1>11. T!Next
  <2>1. T!Become(i, T!File) \/ T!Become(i, T!Dir)
    BY <1>10 DEF T!Become, T!File, T!Dir, FILE, DIR
  <2>2. Kinds[i] = T!Free
    BY <1>10 DEF T!Free, FREE
  <2>3. T!Create(p, name, i) \/ T!CreateUnderFile(p, name, i)
    BY <1>7, <1>8
  <2> QED
    BY <1>1, <2>1, <2>2, <2>3 DEF T!Next
<1> QED
  BY <1>3, <1>9, <1>11 DEF Promise

LEMMA CreateKeeps ==
  ASSUME Sound, FreeInodesBlank, NEW p \in Live, NEW name \in Name, NEW type \in {FILE, DIR},
         CreateEnds(p, name, type)
  PROVE  NoneLeak /\ NoneOrphaned /\ Promise
<1>1. CASE Unchanged
  BY <1>1, UnchangedKeeps
<1>2. ASSUME NEW i, NEW size, NEW b, Created(p, name, type, i, size, b)
      PROVE  NoneLeak /\ NoneOrphaned /\ Promise
  BY <1>2, CreatedKeeps
<1>3. ASSUME ret' = -2, UNCHANGED <<bitmap, blocks>>, NEW i \in Inode \ Live,
             inodes' = [inodes EXCEPT ![i] =
               [type |-> DIR, size |-> 2, direct |-> [NoBlocks EXCEPT ![0] = -1]]]
      PROVE  NoneLeak /\ NoneOrphaned /\ Promise
  <2>1. Typed /\ inodes[i].type = FREE
    BY DEF Sound, Live
  <2>2. /\ inodes'[i].type = DIR /\ inodes'[i].size = 2
        /\ \A j \in Inode \ {i} : inodes'[j] = inodes[j]
    BY <1>3, <2>1 DEF Typed
  <2>3. \A j \in Inode \ {i} : Keeps(j)
    BY <1>3, <2>2 DEF Keeps
  <2>4. \A j \in Inode \ {i} :
          /\ Kinds'[j] = Kinds[j] /\ Sizes'[j] = Sizes[j]
          /\ Texts'[j] = Texts[j] /\ NameSets'[j] = NameSets[j]
    BY <2>1, <2>3, KeptView
  <2>5. Sizes'[i] = Sizes[i] /\ Kinds'[i] = DIR /\ Kinds[i] = FREE
    BY <2>1, <2>2 DEF Sizes, Kinds, FREE, FILE, DIR
  <2>6. Texts'[i] = Texts[i]
    <3>1. ASSUME NEW x \in At PROVE Text(i)'[x] = Text(i)[x]
      BY <2>1, <2>2, TextIs, NewTextIs DEF FREE, FILE, DIR
    <3>2. Text(i)' = Text(i)
      BY <3>1 DEF Text, At
    <3> QED
      BY <3>2 DEF Texts
  <2>7. NameSets'[i] = NameSets[i]
    <3>1. i \notin Directories
      BY DEF Directories
    <3>2. \A x \in Visited(i)' : ~ (x >= 2)
      BY <2>2 DEF Visited
    <3>3. Entries(i)' = {}
      BY <3>2 DEF Entries
    <3>4. NamesIn(i)' = {}
      BY <3>3 DEF NamesIn
    <3> QED
      BY <3>1, <3>4 DEF NameSets
  <2>8. Sizes' = Sizes /\ Texts' = Texts /\ NameSets' = NameSets
    <3>1. \A j \in Inode :
            Sizes'[j] = Sizes[j] /\ Texts'[j] = Texts[j] /\ NameSets'[j] = NameSets[j]
      BY <2>4, <2>5, <2>6, <2>7
    <3> QED
      BY <3>1, ViewFunctions, NewViewFunctions, Same
  <2>9. Kinds' = [Kinds EXCEPT ![i] = DIR]
    BY <2>4, <2>5, ViewFunctions, NewViewFunctions
  <2>10. T!Next
    <3>1. T!Become(i, T!Dir) /\ T!CreateDies /\ Kinds[i] = T!Free
      BY <2>5, <2>8, <2>9 DEF T!Become, T!CreateDies, T!Dir, T!Free, DIR, FREE
    <3> QED
      BY <3>1 DEF T!Next
  <2> QED
    BY <1>3, <2>10 DEF NoneLeak, NoneOrphaned, Promise
<1> QED
  BY <1>1, <1>2, <1>3 DEF CreateEnds

-----------------------------------------------------------------------------
(* Unlink, as a caller sees it.                                            *)

(* A directory that unlink finds empty names nothing: only the root may be *)
(* in it, and no entry names the root.                                     *)
LEMMA EmptyNamesNothing ==
  ASSUME NamedOnce, NEW d \in Directories, fs_dir_empty(d)
  PROVE  Entries(d) = {}
<1>1. ASSUME NEW x \in Entries(d) PROVE FALSE
  <2>1. EntryAt(d, x).ino = Root
    BY DEF fs_dir_empty, Entries
  <2>2. EntryAt(d, x).ino # Root
    BY DEF NamedOnce
  <2> QED
    BY <2>1, <2>2
<1> QED
  BY <1>1

LEMMA UnlinkedNames ==
  ASSUME Sound, NEW p, NEW m, NEW child, NEW size, NEW name, Unlinked(p, m, child, size),
         EntryAt(p, m).ino = child, EntryAt(p, m).name = name
  PROVE  /\ <<name, child>> \in NamesIn(p)
         /\ NamesIn(p)' = NamesIn(p) \ {<<name, child>>}
         /\ \A x \in Entries(p) \ {m} :
              \E y \in Entries(p)' : EntryAt(p, y)' = EntryAt(p, x)
         /\ m \in Entries(p)
<1>1. /\ p \in Directories /\ size \in Nat /\ m \in 2 .. (size - 1)
      /\ Visited(p) = 0 .. (size - 1) /\ Visited(p)' = 0 .. (size - 2)
      /\ \A x \in 0 .. (size - 2) :
           EntryAt(p, x)' = IF x = m THEN EntryAt(p, size - 1) ELSE EntryAt(p, x)
  BY DEF Unlinked
<1>2. Entries(p) = 2 .. (size - 1) /\ Entries(p)' = 2 .. (size - 2)
  BY <1>1 DEF Entries
<1>3. \A y \in 2 .. (size - 1) : y # m => EntryAt(p, y).ino # child
  BY <1>1, <1>2 DEF Sound, NamedOnce
<1> DEFINE pair(y) == <<EntryAt(p, y).name, EntryAt(p, y).ino>>
           new(y) == <<EntryAt(p, y)'.name, EntryAt(p, y)'.ino>>
<1>4. NamesIn(p) = {pair(y) : y \in 2 .. (size - 1)}
  BY <1>2 DEF NamesIn
<1>5. NamesIn(p)' = {new(y) : y \in 2 .. (size - 2)}
  BY <1>2 DEF NamesIn
<1>6. pair(m) = <<name, child>> /\ \A y \in 2 .. (size - 1) : y # m => pair(y) # <<name, child>>
  BY <1>3
<1>7. \A y \in 2 .. (size - 2) : new(y) = IF y = m THEN pair(size - 1) ELSE pair(y)
  BY <1>1
<1>8. ASSUME NEW x \in (2 .. (size - 1)) \ {m}
      PROVE  \E y \in 2 .. (size - 2) : new(y) = pair(x) /\ EntryAt(p, y)' = EntryAt(p, x)
  <2>1. CASE x = size - 1
    <3>1. m \in 2 .. (size - 2) /\ m \in 0 .. (size - 2)
      BY <1>1, <2>1
    <3>2. EntryAt(p, m)' = EntryAt(p, x)
      BY <1>1, <2>1, <3>1
    <3> QED
      BY <3>1, <3>2
  <2>2. CASE x # size - 1
    <3>1. x \in 2 .. (size - 2) /\ x \in 0 .. (size - 2)
      BY <1>1, <2>2
    <3>2. EntryAt(p, x)' = EntryAt(p, x)
      BY <1>1, <3>1
    <3> QED
      BY <3>1, <3>2
  <2> QED
    BY <2>1, <2>2
<1>9. \A x \in Entries(p) \ {m} : \E y \in Entries(p)' : EntryAt(p, y)' = EntryAt(p, x)
  BY <1>2, <1>8
<1> HIDE DEF pair, new
<1>10. \A y \in 2 .. (size - 2) :
         \E x \in (2 .. (size - 1)) \ {m} : new(y) = pair(x)
  <2> SUFFICES ASSUME NEW y \in 2 .. (size - 2)
               PROVE  \E x \in (2 .. (size - 1)) \ {m} : new(y) = pair(x)
    OBVIOUS
  <2>1. CASE y = m
    <3>1. size - 1 \in (2 .. (size - 1)) \ {m}
      BY <1>1, <2>1
    <3> QED
      BY <1>7, <2>1, <3>1
  <2>2. CASE y # m
    <3>1. y \in (2 .. (size - 1)) \ {m}
      BY <1>1, <2>2
    <3> QED
      BY <1>7, <2>2, <3>1
  <2> QED
    BY <2>1, <2>2
<1>11. NamesIn(p)' = NamesIn(p) \ {<<name, child>>}
  <2>1. \A x \in (2 .. (size - 1)) \ {m} : \E y \in 2 .. (size - 2) : new(y) = pair(x)
    BY <1>8
  <2> QED
    BY <1>4, <1>5, <1>6, <1>10, <2>1
<1> QED
  BY <1>1, <1>2, <1>4, <1>6, <1>9, <1>11

LEMMA UnlinkKeeps ==
  ASSUME Sound, NEW p \in Live, NEW name \in Name, UnlinkEnds(p, name)
  PROVE  NoneLeak /\ NoneOrphaned /\ Promise
<1>1. CASE Unchanged
  BY <1>1, UnchangedKeeps
<1>2. ASSUME NEW m, NEW child, NEW size, Unlinked(p, m, child, size),
             EntryAt(p, m).ino = child, EntryAt(p, m).name = name,
             inodes[child].type = DIR => fs_dir_empty(child)
      PROVE  NoneLeak /\ NoneOrphaned /\ Promise
  <2>1. /\ p \in Directories /\ child \in Live /\ child # p
        /\ Live' = Live \ {child} /\ Directories' = Directories \ {child}
        /\ \A j \in Inode \ {child, p} : Keeps(j)
        /\ inodes'[child] = Zeroed
        /\ inodes'[p].type = DIR /\ inodes'[p].direct = inodes[p].direct
        /\ \A h \in Block : bitmap'[h] <=> bitmap[h] /\ h \notin BlocksOf(child)
    BY <1>2 DEF Unlinked
  <2>2. /\ Typed /\ p \in Inode /\ child \in Inode
        /\ inodes[p].type = DIR /\ inodes[child].type # FREE
    BY <2>1 DEF Sound, Live, Directories
  <2>3. Zeroed.type = FREE /\ Zeroed.size = 0
    BY DEF Zeroed
  <2>4. /\ <<name, child>> \in NamesIn(p)
        /\ NamesIn(p)' = NamesIn(p) \ {<<name, child>>}
        /\ \A x \in Entries(p) \ {m} :
             \E y \in Entries(p)' : EntryAt(p, y)' = EntryAt(p, x)
        /\ m \in Entries(p)
    BY <1>2, UnlinkedNames
  <2>5. \A j \in Inode \ {child, p} :
          /\ j \in Directories' <=> j \in Directories
          /\ Kinds'[j] = Kinds[j] /\ Sizes'[j] = Sizes[j]
          /\ Texts'[j] = Texts[j] /\ NameSets'[j] = NameSets[j]
          /\ Entries(j)' = Entries(j)
          /\ \A x \in Entries(j) : EntryAt(j, x)' = EntryAt(j, x)
          /\ BlocksOf(j)' = BlocksOf(j)
    BY <2>1, <2>2, KeptView
  <2>6. child \in Directories => Entries(child) = {}
    BY <1>2, EmptyNamesNothing DEF Sound, Directories
  <2>7. NoneLeak
    <3>1. BlocksOf(p)' = BlocksOf(p)
      BY <2>1 DEF BlocksOf
    <3> QED
      BY <2>1, <2>5, <3>1 DEF NoneLeak, Leaked
  <2>8. NoneOrphaned
    <3>1. ASSUME NEW n \in Named, n # child PROVE n \in Named'
      <4>1. CASE n = Root
        BY <4>1 DEF Named
      <4>2. CASE n # Root
        <5>1. PICK d \in Directories : \E x \in Entries(d) : EntryAt(d, x).ino = n
          BY <4>2 DEF Named
        <5>2. PICK x \in Entries(d) : EntryAt(d, x).ino = n
          BY <5>1
        <5>3. d \in Inode \ {child} /\ d \in Directories'
          BY <2>1, <2>6, <5>2 DEF Directories, Live
        <5>4. \E y \in Entries(d)' : EntryAt(d, y)' = EntryAt(d, x)
          BY <1>2, <2>4, <2>5, <3>1, <5>2, <5>3
        <5> QED
          BY <5>2, <5>3, <5>4 DEF Named
      <4> QED
        BY <4>1, <4>2
    <3>2. \A n \in Live' : n \in Live /\ n # child
      BY <2>1
    <3> QED
      BY <3>1, <3>2 DEF NoneOrphaned, Orphans
  <2>9. Kinds' = [Kinds EXCEPT ![child] = FREE] /\ Kinds[child] # FREE /\ Kinds[p] = DIR
    <3>1. Kinds'[child] = FREE /\ Kinds[child] # FREE /\ Kinds'[p] = DIR /\ Kinds[p] = DIR
      BY <2>1, <2>2, <2>3 DEF Kinds
    <3>2. \A j \in Inode \ {child} : Kinds'[j] = Kinds[j]
      BY <2>5, <3>1
    <3> QED
      BY <2>2, <3>1, <3>2, ViewFunctions, NewViewFunctions
  <2>10. Sizes' = [Sizes EXCEPT ![child] = 0]
    <3>1. Sizes'[child] = 0 /\ Sizes'[p] = Sizes[p]
      BY <2>1, <2>2, <2>3 DEF Sizes, FREE, FILE, DIR
    <3>2. \A j \in Inode \ {child} : Sizes'[j] = Sizes[j]
      BY <2>5, <3>1
    <3> QED
      BY <2>2, <3>1, <3>2, ViewFunctions, NewViewFunctions
  <2>11. Texts' = [Texts EXCEPT ![child] = T!NoText]
    <3>1. ASSUME NEW x \in At
          PROVE  Text(child)'[x] = Hole /\ Text(p)'[x] = Text(p)[x]
      BY <2>1, <2>2, <2>3, TextIs, NewTextIs DEF FREE, FILE, DIR
    <3>2. Text(child)' = [x \in At |-> Hole] /\ Text(p)' = Text(p)
      BY <3>1 DEF Text, At
    <3>3. Texts'[child] = T!NoText /\ Texts'[p] = Texts[p]
      BY <2>2, <3>2 DEF Texts, T!NoText, T!At, At
    <3>4. \A j \in Inode \ {child} : Texts'[j] = Texts[j]
      BY <2>5, <3>3
    <3> QED
      BY <2>2, <3>3, <3>4, ViewFunctions, NewViewFunctions
  <2>12. NameSets[child] = {} /\ NameSets'[child] = {}
    <3>1. child \in Directories => NamesIn(child) = {}
      BY <2>6 DEF NamesIn
    <3>2. child \notin Directories'
      BY <2>1
    <3> QED
      BY <2>2, <3>1, <3>2 DEF NameSets
  <2>13. /\ NameSets' = [NameSets EXCEPT ![p] = NameSets[p] \ {<<name, child>>}]
         /\ <<name, child>> \in NameSets[p]
    <3>1. NameSets[p] = NamesIn(p) /\ NameSets'[p] = NamesIn(p)'
      BY <2>1, <2>2 DEF NameSets
    <3>2. NameSets'[p] = NameSets[p] \ {<<name, child>>} /\ <<name, child>> \in NameSets[p]
      BY <2>4, <3>1
    <3>3. \A j \in Inode \ {p} : NameSets'[j] = NameSets[j]
      BY <2>5, <2>12
    <3> QED
      BY <2>2, <3>2, <3>3, ViewFunctions, NewViewFunctions
  <2>14. T!Unlink(p, name, child)
    BY <2>9, <2>10, <2>11, <2>12, <2>13 DEF T!Unlink, T!Dir, DIR
  <2>15. T!Next
    <3>1. T!Become(child, T!Free) /\ Kinds[child] # T!Free
      BY <2>9 DEF T!Become, T!Free, FREE
    <3> QED
      BY <2>2, <2>14, <3>1 DEF T!Next
  <2> QED
    BY <2>7, <2>8, <2>15 DEF Promise
<1> QED
  BY <1>1, <1>2 DEF UnlinkEnds

-----------------------------------------------------------------------------
(* Every step keeps the promise.                                           *)

LEMMA InitView == Init => T!Init /\ FreeInodesBlank
<1> SUFFICES ASSUME Init PROVE T!Init /\ FreeInodesBlank
  OBVIOUS
<1>1. Root \in Inode
  BY BrFSAssumption DEF Root, Inode
<1>2. \A i \in Inode :
        /\ inodes[i].type = IF i = Root THEN DIR ELSE FREE
        /\ inodes[i].size = IF i = Root THEN 2 ELSE 0
        /\ i # Root => inodes[i].direct = NoBlocks
  BY DEF Init, Zeroed
<1>3. FreeInodesBlank
  BY <1>2 DEF FreeInodesBlank, Live, NoBlocks, FREE, DIR
<1>4. Kinds = [i \in Inode |-> IF i = T!Root THEN T!Dir ELSE T!Free]
  BY <1>2 DEF Kinds, T!Root, T!Dir, T!Free, Root, DIR, FREE
<1>5. Sizes = [i \in Inode |-> 0]
  BY <1>2 DEF Sizes, FREE, FILE, DIR
<1>6. Texts = [i \in Inode |-> T!NoText]
  <2>1. ASSUME NEW i \in Inode PROVE Text(i) = T!NoText
    <3>1. \A x \in At : Text(i)[x] = Hole
      BY <1>2, TextIs DEF FREE, FILE, DIR
    <3> QED
      BY <3>1 DEF Text, At, T!NoText, T!At
  <2> QED
    BY <2>1 DEF Texts
<1>7. NameSets = [i \in Inode |-> {}]
  <2>1. Directories \subseteq {Root}
    BY <1>2 DEF Directories, Live, FREE, DIR
  <2>2. \A x \in Visited(Root) : ~ (x >= 2)
    BY <1>1, <1>2 DEF Visited
  <2>3. NamesIn(Root) = {}
    BY <2>2 DEF NamesIn, Entries
  <2> QED
    BY <2>1, <2>3 DEF NameSets
<1> QED
  BY <1>3, <1>4, <1>5, <1>6, <1>7 DEF T!Init

(* An inode that is free after a call was free and is as it was, or it has *)
(* just been zeroed.                                                       *)
LEMMA BlankStays ==
  ASSUME FreeInodesBlank,
         \A j \in Inode \ Live' : inodes'[j] = inodes[j] \/ inodes'[j] = Zeroed
  PROVE  FreeInodesBlank'
<1> SUFFICES ASSUME NEW j \in Inode \ Live', NEW k \in Direct
             PROVE  inodes'[j].direct[k] = 0
  BY DEF FreeInodesBlank
<1>1. CASE inodes'[j] = inodes[j]
  <2>1. j \in Inode \ Live
    BY <1>1 DEF Live
  <2> QED
    BY <1>1, <2>1 DEF FreeInodesBlank
<1>2. CASE inodes'[j] = Zeroed
  BY <1>2 DEF Zeroed, NoBlocks
<1> QED
  BY <1>1, <1>2

LEMMA BlankKept ==
  ASSUME Sound, FreeInodesBlank, Calls \/ UNCHANGED disk
  PROVE  FreeInodesBlank'
<1>0. Typed /\ Live \subseteq Inode
  BY DEF Sound, Live
<1>1. CASE inodes' = inodes
  BY <1>1, BlankStays
<1>2. ASSUME NEW p \in Live \cap Named, NEW name \in Name, NEW type \in {FILE, DIR},
             Create(p, name, type) \/ CreateAcrossFails(p, type)
      PROVE  FreeInodesBlank'
  <2>1. CreateEnds(p, name, type)
    BY <1>2, CreateStep, CreateFailsStep DEF CreateAcrossFails
  <2>2. CASE Unchanged
    BY <1>1, <2>2 DEF Unchanged
  <2>3. ASSUME NEW i, NEW size, NEW b, Created(p, name, type, i, size, b)
        PROVE  FreeInodesBlank'
    <3>1. /\ Live' = Live \cup {i} /\ \A j \in Inode \ {i, p} : Keeps(j)
      BY <2>3 DEF Created
    <3>2. \A j \in Inode \ Live' : inodes'[j] = inodes[j]
      BY <3>1 DEF Keeps
    <3> QED
      BY <3>2, BlankStays
  <2>4. ASSUME NEW i \in Inode \ Live, inodes' = [inodes EXCEPT ![i] =
               [type |-> DIR, size |-> 2, direct |-> [NoBlocks EXCEPT ![0] = -1]]]
        PROVE  FreeInodesBlank'
    <3>1. inodes'[i].type = DIR /\ \A j \in Inode \ {i} : inodes'[j] = inodes[j]
      BY <1>0, <2>4 DEF Typed
    <3>2. \A j \in Inode \ Live' : inodes'[j] = inodes[j]
      BY <3>1 DEF Live, FREE, DIR
    <3> QED
      BY <3>2, BlankStays
  <2> QED
    BY <2>1, <2>2, <2>3, <2>4 DEF CreateEnds
<1>3. ASSUME NEW p \in Live \cap Named, NEW name \in Name, Unlink(p, name)
      PROVE  FreeInodesBlank'
  <2>1. UnlinkEnds(p, name)
    BY <1>3, UnlinkStep
  <2>2. CASE Unchanged
    BY <1>1, <2>2 DEF Unchanged
  <2>3. ASSUME NEW m, NEW child, NEW size, Unlinked(p, m, child, size)
        PROVE  FreeInodesBlank'
    <3>1. /\ p \in Live \ {child} /\ Live' = Live \ {child} /\ inodes'[child] = Zeroed
          /\ \A j \in Inode \ {child, p} : Keeps(j)
      BY <2>3 DEF Unlinked, Directories
    <3>2. \A j \in Inode \ Live' : inodes'[j] = inodes[j] \/ inodes'[j] = Zeroed
      BY <3>1 DEF Keeps
    <3> QED
      BY <3>2, BlankStays
  <2> QED
    BY <2>1, <2>2, <2>3 DEF UnlinkEnds
<1>4. ASSUME NEW i \in Live, NEW node, inodes' = [inodes EXCEPT ![i] = node],
             node.type = FILE
      PROVE  FreeInodesBlank'
  <2>1. inodes'[i].type = FILE /\ \A j \in Inode \ {i} : inodes'[j] = inodes[j]
    BY <1>0, <1>4 DEF Typed
  <2>2. \A j \in Inode \ Live' : inodes'[j] = inodes[j]
    BY <2>1 DEF Live, FREE, FILE
  <2> QED
    BY <2>2, BlankStays
<1>5. ASSUME NEW i \in Live, inodes[i].type = FILE, Truncate(i) PROVE FreeInodesBlank'
  <2>1. inodes[i] \in INodeStruct
    BY <1>0, InodeTypes
  <2>2. [inodes[i] EXCEPT !.size = 0, !.direct = NoBlocks].type = FILE
    BY <1>5, <2>1 DEF INodeStruct
  <2> QED
    BY <1>4, <1>5, <2>2 DEF Truncate
<1>6. ASSUME NEW i \in Live, inodes[i].type = FILE, NEW from \in Offsets,
             NEW n \in Lengths \ {0}, NEW v \in Value, from + n <= MaxSize,
             Write(i, from, n, v) \/ WriteFaults(i, from, n, v)
      PROVE  FreeInodesBlank'
  <2>1. from \in Nat /\ n \in Nat \ {0}
    BY BrFSAssumption
  <2>2. CASE Write(i, from, n, v)
    <3>1. PICK to, ks, f, node :
            Writes(i, from, to, v, ks, f, node) /\ WriteEnds(i, from, to, node)
      BY <1>6, <2>1, <2>2, WriteIs
    <3>2. inodes' = [inodes EXCEPT ![i] = node] /\ node.type = FILE
      BY <3>1 DEF Writes, WriteEnds
    <3> QED
      BY <1>4, <3>2
  <2>3. CASE WriteFaults(i, from, n, v)
    BY <1>1, <1>6, <2>1, <2>3, WriteFaultsIs
  <2> QED
    BY <1>6, <2>2, <2>3
<1>7. ASSUME NEW i \in Live, inodes[i].type = FILE, NEW from \in Offsets,
             fs_inode_buf = inodes[i], WriteNothing(i, from)
      PROVE  FreeInodesBlank'
  <2>1. inodes[i] \in INodeStruct /\ from \in 0 .. MaxSize
    BY <1>0, InodeTypes, BrFSAssumption, MaxSizeIs
  <2>2. AtLeast(inodes[i], from).type = FILE
    BY <1>7, <2>1, AtLeastIs
  <2> QED
    BY <1>4, <1>7, <2>2 DEF WriteNothing
<1>8. ASSUME NEW i \in Inode, Read(i) PROVE FreeInodesBlank'
  BY <1>1, <1>8 DEF Read
<1>9. CASE UNCHANGED disk
  BY <1>1, <1>9 DEF disk
<1> QED
  BY <1>2, <1>3, <1>5, <1>6, <1>7, <1>8, <1>9 DEF Calls

LEMMA CallsKeep ==
  ASSUME Sound, FreeInodesBlank, Calls \/ UNCHANGED disk
  PROVE  NoneLeak /\ NoneOrphaned /\ Promise
<1>1. CASE UNCHANGED <<bitmap, inodes, blocks>>
  <2>1. Unchanged
    BY <1>1 DEF Unchanged
  <2> QED
    BY <2>1, UnchangedKeeps
<1>2. ASSUME NEW i \in Inode, Read(i) PROVE NoneLeak /\ NoneOrphaned /\ Promise
  BY <1>1, <1>2 DEF Read
<1>3. ASSUME NEW p \in Live \cap Named, NEW name \in Name, NEW type \in {FILE, DIR},
             Create(p, name, type) \/ CreateAcrossFails(p, type)
      PROVE  NoneLeak /\ NoneOrphaned /\ Promise
  <2>1. CreateEnds(p, name, type)
    BY <1>3, CreateStep, CreateFailsStep DEF CreateAcrossFails
  <2> QED
    BY <2>1, CreateKeeps
<1>4. ASSUME NEW p \in Live \cap Named, NEW name \in Name, Unlink(p, name)
      PROVE  NoneLeak /\ NoneOrphaned /\ Promise
  BY <1>4, UnlinkStep, UnlinkKeeps
<1>5. ASSUME NEW i \in Live, inodes[i].type = FILE, Truncate(i)
      PROVE  NoneLeak /\ NoneOrphaned /\ Promise
  BY <1>5, TruncateKeeps
<1>6. ASSUME NEW i \in Live, inodes[i].type = FILE, NEW from \in Offsets,
             NEW n \in Lengths \ {0}, NEW v \in Value, from + n <= MaxSize,
             Write(i, from, n, v) \/ WriteFaults(i, from, n, v)
      PROVE  NoneLeak /\ NoneOrphaned /\ Promise
  <2>1. n \in Nat \ {0}
    BY BrFSAssumption
  <2> QED
    BY <1>6, <2>1, WriteKeeps, WriteFaultsKeeps
<1>7. ASSUME NEW i \in Live, inodes[i].type = FILE, NEW from \in Offsets,
             fs_inode_buf = inodes[i], WriteNothing(i, from)
      PROVE  NoneLeak /\ NoneOrphaned /\ Promise
  BY <1>7, WriteNothingKeeps
<1>8. CASE UNCHANGED disk
  BY <1>1, <1>8 DEF disk
<1> QED
  BY <1>2, <1>3, <1>4, <1>5, <1>6, <1>7, <1>8 DEF Calls

-----------------------------------------------------------------------------
(* The invariant: while the disk is not damaged, it is sound.              *)

IInv == damaged \in BOOLEAN /\ (~ damaged => Sound /\ FreeInodesBlank)

(* A step leaves the disk damaged, or it is a call that the lemmas above   *)
(* are about, made on a sound disk.                                        *)
LEMMA NextIs ==
  ASSUME IInv, [Next]_vars
  PROVE  /\ damaged' \in BOOLEAN
         /\ ~ damaged' => /\ Sound /\ FreeInodesBlank
                          /\ Calls \/ UNCHANGED disk
BY DEF IInv, Next, vars

LEMMA NextHolds ==
  ASSUME IInv, [Next]_vars
  PROVE  IInv'
<1>1. ASSUME ~ damaged' PROVE Sound' /\ FreeInodesBlank'
  BY <1>1, NextIs, CallsHold, BlankKept
<1> QED
  BY <1>1, NextIs DEF IInv

LEMMA NextKeeps ==
  ASSUME IInv, [Next]_vars, ~ damaged'
  PROVE  NoneLeak /\ NoneOrphaned /\ Promise
BY NextIs, CallsKeep

(* Every reachable disk is sound, or a call has damaged it.                *)
THEOREM Invariance == Spec => []IInv
<1>1. Init => IInv
  BY InitHolds, InitView DEF Init, IInv
<1>2. IInv /\ [Next]_vars => IInv'
  BY NextHolds
<1> QED
  BY <1>1, <1>2, PTL DEF Spec

(* Until a call damages it, the disk, the buffer and the count of free     *)
(* blocks keep their types: no call brings a size beyond the reach of the  *)
(* direct blocks, or a pointer beyond the disk.                            *)
THEOREM TypeCorrect == Spec => []TypeOK
<1>1. IInv => TypeOK
  BY DEF IInv, Sound, TypeOK
<1> QED
  BY <1>1, Invariance, PTL

(* Until a call damages the disk, fs_alloc_block never gives away a block  *)
(* that an inode holds, and no two pointers of the table are the same.     *)
THEOREM OneOwner == Spec => []BlocksHaveOneOwner
<1>1. IInv => BlocksHaveOneOwner
  BY DEF IInv, Sound, BlocksHaveOneOwner
<1> QED
  BY <1>1, Invariance, PTL

(* Until then fs_free_blocks counts the free blocks of the bitmap,         *)
(* whatever was created, rolled back, truncated, unlinked or cut short.    *)
THEOREM FreeCount == Spec => []FreeCountMatchesBitmap
<1>1. IInv => FreeCountMatchesBitmap
  BY DEF IInv, Sound, FreeCountMatchesBitmap
<1> QED
  BY <1>1, Invariance, PTL

(* Until then every directory is a gapless row of entries that starts with *)
(* "." and "..", or never got a block: unlink, which moves the last entry, *)
(* writes to files and new directories never leave another in between.     *)
THEOREM DirectoriesSound == Spec => []DirectoriesHoldEntries
<1>1. IInv => DirectoriesHoldEntries
  BY DEF IInv, Sound, DirectoriesHoldEntries
<1> QED
  BY <1>1, Invariance, PTL

(* Until then no entry names an inode that is free, or that another entry  *)
(* names, and ".." of a directory leads back to the one that names it.     *)
THEOREM NamesOnce == Spec => []EntriesNameOnce
<1>1. IInv => EntriesNameOnce
  BY DEF IInv, Sound, EntriesNameOnce
<1> QED
  BY <1>1, Invariance, PTL

(* No call that leaves the disk undamaged loses a block for ever unless    *)
(* its process dies in it: what a write takes it links, what a create      *)
(* takes is the new directory's and its parent's, and truncate and unlink  *)
(* give back all the inode had.                                            *)
THEOREM OnlyFaultsLose == Spec => OnlyFaultsLeak
<1>1. IInv /\ [Next]_vars => [damaged' \/ NoneLeak]_vars
  BY NextKeeps DEF vars
<1> QED
  BY <1>1, Invariance, PTL DEF Spec, OnlyFaultsLeak

(* No such call leaves an inode without a name unless its process dies in  *)
(* it or it creates under a regular file: unlink, which moves the last     *)
(* entry over the one it removes, drops no other name.                     *)
THEOREM NamesAreKept == Spec => OnlyFaultsOrphan
<1>1. IInv /\ [Next]_vars => [damaged' \/ NoneOrphaned]_vars
  BY NextKeeps DEF vars
<1> QED
  BY <1>1, Invariance, PTL DEF Spec, OnlyFaultsOrphan

(* BrFS implements Tree until a call damages it: every call does to the    *)
(* files and directories its callers see what Tree promises of it, or      *)
(* nothing.                                                                *)
THEOREM ImplementsTheTree == Spec => ImplementsTree
<1>1. Init => T!Init
  BY InitView
<1>2. IInv /\ [Next]_vars => (damaged' \/ T!Next) \/ UNCHANGED T!vars
  BY NextKeeps DEF Promise
<1> QED
  BY <1>1, <1>2, Invariance, PTL DEF Spec, ImplementsTree
=============================================================================
