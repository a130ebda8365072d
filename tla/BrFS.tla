-------------------------------- MODULE BrFS --------------------------------
(***************************************************************************)
(* BrFS, the file system of the BrowOS kernel (kernel/fs.s), as the system *)
(* calls reach it: a bitmap of blocks, a table of inodes, directories kept *)
(* as files of entries, and one inode buffer that every call shares.       *)
(*                                                                         *)
(* A call runs with interrupts off and keeps nothing on the kernel stack   *)
(* of a process that waits, so it is one action; it is cut short only by a *)
(* bad address, which ends the calling process (ret = -2) and keeps what   *)
(* was stored so far.                                                      *)
(*                                                                         *)
(* Offsets and sizes count units of 32 bytes, the size of an entry; a      *)
(* place holds what the first byte of its unit belongs to.  A write starts *)
(* at a unit, but its last one may be short: the size of a file is rounded *)
(* up, and whether its last unit is full is left open.  Calls stay below   *)
(* MaxSize, the reach of the direct blocks, and nobody creates anything in *)
(* a working directory that has been removed.                              *)
(*                                                                         *)
(* Three things the code lets callers do store over what it keeps itself   *)
(* (Damages): a write of nothing while the buffer holds another inode, a   *)
(* create under a regular file whose entry runs over the end of            *)
(* fs_block_buf, and a write through a descriptor of what is, or has       *)
(* become, no regular file.  What a disk does after that depends on bytes  *)
(* the model does not have; it is followed up to the first of these calls, *)
(* that call included, and the properties speak of a disk not damaged yet. *)
(***************************************************************************)
EXTENDS Integers, FiniteSets, FiniteSetsExt

CONSTANTS
  NBlocks,         \* data blocks of the disk
  NInodes,         \* BRFS_MAX_INODES (128 in the code)
  MaxDirect,       \* BRFS_MAX_DIRECT (12 in the code)
  UnitsPerBlock,   \* BRFS_BLOCK_SIZE / 32 (128 in the code)
  Name,            \* names callers use: at most 27 bytes, never "", "." or ".."
  Value,           \* what callers write
  Offsets,         \* where a call writes
  Lengths,         \* how much a call writes
  Tails,           \* the words that can follow the end of fs_block_buf
  Dot, DotDot,     \* the names "." and ".."
  Zero,            \* 32 zero bytes
  Hole             \* a place of a file without a block

Block == 1 .. NBlocks      \* block 1 is the first after the inode table
Inode == 0 .. (NInodes - 1)
Direct == 0 .. (MaxDirect - 1)
Slot == 0 .. (UnitsPerBlock - 1)
MaxSize == MaxDirect * UnitsPerBlock
Root == 0
FREE == 0
FILE == 1                  \* BRFS_INODE_FILE
DIR == 2                   \* BRFS_INODE_DIR

ASSUME BrFSAssumption ==
  /\ NBlocks \in Nat \ {0}
  /\ NInodes \in Nat \ {0}
  /\ MaxDirect \in Nat \ {0}
  /\ UnitsPerBlock \in Nat \ {0, 1, 2}
  /\ Offsets \subseteq 0 .. (MaxSize - 1)
  /\ Lengths \subseteq Nat
  /\ {Dot, DotDot} \cap Name = {} /\ Dot # DotDot

(* The part of an entry that runs over the end of fs_block_buf, in words:  *)
(* of the number of the new inode, or of its name.                         *)
ASSUME TailsAssumption ==
  \A tail \in Tails : \E n \in 1 .. 8 : tail \in [1 .. n -> Nat]

VARIABLES
  bitmap,        \* block 1 of the disk: the blocks in use
  fs_free_blocks,
  inodes,        \* blocks 2 to 5: the inode table
  blocks,        \* the contents of the data blocks
  fs_inode_buf,  \* the inode read or written last
  ret,           \* of the last call: 0, -1 if it failed, -2 if its process died
  damaged        \* history: has a call stored over what is not the caller's

disk == <<bitmap, fs_free_blocks, inodes, blocks, fs_inode_buf, ret>>
vars == <<disk, damaged>>

Entry == [ino : Inode, name : Name \cup {Dot, DotDot}]
INodeStruct == [type : {FREE, FILE, DIR}, size : 0 .. MaxSize,
                direct : [Direct -> Block \cup {-1, 0}]]
NoBlocks == [k \in Direct |-> 0]
Zeroed == [type |-> FREE, size |-> 0, direct |-> NoBlocks]

(* A hole is told from what a place can hold; callers write something.     *)
ASSUME ValueAssumption == Value # {} /\ Hole \notin Entry \cup Value \cup {Zero}

Typed ==
  /\ bitmap \in [Block -> BOOLEAN]
  /\ fs_free_blocks \in Int
  /\ inodes \in [Inode -> INodeStruct]
  /\ blocks \in [Block -> [Slot -> Entry \cup Value \cup {Zero}]]
  /\ fs_inode_buf \in INodeStruct
  /\ ret \in {0, -1, -2}

TypeOK == damaged \in BOOLEAN /\ (~ damaged => Typed)

-----------------------------------------------------------------------------
(* Blocks.                                                                 *)

Index(x) == x \div UnitsPerBlock     \* the pointer a place is reached by
Within(x) == x % UnitsPerBlock       \* and its slot in that block

FreeBlocks == {b \in Block : ~ bitmap[b]}

(* Bug: the scan of a full bitmap stops one block too late.                *)
ScanTooFar(free) == IF free = {} THEN NBlocks + 1 ELSE Min(free)

(* fs_alloc_block with these blocks free: the lowest, or -1.               *)
Lowest(free) == IF free = {} THEN -1 ELSE Min(free)

(* fs_alloc_block called for each of ks in turn: lower block numbers first.*)
Allocations(ks) ==
  {f \in [ks -> FreeBlocks] :
     /\ \A j, k \in ks : j < k => f[j] < f[k]
     /\ \A b \in FreeBlocks : b \in Range(f) \/ \A k \in ks : f[k] < b}

(* Bug: the number of free blocks is not brought down.                     *)
TakeUncounted(bs) ==
  /\ bitmap' = [b \in Block |-> bitmap[b] \/ b \in bs]
  /\ UNCHANGED fs_free_blocks

Take(bs) ==
  /\ bitmap' = [b \in Block |-> bitmap[b] \/ b \in bs]
  /\ fs_free_blocks' = fs_free_blocks - Cardinality(bs)

Give(bs) ==
  /\ bitmap' = [b \in Block |-> bitmap[b] /\ b \notin bs]
  /\ fs_free_blocks' = fs_free_blocks + Cardinality(bs)

(* Bug: the loop over the pointers stops one short.                        *)
AllBlocksButLast(i) == {inodes[i].direct[k] : k \in Direct \ {MaxDirect - 1}} \ {0}

BlocksOf(i) == {inodes[i].direct[k] : k \in Direct} \ {0}

(* fs_bmap without create.                                                 *)
BlockAt(node, x) == node.direct[Index(x)]

(* Bug: the blocks taken keep what they held.                              *)
StoreUnzeroed(node, from, to, v, taken) ==
  [b \in Block |-> [s \in Slot |->
     IF \E x \in from .. (to - 1) :
          BlockAt(node, x) = b /\ Within(x) = s
     THEN v ELSE blocks[b][s]]]

(* What the blocks hold once v is stored in node from one place up to      *)
(* another, blocks taken for it being zero-filled first.                   *)
Store(node, from, to, v, taken) ==
  [b \in Block |-> [s \in Slot |->
     IF \E x \in from .. (to - 1) :
          BlockAt(node, x) = b /\ Within(x) = s
     THEN v
     ELSE IF b \in taken THEN Zero ELSE blocks[b][s]]]

-----------------------------------------------------------------------------
(* Directories.                                                            *)

(* The entries the loops over a directory visit; they end at a block that  *)
(* is missing or failed.                                                   *)
Visited(d) ==
  {x \in 0 .. (inodes[d].size - 1) :
     \A y \in 0 .. x : BlockAt(inodes[d], y) \in Block}

EntryAt(d, x) == blocks[BlockAt(inodes[d], x)][Within(x)]

(* Bug: the last entry is sought two entries before the end.               *)
EntryBeforeLast(d) == EntryAt(d, inodes[d].size - 2)

LastEntry(d) == EntryAt(d, inodes[d].size - 1)

(* fs_lookup: the first entry with this name.                              *)
Found(d, name) ==
  {x \in Visited(d) : inodes[d].type = DIR /\ EntryAt(d, x).name = name}

(* Bug: the first entry after ".." is skipped too.                         *)
EmptyButOne(d) == \A x \in Visited(d) : x >= 3 => EntryAt(d, x).ino = Root

fs_dir_empty(d) == \A x \in Visited(d) : x >= 2 => EntryAt(d, x).ino = Root

-----------------------------------------------------------------------------
(* The inodes in use, and those a path leads to: fs_resolve goes from one  *)
(* directory to the next, so what is named in a regular file is not found. *)
Live == {i \in Inode : inodes[i].type # FREE}
Directories == {d \in Live : inodes[d].type = DIR}
Entries(d) == {x \in Visited(d) : x >= 2}
Named == {Root} \cup UNION {{EntryAt(d, x).ino : x \in Entries(d)} : d \in Directories}
Orphans == Live \ Named

-----------------------------------------------------------------------------
(* The calls.                                                              *)

Killed == ret' = -2

(* Calls that only read: fs_lookup, fs_resolve, fs_read, fs_dir_name_of,   *)
(* stat, lseek.  They leave in the buffer an inode they met on the way.    *)
Read(i) ==
  /\ fs_inode_buf' = inodes[i]
  /\ ret' = 0
  /\ UNCHANGED <<bitmap, fs_free_blocks, inodes, blocks>>

(* Bug: child and parent are mixed up.                                     *)
DotsSwapped(i, p) ==
  [s \in Slot |-> IF s = 0 THEN [ino |-> p, name |-> Dot]
                  ELSE IF s = 1 THEN [ino |-> i, name |-> DotDot] ELSE Zero]

Dots(i, p) ==
  [s \in Slot |-> IF s = 0 THEN [ino |-> i, name |-> Dot]
                  ELSE IF s = 1 THEN [ino |-> p, name |-> DotDot] ELSE Zero]

(* A new inode of this type: a directory comes with a block of its own.    *)
Own(type) == IF type = DIR THEN Lowest(FreeBlocks) ELSE 0
Child(type) == [type |-> type, size |-> IF type = DIR THEN 2 ELSE 0,
                direct |-> [NoBlocks EXCEPT ![0] = Own(type)]]
Made(i, p, type) ==
  [c \in Block |-> IF c = Own(type) THEN Dots(i, p) ELSE blocks[c]]

(* The block that takes an entry stored at this place of p, or -1.         *)
EntryBlock(p, x, type) ==
  LET at == BlockAt(inodes[p], x)
  IN IF at = 0 THEN Lowest(FreeBlocks \ {Own(type)}) ELSE at

(* fs_create without an inode to give, or without a block for the entry.   *)
(* What was taken is given back, but a directory that got no block of its  *)
(* own cannot be: freeing block -1 faults.                                 *)
CreateFails(p, type) ==
  LET unused == Inode \ Live
      i == Min(unused)
  IN \/ /\ unused = {}
        /\ fs_inode_buf' = inodes[NInodes - 1]
        /\ ret' = -1
        /\ UNCHANGED <<bitmap, fs_free_blocks, inodes, blocks>>
     \/ /\ unused # {} /\ Own(type) # -1
        /\ blocks' = Made(i, p, type)
        /\ fs_inode_buf' = Zeroed
        /\ ret' = -1
        /\ UNCHANGED <<bitmap, fs_free_blocks, inodes>>
     \/ /\ unused # {} /\ Own(type) = -1
        /\ inodes' = [inodes EXCEPT ![i] = Child(type)]
        /\ fs_inode_buf' = Child(type)
        /\ Killed
        /\ UNCHANGED <<bitmap, fs_free_blocks, blocks>>

(* fs_create.  The type of p is not looked at, nor whether it has the name *)
(* already.                                                                *)
Create(p, name, type) ==
  LET unused == Inode \ Live
      i == Min(unused)
      size == inodes[p].size
      at == BlockAt(inodes[p], size)
      b == EntryBlock(p, size, type)
      parent == [inodes[p] EXCEPT !.size = size + 1,
                                  !.direct[Index(size)] = b]
      added == [Made(i, p, type) EXCEPT ![b] =
        [s \in Slot |-> IF s = Within(size) THEN [ino |-> i, name |-> name]
                        ELSE IF at = 0 THEN Zero ELSE Made(i, p, type)[b][s]]]
  IN /\ size < MaxSize
     /\ \/ /\ unused = {} \/ b = -1
           /\ CreateFails(p, type)
        \/ /\ unused # {} /\ b # -1
           /\ Take(({Own(type)} \cup IF at = 0 THEN {b} ELSE {}) \cap Block)
           /\ inodes' = [inodes EXCEPT ![i] = Child(type), ![p] = parent]
           /\ blocks' = added
           /\ fs_inode_buf' = parent
           /\ ret' = 0

(* What the tail makes of the inode it falls on: type, size, nlinks and    *)
(* direct[0] come first, and fs_dir_add counts on from the size it finds.  *)
Overrun(node, tail) ==
  LET Word(j, old) == IF j \in DOMAIN tail THEN tail[j] ELSE old
  IN [type |-> Word(1, node.type), size |-> Word(2, node.size) + 1,
      direct |-> [k \in Direct |-> Word(k + 4, node.direct[k])]]

(* A regular file may end within the last unit of a block.  An entry added *)
(* to it starts in that unit and ends in fs_inode_buf, which follows       *)
(* fs_block_buf and is then stored as the inode of the parent.             *)
EndsInLastUnit(p) ==
  /\ inodes[p].type = FILE /\ inodes[p].size > 0
  /\ Within(inodes[p].size - 1) = UnitsPerBlock - 1

CreateAcross(p, type) ==
  LET unused == Inode \ Live
      i == Min(unused)
      last == inodes[p].size - 1
      at == BlockAt(inodes[p], last)
      b == EntryBlock(p, last, type)
      linked == [inodes[p] EXCEPT !.direct[Index(last)] = b]
  IN /\ EndsInLastUnit(p) /\ unused # {} /\ b # -1
     /\ Take(({Own(type)} \cup IF at = 0 THEN {b} ELSE {}) \cap Block)
     /\ \E tail \in Tails :
          /\ inodes' = [inodes EXCEPT ![i] = Child(type), ![p] = Overrun(linked, tail)]
          /\ fs_inode_buf' = Overrun(linked, tail)
     /\ blocks' = [c \in Block |-> IF c = b /\ at = 0 THEN [s \in Slot |-> Zero]
                                   ELSE Made(i, p, type)[c]]
     /\ ret' = 0

CreateAcrossFails(p, type) ==
  /\ EndsInLastUnit(p)
  /\ Live = Inode \/ EntryBlock(p, inodes[p].size - 1, type) = -1
  /\ CreateFails(p, type)

(* fs_unlink: the child goes first, then its entry, whose place the last   *)
(* entry takes.  The entry is sought by inode, not by name.                *)
Unlink(p, name) ==
  LET found == Found(p, name)
      child == EntryAt(p, Min(found)).ino
      place == Min({x \in Visited(p) : EntryAt(p, x).ino = child})
      last == inodes[p].size - 1
      parent == [inodes[p] EXCEPT !.size = last]
  IN \/ /\ found = {}
        /\ fs_inode_buf' = inodes[p]
        /\ ret' = -1
        /\ UNCHANGED <<bitmap, fs_free_blocks, inodes, blocks>>
     \/ /\ found # {} /\ inodes[child].type = DIR /\ ~ fs_dir_empty(child)
        /\ fs_inode_buf' = inodes[child]
        /\ ret' = -1
        /\ UNCHANGED <<bitmap, fs_free_blocks, inodes, blocks>>
     \/ /\ found # {} /\ (inodes[child].type = DIR => fs_dir_empty(child))
        /\ -1 \in BlocksOf(child)
        /\ fs_inode_buf' = inodes[child]
        /\ Killed
        /\ UNCHANGED <<bitmap, fs_free_blocks, inodes, blocks>>
     \/ /\ found # {} /\ (inodes[child].type = DIR => fs_dir_empty(child))
        /\ -1 \notin BlocksOf(child)
        /\ Give(BlocksOf(child))
        /\ inodes' = [inodes EXCEPT ![child] = Zeroed, ![p] = parent]
        /\ blocks' = [blocks EXCEPT ![BlockAt(inodes[p], place)]
                                     [Within(place)] = LastEntry(p)]
        /\ fs_inode_buf' = parent
        /\ ret' = 0

(* Bug: the pointers to the freed blocks are kept.                         *)
TruncateKeepsPointers(i) ==
  LET node == [inodes[i] EXCEPT !.size = 0]
  IN /\ Give(BlocksOf(i))
     /\ inodes' = [inodes EXCEPT ![i] = node]
     /\ fs_inode_buf' = node
     /\ ret' = 0
     /\ UNCHANGED blocks

(* fs_truncate, as open with O_TRUNC calls it.                             *)
Truncate(i) ==
  LET node == [inodes[i] EXCEPT !.size = 0, !.direct = NoBlocks]
  IN /\ Give(BlocksOf(i))
     /\ inodes' = [inodes EXCEPT ![i] = node]
     /\ fs_inode_buf' = node
     /\ ret' = 0
     /\ UNCHANGED blocks

(* The blocks a write must find, one for each of the indexes it touches    *)
(* and the file lacks, and those of them it gets: as many as the disk has, *)
(* up to a pointer that failed.                                            *)
Touched(from, n) == Index(from) .. Index(from + n - 1)
Missing(i, from, n) == {k \in Touched(from, n) : inodes[i].direct[k] \in {0, -1}}
Granted(i, from, n) ==
  {k \in Missing(i, from, n) :
     LET before == {j \in Missing(i, from, n) : j <= k}
     IN /\ \A j \in before : inodes[i].direct[j] = 0
        /\ Cardinality(before) <= Cardinality(FreeBlocks)}
Denied(i, from, n) == Missing(i, from, n) \ Granted(i, from, n)

WithBlocks(node, f) ==
  [node EXCEPT !.direct = [k \in Direct |-> IF k \in DOMAIN f THEN f[k] ELSE @[k]]]

AtLeast(node, size) == [node EXCEPT !.size = Max({@, size})]

(* fs_write of n > 0 units: it stops at the first block the disk lacks.    *)
Write(i, from, n, v) ==
  LET denied == Denied(i, from, n)
      end == IF denied = {} THEN from + n
             ELSE Max({from, Min(denied) * UnitsPerBlock})
  IN \E f \in Allocations(Granted(i, from, n)) :
       LET node == AtLeast(WithBlocks(inodes[i], f), end)
       IN /\ Take(Range(f))
          /\ inodes' = [inodes EXCEPT ![i] = node]
          /\ blocks' = Store(node, from, end, v, Range(f))
          /\ fs_inode_buf' = node
          /\ ret' = 0

(* The source faults while block k is filled: what was stored before stays,*)
(* the inode is not written, and its new blocks stay marked.               *)
WriteFaults(i, from, n, v) ==
  \E k \in Touched(from, n) :
    /\ \A j \in Denied(i, from, n) : k < j
    /\ \E f \in Allocations({j \in Granted(i, from, n) : j <= k}) :
         LET node == WithBlocks(inodes[i], f)
         IN /\ Take(Range(f))
            /\ blocks' = Store(node, from, Max({from, k * UnitsPerBlock}), v, Range(f))
            /\ fs_inode_buf' = node
            /\ Killed
            /\ UNCHANGED inodes

(* fs_write of nothing skips reading the inode and stores the buffer.      *)
WriteNothing(i, from) ==
  LET node == AtLeast(fs_inode_buf, from)
  IN /\ inodes' = [inodes EXCEPT ![i] = node]
     /\ fs_inode_buf' = node
     /\ ret' = 0
     /\ UNCHANGED <<bitmap, fs_free_blocks, blocks>>

(* The disk mkfs makes of no files (a boot mounts it as it is).            *)
Init ==
  /\ bitmap = [b \in Block |-> b = 1]
  /\ fs_free_blocks = NBlocks - 1
  /\ inodes = [i \in Inode |-> IF i = Root
                 THEN [type |-> DIR, size |-> 2, direct |-> [NoBlocks EXCEPT ![0] = 1]]
                 ELSE Zeroed]
  /\ blocks = [b \in Block |->
                 IF b = 1 THEN Dots(Root, Root) ELSE [s \in Slot |-> Zero]]
  /\ fs_inode_buf = Zeroed
  /\ ret = 0
  /\ damaged = FALSE

(* Calls that store where they should.                                     *)
Calls ==
  \/ \E i \in Inode : Read(i)
  \/ \E p \in Live \cap Named, name \in Name :
       \/ \E type \in {FILE, DIR} : Create(p, name, type) \/ CreateAcrossFails(p, type)
       \/ Unlink(p, name)
  \/ \E i \in Live :
       /\ inodes[i].type = FILE
       /\ \/ Truncate(i)
          \/ \E from \in Offsets :
               \/ \E n \in Lengths \ {0}, v \in Value :
                    /\ from + n <= MaxSize
                    /\ Write(i, from, n, v) \/ WriteFaults(i, from, n, v)
               \/ /\ 0 \in Lengths
                  /\ fs_inode_buf = inodes[i]
                  /\ WriteNothing(i, from)

(* Calls that do not.                                                      *)
Damages ==
  \/ \E p \in Live \cap Named, type \in {FILE, DIR} : CreateAcross(p, type)
  \/ \E i \in Inode, from \in Offsets :
       \/ /\ 0 \in Lengths
          /\ inodes[i].type # FILE \/ fs_inode_buf # inodes[i]
          /\ WriteNothing(i, from)
       \/ /\ inodes[i].type # FILE
          /\ \E n \in Lengths \ {0}, v \in Value :
               /\ from + n <= MaxSize
               /\ Write(i, from, n, v) \/ WriteFaults(i, from, n, v)

Next ==
  \/ ~ damaged /\ Calls /\ damaged' = FALSE
  \/ ~ damaged /\ Damages /\ damaged' = TRUE
  \/ damaged /\ UNCHANGED vars

Spec == Init /\ [][Next]_vars

-----------------------------------------------------------------------------
(* What must hold, of a disk that is not damaged.                          *)

(* No block belongs to two inodes, or twice to one, and what belongs to an *)
(* inode is marked in the bitmap: fs_alloc_block never hands out a block   *)
(* that somebody's text or directory lives in.                             *)
OwnersDiffer ==
  \A i, j \in Inode, k, l \in Direct :
    LET b == inodes[i].direct[k]
    IN b \in Block => /\ bitmap[b]
                      /\ inodes[j].direct[l] = b => i = j /\ k = l
BlocksHaveOneOwner == ~ damaged => OwnersDiffer

(* fs_free_blocks is the number of blocks the bitmap has free.             *)
CountIsRight == fs_free_blocks = Cardinality(FreeBlocks)
FreeCountMatchesBitmap == ~ damaged => CountIsRight

(* A directory is a row of entries without gaps, itself first and ".."     *)
(* second.  The exception is one made when the disk was full: it has no    *)
(* block, and nothing is ever added to it.                                 *)
Whole(d) ==
  /\ \A x \in 0 .. (inodes[d].size - 1) :
       BlockAt(inodes[d], x) \in Block /\ EntryAt(d, x) \in Entry
  /\ EntryAt(d, 0) = [ino |-> d, name |-> Dot]
  /\ EntryAt(d, 1).name = DotDot
  /\ -1 \notin BlocksOf(d)
Blockless(d) == inodes[d].size = 2 /\ inodes[d].direct = [NoBlocks EXCEPT ![0] = -1]
DirectoriesWhole ==
  \A d \in Directories : inodes[d].size >= 2 /\ (Whole(d) \/ Blockless(d))
DirectoriesHoldEntries == ~ damaged => DirectoriesWhole

(* An entry of a directory, beyond "." and "..", names an inode in use     *)
(* that no other entry names, and ".." of a directory leads back to the    *)
(* directory that names it, which is how getcwd finds its way.             *)
NamedOnce ==
  \A d \in Directories : \A x \in Entries(d) :
    LET i == EntryAt(d, x).ino
    IN /\ i \in Live \ {Root}
       /\ \A e \in Directories : \A y \in Entries(e) :
            EntryAt(e, y).ino = i => e = d /\ y = x
       /\ inodes[i].type = DIR /\ 1 \in Visited(i) => EntryAt(i, 1).ino = d
EntriesNameOnce == ~ damaged => NamedOnce

(* A block that is marked and belongs to nobody is lost for ever.  Only a  *)
(* call whose process dies in the middle loses one: full disks, failed     *)
(* creates and their rollback do not.                                      *)
Leaked == {b \in Block : bitmap[b] /\ \A i \in Inode : b \notin BlocksOf(i)}
NoneLeak == Leaked' \subseteq Leaked \/ ret' = -2
OnlyFaultsLeak == [][damaged' \/ NoneLeak]_vars

(* An inode in use comes to be without a name only when its creator dies,  *)
(* or when the name was created under a regular file.                      *)
NoneOrphaned ==
  \A i \in Orphans' \ Orphans :
    \/ ret' = -2
    \/ \E f \in Live \ Directories :
         inodes'[f].size > inodes[f].size /\ LastEntry(f)'.ino = i
OnlyFaultsOrphan == [][damaged' \/ NoneOrphaned]_vars

(* The calls keep the promise of Tree: a call changes the text of the file *)
(* it is given and no other, what is read is what was written whatever was *)
(* truncated, unlinked and allocated since, and removing one entry of a    *)
(* directory keeps the others.                                             *)
Text(i) ==
  [x \in 0 .. (MaxSize - 1) |->
     IF inodes[i].type = FILE /\ BlockAt(inodes[i], x) \in Block
     THEN EntryAt(i, x) ELSE Hole]
NamesIn(d) == {<<EntryAt(d, x).name, EntryAt(d, x).ino>> : x \in Entries(d)}

Kinds == [i \in Inode |-> inodes[i].type]
Sizes == [i \in Inode |-> IF inodes[i].type = FILE THEN inodes[i].size ELSE 0]
Texts == [i \in Inode |-> Text(i)]
NameSets == [i \in Inode |-> IF i \in Directories THEN NamesIn(i) ELSE {}]

T == INSTANCE Tree WITH kind <- Kinds, size <- Sizes, text <- Texts, names <- NameSets

ImplementsTree == T!Init /\ [][damaged' \/ T!Next]_T!vars

(* What a write of nothing does to the inode is at most to enlarge it.     *)
WriteUpdatesSizeOnly ==
  [][\A i \in Live \ Directories, from \in Offsets :
       WriteNothing(i, from) => inodes'[i] = AtLeast(inodes[i], from)]_vars
=============================================================================
