-------------------------------- MODULE Mkfs --------------------------------
(***************************************************************************)
(* The disk image builder of tools/mkfs.js: operators on the state d of a    *)
(* BrfsBuilder.  Sizes count units of 32 bytes, the size of a directory entry; *)
(* a file is the name of its contents, and Unit(contents, x) is unit x of it.  *)
(***************************************************************************)
EXTENDS Integers, Sequences, FiniteSets, FiniteSetsExt

CONSTANTS
  TotalBlocks,     \* blocks of the disk: totalSectors / 8
  FirstData,       \* FIRST_DATA_BLOCK (6 in the code)
  NInodes,         \* MAX_INODES (128)
  MaxDirect,       \* pointers of an inode (12)
  UnitsPerBlock,   \* BLOCK_SIZE / 32 (128)
  Dot, DotDot,
  Zero             \* 32 zero bytes

ASSUME MkfsAssumption ==
  /\ FirstData \in Nat \ {0} /\ TotalBlocks \in Nat /\ TotalBlocks > FirstData
  /\ NInodes \in Nat \ {0} /\ MaxDirect \in Nat \ {0} /\ UnitsPerBlock \in Nat \ {0, 1, 2}

FILE == 1
DIR == 2
NoPointers == [k \in 0 .. MaxDirect - 1 |-> 0]

EmptyDisk == [superblock |-> <<>>, bitmap |-> {}, table |-> <<>>,
              data |-> [b \in FirstData .. TotalBlocks - 1 |->
                          [s \in 0 .. UnitsPerBlock - 1 |-> Zero]]]

New == [nextFreeBlock |-> FirstData, bitmap |-> 0 .. FirstData - 1, inodes |-> <<>>,
        rootDirBlock |-> <<>>, disk |-> EmptyDisk, failed |-> FALSE]

Throw(d) == [d EXCEPT !.failed = TRUE]

\* Mutant: the blocks are not marked.
AllocBlocksUnmarked(d, n) ==
  IF d.nextFreeBlock + n > TotalBlocks THEN Throw(d)
  ELSE [d EXCEPT !.nextFreeBlock = @ + n]

\* allocBlock, n times: the next block number, which is never given back.
AllocBlocks(d, n) ==
  IF d.nextFreeBlock + n > TotalBlocks THEN Throw(d)
  ELSE [d EXCEPT !.nextFreeBlock = @ + n,
                 !.bitmap = @ \cup (d.nextFreeBlock .. d.nextFreeBlock + n - 1)]

\* The pointers to the n blocks that AllocBlocks hands out next.
Pointers(d, n) ==
  [k \in DOMAIN NoPointers |-> IF k < n THEN d.nextFreeBlock + k ELSE 0]

AllocInode(d, inode) ==
  IF Len(d.inodes) = NInodes THEN Throw(d) ELSE [d EXCEPT !.inodes = Append(@, inode)]

Unit(contents, x) == [contents |-> contents, at |-> x]
Entry(ino, name) == [ino |-> ino, name |-> name]
Padded(units) ==
  [s \in 0 .. UnitsPerBlock - 1 |-> IF s < Len(units) THEN units[s + 1] ELSE Zero]

\* The constructor, and build up to the loop over the files.
MakeRoot ==
  LET root == [type |-> DIR, size |-> 2, nlinks |-> 2, direct |-> Pointers(New, 1)]
  IN [AllocBlocks(AllocInode(New, root), 1) EXCEPT
        !.rootDirBlock = <<Entry(0, Dot), Entry(0, DotDot)>>]

\* An entry that does not fit the root's one block is a RangeError.
AddEntry(d, ino, name) ==
  IF Len(d.rootDirBlock) = UnitsPerBlock THEN Throw(d)
  ELSE [d EXCEPT !.rootDirBlock = Append(@, Entry(ino, name)),
                 !.inodes[1].size = Len(d.rootDirBlock) + 1]

\* Blocks of a file: what the pointers do not reach is left out.
BlocksFor(size) == Min({(size + UnitsPerBlock - 1) \div UnitsPerBlock, MaxDirect})

WriteFile(d, f, n) ==
  [b \in DOMAIN d.disk.data |->
     LET from == (b - d.nextFreeBlock) * UnitsPerBlock
     IN IF b \in d.nextFreeBlock .. d.nextFreeBlock + n - 1
        THEN [s \in 0 .. UnitsPerBlock - 1 |->
                IF from + s < f.size THEN Unit(f.contents, from + s) ELSE Zero]
        ELSE d.disk.data[b]]

AddFile(d, f) ==
  LET ino == Len(d.inodes)
      n == BlocksFor(f.size)
      inode == [type |-> FILE, size |-> f.size, nlinks |-> 1, direct |-> Pointers(d, n)]
      made == AllocInode(d, inode)
      stored == AllocBlocks(made, n)
  IN IF made.failed \/ stored.failed THEN Throw(d)
     ELSE AddEntry([stored EXCEPT !.disk.data = WriteFile(d, f, n)], ino, f.name)

AddDir(d, name) ==
  LET ino == Len(d.inodes)
      inode == [type |-> DIR, size |-> 2, nlinks |-> 2, direct |-> Pointers(d, 1)]
      stored == AllocBlocks(AllocInode(d, inode), 1)
  IN IF stored.failed THEN Throw(d)
     ELSE AddEntry([stored EXCEPT !.disk.data[d.nextFreeBlock] =
                      Padded(<<Entry(ino, Dot), Entry(0, DotDot)>>)], ino, name)

\* The rest of build: the root's block, superblock, bitmap and inode table.
Close(d) ==
  [d EXCEPT !.disk.data[d.inodes[1].direct[0]] = Padded(d.rootDirBlock),
            !.disk.superblock = [blocks |-> TotalBlocks, inodes |-> NInodes,
                                 free |-> TotalBlocks - d.nextFreeBlock, first |-> FirstData],
            !.disk.bitmap = d.bitmap,
            !.disk.table = d.inodes]
=============================================================================
