-------------------------------- MODULE Tree --------------------------------
(***************************************************************************)
(* What a file system promises its callers: files whose text is what was   *)
(* written to them, and directories that name them.  There are no blocks,  *)
(* no bitmap, no order of entries and no buffers here.                     *)
(*                                                                         *)
(* Two weaknesses of the code are part of what a caller sees, and so of    *)
(* the promise: a name can be created under a regular file, which appends  *)
(* an entry to its text; and a call whose process dies half way may leave  *)
(* an inode without a name, or part of its text stored.                    *)
(***************************************************************************)
EXTENDS Integers

CONSTANTS Inode, Name, Value, Offsets, MaxSize, Zero, Hole

Root == 0
Free == 0
File == 1
Dir == 2
At == 0 .. (MaxSize - 1)
NoText == [x \in At |-> Hole]

VARIABLES
  kind,   \* of each inode: Free, File or Dir
  size,   \* of a file
  text,   \* of a file: what is stored at each place, or Hole
  names   \* of a directory: pairs of a name and an inode

vars == <<kind, size, text, names>>

Init ==
  /\ kind = [i \in Inode |-> IF i = Root THEN Dir ELSE Free]
  /\ size = [i \in Inode |-> 0]
  /\ text = [i \in Inode |-> NoText]
  /\ names = [i \in Inode |-> {}]

(* v is stored in i from one place up to another; what lies around it may  *)
(* turn from a hole into zeros, because space comes in blocks.             *)
Store(i, from, to, v) ==
  /\ \A j \in Inode \ {i} : text'[j] = text[j]
  /\ \A x \in At :
       IF from <= x /\ x < to THEN text'[i][x] = v
       ELSE \/ text'[i][x] = text[i][x]
            \/ text[i][x] = Hole /\ text'[i][x] = Zero

Enlarge(i, to) == size' = [size EXCEPT ![i] = IF @ < to THEN to ELSE @]

-----------------------------------------------------------------------------
Become(i, k) == kind' = [kind EXCEPT ![i] = k]

Create(p, n, i) ==
  /\ kind[p] = Dir
  /\ names' = [names EXCEPT ![p] = @ \cup {<<n, i>>}]
  /\ UNCHANGED <<size, text>>

CreateUnderFile(p, n, i) ==
  /\ kind[p] = File
  /\ Enlarge(p, size[p] + 1)
  /\ Store(p, size[p], size[p] + 1, [ino |-> i, name |-> n])
  /\ UNCHANGED names

CreateDies == UNCHANGED <<size, text, names>>

Unlink(p, n, i) ==
  /\ kind[p] = Dir /\ <<n, i>> \in names[p] /\ names[i] = {}
  /\ size' = [size EXCEPT ![i] = 0]
  /\ text' = [text EXCEPT ![i] = NoText]
  /\ names' = [names EXCEPT ![p] = @ \ {<<n, i>>}]

Truncate(i) ==
  /\ size' = [size EXCEPT ![i] = 0]
  /\ text' = [text EXCEPT ![i] = NoText]

(* A full disk stores a first part only.                                   *)
Write(i, from, to, v) == Enlarge(i, to) /\ Store(i, from, to, v)

(* The writer dies: what it stored over existing text stays.               *)
WriteDies(i, from, to, v) ==
  /\ UNCHANGED size
  /\ text' = [text EXCEPT ![i] =
       [x \in At |-> IF from <= x /\ x < to /\ @[x] # Hole THEN v ELSE @[x]]]

Next ==
  \E i \in Inode :
    \/ /\ kind[i] = Free
       /\ \/ Become(i, Dir) /\ CreateDies
          \/ /\ Become(i, File) \/ Become(i, Dir)
             /\ \E p \in Inode, n \in Name : Create(p, n, i) \/ CreateUnderFile(p, n, i)
    \/ /\ kind[i] # Free /\ Become(i, Free)
       /\ \E p \in Inode, n \in Name : Unlink(p, n, i)
    \/ /\ kind[i] = File /\ UNCHANGED <<kind, names>>
       /\ \/ Truncate(i)
          \/ \E from \in Offsets, v \in Value : \E to \in from .. MaxSize :
               Write(i, from, to, v) \/ WriteDies(i, from, to, v)

Spec == Init /\ [][Next]_vars
=============================================================================
