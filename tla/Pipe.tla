-------------------------------- MODULE Pipe --------------------------------
(***************************************************************************)
(* The pipes of the BrowOS kernel (kernel/pipe.s) and the way read, write  *)
(* and close reach them (kernel/syscall.s): ring buffers in kernel memory, *)
(* named by global descriptor numbers 100, 101, ...                        *)
(*                                                                         *)
(* A call runs with interrupts off, so it is one action, unless a user     *)
(* address faults in the middle of its copy loop: then the process ends    *)
(* and what the loop had stored so far stays.                              *)
(***************************************************************************)
EXTENDS Integers, Sequences

CONSTANTS
  MaxPipes,      \* MAX_PIPES (8 in the code)
  PipeBufSize,   \* PIPE_BUF_SIZE (1024 in the code)
  Byte,          \* the bytes that callers write
  Data,          \* what callers write: sequences of bytes
  Counts,        \* how many bytes callers ask to read
  PointersFault  \* may a user pointer passed to a call fault

PipeId == 0 .. (MaxPipes - 1)
Offset == 0 .. (PipeBufSize - 1)
Nul == 0                              \* what .bss holds before any write

ASSUME PipeAssumption ==
  /\ MaxPipes \in Nat \ {0}
  /\ PipeBufSize \in Nat \ {0}
  /\ Byte \subseteq Nat
  /\ Data \subseteq Seq(Byte)
  /\ Counts \subseteq Int
  /\ PointersFault \in BOOLEAN

VARIABLES
  pipe_table,    \* the pipe structures
  pipe_buffers,  \* their buffers
  reply          \* what the last call returned, and wrote to user memory

vars == <<pipe_table, pipe_buffers, reply>>

(* Descriptors: two for each pipe, and the first two past the table.       *)
PIPE_FD_BASE == 100
Fd == PIPE_FD_BASE .. (PIPE_FD_BASE + 2 * MaxPipes + 1)
PipeOf(fd) == (fd - PIPE_FD_BASE) \div 2
IsWrite(fd) == (fd - PIPE_FD_BASE) % 2 = 1

PipeStruct == [state : {0, 1}, head : Offset, tail : Offset,
               count : 0 .. PipeBufSize,
               read_open : BOOLEAN, write_open : BOOLEAN]

TypeOK ==
  /\ pipe_table \in [PipeId -> PipeStruct]
  /\ pipe_buffers \in [PipeId -> [Offset -> Byte \cup {Nul}]]

-----------------------------------------------------------------------------
(* The ring.                                                               *)

Min2(a, b) == IF a < b THEN a ELSE b

(* Bug: the offset is not masked.                                          *)
NoWrap(i, k) == i + k

(* The offset k bytes after i, for k at most the size of the ring.         *)
Wrap(i, k) == IF i + k < PipeBufSize THEN i + k ELSE i + k - PipeBufSize

(* How many bytes after i the offset j lies.                               *)
Ahead(i, j) == IF i <= j THEN j - i ELSE j - i + PipeBufSize

(* buf after the first k bytes of data were stored from offset head on.    *)
Put(buf, head, data, k) ==
  [i \in Offset |-> IF Ahead(head, i) < k THEN data[Ahead(head, i) + 1] ELSE buf[i]]

(* The k bytes of buf from offset tail on.                                 *)
Take(buf, tail, k) == [i \in 1 .. k |-> buf[Wrap(tail, i - 1)]]

-----------------------------------------------------------------------------
(* The calls.                                                              *)

Returns(n, out) == reply' = [ret |-> n, out |-> out]
Killed == PointersFault /\ Returns(-2, <<>>)

Fresh(pipe) ==
  [state |-> 1, head |-> 0, tail |-> 0, count |-> 0,
   read_open |-> TRUE, write_open |-> TRUE]

FirstFree(p) ==
  /\ pipe_table[p].state = 0
  /\ \A q \in PipeId : pipe_table[q].state = 0 => p <= q

(* A pointer that faults on the first of the two stores leaves the pipe    *)
(* allocated, and nobody knows its descriptors.                            *)
SysPipe ==
  /\ \/ \E p \in PipeId :
          /\ FirstFree(p)
          /\ pipe_table' = [pipe_table EXCEPT ![p] = Fresh(@)]
          /\ Returns(0, <<PIPE_FD_BASE + 2 * p, PIPE_FD_BASE + 2 * p + 1>>) \/ Killed
     \/ /\ \A p \in PipeId : pipe_table[p].state # 0
        /\ Returns(-1, <<>>)
        /\ UNCHANGED pipe_table
  /\ UNCHANGED pipe_buffers

Active(p) == p \in PipeId /\ pipe_table[p].state # 0
Writable(p) == Active(p) /\ pipe_table[p].read_open

Room(p, data) == Min2(Len(data), PipeBufSize - pipe_table[p].count)

PipeWrite(p, data) ==
  LET n == Room(p, data)
  IN  /\ Writable(p)
      /\ pipe_buffers' = [pipe_buffers EXCEPT
           ![p] = Put(@, pipe_table[p].head, data, n)]
      /\ pipe_table' = [pipe_table EXCEPT ![p].head = Wrap(@, n),
                                          ![p].count = @ + n]
      /\ Returns(n, <<>>)

(* Bug: count is stored inside the copy loop.                              *)
PipeWriteFaultsCounted(p, data) ==
  /\ Writable(p)
  /\ \E k \in 0 .. (Room(p, data) - 1) :
       /\ pipe_buffers' = [pipe_buffers EXCEPT
            ![p] = Put(@, pipe_table[p].head, data, k)]
       /\ pipe_table' = [pipe_table EXCEPT ![p].head = Wrap(@, k),
                                           ![p].count = @ + k]
  /\ Killed

(* The source faults after k bytes: they are in the buffer, head and count *)
(* are not stored.                                                         *)
PipeWriteFaults(p, data) ==
  /\ Writable(p)
  /\ \E k \in 0 .. (Room(p, data) - 1) :
       pipe_buffers' = [pipe_buffers EXCEPT
         ![p] = Put(@, pipe_table[p].head, data, k)]
  /\ Killed
  /\ UNCHANGED pipe_table

SysWrite(fd, data) ==
  LET p == PipeOf(fd)
  IN  \/ PipeWrite(p, data)
      \/ PipeWriteFaults(p, data)
      \/ ~ Writable(p) /\ Returns(-1, <<>>) /\ UNCHANGED <<pipe_table, pipe_buffers>>

(* A negative count is less than the zero bytes read so far.               *)
Avail(p, n) == Min2(IF n < 0 THEN 0 ELSE n, pipe_table[p].count)

(* Bug: tail is left where it was.                                         *)
PipeReadKeepsTail(p, n) ==
  LET k == Avail(p, n)
  IN  /\ Active(p)
      /\ pipe_table' = [pipe_table EXCEPT ![p].count = @ - k]
      /\ Returns(k, Take(pipe_buffers[p], pipe_table[p].tail, k))

PipeRead(p, n) ==
  LET k == Avail(p, n)
  IN  /\ Active(p)
      /\ pipe_table' = [pipe_table EXCEPT ![p].tail = Wrap(@, k),
                                          ![p].count = @ - k]
      /\ Returns(k, Take(pipe_buffers[p], pipe_table[p].tail, k))

(* The destination faults: tail and count are not stored.                  *)
PipeReadFaults(p, n) ==
  /\ Active(p)
  /\ Avail(p, n) > 0
  /\ Killed
  /\ UNCHANGED pipe_table

SysRead(fd, n) ==
  LET p == PipeOf(fd)
  IN  /\ \/ PipeRead(p, n)
         \/ PipeReadFaults(p, n)
         \/ ~ Active(p) /\ Returns(-1, <<>>) /\ UNCHANGED pipe_table
      /\ UNCHANGED pipe_buffers

(* Bug: a pipe is freed with its read end, whatever the write end is.      *)
FreeIfUnread(pipe) == IF pipe.read_open THEN pipe ELSE [pipe EXCEPT !.state = 0]

FreeIfClosed(pipe) ==
  IF pipe.read_open \/ pipe.write_open THEN pipe ELSE [pipe EXCEPT !.state = 0]

(* pipe_close does not look at state: closing an end of a free pipe clears *)
(* its flag too.                                                           *)
PipeClose(p, is_write) ==
  pipe_table' = [pipe_table EXCEPT ![p] =
    FreeIfClosed(IF is_write THEN [@ EXCEPT !.write_open = FALSE]
                             ELSE [@ EXCEPT !.read_open = FALSE])]

SysClose(fd) ==
  /\ \/ PipeOf(fd) \in PipeId /\ PipeClose(PipeOf(fd), IsWrite(fd))
     \/ PipeOf(fd) \notin PipeId /\ UNCHANGED pipe_table
  /\ Returns(0, <<>>)
  /\ UNCHANGED pipe_buffers

(* pipe_init.                                                              *)
Init ==
  /\ pipe_table = [p \in PipeId |->
       [state |-> 0, head |-> 0, tail |-> 0, count |-> 0,
        read_open |-> FALSE, write_open |-> FALSE]]
  /\ pipe_buffers = [p \in PipeId |-> [i \in Offset |-> Nul]]
  /\ reply = [ret |-> 0, out |-> <<>>]

Next ==
  \/ SysPipe
  \/ \E fd \in Fd, data \in Data : SysWrite(fd, data)
  \/ \E fd \in Fd, n \in Counts : SysRead(fd, n)
  \/ \E fd \in Fd : SysClose(fd)

Spec == Init /\ [][Next]_vars

-----------------------------------------------------------------------------
(* Properties.                                                             *)

(* head, tail and count, which write, read and a faulting copy move        *)
(* separately, describe one and the same stretch of the ring.              *)
RingConsistent ==
  \A p \in PipeId :
    pipe_table[p].head = Wrap(pipe_table[p].tail, pipe_table[p].count)

(* A pipe is taken exactly as long as one of its ends is open: no pipe is  *)
(* freed under a reader or a writer, none stays taken with both ends shut. *)
TakenWhileOpen ==
  \A p \in PipeId :
    pipe_table[p].state # 0 <=> (pipe_table[p].read_open \/ pipe_table[p].write_open)

(***************************************************************************)
(* The ring buffers implement bounded first-in first-out channels: across  *)
(* wrap-around, partial writes, reuse of a slot and faults in the middle   *)
(* of a copy, every byte is read once, in order, by a reader of the        *)
(* channel it was written to.                                              *)
(***************************************************************************)
ChannelOf(pipe, buf) ==
  IF pipe.state = 0
    THEN [live |-> FALSE, read_open |-> FALSE, write_open |-> FALSE,
          queue |-> <<>>]
    ELSE [live |-> TRUE, read_open |-> pipe.read_open,
          write_open |-> pipe.write_open,
          queue |-> Take(buf, pipe.tail, pipe.count)]

ChanBar == [p \in PipeId |-> ChannelOf(pipe_table[p], pipe_buffers[p])]

Abstract == INSTANCE Channel WITH chan <- ChanBar, Capacity <- PipeBufSize
ImplementsChannels == Abstract!Spec

-----------------------------------------------------------------------------
(* What a comment says, and the code does not do.                          *)

(* pipe_close "closes one endpoint of a pipe": nothing enters a pipe whose *)
(* write end is closed, until the slot is allocated anew.                  *)
ClosedEndTakesNothing ==
  [][\A p \in PipeId :
       (Active(p) /\ ~ pipe_table[p].write_open /\ ~ pipe_table'[p].write_open)
         => pipe_table'[p].count <= pipe_table[p].count]_vars
=============================================================================
