------------------------------ MODULE Channel ------------------------------
(***************************************************************************)
(* What the pipe subsystem promises its callers: a fixed number of byte    *)
(* channels, each a first-in first-out queue of bounded capacity with a    *)
(* read end and a write end, and an answer to every call.                  *)
(*                                                                         *)
(* A call never blocks.  A write takes the longest prefix that fits, a     *)
(* read the longest prefix that is there, and a call whose user pointer    *)
(* faults ends its process and leaves the bytes in the channel alone.      *)
(***************************************************************************)
EXTENDS Integers, Sequences

CONSTANTS
  PipeId,      \* the channels
  Capacity,    \* how many bytes one channel holds
  Data,        \* what callers write: sequences of bytes
  Counts       \* how many bytes callers ask to read

VARIABLES
  chan,        \* what is in each channel, and which of its ends are open
  reply        \* what the last call returned and put in user memory

Least(a, b) == IF a < b THEN a ELSE b

Dead == [live |-> FALSE, read_open |-> FALSE, write_open |-> FALSE,
         queue |-> <<>>]
New == [live |-> TRUE, read_open |-> TRUE, write_open |-> TRUE,
        queue |-> <<>>]

Returns(n, out) == reply' = [ret |-> n, out |-> out]
Fails == Returns(-1, <<>>)
Killed == Returns(-2, <<>>)      \* the process ends, proc_exit(-2)

Init ==
  /\ chan = [p \in PipeId |-> Dead]
  /\ reply = [ret |-> 0, out |-> <<>>]

Open(p) ==
  /\ ~ chan[p].live
  /\ chan' = [chan EXCEPT ![p] = New]
  /\ Returns(0, <<100 + 2 * p, 101 + 2 * p>>) \/ Killed

OpenFails ==
  /\ \A p \in PipeId : chan[p].live
  /\ Fails
  /\ UNCHANGED chan

Write(p, data) ==
  LET queue == chan[p].queue
      taken == Least(Len(data), Capacity - Len(queue))
  IN  /\ chan[p].live
      /\ chan[p].read_open
      /\ \/ /\ chan' = [chan EXCEPT ![p].queue = queue \o SubSeq(data, 1, taken)]
            /\ Returns(taken, <<>>)
         \/ taken > 0 /\ Killed /\ UNCHANGED chan

Read(p, n) ==
  LET queue == chan[p].queue
      taken == Least(IF n < 0 THEN 0 ELSE n, Len(queue))
  IN  /\ chan[p].live
      /\ \/ /\ chan' = [chan EXCEPT ![p].queue = SubSeq(queue, taken + 1, Len(queue))]
            /\ Returns(taken, SubSeq(queue, 1, taken))
         \/ taken > 0 /\ Killed /\ UNCHANGED chan

(* A write to a channel that is not there, or that nobody can read, or a   *)
(* read of one that is not there.                                          *)
BadWrite(p) == ~ (chan[p].live /\ chan[p].read_open)
BadRead(p) == ~ chan[p].live

Refuse ==
  /\ Fails
  /\ UNCHANGED chan

(* A channel both of whose ends are closed is gone, with what is in it.    *)
Close(p, end) ==
  LET left == [chan[p] EXCEPT ![end] = FALSE]
  IN  /\ end \in {"read_open", "write_open"}
      /\ chan' = [chan EXCEPT ![p] =
                    IF left.read_open \/ left.write_open THEN left ELSE Dead]
      /\ Returns(0, <<>>)

CloseNothing ==
  /\ Returns(0, <<>>)
  /\ UNCHANGED chan

Next ==
  \/ \E p \in PipeId : Open(p)
  \/ OpenFails
  \/ \E p \in PipeId, data \in Data : Write(p, data)
  \/ \E p \in PipeId, n \in Counts : Read(p, n)
  \/ Refuse
  \/ \E p \in PipeId, end \in {"read_open", "write_open"} : Close(p, end)
  \/ CloseNothing

Spec == Init /\ [][Next]_<<chan, reply>>
=============================================================================
