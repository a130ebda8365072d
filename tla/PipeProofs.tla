----------------------------- MODULE PipeProofs -----------------------------
(***************************************************************************)
(* Proofs about the pipes, for any number of pipes and any size of ring:   *)
(* the invariants of the ring buffers, and that they implement the         *)
(* first-in first-out channels of module Channel.                          *)
(***************************************************************************)
EXTENDS Pipe, SequenceTheorems, TLAPS

Val == Byte \cup {Nul}
Buffer == [Offset -> Val]

-----------------------------------------------------------------------------
(* The ring.                                                               *)

(* A step of at most one turn stays on the ring.                           *)
LEMMA WrapType ==
  ASSUME NEW i \in Offset, NEW k \in 0 .. PipeBufSize
  PROVE  Wrap(i, k) \in Offset
BY PipeAssumption DEF Wrap, Offset

(* Two steps that are together at most one turn are one step.              *)
LEMMA WrapWrap ==
  ASSUME NEW i \in Offset, NEW j \in Nat, NEW k \in Nat, j + k <= PipeBufSize
  PROVE  Wrap(Wrap(i, j), k) = Wrap(i, j + k)
BY PipeAssumption DEF Wrap, Offset

(* Ahead undoes a step of less than one turn.                              *)
LEMMA AheadWrap ==
  ASSUME NEW i \in Offset, NEW k \in Nat, k < PipeBufSize
  PROVE  Ahead(i, Wrap(i, k)) = k
BY PipeAssumption DEF Wrap, Ahead, Offset

LEMMA AheadType ==
  ASSUME NEW i \in Offset, NEW j \in Offset
  PROVE  Ahead(i, j) \in Nat
BY PipeAssumption DEF Ahead, Offset

(* Storing part of what a caller writes leaves a buffer.                   *)
LEMMA PutType ==
  ASSUME NEW buf \in Buffer, NEW head \in Offset, NEW data \in Seq(Byte),
         NEW k \in 0 .. Len(data)
  PROVE  Put(buf, head, data, k) \in Buffer
<1>1. ASSUME NEW i \in Offset
      PROVE  (IF Ahead(head, i) < k THEN data[Ahead(head, i) + 1] ELSE buf[i]) \in Val
  <2>1. Ahead(head, i) \in Nat
    BY AheadType
  <2>2. Len(data) \in Nat
    BY LenProperties
  <2>3. CASE Ahead(head, i) < k
    <3>1. Ahead(head, i) + 1 \in 1 .. Len(data)
      BY <2>1, <2>2, <2>3
    <3>2. data[Ahead(head, i) + 1] \in Byte
      BY <3>1, ElementOfSeq
    <3>. QED
      BY <2>3, <3>2 DEF Val
  <2>4. CASE ~ (Ahead(head, i) < k)
    BY <2>4 DEF Buffer
  <2>. QED
    BY <2>3, <2>4
<1>. QED
  BY <1>1 DEF Put, Buffer

-----------------------------------------------------------------------------
(* What is in a ring: the bytes from tail on.                              *)

LEMMA TakeProperties ==
  ASSUME NEW buf \in Buffer, NEW tail \in Offset, NEW k \in 0 .. PipeBufSize
  PROVE  /\ Take(buf, tail, k) \in Seq(Val)
         /\ Len(Take(buf, tail, k)) = k
         /\ \A i \in 1 .. k : Take(buf, tail, k)[i] = buf[Wrap(tail, i - 1)]
<1>1. k \in Nat
  BY PipeAssumption
<1>2. ASSUME NEW i \in 1 .. k PROVE buf[Wrap(tail, i - 1)] \in Val
  <2>1. i - 1 \in 0 .. PipeBufSize
    BY <1>1, PipeAssumption
  <2>. QED
    BY <2>1, WrapType DEF Buffer
<1>3. Take(buf, tail, k) \in [1 .. k -> Val]
  BY <1>2 DEF Take
<1>4. Take(buf, tail, k) \in Seq(Val)
  BY <1>1, <1>3, SeqDef
<1>5. Len(Take(buf, tail, k)) = k
  BY <1>1, <1>3, <1>4, LenProperties
<1>. QED
  BY <1>4, <1>5 DEF Take

(* What is read first is a prefix of what is there.                        *)
LEMMA TakePrefix ==
  ASSUME NEW buf \in Buffer, NEW tail \in Offset,
         NEW n \in 0 .. PipeBufSize, NEW k \in 0 .. n
  PROVE  Take(buf, tail, k) = SubSeq(Take(buf, tail, n), 1, k)
<1>. DEFINE all == Take(buf, tail, n)
<1>1. /\ n \in Nat /\ k \in Nat /\ k <= n
      /\ k \in 0 .. PipeBufSize
  BY PipeAssumption
<1>2. /\ all \in Seq(Val)
      /\ Len(all) = n
      /\ \A i \in 1 .. n : all[i] = buf[Wrap(tail, i - 1)]
  BY TakeProperties
<1>3. \A i \in 1 .. k : all[i] \in Val
  BY <1>1, <1>2, ElementOfSeq
<1>4. /\ SubSeq(all, 1, k) \in Seq(Val)
      /\ Len(SubSeq(all, 1, k)) = k
      /\ \A i \in 1 .. k : SubSeq(all, 1, k)[i] = all[i]
  <2>. HIDE DEF all
  <2>1. /\ SubSeq(all, 1, k) \in Seq(Val)
        /\ Len(SubSeq(all, 1, k)) = IF 1 <= k THEN k - 1 + 1 ELSE 0
        /\ \A i \in 1 .. k - 1 + 1 : SubSeq(all, 1, k)[i] = all[1 + i - 1]
    BY <1>1, <1>3, SubSeqProperties
  <2>. QED
    BY <1>1, <2>1
<1>5. /\ Take(buf, tail, k) \in Seq(Val)
      /\ Len(Take(buf, tail, k)) = k
      /\ \A i \in 1 .. k : Take(buf, tail, k)[i] = buf[Wrap(tail, i - 1)]
  BY <1>1, TakeProperties
<1>6. \A i \in 1 .. k : Take(buf, tail, k)[i] = SubSeq(all, 1, k)[i]
  BY <1>1, <1>2, <1>4, <1>5
<1>. HIDE DEF all
<1>. QED
  BY <1>4, <1>5, <1>6, SeqEqual DEF all

(* What stays after reading k bytes is the rest.                           *)
LEMMA TakeRest ==
  ASSUME NEW buf \in Buffer, NEW tail \in Offset,
         NEW n \in 0 .. PipeBufSize, NEW k \in 0 .. n
  PROVE  Take(buf, Wrap(tail, k), n - k) = SubSeq(Take(buf, tail, n), k + 1, n)
<1>. DEFINE all == Take(buf, tail, n)
            rest == Take(buf, Wrap(tail, k), n - k)
<1>1. /\ n \in Nat /\ k \in Nat /\ k <= n
      /\ k \in 0 .. PipeBufSize
      /\ n - k \in 0 .. PipeBufSize
  BY PipeAssumption
<1>2. /\ all \in Seq(Val)
      /\ Len(all) = n
      /\ \A i \in 1 .. n : all[i] = buf[Wrap(tail, i - 1)]
  BY TakeProperties
<1>3. /\ rest \in Seq(Val)
      /\ Len(rest) = n - k
      /\ \A i \in 1 .. n - k : rest[i] = buf[Wrap(Wrap(tail, k), i - 1)]
  BY <1>1, WrapType, TakeProperties
<1>4. \A i \in k + 1 .. n : all[i] \in Val
  BY <1>1, <1>2, ElementOfSeq
<1>5. /\ SubSeq(all, k + 1, n) \in Seq(Val)
      /\ Len(SubSeq(all, k + 1, n)) = n - k
      /\ \A i \in 1 .. n - k : SubSeq(all, k + 1, n)[i] = all[k + i]
  <2>. HIDE DEF all
  <2>1. /\ SubSeq(all, k + 1, n) \in Seq(Val)
        /\ Len(SubSeq(all, k + 1, n)) = IF k + 1 <= n THEN n - (k + 1) + 1 ELSE 0
        /\ \A i \in 1 .. n - (k + 1) + 1 :
             SubSeq(all, k + 1, n)[i] = all[(k + 1) + i - 1]
    BY <1>1, <1>4, SubSeqProperties
  <2>2. n - (k + 1) + 1 = n - k /\ \A i \in 1 .. n - k : (k + 1) + i - 1 = k + i
    BY <1>1
  <2>. QED
    BY <1>1, <2>1, <2>2
<1>6. ASSUME NEW i \in 1 .. n - k
      PROVE  rest[i] = SubSeq(all, k + 1, n)[i]
  <2>1. i - 1 \in Nat /\ k + (i - 1) <= PipeBufSize /\ k + i \in 1 .. n
    BY <1>1, PipeAssumption
  <2>2. Wrap(Wrap(tail, k), i - 1) = Wrap(tail, k + (i - 1))
    BY <1>1, <2>1, WrapWrap
  <2>3. k + (i - 1) = (k + i) - 1
    BY <1>1
  <2>. HIDE DEF all, rest
  <2>. QED
    BY <1>2, <1>3, <1>5, <2>1, <2>2, <2>3
<1>. HIDE DEF all, rest
<1>. QED
  BY <1>3, <1>5, <1>6, SeqEqual DEF all, rest

(* Bytes stored behind the n that are there do not change those.           *)
LEMMA TakePut ==
  ASSUME NEW buf \in Buffer, NEW tail \in Offset, NEW n \in 0 .. PipeBufSize,
         NEW data \in Seq(Byte), NEW k \in 0 .. Len(data), n + k <= PipeBufSize,
         NEW i \in 1 .. n
  PROVE  Put(buf, Wrap(tail, n), data, k)[Wrap(tail, i - 1)]
           = buf[Wrap(tail, i - 1)]
<1>1. /\ n \in Nat /\ k \in Nat /\ i - 1 \in 0 .. PipeBufSize
      /\ Wrap(tail, n) \in Offset /\ Wrap(tail, i - 1) \in Offset
  <2>1. n \in Nat /\ i - 1 \in 0 .. PipeBufSize /\ n \in 0 .. PipeBufSize
    BY PipeAssumption
  <2>2. k \in Nat
    BY LenProperties
  <2>. QED
    BY <2>1, <2>2, WrapType
<1>2. ~ (Ahead(Wrap(tail, n), Wrap(tail, i - 1)) < k)
  BY <1>1, PipeAssumption DEF Ahead, Wrap, Offset
<1>. QED
  BY <1>1, <1>2 DEF Put

(* A copy that is not counted does not change what is there.               *)
LEMMA TakeUncounted ==
  ASSUME NEW buf \in Buffer, NEW tail \in Offset, NEW n \in 0 .. PipeBufSize,
         NEW data \in Seq(Byte), NEW k \in 0 .. Len(data), n + k <= PipeBufSize
  PROVE  Take(Put(buf, Wrap(tail, n), data, k), tail, n) = Take(buf, tail, n)
BY TakePut DEF Take

(* A copy that is counted appends to what is there.                        *)
LEMMA TakeAppends ==
  ASSUME NEW buf \in Buffer, NEW tail \in Offset, NEW n \in 0 .. PipeBufSize,
         NEW data \in Seq(Byte), NEW k \in 0 .. Len(data), n + k <= PipeBufSize
  PROVE  Take(Put(buf, Wrap(tail, n), data, k), tail, n + k)
           = Take(buf, tail, n) \o SubSeq(data, 1, k)
<1>. DEFINE head == Wrap(tail, n)
            buf2 == Put(buf, head, data, k)
            old == Take(buf, tail, n)
            new == Take(buf2, tail, n + k)
            sub == SubSeq(data, 1, k)
<1>1. Len(data) \in Nat
  BY LenProperties
<1>2. /\ n \in Nat /\ k \in Nat /\ k <= Len(data)
      /\ n + k \in 0 .. PipeBufSize
      /\ head \in Offset
  BY <1>1, PipeAssumption, WrapType
<1>3. buf2 \in Buffer
  BY <1>2, PutType
<1>4. /\ old \in Seq(Val)
      /\ Len(old) = n
      /\ \A i \in 1 .. n : old[i] = buf[Wrap(tail, i - 1)]
  BY TakeProperties
<1>5. /\ new \in Seq(Val)
      /\ Len(new) = n + k
      /\ \A i \in 1 .. n + k : new[i] = buf2[Wrap(tail, i - 1)]
  <2>. HIDE DEF buf2
  <2>. QED
    BY <1>2, <1>3, TakeProperties
<1>6. /\ sub \in Seq(Val)
      /\ Len(sub) = k
      /\ \A i \in 1 .. k : sub[i] = data[i]
  <2>1. \A i \in 1 .. k : data[i] \in Val
    BY <1>1, <1>2, ElementOfSeq DEF Val
  <2>2. /\ sub \in Seq(Val)
        /\ Len(sub) = IF 1 <= k THEN k - 1 + 1 ELSE 0
        /\ \A i \in 1 .. k - 1 + 1 : sub[i] = data[1 + i - 1]
    BY <1>2, <2>1, SubSeqProperties
  <2>. HIDE DEF sub
  <2>. QED
    BY <1>2, <2>2
<1>7. /\ old \o sub \in Seq(Val)
      /\ Len(old \o sub) = n + k
      /\ \A i \in 1 .. n + k :
           (old \o sub)[i] = IF i <= n THEN old[i] ELSE sub[i - n]
  <2>. HIDE DEF old, sub
  <2>. QED
    BY <1>4, <1>6, ConcatProperties
<1>8. ASSUME NEW i \in 1 .. n + k
      PROVE  new[i] = (old \o sub)[i]
  <2>1. CASE i <= n
    <3>1. i \in 1 .. n
      BY <1>2, <2>1
    <3>2. buf2[Wrap(tail, i - 1)] = buf[Wrap(tail, i - 1)]
      BY <3>1, TakePut
    <3>. HIDE DEF buf2, old, new, sub
    <3>. QED
      BY <1>4, <1>5, <1>7, <2>1, <3>1, <3>2
  <2>2. CASE i > n
    <3>. DEFINE j == i - 1 - n
    <3>1. /\ j \in Nat /\ j < k /\ j < PipeBufSize /\ j \in 0 .. PipeBufSize
          /\ n + j = i - 1 /\ n + j <= PipeBufSize /\ j + 1 = i - n
          /\ i - n \in 1 .. k
      BY <1>2, <2>2, PipeAssumption
    <3>2. Wrap(tail, i - 1) = Wrap(head, j)
      BY <1>2, <3>1, WrapWrap
    <3>3. Wrap(head, j) \in Offset /\ Ahead(head, Wrap(head, j)) = j
      BY <1>2, <3>1, WrapType, AheadWrap
    <3>4. buf2[Wrap(head, j)] = data[j + 1]
      <4>. HIDE DEF head, j
      <4>. QED
        BY <3>1, <3>3 DEF Put
    <3>5. ~ (i <= n)
      BY <1>2, <2>2
    <3>. HIDE DEF buf2, old, new, sub, head, j
    <3>. QED
      BY <1>5, <1>6, <1>7, <3>1, <3>2, <3>4, <3>5
  <2>3. i <= n \/ i > n
    BY <1>2
  <2>. QED
    BY <2>1, <2>2, <2>3
<1>. HIDE DEF buf2, old, new, sub, head
<1>9. new = old \o sub
  BY <1>5, <1>7, <1>8, SeqEqual
<1>. QED
  BY <1>9 DEF buf2, old, new, sub, head

-----------------------------------------------------------------------------
(* The invariants.                                                         *)

Inv == TypeOK /\ RingConsistent /\ TakenWhileOpen

(* A pipe whose record is of the right shape, describes one stretch of the *)
(* ring, and is taken while it is open.                                    *)
GoodPipe(pipe) ==
  /\ pipe \in PipeStruct
  /\ pipe.head = Wrap(pipe.tail, pipe.count)
  /\ pipe.state # 0 <=> (pipe.read_open \/ pipe.write_open)

LEMMA InvIsGood ==
  Inv <=> /\ pipe_table = [p \in PipeId |-> pipe_table[p]]
          /\ \A p \in PipeId : GoodPipe(pipe_table[p])
          /\ pipe_buffers \in [PipeId -> Buffer]
BY DEF Inv, TypeOK, RingConsistent, TakenWhileOpen, GoodPipe, Buffer, Val

(* Replacing one pipe by a good one keeps the invariants.                  *)
LEMMA GoodUpdate ==
  ASSUME Inv, NEW p \in PipeId, NEW pipe, GoodPipe(pipe),
         pipe_table' = [pipe_table EXCEPT ![p] = pipe],
         pipe_buffers' \in [PipeId -> Buffer]
  PROVE  Inv'
BY DEF Inv, TypeOK, RingConsistent, TakenWhileOpen, GoodPipe, Buffer, Val

LEMMA GoodInit == Init => Inv
<1>. SUFFICES ASSUME Init PROVE Inv
  OBVIOUS
<1>1. 0 \in Offset /\ 0 \in 0 .. PipeBufSize /\ Wrap(0, 0) = 0
  BY PipeAssumption DEF Offset, Wrap
<1>. QED
  BY <1>1 DEF Init, Inv, TypeOK, PipeStruct, RingConsistent, TakenWhileOpen

(* How much a write takes, and a read gives.                               *)
LEMMA RoomBounds ==
  ASSUME Inv, NEW p \in PipeId, NEW data \in Seq(Byte)
  PROVE  /\ Room(p, data) \in 0 .. Len(data)
         /\ pipe_table[p].count + Room(p, data) <= PipeBufSize
         /\ Len(data) \in Nat
<1>1. Len(data) \in Nat
  BY LenProperties
<1>2. pipe_table[p].count \in 0 .. PipeBufSize
  BY DEF Inv, TypeOK, PipeStruct
<1>. QED
  BY <1>1, <1>2, PipeAssumption DEF Room, Min2

LEMMA AvailBounds ==
  ASSUME Inv, NEW p \in PipeId, NEW n \in Int
  PROVE  /\ Avail(p, n) \in 0 .. pipe_table[p].count
         /\ Avail(p, n) \in 0 .. PipeBufSize
         /\ pipe_table[p].count \in 0 .. PipeBufSize
<1>1. pipe_table[p].count \in 0 .. PipeBufSize
  BY DEF Inv, TypeOK, PipeStruct
<1>. QED
  BY <1>1, PipeAssumption DEF Avail, Min2

LEMMA GoodSysPipe == Inv /\ SysPipe => Inv'
<1>. SUFFICES ASSUME Inv, SysPipe PROVE Inv'
  OBVIOUS
<1>1. pipe_buffers' \in [PipeId -> Buffer]
  BY InvIsGood DEF SysPipe
<1>2. CASE UNCHANGED pipe_table
  BY <1>2 DEF SysPipe, Inv, TypeOK, RingConsistent, TakenWhileOpen
<1>3. ASSUME NEW p \in PipeId,
             pipe_table' = [pipe_table EXCEPT ![p] = Fresh(@)]
      PROVE  Inv'
  <2>1. 0 \in Offset /\ 0 \in 0 .. PipeBufSize /\ Wrap(0, 0) = 0
    BY PipeAssumption DEF Offset, Wrap
  <2>2. GoodPipe(Fresh(pipe_table[p]))
    BY <2>1 DEF GoodPipe, Fresh, PipeStruct
  <2>3. pipe_table' = [pipe_table EXCEPT ![p] = Fresh(pipe_table[p])]
    BY <1>3
  <2>. QED
    BY <1>1, <2>2, <2>3, GoodUpdate
<1>. QED
  BY <1>2, <1>3 DEF SysPipe

LEMMA GoodPipeWrite ==
  ASSUME Inv, NEW p, NEW data \in Data, PipeWrite(p, data)
  PROVE  Inv'
<1>. DEFINE n == Room(p, data)
            old == pipe_table[p]
            new == [old EXCEPT !.head = Wrap(@, n), !.count = @ + n]
<1>1. p \in PipeId /\ data \in Seq(Byte)
  BY PipeAssumption DEF PipeWrite, Writable, Active
<1>2. n \in 0 .. Len(data) /\ old.count + n <= PipeBufSize /\ Len(data) \in Nat
  BY <1>1, RoomBounds
<1>3. GoodPipe(old) /\ pipe_buffers \in [PipeId -> Buffer]
  BY <1>1, InvIsGood
<1>4. n \in 0 .. PipeBufSize /\ n \in Nat /\ old.count \in Nat
  BY <1>2, <1>3, PipeAssumption DEF GoodPipe, PipeStruct
<1>5. Wrap(old.head, n) = Wrap(old.tail, old.count + n) /\ Wrap(old.head, n) \in Offset
  BY <1>2, <1>3, <1>4, WrapWrap, WrapType DEF GoodPipe, PipeStruct
<1>6. GoodPipe(new)
  <2>1. old.count + n \in 0 .. PipeBufSize
    BY <1>2, <1>4, PipeAssumption
  <2>. HIDE DEF n
  <2>. QED
    BY <1>3, <1>5, <2>1 DEF GoodPipe, PipeStruct
<1>7. pipe_table' = [pipe_table EXCEPT ![p] = new]
  BY DEF PipeWrite
<1>8. pipe_buffers' \in [PipeId -> Buffer]
  <2>1. Put(pipe_buffers[p], old.head, data, n) \in Buffer
    BY <1>1, <1>2, <1>3, PutType DEF GoodPipe, PipeStruct
  <2>. QED
    BY <1>1, <1>3, <2>1 DEF PipeWrite
<1>. QED
  BY <1>1, <1>6, <1>7, <1>8, GoodUpdate

LEMMA GoodPipeWriteFaults ==
  ASSUME Inv, NEW p, NEW data \in Data, PipeWriteFaults(p, data)
  PROVE  Inv'
<1>1. p \in PipeId /\ data \in Seq(Byte)
  BY PipeAssumption DEF PipeWriteFaults, Writable, Active
<1>2. PICK k \in 0 .. (Room(p, data) - 1) :
        pipe_buffers' = [pipe_buffers EXCEPT
          ![p] = Put(@, pipe_table[p].head, data, k)]
  BY DEF PipeWriteFaults
<1>3. k \in 0 .. Len(data)
  BY <1>1, RoomBounds
<1>4. pipe_buffers \in [PipeId -> Buffer] /\ pipe_table[p].head \in Offset
  BY <1>1, InvIsGood DEF GoodPipe, PipeStruct
<1>5. Put(pipe_buffers[p], pipe_table[p].head, data, k) \in Buffer
  BY <1>1, <1>3, <1>4, PutType
<1>6. pipe_buffers' \in [PipeId -> Buffer]
  BY <1>1, <1>2, <1>4, <1>5
<1>. QED
  BY <1>6 DEF PipeWriteFaults, Inv, TypeOK, RingConsistent, TakenWhileOpen,
              Buffer, Val

LEMMA GoodSysWrite ==
  ASSUME Inv, NEW fd \in Fd, NEW data \in Data, SysWrite(fd, data)
  PROVE  Inv'
<1>1. CASE UNCHANGED <<pipe_table, pipe_buffers>>
  BY <1>1 DEF Inv, TypeOK, RingConsistent, TakenWhileOpen
<1>. QED
  BY <1>1, GoodPipeWrite, GoodPipeWriteFaults DEF SysWrite

LEMMA GoodPipeRead ==
  ASSUME Inv, NEW p, NEW n \in Counts, PipeRead(p, n), UNCHANGED pipe_buffers
  PROVE  Inv'
<1>. DEFINE k == Avail(p, n)
            old == pipe_table[p]
            new == [old EXCEPT !.tail = Wrap(@, k), !.count = @ - k]
<1>1. p \in PipeId /\ n \in Int
  BY PipeAssumption DEF PipeRead, Active
<1>2. k \in 0 .. old.count /\ k \in 0 .. PipeBufSize /\ old.count \in 0 .. PipeBufSize
  BY <1>1, AvailBounds
<1>3. GoodPipe(old) /\ pipe_buffers \in [PipeId -> Buffer]
  BY <1>1, InvIsGood
<1>4. /\ k \in Nat /\ old.count - k \in Nat /\ old.count - k \in 0 .. PipeBufSize
      /\ k + (old.count - k) = old.count /\ old.count <= PipeBufSize
  BY <1>2, PipeAssumption
<1>5. Wrap(Wrap(old.tail, k), old.count - k) = Wrap(old.tail, old.count)
      /\ Wrap(old.tail, k) \in Offset
  <2>. HIDE DEF k
  <2>. QED
    BY <1>2, <1>3, <1>4, WrapWrap, WrapType DEF GoodPipe, PipeStruct
<1>6. GoodPipe(new)
  <2>. HIDE DEF k
  <2>. QED
    BY <1>3, <1>4, <1>5 DEF GoodPipe, PipeStruct
<1>7. pipe_table' = [pipe_table EXCEPT ![p] = new]
  BY DEF PipeRead
<1>. QED
  BY <1>1, <1>3, <1>6, <1>7, GoodUpdate

LEMMA GoodSysRead ==
  ASSUME Inv, NEW fd \in Fd, NEW n \in Counts, SysRead(fd, n)
  PROVE  Inv'
<1>1. UNCHANGED pipe_buffers
  BY DEF SysRead
<1>2. CASE UNCHANGED pipe_table
  BY <1>1, <1>2 DEF Inv, TypeOK, RingConsistent, TakenWhileOpen
<1>. QED
  BY <1>1, <1>2, GoodPipeRead DEF SysRead, PipeReadFaults

LEMMA GoodSysClose ==
  ASSUME Inv, NEW fd \in Fd, SysClose(fd)
  PROVE  Inv'
<1>1. pipe_buffers' \in [PipeId -> Buffer]
  BY InvIsGood DEF SysClose
<1>2. CASE UNCHANGED pipe_table
  BY <1>2 DEF SysClose, Inv, TypeOK, RingConsistent, TakenWhileOpen
<1>3. ASSUME NEW p \in PipeId, NEW is_write \in BOOLEAN, PipeClose(p, is_write)
      PROVE  Inv'
  <2>. DEFINE old == pipe_table[p]
              cut == IF is_write THEN [old EXCEPT !.write_open = FALSE]
                                 ELSE [old EXCEPT !.read_open = FALSE]
  <2>1. GoodPipe(old)
    BY <1>3, InvIsGood
  <2>2. GoodPipe(FreeIfClosed(cut))
    BY <2>1 DEF GoodPipe, PipeStruct, FreeIfClosed
  <2>3. pipe_table' = [pipe_table EXCEPT ![p] = FreeIfClosed(cut)]
    BY <1>3 DEF PipeClose
  <2>. QED
    BY <1>1, <1>3, <2>2, <2>3, GoodUpdate
<1>. QED
  BY <1>2, <1>3 DEF SysClose, IsWrite

(* The three invariants together are inductive.                            *)
THEOREM Invariance == Spec => []Inv
<1>1. Inv /\ [Next]_vars => Inv'
  <2>. SUFFICES ASSUME Inv, [Next]_vars PROVE Inv'
    OBVIOUS
  <2>1. CASE UNCHANGED vars
    BY <2>1 DEF vars, Inv, TypeOK, RingConsistent, TakenWhileOpen
  <2>. QED
    BY <2>1, GoodSysPipe, GoodSysWrite, GoodSysRead, GoodSysClose DEF Next
<1>. QED
  BY GoodInit, <1>1, PTL DEF Spec

(* Every pipe structure and every buffer keeps its type: no call moves an  *)
(* offset off the ring or counts more bytes than the ring holds.           *)
THEOREM TypeCorrect == Spec => []TypeOK
BY Invariance, PTL DEF Inv

(* head is always count bytes after tail, whatever calls were made, cut    *)
(* short or faulted.                                                       *)
THEOREM RingsConsistent == Spec => []RingConsistent
BY Invariance, PTL DEF Inv

(* A slot of the pipe table is taken while an end is open, and only then.  *)
THEOREM PipesTakenWhileOpen == Spec => []TakenWhileOpen
BY Invariance, PTL DEF Inv

-----------------------------------------------------------------------------
(* The refinement.                                                         *)

(* Changing one pipe and its buffer changes that channel and no other.     *)
LEMMA BarUpdate ==
  ASSUME Inv, NEW p \in PipeId, NEW pipe, NEW buf,
         pipe_table' = [pipe_table EXCEPT ![p] = pipe],
         pipe_buffers' = [pipe_buffers EXCEPT ![p] = buf]
  PROVE  ChanBar' = [ChanBar EXCEPT ![p] = ChannelOf(pipe, buf)]
<1>1. /\ pipe_table'[p] = pipe /\ pipe_buffers'[p] = buf
      /\ \A q \in PipeId \ {p} : /\ pipe_table'[q] = pipe_table[q]
                                 /\ pipe_buffers'[q] = pipe_buffers[q]
  BY DEF Inv, TypeOK
<1>2. ChanBar' = [q \in PipeId |-> ChannelOf(pipe_table'[q], pipe_buffers'[q])]
  BY DEF ChanBar, ChannelOf, Take
<1>. DEFINE new == ChannelOf(pipe, buf)
<1>3. \A q \in PipeId :
        ChannelOf(pipe_table'[q], pipe_buffers'[q])
          = IF q = p THEN new ELSE ChannelOf(pipe_table[q], pipe_buffers[q])
  BY <1>1
<1>4. [ChanBar EXCEPT ![p] = new]
        = [q \in PipeId |-> IF q = p THEN new
                                    ELSE ChannelOf(pipe_table[q], pipe_buffers[q])]
  <2>. HIDE DEF new
  <2>. QED
    BY DEF ChanBar
<1>. HIDE DEF new
<1>5. ChanBar' = [ChanBar EXCEPT ![p] = new]
  BY <1>2, <1>3, <1>4
<1>. QED
  BY <1>5 DEF new

(* The same when the buffer is left alone.                                 *)
LEMMA BarUpdateTable ==
  ASSUME Inv, NEW p \in PipeId, NEW pipe,
         pipe_table' = [pipe_table EXCEPT ![p] = pipe],
         UNCHANGED pipe_buffers
  PROVE  ChanBar' = [ChanBar EXCEPT ![p] = ChannelOf(pipe, pipe_buffers[p])]
<1>1. pipe_buffers' = [pipe_buffers EXCEPT ![p] = pipe_buffers[p]]
  BY DEF Inv, TypeOK
<1>. QED
  BY <1>1, BarUpdate

LEMMA BarUnchanged ==
  ASSUME UNCHANGED <<pipe_table, pipe_buffers>>
  PROVE  UNCHANGED ChanBar
BY DEF ChanBar, ChannelOf, Take

(* A pipe and the channel it stands for.                                   *)
LEMMA LiveChannel ==
  ASSUME Inv, NEW p \in PipeId, pipe_table[p].state # 0
  PROVE  /\ ChanBar[p].live
         /\ ChanBar[p].read_open = pipe_table[p].read_open
         /\ ChanBar[p] =
              [live |-> TRUE, read_open |-> pipe_table[p].read_open,
               write_open |-> pipe_table[p].write_open,
               queue |-> Take(pipe_buffers[p], pipe_table[p].tail,
                              pipe_table[p].count)]
         /\ ChanBar[p].queue =
              Take(pipe_buffers[p], pipe_table[p].tail, pipe_table[p].count)
         /\ Len(ChanBar[p].queue) = pipe_table[p].count
<1>1. pipe_buffers[p] \in Buffer /\ GoodPipe(pipe_table[p])
  BY InvIsGood
<1>2. Len(Take(pipe_buffers[p], pipe_table[p].tail, pipe_table[p].count))
        = pipe_table[p].count
  BY <1>1, TakeProperties DEF GoodPipe, PipeStruct
<1>. QED
  BY <1>2 DEF ChanBar, ChannelOf

LEMMA DeadChannel ==
  ASSUME NEW p \in PipeId, pipe_table[p].state = 0
  PROVE  ChanBar[p] = Abstract!Dead
BY DEF ChanBar, ChannelOf, Abstract!Dead

(* Channels as records with named parts.                                   *)
Channel(live, read_open, write_open, queue) ==
  [live |-> live, read_open |-> read_open, write_open |-> write_open,
   queue |-> queue]

LEMMA WithQueue ==
  ASSUME NEW l, NEW r, NEW w, NEW q, NEW q2
  PROVE  [Channel(l, r, w, q) EXCEPT !.queue = q2] = Channel(l, r, w, q2)
BY DEF Channel

LEMMA WithReadEnd ==
  ASSUME NEW l, NEW r, NEW w, NEW q, NEW end, end = "read_open", NEW b
  PROVE  [Channel(l, r, w, q) EXCEPT ![end] = b] = Channel(l, b, w, q)
BY DEF Channel

LEMMA WithWriteEnd ==
  ASSUME NEW l, NEW r, NEW w, NEW q, NEW end, end = "write_open", NEW b
  PROVE  [Channel(l, r, w, q) EXCEPT ![end] = b] = Channel(l, r, b, q)
BY DEF Channel

LEMMA FreshChannel ==
  ASSUME NEW pipe, NEW buf
  PROVE  ChannelOf(Fresh(pipe), buf) = Channel(TRUE, TRUE, TRUE, Take(buf, 0, 0))
BY DEF ChannelOf, Fresh, Channel

LEMMA TakenChannel ==
  ASSUME NEW pipe, NEW buf, pipe.state # 0
  PROVE  ChannelOf(pipe, buf) =
           Channel(TRUE, pipe.read_open, pipe.write_open,
                   Take(buf, pipe.tail, pipe.count))
BY DEF ChannelOf, Channel

LEMMA DeadIsClosed ==
  ASSUME NEW p \in PipeId, NEW r, NEW w, pipe_table[p].state = 0,
         r = FALSE, w = FALSE
  PROVE  ChanBar[p] = Channel(ChanBar[p].live, r, w, ChanBar[p].queue)
<1>. DEFINE off == FALSE
<1>1. ChanBar[p] = Channel(off, off, off, <<>>)
  BY DeadChannel DEF Abstract!Dead, Channel
<1>2. r = off /\ w = off
  OBVIOUS
<1>. HIDE DEF off
<1>3. /\ Channel(off, off, off, <<>>).live = off
      /\ Channel(off, off, off, <<>>).queue = <<>>
  BY DEF Channel
<1>. QED
  BY <1>1, <1>2, <1>3

LEMMA RefinesInit == Init => Abstract!Init
BY DEF Init, Abstract!Init, Abstract!Dead, ChanBar, ChannelOf

LEMMA RefinesSysPipe == Inv /\ SysPipe => Abstract!Next
<1>. SUFFICES ASSUME Inv, SysPipe PROVE Abstract!Next
  OBVIOUS
<1>1. ASSUME NEW p \in PipeId, FirstFree(p),
             pipe_table' = [pipe_table EXCEPT ![p] = Fresh(@)],
             \/ Returns(0, <<PIPE_FD_BASE + 2 * p, PIPE_FD_BASE + 2 * p + 1>>)
             \/ Killed
      PROVE  Abstract!Open(p)
  <2>1. UNCHANGED pipe_buffers
    BY DEF SysPipe
  <2>2. pipe_table' = [pipe_table EXCEPT ![p] = Fresh(pipe_table[p])]
    BY <1>1
  <2>3. ChanBar' = [ChanBar EXCEPT
                      ![p] = ChannelOf(Fresh(pipe_table[p]), pipe_buffers[p])]
    BY <2>1, <2>2, BarUpdateTable
  <2>4. Take(pipe_buffers[p], 0, 0) = <<>>
    <3>1. 0 \in Offset /\ 0 \in 0 .. PipeBufSize
      BY PipeAssumption DEF Offset
    <3>2. /\ Take(pipe_buffers[p], 0, 0) \in Seq(Val)
          /\ Len(Take(pipe_buffers[p], 0, 0)) = 0
      BY <3>1, InvIsGood, TakeProperties
    <3>. QED
      BY <3>2, EmptySeq
  <2>5. ChannelOf(Fresh(pipe_table[p]), pipe_buffers[p]) = Abstract!New
    BY <2>4, FreshChannel DEF Channel, Abstract!New
  <2>6. ~ ChanBar[p].live
    BY <1>1, DeadChannel DEF FirstFree, Abstract!Dead
  <2>7. \/ Abstract!Returns(0, <<100 + 2 * p, 101 + 2 * p>>)
        \/ Abstract!Killed
    <3>1. p \in Int
      BY PipeAssumption DEF PipeId
    <3>2. PIPE_FD_BASE + 2 * p + 1 = 101 + 2 * p
      BY <3>1 DEF PIPE_FD_BASE
    <3>. QED
      BY <1>1, <3>2 DEF Returns, Killed, PIPE_FD_BASE, Abstract!Returns,
                        Abstract!Killed
  <2>. QED
    BY <2>3, <2>5, <2>6, <2>7 DEF Abstract!Open
<1>2. ASSUME \A p \in PipeId : pipe_table[p].state # 0, Returns(-1, <<>>),
             UNCHANGED pipe_table
      PROVE  Abstract!OpenFails
  <2>1. UNCHANGED ChanBar
    BY <1>2, BarUnchanged DEF SysPipe
  <2>2. \A p \in PipeId : ChanBar[p].live
    BY <1>2, LiveChannel
  <2>. QED
    BY <1>2, <2>1, <2>2 DEF Abstract!OpenFails, Abstract!Fails,
                            Abstract!Returns, Returns
<1>. QED
  BY <1>1, <1>2 DEF SysPipe, Abstract!Next

LEMMA RefinesPipeWrite ==
  ASSUME Inv, NEW p, NEW data \in Data, PipeWrite(p, data)
  PROVE  p \in PipeId /\ Abstract!Write(p, data)
<1>. DEFINE n == Room(p, data)
            old == pipe_table[p]
            buf == pipe_buffers[p]
            new == [old EXCEPT !.head = Wrap(@, n), !.count = @ + n]
            buf2 == Put(buf, old.head, data, n)
<1>1. p \in PipeId /\ data \in Seq(Byte) /\ old.state # 0 /\ old.read_open
  BY PipeAssumption DEF PipeWrite, Writable, Active
<1>2. n \in 0 .. Len(data) /\ old.count + n <= PipeBufSize /\ Len(data) \in Nat
  BY <1>1, RoomBounds
<1>3. GoodPipe(old) /\ buf \in Buffer
  BY <1>1, InvIsGood
<1>4. pipe_table' = [pipe_table EXCEPT ![p] = new]
  BY DEF PipeWrite
<1>5. pipe_buffers' = [pipe_buffers EXCEPT ![p] = buf2]
  BY DEF PipeWrite
<1>6. ChanBar' = [ChanBar EXCEPT ![p] = ChannelOf(new, buf2)]
  <2>. HIDE DEF new, buf2
  <2>. QED
    BY <1>1, <1>4, <1>5, BarUpdate
<1>7. Take(buf2, old.tail, old.count + n)
        = Take(buf, old.tail, old.count) \o SubSeq(data, 1, n)
  <2>. HIDE DEF n
  <2>. QED
    <3>1. /\ old.head = Wrap(old.tail, old.count) /\ old.tail \in Offset
          /\ old.count \in 0 .. PipeBufSize
      BY <1>3 DEF GoodPipe, PipeStruct
    <3>. HIDE DEF old, buf
    <3>2. Take(Put(buf, Wrap(old.tail, old.count), data, n), old.tail, old.count + n)
            = Take(buf, old.tail, old.count) \o SubSeq(data, 1, n)
      BY <1>1, <1>2, <1>3, <3>1, TakeAppends
    <3>. QED
      BY <3>1, <3>2
<1>8. n = Abstract!Least(Len(data), PipeBufSize - Len(ChanBar[p].queue))
  BY <1>1, LiveChannel DEF Room, Min2, Abstract!Least
<1>9. ChannelOf(new, buf2) =
        [ChanBar[p] EXCEPT !.queue = ChanBar[p].queue \o SubSeq(data, 1, n)]
  <2>. HIDE DEF n, buf2
  <2>1. /\ new.state # 0 /\ new.tail = old.tail /\ new.count = old.count + n
        /\ new.read_open = old.read_open /\ new.write_open = old.write_open
    BY <1>1, <1>3 DEF GoodPipe, PipeStruct
  <2>. DEFINE on == TRUE
              r == old.read_open
              w == old.write_open
              queue == Take(buf, old.tail, old.count)
              queue2 == queue \o SubSeq(data, 1, n)
  <2>2. ChannelOf(new, buf2) = Channel(on, r, w, queue2)
    <3>. HIDE DEF new
    <3>. QED
      BY <1>7, <2>1, TakenChannel
  <2>3. /\ ChanBar[p] = Channel(on, r, w, queue)
        /\ ChanBar[p].queue = queue
    BY <1>1, LiveChannel DEF Channel
  <2>. HIDE DEF new, on, r, w, queue, buf2
  <2>4. [ChanBar[p] EXCEPT !.queue = queue2] = Channel(on, r, w, queue2)
    <3>. HIDE DEF queue2
    <3>. QED
      BY <2>3, WithQueue
  <2>. QED
    BY <2>2, <2>3, <2>4
<1>10. ChanBar' = [ChanBar EXCEPT ![p].queue =
                     ChanBar[p].queue \o SubSeq(data, 1, n)]
  BY <1>6, <1>9
<1>11. Abstract!Returns(n, <<>>)
  BY DEF PipeWrite, Returns, Abstract!Returns
<1>. QED
  BY <1>1, <1>8, <1>10, <1>11, LiveChannel DEF Abstract!Write

LEMMA RefinesPipeWriteFaults ==
  ASSUME Inv, NEW p, NEW data \in Data, PipeWriteFaults(p, data)
  PROVE  p \in PipeId /\ Abstract!Write(p, data)
<1>. DEFINE n == Room(p, data)
            old == pipe_table[p]
            buf == pipe_buffers[p]
<1>1. p \in PipeId /\ data \in Seq(Byte) /\ old.state # 0 /\ old.read_open
  BY PipeAssumption DEF PipeWriteFaults, Writable, Active
<1>2. n \in 0 .. Len(data) /\ old.count + n <= PipeBufSize /\ Len(data) \in Nat
  BY <1>1, RoomBounds
<1>3. GoodPipe(old) /\ buf \in Buffer
  BY <1>1, InvIsGood
<1>4. PICK k \in 0 .. (n - 1) :
        pipe_buffers' = [pipe_buffers EXCEPT ![p] = Put(buf, old.head, data, k)]
  BY DEF PipeWriteFaults
<1>5. n > 0 /\ k \in 0 .. Len(data) /\ old.count + k <= PipeBufSize
  <2>1. old.count \in Nat
    BY <1>3 DEF GoodPipe, PipeStruct
  <2>. HIDE DEF n
  <2>. QED
    BY <1>2, <1>4, <2>1, PipeAssumption
<1>6. pipe_table' = [pipe_table EXCEPT ![p] = old]
  BY DEF PipeWriteFaults, Inv, TypeOK
<1>7. ChanBar' = [ChanBar EXCEPT
                    ![p] = ChannelOf(old, Put(buf, old.head, data, k))]
  BY <1>1, <1>4, <1>6, BarUpdate
<1>8. Take(Put(buf, old.head, data, k), old.tail, old.count)
        = Take(buf, old.tail, old.count)
  BY <1>1, <1>3, <1>5, TakeUncounted DEF GoodPipe, PipeStruct
<1>9. ChannelOf(old, Put(buf, old.head, data, k)) = ChanBar[p]
  BY <1>1, <1>8, LiveChannel DEF ChannelOf
<1>10. UNCHANGED ChanBar
  BY <1>7, <1>9 DEF ChanBar
<1>11. n = Abstract!Least(Len(data), PipeBufSize - Len(ChanBar[p].queue))
  BY <1>1, LiveChannel DEF Room, Min2, Abstract!Least
<1>12. Abstract!Killed
  BY DEF PipeWriteFaults, Killed, Returns, Abstract!Killed, Abstract!Returns
<1>. HIDE DEF n
<1>. QED
  BY <1>1, <1>5, <1>10, <1>11, <1>12, LiveChannel DEF Abstract!Write

LEMMA RefinesSysWrite ==
  ASSUME Inv, NEW fd \in Fd, NEW data \in Data, SysWrite(fd, data)
  PROVE  Abstract!Next
<1>1. CASE PipeWrite(PipeOf(fd), data)
  BY <1>1, RefinesPipeWrite DEF Abstract!Next
<1>2. CASE PipeWriteFaults(PipeOf(fd), data)
  BY <1>2, RefinesPipeWriteFaults DEF Abstract!Next
<1>3. CASE /\ Returns(-1, <<>>)
           /\ UNCHANGED <<pipe_table, pipe_buffers>>
  BY <1>3, BarUnchanged DEF Abstract!Next, Abstract!Refuse, Abstract!Fails,
                            Abstract!Returns, Returns
<1>. QED
  BY <1>1, <1>2, <1>3 DEF SysWrite

LEMMA RefinesPipeRead ==
  ASSUME Inv, NEW p, NEW n \in Counts, PipeRead(p, n), UNCHANGED pipe_buffers
  PROVE  p \in PipeId /\ Abstract!Read(p, n)
<1>. DEFINE k == Avail(p, n)
            old == pipe_table[p]
            buf == pipe_buffers[p]
            new == [old EXCEPT !.tail = Wrap(@, k), !.count = @ - k]
<1>1. p \in PipeId /\ n \in Int /\ old.state # 0
  BY PipeAssumption DEF PipeRead, Active
<1>2. k \in 0 .. old.count /\ k \in 0 .. PipeBufSize /\ old.count \in 0 .. PipeBufSize
  BY <1>1, AvailBounds
<1>3. GoodPipe(old) /\ buf \in Buffer
  BY <1>1, InvIsGood
<1>4. pipe_table' = [pipe_table EXCEPT ![p] = new]
  BY DEF PipeRead
<1>5. ChanBar' = [ChanBar EXCEPT ![p] = ChannelOf(new, buf)]
  <2>. HIDE DEF new
  <2>. QED
    BY <1>1, <1>4, BarUpdateTable
<1>6. /\ Take(buf, old.tail, k) = SubSeq(Take(buf, old.tail, old.count), 1, k)
      /\ Take(buf, Wrap(old.tail, k), old.count - k)
           = SubSeq(Take(buf, old.tail, old.count), k + 1, old.count)
  <2>. HIDE DEF k
  <2>. QED
    BY <1>2, <1>3, TakePrefix, TakeRest DEF GoodPipe, PipeStruct
<1>7. ChannelOf(new, buf) =
        [ChanBar[p] EXCEPT
           !.queue = SubSeq(ChanBar[p].queue, k + 1, Len(ChanBar[p].queue))]
  <2>. HIDE DEF k
  <2>1. /\ new.state # 0 /\ new.tail = Wrap(old.tail, k)
        /\ new.count = old.count - k
        /\ new.read_open = old.read_open /\ new.write_open = old.write_open
    BY <1>1, <1>3 DEF GoodPipe, PipeStruct
  <2>. DEFINE on == TRUE
              r == old.read_open
              w == old.write_open
              queue == Take(buf, old.tail, old.count)
              queue2 == SubSeq(queue, k + 1, old.count)
  <2>2. ChannelOf(new, buf) = Channel(on, r, w, queue2)
    <3>. HIDE DEF new
    <3>. QED
      BY <1>6, <2>1, TakenChannel
  <2>3. /\ ChanBar[p] = Channel(on, r, w, queue)
        /\ ChanBar[p].queue = queue
        /\ Len(ChanBar[p].queue) = old.count
    BY <1>1, LiveChannel DEF Channel
  <2>. HIDE DEF new, on, r, w, queue, k
  <2>4. [ChanBar[p] EXCEPT !.queue = queue2] = Channel(on, r, w, queue2)
    <3>. HIDE DEF queue2
    <3>. QED
      BY <2>3, WithQueue
  <2>. QED
    BY <2>2, <2>3, <2>4
<1>8. k = Abstract!Least(IF n < 0 THEN 0 ELSE n, Len(ChanBar[p].queue))
  BY <1>1, LiveChannel DEF Avail, Min2, Abstract!Least
<1>9. ChanBar' = [ChanBar EXCEPT ![p].queue =
                    SubSeq(ChanBar[p].queue, k + 1, Len(ChanBar[p].queue))]
  BY <1>5, <1>7
<1>10. Abstract!Returns(k, SubSeq(ChanBar[p].queue, 1, k))
  <2>1. Returns(k, Take(buf, old.tail, k))
    BY DEF PipeRead
  <2>. HIDE DEF k
  <2>. QED
    BY <1>1, <1>6, <2>1, LiveChannel DEF Returns, Abstract!Returns
<1>. HIDE DEF k
<1>. QED
  BY <1>1, <1>8, <1>9, <1>10, LiveChannel DEF Abstract!Read

LEMMA RefinesPipeReadFaults ==
  ASSUME Inv, NEW p, NEW n \in Counts, PipeReadFaults(p, n),
         UNCHANGED pipe_buffers
  PROVE  p \in PipeId /\ Abstract!Read(p, n)
<1>1. p \in PipeId /\ pipe_table[p].state # 0 /\ Avail(p, n) > 0
  BY DEF PipeReadFaults, Active
<1>2. UNCHANGED ChanBar
  BY BarUnchanged DEF PipeReadFaults
<1>3. Avail(p, n) = Abstract!Least(IF n < 0 THEN 0 ELSE n, Len(ChanBar[p].queue))
  BY <1>1, LiveChannel DEF Avail, Min2, Abstract!Least
<1>4. Abstract!Killed
  BY DEF PipeReadFaults, Killed, Returns, Abstract!Killed, Abstract!Returns
<1>. QED
  BY <1>1, <1>2, <1>3, <1>4, LiveChannel DEF Abstract!Read

LEMMA RefinesSysRead ==
  ASSUME Inv, NEW fd \in Fd, NEW n \in Counts, SysRead(fd, n)
  PROVE  Abstract!Next
<1>1. UNCHANGED pipe_buffers
  BY DEF SysRead
<1>2. CASE PipeRead(PipeOf(fd), n)
  BY <1>1, <1>2, RefinesPipeRead DEF Abstract!Next
<1>3. CASE PipeReadFaults(PipeOf(fd), n)
  BY <1>1, <1>3, RefinesPipeReadFaults DEF Abstract!Next
<1>4. CASE Returns(-1, <<>>) /\ UNCHANGED pipe_table
  BY <1>1, <1>4, BarUnchanged DEF Abstract!Next, Abstract!Refuse,
                                  Abstract!Fails, Abstract!Returns, Returns
<1>. QED
  BY <1>2, <1>3, <1>4 DEF SysRead

LEMMA RefinesSysClose ==
  ASSUME Inv, NEW fd \in Fd, SysClose(fd)
  PROVE  Abstract!Next
<1>1. UNCHANGED pipe_buffers /\ Abstract!Returns(0, <<>>)
  BY DEF SysClose, Returns, Abstract!Returns
<1>2. CASE UNCHANGED pipe_table
  BY <1>1, <1>2, BarUnchanged DEF Abstract!Next, Abstract!CloseNothing
<1>3. ASSUME NEW p \in PipeId, NEW is_write \in BOOLEAN, PipeClose(p, is_write)
      PROVE  \E end \in {"read_open", "write_open"} : Abstract!Close(p, end)
  <2>. DEFINE old == pipe_table[p]
              cut == IF is_write THEN [old EXCEPT !.write_open = FALSE]
                                 ELSE [old EXCEPT !.read_open = FALSE]
              end == IF is_write THEN "write_open" ELSE "read_open"
              live == ChanBar[p].live
              queue == ChanBar[p].queue
              left == Channel(live, cut.read_open, cut.write_open, queue)
              closed == FALSE
  <2>1. GoodPipe(old)
    BY InvIsGood
  <2>2. ChanBar' = [ChanBar EXCEPT
                      ![p] = ChannelOf(FreeIfClosed(cut), pipe_buffers[p])]
    <3>1. pipe_table' = [pipe_table EXCEPT ![p] = FreeIfClosed(cut)]
      BY <1>3 DEF PipeClose
    <3>. HIDE DEF cut
    <3>. QED
      BY <1>1, <3>1, BarUpdateTable
  <2>3. ChanBar[p] = Channel(live, old.read_open, old.write_open, queue)
    <3>1. CASE old.state = 0
      <4>1. old.read_open = FALSE /\ old.write_open = FALSE
        BY <2>1, <3>1 DEF GoodPipe, PipeStruct
      <4>. QED
        BY <3>1, <4>1, DeadIsClosed
    <3>2. CASE old.state # 0
      BY <3>2, LiveChannel DEF Channel
    <3>. QED
      BY <3>1, <3>2
  <2>4. left = [ChanBar[p] EXCEPT ![end] = closed]
    <3>1. CASE is_write = TRUE
      <4>1. /\ end = "write_open"
            /\ cut.read_open = old.read_open /\ cut.write_open = closed
        BY <2>1, <3>1 DEF GoodPipe, PipeStruct
      <4>. HIDE DEF live, queue, old, cut, end, closed
      <4>. QED
        BY <2>3, <4>1, WithWriteEnd
    <3>2. CASE is_write = FALSE
      <4>1. /\ end = "read_open"
            /\ cut.read_open = closed /\ cut.write_open = old.write_open
        BY <2>1, <3>2 DEF GoodPipe, PipeStruct
      <4>. HIDE DEF live, queue, old, cut, end, closed
      <4>. QED
        BY <2>3, <4>1, WithReadEnd
    <3>. QED
      BY <3>1, <3>2
  <2>5. ChannelOf(FreeIfClosed(cut), pipe_buffers[p])
          = IF left.read_open \/ left.write_open THEN left ELSE Abstract!Dead
    <3>1. /\ cut.state = old.state /\ cut.tail = old.tail
          /\ cut.count = old.count /\ cut \in PipeStruct
          /\ old.state = 0 => ~ cut.read_open /\ ~ cut.write_open
      BY <2>1 DEF GoodPipe, PipeStruct
    <3>2. CASE cut.read_open \/ cut.write_open
      <4>1. old.state # 0
        BY <3>1, <3>2
      <4>2. queue = Take(pipe_buffers[p], cut.tail, cut.count)
        BY <3>1, <4>1, LiveChannel
      <4>3. FreeIfClosed(cut) = cut
        BY <3>2 DEF FreeIfClosed
      <4>4. live = TRUE
        BY <4>1, LiveChannel
      <4>. HIDE DEF cut, old, queue
      <4>5. ChannelOf(cut, pipe_buffers[p])
              = Channel(TRUE, cut.read_open, cut.write_open, queue)
        BY <3>1, <4>1, <4>2, TakenChannel
      <4>6. Channel(TRUE, cut.read_open, cut.write_open, queue) = left
        BY <4>4 DEF Channel
      <4>7. left.read_open \/ left.write_open
        BY <3>2 DEF Channel
      <4>. HIDE DEF left
      <4>. QED
        BY <4>3, <4>5, <4>6, <4>7
    <3>3. CASE ~ (cut.read_open \/ cut.write_open)
      <4>. HIDE DEF cut, old, live, queue
      <4>1. FreeIfClosed(cut) = [cut EXCEPT !.state = 0]
        BY <3>3 DEF FreeIfClosed
      <4>2. [cut EXCEPT !.state = 0].state = 0
        BY <3>1 DEF PipeStruct
      <4>3. ChannelOf(FreeIfClosed(cut), pipe_buffers[p]) = Abstract!Dead
        BY <4>1, <4>2 DEF ChannelOf, Abstract!Dead
      <4>4. ~ (left.read_open \/ left.write_open)
        BY <3>3 DEF Channel
      <4>. HIDE DEF left
      <4>. QED
        BY <4>3, <4>4
    <3>. QED
      BY <3>2, <3>3
  <2>. HIDE DEF left, cut, live, queue
  <2>6. Abstract!Close(p, end)
    BY <1>1, <2>2, <2>4, <2>5 DEF Abstract!Close
  <2>. QED
    BY <2>6
<1>. QED
  BY <1>2, <1>3 DEF SysClose, IsWrite, Abstract!Next

(***************************************************************************)
(* The kernel's pipes implement bounded first-in first-out channels: every *)
(* byte is read once, in order, from the channel it was written to, and    *)
(* every call answers what the channel says, whatever the size of the      *)
(* ring, the calls, their order and the faults in the middle of a copy.    *)
(***************************************************************************)
THEOREM PipesImplementChannels == Spec => ImplementsChannels
<1>1. Inv /\ [Next]_vars => [Abstract!Next]_<<ChanBar, reply>>
  <2>. SUFFICES ASSUME Inv, [Next]_vars
                PROVE  [Abstract!Next]_<<ChanBar, reply>>
    OBVIOUS
  <2>1. CASE UNCHANGED vars
    BY <2>1, BarUnchanged DEF vars
  <2>2. CASE Next
    BY <2>2, RefinesSysPipe, RefinesSysWrite, RefinesSysRead, RefinesSysClose
       DEF Next
  <2>. QED
    BY <2>1, <2>2
<1>. QED
  BY RefinesInit, Invariance, <1>1, PTL DEF Spec, ImplementsChannels, Abstract!Spec
=============================================================================
