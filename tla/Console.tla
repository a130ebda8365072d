------------------------------- MODULE Console -------------------------------
(***************************************************************************)
(* The browser application of web/app.js: the loop that runs the guest in     *)
(* batches, one per animation frame, the buttons, the keyboard and the mouse,  *)
(* around the terminal (Terminal) and the machine (Devices).                 *)
(*                                                                          *)
(* JavaScript runs one callback to its end: while inBatch, the only steps are *)
(* the guest's and the end of the batch; host events find the loop at rest.   *)
(* The guest is external to this module: any sequence of the accesses its      *)
(* scenario allows.  Left out: telemetry, focus, the GPU canvas.             *)
(***************************************************************************)
EXTENDS Terminal, Devices

CONSTANTS Batch,      \* steps of one batch: instructionsPerBatch
          Scenarios   \* what a behaviour's guest and user do, and how often

ASSUME ConsoleAssumption == Batch \in Nat \ {0}

\* The accesses a guest makes: text to print, a read of RBR, a store to a device
\* register or to memory, anything else.
IsAccess(e) ==
  CASE e.op = "tx"    -> e.str \in Seq(Chars) /\ e.str # <<>>
    [] e.op = "reg"   -> e.reg \in Registers /\ e.val \in Nat
    [] e.op = "store" -> e.at \in Nat /\ e.val \in Int
    [] OTHER          -> e.op \in {"rx", "nop", "halt"}

\* A list of commands the guest can hand over: whole commands that draw, in the
\* upper words of RAM, the pictures they read below it.
Fits(list) ==
  LET base == RamWords - Len(FlattenSeq(list))
  IN  /\ list \in Seq(Seq(Int)) /\ base >= 0
      /\ \A a \in 0 .. RamWords - 1 : a \notin Windows
      /\ \A k \in 1 .. Len(list) :
           LET cmd == list[k]
           IN  /\ cmd # <<>> /\ cmd[1] \in 1 .. 4 /\ Len(cmd) = 1 + Operands[cmd[1]]
               /\ cmd[1] = 3 =>
                    cmd[2] >= 0 /\ cmd[2] + Above(0, cmd[5]) * Above(0, cmd[6]) <= base

ASSUME ScenariosAssumption ==
  \A s \in Scenarios :
    /\ s.ram \in Ram /\ s.disk \in Disk
    /\ s.lines \subseteq Seq(Nat)
    /\ \A e \in s.guest : IsAccess(e)
    /\ \A list \in s.lists : Fits(list)

VARIABLES running, animFrameId,
          pending,   \* frames the browser has been asked for
          inBatch, left,
          m, term,
          scenario,
          sending,   \* the rest of the text the guest prints
          crashed,   \* history: an exception has left the loop since start()
          typed, got,  \* history: bytes sent to and read from this UART
          outs, keys, boots  \* history: how much of the scenario is used up

loop == <<running, animFrameId, pending, inBatch, left, crashed>>
uses == <<outs, keys, boots>>
vars == <<loop, m, term, scenario, sending, typed, got, uses>>

FrameId == 1 .. 3
NoFrame == 0
Booted == Machine(scenario.ram, scenario.disk)

\* start() runs the first batch at once.
Start ==
  /\ running' = TRUE /\ inBatch' = TRUE /\ left' = Batch
  /\ crashed' = FALSE

Cancelled == pending \ {animFrameId}

\* Mutant: boot() does not cancel the frame of the machine before.
BootUnpaused ==
  /\ UNCHANGED <<pending, animFrameId>>
  /\ Start
  /\ typed' = <<>> /\ got' = <<>>

\* boot(): pause, a new machine, start.
Boot ==
  /\ pending' = Cancelled /\ animFrameId' = NoFrame
  /\ Start
  /\ typed' = <<>> /\ got' = <<>>

\* reset(): the terminal and its history are cleared, then boot().
Reset ==
  /\ ~inBatch
  /\ boots < scenario.boots
  /\ boots' = boots + 1
  /\ m' = Booted
  /\ term' = Clear(term, TRUE) /\ sending' = <<>>
  /\ Boot
  /\ UNCHANGED <<scenario, outs, keys>>

\* The pause button.
Pause ==
  /\ ~inBatch /\ scenario.pauses
  /\ running
  /\ running' = FALSE
  /\ pending' = Cancelled /\ animFrameId' = NoFrame
  /\ UNCHANGED <<inBatch, left, crashed, m, term, scenario, sending, typed, got, uses>>

Resume ==
  /\ ~inBatch /\ scenario.pauses
  /\ ~running
  /\ Start
  /\ UNCHANGED <<animFrameId, pending, m, term, scenario, sending, typed, got, uses>>

\* Keys and the command buttons put bytes into the UART, whether or not the
\* guest runs.
Send(bytes) ==
  /\ m' = PushRx(m, bytes)
  /\ typed' = typed \o bytes

Bytes(key) == IF key \in Ignored THEN <<>> ELSE KeyByte(key)

KeyDown(key) ==
  /\ ~inBatch /\ keys < scenario.keys
  /\ keys' = keys + 1
  /\ term' = Keyed(term, key)
  /\ Send(Bytes(key))
  /\ UNCHANGED <<loop, scenario, sending, got, outs, boots>>

CommandButton(line) ==
  /\ ~inBatch /\ keys < scenario.keys
  /\ keys' = keys + 1
  /\ Send(line)
  /\ UNCHANGED <<loop, term, scenario, sending, got, outs, boots>>

WheelTurn(up) ==
  /\ ~inBatch /\ scenario.wheel
  /\ term' = Wheel(term, up)
  /\ UNCHANGED <<loop, m, scenario, sending, typed, got, uses>>

\* The browser calls _loop for a frame.
Frame ==
  /\ ~inBatch
  /\ \E f \in pending : pending' = pending \ {f}
  /\ inBatch' = running
  /\ left' = IF running THEN Batch ELSE left
  /\ UNCHANGED <<running, animFrameId, crashed, m, term, scenario, sending, typed, got, uses>>

\* The batch is over: _loop asks for the next frame.
EndBatch ==
  /\ inBatch
  /\ left = 0 \/ m.halted
  /\ \E f \in FrameId \ (pending \cup {animFrameId}) :
       animFrameId' = f /\ pending' = pending \cup {f}
  /\ inBatch' = FALSE
  /\ UNCHANGED <<running, left, crashed, m, term, scenario, sending, typed, got, uses>>

-----------------------------------------------------------------------------
(* The guest's steps.                                                       *)

Steps == inBatch /\ left > 0 /\ ~m.halted

\* After a step that leaves the machine at n: an exception ends the batch and
\* no frame is asked for.
After(n) ==
  /\ m' = [n EXCEPT !.thrown = FALSE]
  /\ left' = left - 1
  /\ inBatch' = ~n.thrown
  /\ crashed' = n.thrown
  /\ UNCHANGED <<running, animFrameId, pending, scenario, keys, boots>>

\* A store to THR: the byte goes to the terminal at once.
SendChar(text) ==
  /\ term' = WriteChar(term, Head(text))
  /\ sending' = Tail(text)
  /\ After(m)
  /\ UNCHANGED <<typed, got>>

\* The guest begins to print a text, one character a step, and goes on with it.
Transmit(e) ==
  /\ e.op = "tx" /\ sending = <<>> /\ outs < scenario.outs
  /\ outs' = outs + 1
  /\ SendChar(e.str)

PrintOn ==
  /\ Steps /\ sending # <<>>
  /\ SendChar(sending)
  /\ UNCHANGED outs

\* A load from RBR.
Receive(e) ==
  /\ e.op = "rx"
  /\ After(PopRx(m))
  /\ got' = IF m.rx = <<>> THEN got ELSE Append(got, Head(m.rx))
  /\ UNCHANGED <<term, sending, typed, outs>>

\* A store to another register; clearing the FIFO discards what was typed.
Register(e) ==
  /\ e.op = "reg"
  /\ After(StoreReg(m, e.reg, e.val))
  /\ typed' = IF Clears(e.reg, e.val) THEN got ELSE typed
  /\ UNCHANGED <<term, sending, got, outs>>

\* A store to memory; outside RAM it throws.
StoreWord(e) ==
  /\ e.op = "store"
  /\ After(BusWrite(m, e.at, e.val))
  /\ UNCHANGED <<term, sending, typed, got, outs>>

\* Any other instruction, and the trap without a handler that halts the hart.
Compute(e) ==
  /\ e.op \in {"nop", "halt"}
  /\ After([m EXCEPT !.halted = (e.op = "halt")])
  /\ UNCHANGED <<term, sending, typed, got, outs>>

Guest(e) ==
  /\ Steps
  /\ Transmit(e) \/ Receive(e) \/ Register(e) \/ StoreWord(e) \/ Compute(e)

Init ==
  /\ scenario \in Scenarios
  /\ m = Booted /\ term = Fresh
  /\ running = TRUE /\ animFrameId = NoFrame /\ pending = {}
  /\ inBatch = TRUE /\ left = Batch /\ crashed = FALSE
  /\ sending = <<>> /\ typed = <<>> /\ got = <<>>
  /\ outs = 0 /\ keys = 0 /\ boots = 0

Next ==
  \/ Reset \/ Pause \/ Resume \/ Frame \/ EndBatch \/ PrintOn
  \/ \E key \in scenario.keyboard : KeyDown(key)
  \/ \E line \in scenario.lines : CommandButton(line)
  \/ \E up \in BOOLEAN : WheelTurn(up)
  \/ \E e \in scenario.guest : Guest(e)

Spec == Init /\ [][Next]_vars

-----------------------------------------------------------------------------
(* Properties.                                                              *)

\* Every part keeps its type: the cursor stays where a character can be put, the
\* offset within the history, the framebuffer has the size of the registers
\* unless an allocation failed.
TypeOK ==
  /\ running \in BOOLEAN /\ inBatch \in BOOLEAN /\ crashed \in BOOLEAN
  /\ animFrameId \in FrameId \cup {NoFrame} /\ pending \subseteq FrameId
  /\ left \in 0 .. Batch
  /\ scenario \in Scenarios /\ sending \in Seq(Chars)
  /\ typed \in Seq(Nat) /\ got \in Seq(Nat)
  /\ TerminalType(term)
  /\ MachineType(m) /\ ~m.thrown

\* However pauses, resumes, reboots and exceptions follow one another, there is
\* never a second loop: at rest one frame is pending, the one a pause would
\* cancel, exactly when the guest runs and no exception has ended its loop
\* (start, pause, boot, _loop).
OneLoop ==
  IF inBatch THEN running /\ pending = {}
  ELSE pending = IF running /\ ~crashed THEN {animFrameId} ELSE {}

\* The guest reads the bytes of the keyboard and of the buttons in the order they
\* were sent since it booted, none twice and none left out except by clearing the
\* FIFO (onKey, sendInput, Uart).
KeysInOrder == typed = got \o m.rx

\* Output under a user who is reading the history does not move what he reads: a
\* line of history stays on its line, unless the view already starts at the oldest
\* row of a full history, which is dropped, or the screen is cleared (_scroll).
ViewStays ==
  [][<<outs, sending>>' # <<outs, sending>> /\ term.off > 0 =>
       LET top == term.off = MaxScrollback /\ term'.scrollback # term.scrollback
           drop == IF top THEN 1 ELSE 0
       IN  \/ term'.off = 0 /\ term'.buffer = BlankScreen
           \/ \A y \in drop .. Smaller(Rows, term.off) - 1 :
                Shown(term', y - drop) = Shown(term, y)]_vars

\* The cursor is painted on the line that shows the row the next character goes
\* to, and on no line when that row is not in view (render, _getViewportRow).
CursorOnItsRow ==
  \A y \in 0 .. Rows - 1 :
    y \in CursorLines(term) <=>
      term.x < Cols /\ ViewRow(term, y) = [of |-> "buffer", at |-> term.y]

\* What a block command may make of the machine n: with success the whole sector
\* has moved and nothing else, with an error nothing.
Whole(n, cmd, u) ==
  LET b == n.blk
      window == {b.dma + i : i \in 0 .. SectorWords - 1}
      words == {b.sector * SectorWords + i : i \in 0 .. SectorWords - 1}
  IN  /\ u.blk.status = 3 => u.ram = n.ram /\ u.disk = n.disk
      /\ u.blk.status = 2 /\ window \cap Windows = {} =>
           /\ \A i \in 0 .. SectorWords - 1 :
                u.ram[b.dma + i] = u.disk[b.sector * SectorWords + i]
           /\ IF cmd = 1
              THEN u.disk = n.disk /\ \A a \in DOMAIN n.ram \ window : u.ram[a] = n.ram[a]
              ELSE u.ram = n.ram /\ \A a \in DOMAIN n.disk \ words : u.disk[a] = n.disk[a]

\* A block command that reports success has moved the whole sector and nothing
\* else, one that reports an error nothing (BlockDevice._exec).
TransferWhole ==
  [][\A e \in scenario.guest :
       e.op = "reg" /\ e.reg = "command" /\ Guest(e) => Whole(m, e.val, m')]_vars

\* A command as the guest means it: the colour it gives the pixel at column x and
\* row y, which had colour c.
Meaning(cmd, x, y, c) ==
  CASE cmd[1] = 1 -> cmd[2]
    [] cmd[1] = 2 -> IF /\ cmd[2] <= x /\ x < cmd[2] + cmd[4]
                        /\ cmd[3] <= y /\ y < cmd[3] + cmd[5] THEN cmd[6] ELSE c
    [] cmd[1] = 3 -> IF /\ cmd[3] <= x /\ x < cmd[3] + cmd[5]
                        /\ cmd[4] <= y /\ y < cmd[4] + cmd[6]
                     THEN m.ram[cmd[2] + (y - cmd[4]) * cmd[5] + (x - cmd[3])] ELSE c
    [] cmd[1] = 4 /\ cmd[2] \in {1, 2} -> Art
    [] OTHER -> c

\* The colour that the commands of a list, one after the other, give that pixel.
Colour(list, x, y, c) ==
  LET draw(d, k) == Meaning(list[k + 1], x, y, d)
  IN  Loop(draw, c, Len(list))

\* The machine with a list of commands in the upper words of RAM.
Ready(list) ==
  LET words == FlattenSeq(list)
      base == RamWords - Len(words)
  IN  [m EXCEPT !.ram = [a \in DOMAIN @ |-> IF a >= base THEN words[a - base + 1] ELSE @[a]],
                !.gpu.cmd = base, !.gpu.len = Len(words)]

\* Whatever was drawn before and whatever the screen's size, a buffer of commands
\* gives each pixel the colour that its commands, one after the other, give it:
\* nothing is drawn beside the rectangle or wraps to another row, and every
\* command is found where the one before it ends (_execCommandBuffer, _drawRect,
\* _blit).
GpuPaints ==
  \A list \in scenario.lists :
    LET drawn == Submit(Ready(list)).gpu.fb
    IN  m.gpu.w * m.gpu.h = Len(m.gpu.fb) =>
          \A i \in 1 .. Len(m.gpu.fb) :
            drawn[i] = Colour(list, (i - 1) % m.gpu.w, (i - 1) \div m.gpu.w, m.gpu.fb[i])
=============================================================================
