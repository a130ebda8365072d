----------------------------- MODULE MCConsole ------------------------------
(* Scenarios for Console: output and history, escapes, the session, the disk, *)
(* the GPU.                                                                  *)
EXTENDS Console

mcRamWords == 16
mcWindows == {18, 20}
mcSectors == 2
mcSectorWords == 2
mcChars == {" ", "x", "lf", "cr", "tab", "bs", "esc", "[", "J", "H", "m", ";", "1", "2", "3", "9"}

Tx(strings) == {[op |-> "tx", str |-> s] : s \in strings}
Reg(r, vals) == {[op |-> "reg", reg |-> r, val |-> v] : v \in vals}
Op(o) == [op |-> o]

plain == [guest |-> {}, keyboard |-> {}, lines |-> {}, lists |-> {}, wheel |-> FALSE,
          pauses |-> FALSE, outs |-> 0, keys |-> 0, boots |-> 0,
          ram |-> [a \in 0 .. mcRamWords - 1 |-> 0],
          disk |-> [a \in 0 .. mcSectors * mcSectorWords - 1 |-> 10 + a]]

history == [plain EXCEPT !.guest = Tx({<<"x">>, <<"lf">>}), !.outs = 9, !.wheel = TRUE,
                         !.keyboard = {"PageUp", "S-ArrowDown", "S-Home", "S-End"},
                         !.keys = 1]
clears == [plain EXCEPT !.guest = Tx({<<"x">>, <<"lf">>, <<"esc", "[", "J">>, <<"esc", "[">>,
                                      <<"3", "J">>}),
                        !.outs = 7, !.keyboard = {"S-ArrowUp"}, !.keys = 2]
colours == [plain EXCEPT !.guest = Tx({<<"x">>, <<"esc">>, <<"[">>, <<"3", "1">>,
                                       <<";">>, <<"m">>}),
                         !.outs = 6]
moves == [plain EXCEPT !.guest = Tx({<<"x">>, <<"tab">>, <<"bs">>, <<"cr", "lf">>,
                                     <<"esc", "[">>, <<"2", ";">>, <<"9">>, <<"H">>}),
                       !.outs = 5]
session == [plain EXCEPT !.guest = {Op("rx"), Op("nop"), Op("halt"),
                                    [op |-> "store", at |-> 16, val |-> 0]}
                                   \cup Reg("fcr", {1, 2}),
                         !.keyboard = {"a", "Enter", "C-c", "e'", "A-a"},
                         !.lines = {<<112, 10>>},
                         !.pauses = TRUE, !.keys = 3, !.boots = 2]
disks == [plain EXCEPT !.guest = Reg("sector", {0, 1, 2}) \cup Reg("dma", {0, 15, 18})
                                 \cup Reg("command", {1, 2, 7})]

\* A picture of four words, and a buffer: clear, a rectangle, a blit, a present.
drawing == <<3, 4, 5, 6, 1, 7, 3, 0, 1, 0, 2, 2, 5, 0, 0, 0>>
gpus == [plain EXCEPT !.guest = Reg("width", {0, 3, 9}) \cup Reg("height", {3})
                                \cup Reg("fbAddr", {2, 13}) \cup Reg("cmdAddr", {4, 14})
                                \cup Reg("cmdLen", {0, 9}) \cup Reg("submit", {1})
                                \cup Reg("present", {1}),
                      !.ram = [a \in 0 .. mcRamWords - 1 |-> drawing[a + 1]],
                      !.lists = {<<<<1, 7>>, <<2, 1, 0, 1, 2, 8>>>>,
                                 <<<<2, -1, -1, 2, 5, 8>>, <<4, 1, 0, 0, 0>>>>,
                                 <<<<2, 1, 1, 9, 9, 8>>, <<1, 9>>>>,
                                 <<<<3, 0, 0, 1, 2, 2>>, <<4, 3, 0, 0, 0>>>>,
                                 <<<<3, 0, -1, 0, 2, 2>>>>,
                                 <<<<2, 0, 2, 0, 4, 8>>, <<2, 2, 0, -1, 1, 8>>>>}]

mcScenarios == {history, clears, colours, moves, session, disks, gpus}
=============================================================================
