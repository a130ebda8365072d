------------------------------- MODULE MCPipe -------------------------------
(* Small instances of Pipe for TLC.                                        *)
EXTENDS Pipe

(* Nothing, one byte, more than the ring has room for.                     *)
Writes == {<<>>, <<1>>, <<2, 1, 2>>}
Reads == {-1, 1, 3}
=============================================================================
