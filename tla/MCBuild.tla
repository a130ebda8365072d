------------------------------- MODULE MCBuild -------------------------------
(* Scenarios for Build: layout, branches, addresses, values, images.          *)
EXTENDS Build

Op(o, e) == [op |-> o, e |-> e]
Inst1(kind, e) == [op |-> "inst", kind |-> kind, e |-> e]
At(n, k) == [sym |-> n, k |-> k]
Named(n) == [op |-> "label", name |-> n]
In(s) == [op |-> "section", name |-> s]
Sized(o, n) == [op |-> o, n |-> n]
Data(n, e) == [op |-> "value", n |-> n, e |-> e]
Nop == Inst1("nop", Literal(0))

plain == [base |-> 65536, lines |-> 5, files |-> {}]
With(lines, base, source) ==
  [base |-> base, lines |-> lines, source |-> source, files |-> {}]

layout == With(6, 65536, {In("text"), In("data"), In("bss"), Named("a"), Named("_start"),
                          Sized("bytes", 1), Sized("align", 2), Nop})
branches == With(6, 65536, {Named("a"), Sized("bytes", 4090), Sized("bytes", 2), Sized("align", 2),
                            Inst1("b", At("a", 0)), Inst1("j", At("a", 4))})
jumps == With(6, 65536, {Named("a"), Sized("bytes", 2 ^ 20 - 8), Nop, Sized("bytes", -1),
                         Inst1("j", At("a", 0)), Sized("align", 17)})
addresses == With(6, 1073741824, {Named("a"), In("data"), In("bss"), In("text"),
                                  Sized("bytes", 2044), Op("la", At("a", 0)), Op("li", At("a", 0))})
values == With(5, 65536,
  {[op |-> "equ", name |-> n, e |-> e] : n \in {"k"}, e \in {Literal(-2048), Literal(-128), At("a", 0)}}
  \cup {Named("a"), Op("li", At("k", -1)), Op("li", At("a", 4)), Data(4, At("k", 0)), Data(4, At("k", 4)),
        Data(1, Literal(256)), Data(1, At("k", 0)), Inst1("i", At("k", 0)), Inst1("s", At("k", 0))})
numbers == With(1, 65536,
  {Op("li", Literal(k)) : k \in {0, 2047, 2048, -2048, -2049, 4096, 6144, 2147483647,
                                 2147481600, -2147483647, 268435456}}
  \cup {Inst1(kind, Literal(k)) : kind \in {"i", "s"}, k \in {-2048, -1, 31, 32, 2047, 2048}}
  \cup {Inst1("u", Literal(k)) : k \in {1, 524288, 1048576}})

File(n, size) == [name |-> n, contents |-> n, size |-> size, dir |-> FALSE]
images == [With(4, 65536, {Nop, Sized("bytes", 1000), Sized("bytes", 3000)})
             EXCEPT !.files = {File("f", 0), File("g", 3), File("h", 4),
                               [File("e", 0) EXCEPT !.dir = TRUE]}]

mcScenarios == {layout, branches, jumps, addresses, values, numbers, images}
=============================================================================
