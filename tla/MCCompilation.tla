---------------------------- MODULE MCCompilation -----------------------------
(* Programs for TLC: every kernel on a product state without symmetries, every *)
(* gate, rows of gates for the optimizer, and a few programs compiled again    *)
(* and again for the cache.                                                    *)
EXTENDS CompilationMeaning

CONSTANTS Longest       \* gates in a row

(* Each wire turned by angles of its own: no two amplitudes are equal.        *)
Spread(n) == [q \in 1..n |-> Turn("U3", q - 1, <<3 + 4 * q, 1 + 6 * q, 0>>)]
Whole(n, ops) == Program(n, <<Prep("Zero", Upto(n))>> \o ops \o <<Measure(Reverse(Upto(n)))>>)
On(n, ops) == Whole(n, Spread(n) \o ops)

Rotated(table, by) == [k \in DOMAIN table |-> (k - 1 + by) % Len(table)]
Tables(n) == {t \in [1..2^n -> 0..(2^n - 1)] : Cardinality(Range(t)) = 2^n}
CoinTable(n, a, b) == LET half == 2^(n - 1) IN
    [k \in 1..(2 * half) |-> IF k <= half THEN (k - 1 + a) % half ELSE half + ((k - 1 - half + b) % half)]
Some3 == {<<1, 2, 0, 3, 4, 5, 6, 7>>, <<7, 6, 5, 4, 3, 2, 1, 0>>, <<3, 0, 1, 2, 5, 4, 7, 6>>}
PermutationTables(n) ==
    CASE n < 3 -> Tables(n)
      [] n = 3 -> Some3
      [] n = 4 -> {Upto(16), [Upto(16) EXCEPT ![4] = 12, ![13] = 3]}
Shifts(n) == IF n < 2 THEN {} ELSE
    {Rotated(Upto(2^n), by) : by \in {1, -1, 2}}
    \cup {CoinTable(n, a, b) : a \in {0, 1, -1}, b \in {0, -1, 2}}

Kernels1(n) ==
    {Kernel(k, Upto(n), <<5>>) : k \in {"Diffuse", "Rotate", "PhaseShift", "Fourier", "FourierInv"}}
    \cup (IF n = 1 THEN {} ELSE {Kernel("Entangle", Upto(n), <<>>)})
    \cup {Kernel("GroverIter", Upto(n), t) : t \in {<<0>>, <<2^n - 1>>, <<1, 0>>, <<2^n>>}}
    \cup {Kernel("Permutation", Upto(n), t) : t \in PermutationTables(n) \cup Shifts(n)}
    \cup {Kernel("DiagonalUnitary", Upto(n), [k \in 1..2^n |-> 8 * ((k * k) % 7) - 16])}
(* A kernel under control whose gates all have a controlled gate of the same  *)
(* meaning: a global phase of the gates becomes one of the control, and an rz  *)
(* under control has none.                                                     *)
Controlled(n) ==
    {ControlledU(sub, Upto(n), c, p, angle, t, rest) :
        sub \in {"Entangle", "Diffuse", "GroverIter", "Rotate", "PhaseShift"},
        c \in {0, n - 1}, p \in {0, 1}, angle \in {-6}, t \in {0, n - 2}, rest \in {<<1>>}}
Usable(o) ==
    LET t == IF o.args[4] = 0 THEN Len(o.wires) - 1 ELSE o.args[4]
    IN  /\ o.sub \in {"Entangle", "Diffuse", "GroverIter"} => t > 1
        /\ o.sub \in {"Diffuse", "GroverIter"} => t = 2 /\ o.args[2] = 1
ControlledTables ==
    {ControlledU("Permutation", Upto(3), c, p, 0, 0, t) : c \in 0..2, p \in {0, 1}, t \in Shifts(2)}

Gates1 == {Gate(g, 1) : g \in {"H", "X", "Y", "Z", "S", "Sdg", "T", "Tdg"}}
          \cup {Turn(g, 1, <<a>>) : g \in {"Rx", "Rz"}, a \in {-9, 32, 64}}
          \cup {Turn("U3", 0, <<a, b, c>>) : a \in {0, 7, 32}, b \in {0, 5}, c \in {0, -3}}
          \cup {Gate2(g, a, 1 - a) : g \in {"Cx", "Cz", "Swap", "Ecr"}, a \in {0, 1}}
          \cup {CustomUnitary(0, t, 0, b, c, b + c + Pi) : t \in {9, Pi}, b \in {0, 3}, c \in {5}}
          \cup {CustomUnitary(1, 0, 2, 0, 0, 9)}
Rows == {Cx(0, 1), Cx(1, 0), X(0), Gate("S", 0), Rz(1, 3), Barrier(<<1>>), Turn("U3", 1, <<Pi, 0, 0>>)}

Wide == {On(n, <<o>>) : n \in {1}, o \in Kernels1(1)} \cup {On(2, <<o>>) : o \in Kernels1(2)}
        \cup {On(3, <<o>>) : o \in Kernels1(3) \cup {c \in Controlled(3) : Usable(c)}}
        \cup {On(4, <<o>>) : o \in Kernels1(4) \cup {c \in Controlled(4) : Usable(c)}}
        \cup {On(Len(o.wires), <<o>>) : o \in ControlledTables}
        \cup {On(2, <<o>>) : o \in Gates1}
        \cup {On(2, r) : r \in [1..Longest -> Rows]}
        \cup {On(3, <<Cx(0, 2), Cx(2, 1), Cz(1, 0), Swap(2, 0), Cx(0, 1)>>)}
        \cup {Whole(n, <<Prep(d, Upto(n)), Kernel("Rotate", Upto(n), <<5>>)>>) :
                 n \in {2, 3}, d \in {"Uniform", "Ghz"}}
        \cup {Whole(2, <<PrepProduct(<<0, 1>>, <<t, 0, 5, 11, 0, -3>>)>>) : t \in {7, Pi}}
        \cup {Whole(2, <<Kernel("Init", <<0, 1>>, <<>>)>>)}

Again == {Whole(2, <<Kernel("GroverIter", <<0, 1>>, <<t>>)>>) : t \in {0, 3}} \cup {
          Whole(2, <<H(0), Cx(0, 1)>>), On(2, <<Kernel("Entangle", <<0, 1>>, <<>>)>>)}

MCPrograms == {{p} : p \in Wide} \cup {Again}
AgainAlone == {Again}
MCMaxCalls(caller) == IF caller = Again THEN 5 ELSE 1
Line(n) == [size |-> n, edges |-> {<<i, i + 1>> : i \in 0..(n - 2)}]
Full(n) == [size |-> n, edges |-> {e \in (0..(n - 1)) \X (0..(n - 1)) : e[1] < e[2]}]
Star(n) == [size |-> n, edges |-> {<<0, i>> : i \in 1..(n - 1)}]
MCDevices == {Full(5), Line(3), Star(4)}
=============================================================================
