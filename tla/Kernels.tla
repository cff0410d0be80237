-------------------------------- MODULE Kernels -------------------------------
(* What a circuit means: the state a simulator reaches with it.  A kernel acts *)
(* on all the wires of the circuit as cqam-sim's kernel of that name acts on a *)
(* register (apply_sv), a native gate as the mock device's matrices do.  The   *)
(* mock device skips a reset, a barrier and a measurement.                     *)
EXTENDS Amplitudes

RECURSIVE Run(_, _, _, _), Effect(_, _, _)

(* ops[lo..hi] one after another.  Halving the span keeps the evaluation      *)
(* shallow; the test has the first half evaluated before the second.          *)
Run(v, n, ops, span) ==
    IF span[1] > span[2] THEN v
    ELSE IF span[1] = span[2] THEN Effect(v, n, ops[span[1]])
    ELSE LET mid == (span[1] + span[2]) \div 2
             w == Run(v, n, ops, <<span[1], mid>>)
         IN  IF w = <<>> THEN w ELSE Run(w, n, ops, <<mid + 1, span[2]>>)

RunAll(v, n, ops) == Run(v, n, ops, <<1, Len(ops)>>)

Diagonal(v, n, Angle(_)) == Vector(n, LAMBDA k : Times(Phase(Angle(k)), At(v, k)))

Sum(v) == LET RECURSIVE S(_, _)
              S(lo, hi) == IF lo = hi THEN v[lo]
                           ELSE LET mid == (lo + hi) \div 2 IN Plus(S(lo, mid), S(mid + 1, hi))
          IN  S(1, Len(v))

------------------------------------------------------------------------------
(* QPREP                                                                      *)

Prepared(n, dist) ==
    CASE dist = "Zero" -> Ground(n)
      [] dist = "Uniform" -> Vector(n, LAMBDA k : 1)
      [] OTHER -> Vector(n, LAMBDA k : IF k \in {0, Dim(n) - 1} THEN 1 ELSE 0)

Amplitude(pairs, q, bit) ==
    IF bit = 0 THEN Times(Cos(pairs[3 * q + 1]), Phase(pairs[3 * q + 2]))
               ELSE Times(Sin(pairs[3 * q + 1]), Phase(pairs[3 * q + 3]))
Product(n, pairs) ==
    Vector(n, LAMBDA k : FoldLeft(LAMBDA a, q : Times(a, Amplitude(pairs, q, Bit(k, n, q))), 1, Upto(n)))

CustomMatrix(a) == <<Times(Cos(a[1]), Phase(a[2])), Times(Sin(a[1]), Phase(a[3])),
                     Times(Sin(a[1]), Phase(a[4])), Times(Cos(a[1]), Phase(a[5]))>>

------------------------------------------------------------------------------
(* The kernels                                                                *)

ControlledPhase(v, n, c, t, angle) ==
    Diagonal(v, n, LAMBDA k : IF Bit(k, n, c) = 1 /\ Bit(k, n, t) = 1 THEN angle ELSE 0)
Reversed(v, n) == Vector(n, LAMBDA k : At(v, Number(Reverse(Bits(k, n)))))

FourierSteps(n) ==
    Concat(n, [j \in 1..n |-> <<H(j - 1)>> \o
        [m \in 1..(n - j) |-> Op("gate", "CPhase", <<j - 1 + m, j - 1>>, <<(2 * Pi) \div 2^m>>)]])
Backwards(ops) == [k \in DOMAIN ops |->
    [ops[Len(ops) + 1 - k] EXCEPT !.args = [i \in DOMAIN @ |-> -@[i]]]]

Diffused(v, n) ==
    LET mean2 == FoldLeft(LAMBDA s, i : Times(Half, s), Sum(v), Upto(n - 1))
    IN  Vector(n, LAMBDA k : Minus(mean2, At(v, k)))
Marked(v, n, targets) ==
    Vector(n, LAMBDA k : IF k \in targets THEN Minus(0, At(v, k)) ELSE At(v, k))
Permuted(v, n, table) ==
    Vector(n, LAMBDA k : At(v, CHOOSE j \in 0..(Dim(n) - 1) : table[j + 1] = k))

(* The control is taken out of the index; the lowest bits of what is left are *)
(* the target's, those above them are spectators.                             *)
ControlledSub(v, n, o) ==
    LET control == o.args[1]
        t == IF o.args[4] = 0 THEN n - 1 ELSE o.args[4]
        fold == o.sub \in {"Rotate", "PhaseShift"}
        scale == 2^o.args[2]
        rest == SubSeq(o.args, 5, Len(o.args))
        angle == scale * (IF o.sub = "PhaseShift" /\ o.args[3] < 0 THEN -o.args[3] ELSE o.args[3])
        args == IF fold THEN <<angle>> ELSE rest
        others == SelectSeq(Upto(n), LAMBDA q : q # control)
        targets == SubSeq(others, n - t, n - 1)
        sub == [Kernel(o.sub, Upto(t), args) EXCEPT !.sub = ""]
        times == IF fold THEN 1 ELSE scale
        Inner(k) == Number([i \in 1..t |-> Bit(k, n, targets[i])])
        With(k, j) == k + FoldLeft(LAMBDA s, i : s + (Bit(j, t, i) - Bit(k, n, targets[i + 1]))
                                                       * 2^(n - 1 - targets[i + 1]), 0, Upto(t))
        Slice(k) == RunAll(Vector(t, LAMBDA j : At(v, With(k, j))), t, [i \in 1..times |-> sub])
    IN  Vector(n, LAMBDA k : IF Bit(k, n, control) = 0 THEN At(v, k) ELSE At(Slice(k), Inner(k)))

Applied(v, n, o) ==
    CASE o.name = "Init" -> Vector(n, LAMBDA k : 1)
      [] o.name = "Entangle" -> Apply2(v, n, "Cx", 0, 1)
      [] o.name = "Fourier" -> Reversed(RunAll(v, n, FourierSteps(n)), n)
      [] o.name = "FourierInv" -> RunAll(Reversed(v, n), n, Backwards(FourierSteps(n)))
      [] o.name = "Diffuse" -> Diffused(v, n)
      [] o.name = "GroverIter" -> Diffused(Marked(v, n, Range(o.args)), n)
      [] o.name \in {"Rotate", "PhaseShift"} -> Diagonal(v, n, LAMBDA k : o.args[1] * k)
      [] o.name = "DiagonalUnitary" -> Diagonal(v, n, LAMBDA k : o.args[k + 1])
      [] o.name = "Permutation" -> Permuted(v, n, o.args)
      [] o.name = "ControlledU" -> ControlledSub(v, n, o)

Effect(v, n, o) ==
    CASE o.op = "prep" -> Prepared(n, o.name)
      [] o.op = "product" -> Product(n, o.args)
      [] o.op = "unitary" -> Apply1(v, n, o.wires[1], CustomMatrix(o.args))
      [] o.op = "kernel" -> Applied(v, n, o)
      [] o.op = "gate" /\ o.name = "CPhase" ->
            ControlledPhase(v, n, o.wires[1], o.wires[2], o.args[1])
      [] o.op = "gate" /\ o.name # "CPhase" -> ApplyGate(v, n, o)
      [] OTHER -> v

Meaning(n, ops) == RunAll(Ground(n), n, ops)
=============================================================================
