------------------------------ MODULE Amplitudes ------------------------------
(* State vectors.  The amplitudes of the circuits considered are polynomials   *)
(* in w = exp(i pi / 64) over the powers of two.  They are computed in the     *)
(* field of 40961 elements, where 19734 is a primitive 128th root of unity:    *)
(* what is equal there as a polynomial identity of w is equal, and two vectors *)
(* that differ here differ.                                                    *)
EXTENDS Circuits

Prime == 40961
Plus(a, b) == (a + b) % Prime
Times(a, b) == (a * b) % Prime
Minus(a, b) == (a - b) % Prime
Half == 20481

RECURSIVE PowersFrom(_, _)
PowersFrom(x, n) == IF n = 0 THEN <<>> ELSE <<x>> \o PowersFrom(Times(x, 19734), n - 1)
Powers == PowersFrom(1, 4 * Pi)

(* exp(i a / 2) and exp(i a); the sine and cosine of a / 2.                    *)
HalfPhase(a) == Powers[(a % (4 * Pi)) + 1]
Phase(a) == HalfPhase(2 * a)
I == HalfPhase(Pi)
Cos(a) == Times(Half, Plus(HalfPhase(a), HalfPhase(-a)))
Sin(a) == Times(Times(Half, HalfPhase(-Pi)), Minus(HalfPhase(a), HalfPhase(-a)))
InverseOfRoot2 == Cos(Pi \div 2)

Dim(n) == 2^n

(* Qubit q of n in basis state k, and k with that qubit flipped: qubit 0 is   *)
(* the most significant.                                                      *)
Bit(k, n, q) == (k \div 2^(n - 1 - q)) % 2
Flip(k, n, q) == IF Bit(k, n, q) = 0 THEN k + 2^(n - 1 - q) ELSE k - 2^(n - 1 - q)
Bits(k, n) == [q \in 1..n |-> Bit(k, n, q - 1)]
Number(bits) == FoldLeft(LAMBDA v, b : 2 * v + b, 0, bits)

(* The vector with amplitude A(k) in basis state k; an amplitude of v.        *)
Vector(n, A(_)) == [k \in 1..Dim(n) |-> A(k - 1)] \o <<>>
At(v, k) == v[k + 1]
Ground(n) == Vector(n, LAMBDA k : IF k = 0 THEN 1 ELSE 0)

(* m is the 2x2 matrix <<m00, m01, m10, m11>>.                                *)
Apply1(v, n, q, m) ==
    Vector(n, LAMBDA k :
        IF Bit(k, n, q) = 0
        THEN Plus(Times(m[1], At(v, k)), Times(m[2], At(v, Flip(k, n, q))))
        ELSE Plus(Times(m[3], At(v, Flip(k, n, q))), Times(m[4], At(v, k))))

U3Matrix(t, p, l) == <<Cos(t), -Times(Phase(l), Sin(t)),
                       Times(Phase(p), Sin(t)), Times(Phase(p + l), Cos(t))>>

Matrix(name, a) ==
    CASE name \in {"X", "x"} -> <<0, 1, 1, 0>>
      [] name = "Y" -> <<0, -I, I, 0>>
      [] name = "H" -> <<InverseOfRoot2, InverseOfRoot2, InverseOfRoot2, -InverseOfRoot2>>
      [] name = "Rx" -> <<Cos(a[1]), -Times(I, Sin(a[1])), -Times(I, Sin(a[1])), Cos(a[1])>>
      [] name = "Ry" -> <<Cos(a[1]), -Sin(a[1]), Sin(a[1]), Cos(a[1])>>
      [] name \in {"Rz", "rz"} -> <<HalfPhase(-a[1]), 0, 0, HalfPhase(a[1])>>
      [] name \in {"Z", "S", "Sdg", "T", "Tdg"} ->
            <<1, 0, 0, Phase([Z |-> Pi, S |-> Pi \div 2, Sdg |-> -(Pi \div 2),
                              T |-> Pi \div 4, Tdg |-> -(Pi \div 4)][name])>>
      [] name = "U3" -> U3Matrix(a[1], a[2], a[3])
      [] name = "sx" -> <<Times(Half, Plus(1, I)), Times(Half, Minus(1, I)),
                          Times(Half, Minus(1, I)), Times(Half, Plus(1, I))>>

Apply2(v, n, name, a, b) ==
    CASE name \in {"Cx", "cx"} ->
            Vector(n, LAMBDA k : At(v, IF Bit(k, n, a) = 1 THEN Flip(k, n, b) ELSE k))
      [] name = "Cz" ->
            Vector(n, LAMBDA k : IF Bit(k, n, a) = 1 /\ Bit(k, n, b) = 1
                                 THEN Minus(0, At(v, k)) ELSE At(v, k))
      [] name = "Swap" ->
            Vector(n, LAMBDA k : At(v, IF Bit(k, n, a) # Bit(k, n, b)
                                       THEN Flip(Flip(k, n, a), n, b) ELSE k))

ApplyGate(v, n, o) ==
    IF Len(o.wires) = 1 THEN Apply1(v, n, o.wires[1], Matrix(o.name, o.args))
                        ELSE Apply2(v, n, o.name, o.wires[1], o.wires[2])

(* Equal up to a factor: the same state.                                      *)
SameRay(v, w) ==
    LET p == CHOOSE k \in DOMAIN v : v[k] # 0
    IN  /\ w[p] # 0
        /\ \A k \in DOMAIN v : Times(v[p], w[k]) = Times(w[p], v[k])
=============================================================================
