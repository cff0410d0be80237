---------------------------- MODULE MCToolchain -----------------------------
(* Sources for TLC: every mnemonic with boundary operands, one line at a time; *)
(* every program of up to three lines over two labels and the branches; labels *)
(* spelled like addresses, and one too many; and data labels that begin one    *)
(* another.                                                                    *)
EXTENDS Toolchain

CONSTANT ProgramLength

Some(kind) ==
    CASE kind \in {"R", "F", "Z"} -> {[reg |-> kind, n |-> v] : v \in {1, 15}}
      [] kind = "Q" -> {[reg |-> kind, n |-> v] : v \in {0, 7}}
      [] kind = "H" -> {[reg |-> "H", n |-> 0], [reg |-> "H", n |-> 7], [reg |-> "R", n |-> 12]}
      [] kind = "u8" -> {[num |-> v] : v \in {3, 63, 64, 255}}
      [] kind = "i8" -> {[num |-> v] : v \in {-128, -1, 127}}
      [] kind = "i16" -> {[num |-> v] : v \in {-32768, -1, 32767}}
      [] kind = "u16" -> {[num |-> v] : v \in {0, 65535}}
      [] kind \in {"target", "name"} -> {[label |-> [name |-> "a"]]}
      [] kind = "mode" -> {[id |-> <<kind, 1>>], [num |-> 0], [num |-> 2]}
      [] OTHER -> {[id |-> <<kind, Max(Ids[kind])>>], [num |-> Min(Ids[kind])],
                   [num |-> Max(Ids[kind]) + 1]}

Operands(op) == {t \in [DOMAIN Fields[op] -> UNION {Some(Fields[op][k]) : k \in DOMAIN Fields[op]}] :
                    \A k \in DOMAIN t : t[k] \in Some(Fields[op][k])}
Written(op, t) ==
    CASE op \in {"QKERNEL", "QKERNELF", "QKERNELZ"} -> <<t[3], t[1], t[2], t[4], t[5]>>
      [] op = "HREDUCE" -> <<t[3], t[1], t[2]>>
      [] OTHER -> t
Lines == UNION {{[op |-> op, toks |-> Written(op, t)] : t \in Operands(op)} : op \in Mnemonics}
LabelA == [op |-> "LABEL", toks |-> <<[label |-> [name |-> "a"]]>>]
Short == {[op |-> "IINC", toks |-> <<[reg |-> "R", n |-> 3]>>],
          [op |-> "QOBSERVE", toks |-> <<[reg |-> "H", n |-> 1], [reg |-> "Q", n |-> 2]>>]}
         \cup {[op |-> op, toks |-> LabelA.toks] : op \in DOMAIN Aliases}

Plain == [data |-> <<>>, shared |-> <<>>, private |-> 0, qubits |-> 0, threads |-> 0]
With(code, rest) == [code |-> code] @@ rest

OneLiners == {With(<<l>> \o <<LabelA>>, Plain) : l \in (Lines \cup Short) \ {LabelA}}

LabelNamed(text) == [op |-> "LABEL", toks |-> <<[label |-> text]>>]
Halt == [op |-> "HALT", toks |-> <<>>]
ToLabel(n) == {[op |-> "LABEL", toks |-> <<[label |-> [name |-> n]]>>],
               [op |-> "JGT", toks |-> <<[label |-> [name |-> n]]>>],
               [op |-> "JIF", toks |-> <<[reg |-> "R", n |-> 2], [label |-> [name |-> n]]>>],
               [op |-> "SETIV", toks |-> <<[num |-> 1], [label |-> [name |-> n]]>>]}
Flow == ToLabel("a") \cup ToLabel("b") \cup {Halt}
LikeAnAddress ==
    {<<LabelNamed([addr |-> 2]), Halt, LabelA, [op |-> op, toks |-> LabelA.toks]>> :
        op \in {"JMP", "JGT"}}
ThreeLabels == <<LabelA, LabelNamed([name |-> "b"]), LabelNamed([name |-> "c"])>>
Control == {With(c, Plain) : c \in SeqOf(Flow, ProgramLength) \cup LikeAnAddress \cup {ThreeLabels}}

Ref(name, len) == [op |-> "ILDM", toks |-> <<[reg |-> "R", n |-> 1], [ref |-> name, len |-> len]>>]
Named1(name) == <<[label |-> name], [cells |-> 2, count |-> 1]>>
Directives == {<<>>, Named1(<<"x">>), Named1(<<"x", 1>>) \o Named1(<<"x">>),
               Named1(<<"x">>) \o <<[org |-> 5]>> \o Named1(<<"x", 1>>),
               Named1(<<"x">>) \o <<[org |-> 1]>>,
               <<[org |-> 65537]>> \o Named1(<<"x">>),
               <<[label |-> <<"x">>], [label |-> <<"x", -1>>], [cells |-> 3, count |-> 3]>>}
WithData == {With(<<Ref(name, len)>>,
                  [data |-> d, shared |-> s, private |-> p, qubits |-> 3 * p, threads |-> 2 * p]) :
               name \in {<<"x">>, <<"x", 1>>, <<"x", -1>>}, len \in BOOLEAN,
               d \in Directives, s \in Directives, p \in {0, 1}}

MCSources == OneLiners \cup Control \cup WithData
=============================================================================
