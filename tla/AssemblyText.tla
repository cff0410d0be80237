---------------------------- MODULE AssemblyText ----------------------------
(* The text notation of an instruction: the parser's syntax of every mnemonic *)
(* and the line the disassembler prints.  A data reference "@name" is         *)
(* substituted in the text of the line before the line is parsed.             *)
EXTENDS InstructionSet

Bad == [op |-> "bad", f |-> <<>>]

(* parse_reg checks the number against the file the prefix names; nothing     *)
(* checks that the prefix names the file the instruction wants.               *)
Files == {"R", "F", "Z", "Q", "H"}
IsReg(t) == /\ "reg" \in DOMAIN t
            /\ t.n < IF t.reg \in {"R", "F", "Z"} THEN 16 ELSE 8
IsNum(t, lo, hi) == /\ "num" \in DOMAIN t
                    /\ t.num \in lo..hi
Named(t, kind) == "id" \in DOMAIN t /\ t.id[1] = kind
(* Identifiers by name, or by number; a file selector only by number.         *)
IsId(t, kind) == \/ Named(t, kind) /\ kind # "file"
                 \/ "num" \in DOMAIN t /\ t.num \in Ids[kind]

Accepts(kind, t) ==
    \/ kind \in Files /\ IsReg(t)
    \/ kind = "u8" /\ IsNum(t, 0, 255)
    \/ kind = "i8" /\ IsNum(t, -128, 127)
    \/ kind = "i16" /\ IsNum(t, -32768, 32767)
    \/ kind = "u16" /\ IsNum(t, 0, 65535)
    \/ kind \in {"target", "name"} /\ "label" \in DOMAIN t
    \/ kind \in DOMAIN Ids /\ IsId(t, kind)
Value(t) == CASE "reg" \in DOMAIN t -> t.n
              [] "num" \in DOMAIN t -> t.num
              [] "id" \in DOMAIN t  -> t.id[2]
              [] OTHER              -> t.label

Instruction(op, kinds, toks) ==
    IF /\ Len(toks) = Len(kinds)
       /\ \A k \in DOMAIN kinds : Accepts(kinds[k], toks[k])
    THEN [op |-> op, f |-> [k \in DOMAIN kinds |-> Value(toks[k])]]
    ELSE Bad

Rearranged(s, order) == [k \in DOMAIN s |-> s[order[k]]]

(* The operands in the order of the instruction's fields; no operand is      *)
(* looked at when it has none.                                                *)
ParsePlain(op, toks) ==
    IF Fields[op] = <<>> THEN [op |-> op, f |-> <<>>] ELSE Instruction(op, Fields[op], toks)

(* IINC and IDEC name their register once or twice.                           *)
ParseInteger(op, toks) ==
    ParsePlain(op, IF op \in {"IINC", "IDEC"} /\ Len(toks) = 1 THEN toks \o toks ELSE toks)
ParseControl(op, toks) == ParsePlain(op, toks)
Gates == {"QPREPR", "QHADM", "QFLIP", "QPHASE", "QCNOT", "QROT", "QMEAS", "QTENSOR",
          "QCUSTOM", "QCZ", "QSWAP", "QENCODE"}
ParseGate(op, toks) == ParsePlain(op, toks)
KernelOps == {"QKERNEL", "QKERNELF", "QKERNELZ"}
(* QKERNEL kernel, dst, src, ctx0, ctx1                                       *)
ParseKernel(op, toks) ==
    IF Len(toks) # 5 THEN Bad ELSE ParsePlain(op, Rearranged(toks, <<2, 3, 1, 4, 5>>))
(* QOBSERVE dst, src [, mode [, ctx0 [, ctx1]]]                               *)
ParseObserve(toks) ==
    LET defaults == <<[num |-> 0], [reg |-> "R", n |-> 0], [reg |-> "R", n |-> 0]>>
    IN  IF Len(toks) \notin 2..5 THEN Bad
        ELSE ParsePlain("QOBSERVE", toks \o SubSeq(defaults, Len(toks) - 1, 3))
(* The two amplitudes of count qubits are read from Z0-Z7.                    *)
ParsePreps(toks) ==
    LET i == ParsePlain("QPREPS", toks)
    IN  IF i # Bad /\ i.f[2] + 2 * i.f[3] > 8 THEN Bad ELSE i
(* Swapping a register with itself is dropped.                                *)
ParseXch(toks) ==
    LET i == ParsePlain("QXCH", toks)
    IN  IF i # Bad /\ i.f[1] = i.f[2] THEN [op |-> "NOP", f |-> <<>>] ELSE i
(* HREDUCE function, src, dst                                                 *)
ParseReduce(toks) ==
    IF Len(toks) # 3 THEN Bad ELSE ParsePlain("HREDUCE", Rearranged(toks, <<2, 3, 1>>))

ParseQuantum(op, toks) ==
    CASE op \in KernelOps -> ParseKernel(op, toks)
      [] op = "QOBSERVE" -> ParseObserve(toks)
      [] op = "QPREPS" -> ParsePreps(toks)
      [] op = "QXCH" -> ParseXch(toks)
      [] op \in Gates -> ParseGate(op, toks)
      [] OTHER -> ParsePlain(op, toks)
ParseHybrid(op, toks) == IF op = "HREDUCE" THEN ParseReduce(toks) ELSE ParsePlain(op, toks)

(* Branches spelled after the condition they test: [mnemonic, flag].          *)
SignedAliases ==
    [JEQ |-> <<"JMPF", 0>>, JZ |-> <<"JMPF", 0>>, JNE |-> <<"JMPFN", 0>>,
     JNZ |-> <<"JMPFN", 0>>, JLT |-> <<"JMPF", 1>>, JGE |-> <<"JMPFN", 1>>,
     JOV |-> <<"JMPF", 2>>, JNO |-> <<"JMPFN", 2>>]
QuantumAliases ==
    [JQACT |-> <<"JMPF", 4>>, JSUP |-> <<"JMPF", 5>>, JENT |-> <<"JMPF", 6>>,
     JINF |-> <<"JMPF", 12>>, JCOL |-> <<"JMPF", 9>>, JDEC |-> <<"JMPF", 8>>,
     JNRM |-> <<"JMPF", 14>>]
Aliases == SignedAliases @@ QuantumAliases
ParseAlias(op, toks) ==
    ParsePlain(Aliases[op][1], <<[num |-> Aliases[op][2]]>> \o toks)

Parse(line) ==
    CASE line.op \in DOMAIN Aliases -> ParseAlias(line.op, line.toks)
      [] line.op \in DOMAIN QuantumFields \cup DOMAIN RegisterFields ->
            ParseQuantum(line.op, line.toks)
      [] line.op \in DOMAIN HybridFields -> ParseHybrid(line.op, line.toks)
      [] line.op \in DOMAIN ControlFields -> ParseControl(line.op, line.toks)
      [] OTHER -> ParseInteger(line.op, line.toks)

------------------------------------------------------------------------------
(* format_instruction                                                         *)

Printed(kind, v) ==
    CASE kind \in Files -> [reg |-> kind, n |-> v]
      [] kind \in {"u8", "i8", "i16", "u16"} -> [num |-> v]
      [] kind \in {"target", "name"} -> [label |-> v]
      [] kind = "file" -> [num |-> v]
      [] OTHER -> [id |-> <<kind, v>>]

(* DIST with no context, and SAMPLE, omit both contexts; PROB keeps one.      *)
(* Faulty: PROB's context is left out when it is not the last one.            *)
ObserveLengthShort(f) ==
    CASE f[3] = 0 /\ f[4] = 0 /\ f[5] = 0 -> 2
      [] f[3] = 3 \/ f[3] = 1 -> 3
      [] OTHER -> 5
ObserveLength(f) ==
    CASE f[3] = 0 /\ f[4] = 0 /\ f[5] = 0 -> 2
      [] f[3] = 3 -> 3
      [] f[3] = 1 -> 4
      [] OTHER -> 5

PrintOrder(op) ==
    CASE op \in KernelOps -> <<3, 1, 2, 4, 5>>
      [] op = "HREDUCE" -> <<3, 1, 2>>
      [] OTHER -> [k \in DOMAIN Fields[op] |-> k]

Format(i) ==
    LET all == [k \in DOMAIN i.f |-> Printed(Fields[i.op][k], i.f[k])]
        toks == Rearranged(all, PrintOrder(i.op))
    IN  [op |-> i.op,
         toks |-> IF i.op = "QOBSERVE" THEN SubSeq(toks, 1, ObserveLength(i.f)) ELSE toks]

(* What execution reads of an instruction: of QOBSERVE's contexts, only the   *)
(* basis state that PROB asks about.                                          *)
Operative(f) == [f EXCEPT ![4] = IF f[3] = 1 THEN f[4] ELSE 0, ![5] = 0]
Effective(i) == IF i.op = "QOBSERVE" THEN [i EXCEPT !.f = Operative(i.f)] ELSE i

------------------------------------------------------------------------------
(* The tables again, as TLC evaluates them: the kinds of field there are; a   *)
(* branch has one target, its last field, and only LABEL has a name; an alias *)
(* is no mnemonic; where the mnemonics with a syntax of their own are parsed. *)
Kinds == Files \cup {"u8", "i8", "i16", "u16", "target", "name"} \cup DOMAIN Ids
ASSUME TablesAssumption ==
    /\ \A op \in Mnemonics : \A k \in DOMAIN Fields[op] : Fields[op][k] \in Kinds
    /\ DOMAIN Ids \cap (Files \cup {"u8", "i8", "i16", "u16", "target", "name"}) = {}
    /\ "file" \in DOMAIN Ids
    /\ \A kind \in DOMAIN Ids : \A v \in Ids[kind] : v \in Nat
    /\ \A op \in Jumps : /\ Len(Fields[op]) >= 1
                         /\ \A k \in DOMAIN Fields[op] :
                               Fields[op][k] = "target" <=> k = Len(Fields[op])
    /\ \A op \in Mnemonics \ {"LABEL"} : \A k \in DOMAIN Fields[op] : Fields[op][k] # "name"
    /\ {"LABEL", "NOP"} \subseteq Mnemonics /\ "bad" \notin Mnemonics
    /\ Fields["LABEL"] = <<"name">> /\ Fields["NOP"] = <<>>
    /\ {"JMPF", "JMPFN", "IINC", "IDEC"} \subseteq Mnemonics
    /\ \A op \in DOMAIN Aliases : Aliases[op][1] \in {"JMPF", "JMPFN"} /\ op \notin Mnemonics
    /\ KernelOps \cup {"QOBSERVE", "QPREPS", "QXCH"}
          \subseteq (DOMAIN QuantumFields \cup DOMAIN RegisterFields) \cap Mnemonics
    /\ DOMAIN QuantumFields \cup DOMAIN RegisterFields \subseteq Mnemonics
    /\ DOMAIN HybridFields \cup DOMAIN ControlFields \subseteq Mnemonics
    /\ DOMAIN HybridFields \cap (DOMAIN QuantumFields \cup DOMAIN RegisterFields) = {}
    /\ DOMAIN ControlFields \cap (DOMAIN QuantumFields \cup DOMAIN RegisterFields) = {}
    /\ DOMAIN ControlFields \cap DOMAIN HybridFields = {}
    /\ "HREDUCE" \in DOMAIN HybridFields \cap Mnemonics /\ Len(Fields["HREDUCE"]) = 3
    /\ \A op \in KernelOps : Len(Fields[op]) = 5
    /\ Fields["QOBSERVE"] = <<"H", "Q", "mode", "R", "R">> /\ Ids.mode = {0, 1, 3}
    /\ Fields["QPREPS"] = <<"Q", "Z", "u8">> /\ Fields["QXCH"] = <<"Q", "Q">>
    /\ Len(Fields["IINC"]) = 2 /\ Len(Fields["IDEC"]) = 2
=============================================================================
