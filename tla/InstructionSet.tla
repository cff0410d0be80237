--------------------------- MODULE InstructionSet ---------------------------
(* The CQAM instruction set and its three notations: the instruction itself,  *)
(* the line of text the parser reads and the disassembler prints, and the     *)
(* 32-bit word the encoder packs and the decoder unpacks.  Each notation has  *)
(* its own tables, translated from its own source file, so that a field the   *)
(* encoder and the decoder place differently shows in the composition.        *)
(*                                                                            *)
(* An instruction is [op, f]: its mnemonic and its fields, in the order of    *)
(* the Rust variant.  A field is an integer, except a jump target or a label: *)
(* [name |-> n] (written in the source), [id |-> n] (the decoder's "_Ln") or  *)
(* [addr |-> n] (the decoder's "@n").  A line is [op, toks]; a token is       *)
(* [reg, n], [num], [id] (an identifier by name), [label], or [bad].          *)
EXTENDS Integers, Sequences, SequencesExt

CONSTANTS
    MaxAddr16,      \* largest address a JR-format word holds
    MaxAddr24       \* largest address a J-format word holds

ASSUME AddressAssumption ==
    /\ MaxAddr16 \in 0..65535
    /\ MaxAddr24 \in MaxAddr16..16777215

Each(ops, what) == [op \in ops |-> what]

------------------------------------------------------------------------------
(* The instructions and their fields; a register field names its file.        *)

IntegerFields ==
    Each({"NOP"}, <<>>)
 @@ Each({"LABEL"}, <<"name">>)
 @@ Each({"IADD", "ISUB", "IMUL", "IDIV", "IMOD", "IAND", "IOR", "IXOR",
          "IEQ", "ILT", "IGT"}, <<"R", "R", "R">>)
 @@ Each({"INOT", "IINC", "IDEC", "IMOV", "ICMP"}, <<"R", "R">>)
 @@ Each({"ISHL", "ISHR"}, <<"R", "R", "u8">>)
 @@ Each({"ILDI", "ICMPI"}, <<"R", "i16">>)
 @@ Each({"ILDM", "ISTR"}, <<"R", "u16">>)

FloatFields ==
    Each({"FADD", "FSUB", "FMUL", "FDIV"}, <<"F", "F", "F">>)
 @@ Each({"FEQ", "FLT", "FGT"}, <<"R", "F", "F">>)
 @@ Each({"FLDI"}, <<"F", "i16">>)
 @@ Each({"FLDM", "FSTR"}, <<"F", "u16">>)
 @@ Each({"FMOV"}, <<"F", "F">>)

ComplexFields ==
    Each({"ZADD", "ZSUB", "ZMUL", "ZDIV"}, <<"Z", "Z", "Z">>)
 @@ Each({"ZMOV"}, <<"Z", "Z">>)
 @@ Each({"ZLDI"}, <<"Z", "i8", "i8">>)
 @@ Each({"ZLDM", "ZSTR"}, <<"Z", "u16">>)

ControlFields ==
    Each({"ILDX", "ISTRX"}, <<"R", "R">>)
 @@ Each({"FLDX", "FSTRX", "CVTIF"}, <<"F", "R">>)
 @@ Each({"ZLDX", "ZSTRX"}, <<"Z", "R">>)
 @@ Each({"CVTFI"}, <<"R", "F">>)
 @@ Each({"CVTFZ"}, <<"Z", "F">>)
 @@ Each({"CVTZF"}, <<"F", "Z">>)
 @@ Each({"IQCFG", "ICCFG", "ITID"}, <<"R">>)
 @@ Each({"ECALL"}, <<"proc">>)
 @@ Each({"JMP", "CALL"}, <<"target">>)
 @@ Each({"JIF"}, <<"R", "target">>)
 @@ Each({"RET", "HALT"}, <<>>)

QuantumFields ==
    Each({"QPREP"}, <<"Q", "dist">>)
 @@ Each({"QKERNEL"}, <<"Q", "Q", "kernel", "R", "R">>)
 @@ Each({"QKERNELF"}, <<"Q", "Q", "kernel", "F", "F">>)
 @@ Each({"QKERNELZ"}, <<"Q", "Q", "kernel", "Z", "Z">>)
 @@ Each({"QOBSERVE"}, <<"H", "Q", "mode", "R", "R">>)
 @@ Each({"QLOAD", "QSTORE"}, <<"Q", "u8">>)
 @@ Each({"QPREPR"}, <<"Q", "R">>)
 @@ Each({"QENCODE"}, <<"Q", "R", "u8", "file">>)
 @@ Each({"QHADM", "QFLIP", "QPHASE"}, <<"Q", "Q", "R">>)
 @@ Each({"QCNOT"}, <<"Q", "Q", "R", "R">>)
 @@ Each({"QROT"}, <<"Q", "Q", "R", "axis", "F">>)
 @@ Each({"QMEAS"}, <<"R", "Q", "R">>)

RegisterFields ==
    Each({"QTENSOR"}, <<"Q", "Q", "Q">>)
 @@ Each({"QCUSTOM", "QCZ", "QSWAP"}, <<"Q", "Q", "R", "R">>)
 @@ Each({"QMIXED", "QPREPSM"}, <<"Q", "R", "R">>)
 @@ Each({"QPREPN"}, <<"Q", "dist", "R">>)
 @@ Each({"FSIN", "FCOS", "FSQRT"}, <<"F", "F">>)
 @@ Each({"FATAN2"}, <<"F", "F", "F">>)
 @@ Each({"QPTRACE", "QRESET"}, <<"Q", "Q", "R">>)
 @@ Each({"QPREPS"}, <<"Q", "Z", "u8">>)
 @@ Each({"QXCH"}, <<"Q", "Q">>)

HybridFields ==
    Each({"HFORK", "HMERGE", "HATMS", "HATME", "RETI"}, <<>>)
 @@ Each({"JMPF", "JMPFN"}, <<"flag", "target">>)
 @@ Each({"JGT", "JLE"}, <<"target">>)
 @@ Each({"HREDUCE"}, <<"H", "R", "func">>)
 @@ Each({"SETIV"}, <<"trap", "target">>)

Fields == IntegerFields @@ FloatFields @@ ComplexFields @@ ControlFields
          @@ QuantumFields @@ RegisterFields @@ HybridFields

(* The numbers the enumerated identifiers stand for.                          *)
TrapIds == 0..2
DistIds == 0..3
KernelIds == 0..10
FlagIds == 0..14
ModeIds == {0, 1, 3}        \* 2 is reserved
FuncIds == 0..16
AxisIds == 0..2
FileIds == 0..2
ProcIds == 0..6

Ids == [trap |-> TrapIds, dist |-> DistIds, kernel |-> KernelIds, flag |-> FlagIds,
        mode |-> ModeIds, func |-> FuncIds, axis |-> AxisIds, file |-> FileIds,
        proc |-> ProcIds]

Mnemonics == DOMAIN Fields
Jumps == {op \in Mnemonics : "target" \in Range(Fields[op])}
Target(i) == Last(i.f)

------------------------------------------------------------------------------
(* The word: the opcode in bits 31..24, the fields below it.                  *)

Opcodes == <<
    "IADD", "ISUB", "IMUL", "IDIV", "IMOD", "IAND", "IOR", "IXOR", "INOT", "ISHL",
    "ISHR", "ILDI", "ILDM", "ISTR", "IEQ", "ILT", "IGT", "FADD", "FSUB", "FMUL",
    "FDIV", "FLDI", "FLDM", "FSTR", "FEQ", "FLT", "FGT", "ZADD", "ZSUB", "ZMUL",
    "ZDIV", "ZLDI", "ZLDM", "ZSTR", "CVTIF", "CVTFI", "CVTFZ", "CVTZF", "JMP", "JIF",
    "CALL", "RET", "HALT", "LABEL", "RETI", "SETIV", "ECALL", "QPREP", "QKERNEL",
    "QOBSERVE", "QLOAD", "QSTORE", "ILDX", "ISTRX", "FLDX", "HFORK", "HMERGE", "JMPF",
    "HREDUCE", "FSTRX", "ZLDX", "ZSTRX", "", "", "QKERNELF", "QKERNELZ", "QPREPR",
    "QENCODE", "QHADM", "QFLIP", "QPHASE", "QCNOT", "QROT", "QMEAS", "QTENSOR",
    "QCUSTOM", "QCZ", "QSWAP", "QMIXED", "", "QPREPN", "FSIN", "FCOS", "FATAN2",
    "FSQRT", "QPTRACE", "QRESET", "IQCFG", "ICCFG", "ITID", "HATMS", "HATME", "QPREPS",
    "QPREPSM", "", "IINC", "IDEC", "IMOV", "FMOV", "ZMOV", "QXCH", "ICMP", "ICMPI",
    "JMPFN", "JGT", "JLE" >>

Opcode(op) == IF op = "NOP" THEN 0 ELSE CHOOSE n \in DOMAIN Opcodes : Opcodes[n] = op

(* encode: each field's lowest bit and the largest value accepted there.      *)
Top4 == 15
Top3 == 7
ScalarSlots ==
    Each({"NOP", "RET", "HALT", "HFORK", "HMERGE", "HATMS", "HATME", "RETI"}, <<>>)
 @@ Each({"IADD", "ISUB", "IMUL", "IDIV", "IMOD", "IAND", "IOR", "IXOR", "IEQ", "ILT",
          "IGT", "FADD", "FSUB", "FMUL", "FDIV", "FEQ", "FLT", "FGT", "ZADD", "ZSUB",
          "ZMUL", "ZDIV"}, <<<<20, Top4>>, <<16, Top4>>, <<12, Top4>>>>)
 @@ Each({"INOT", "IINC", "IDEC", "IMOV", "FMOV", "ZMOV", "CVTIF", "CVTFI", "CVTFZ",
          "CVTZF", "ILDX", "ISTRX", "FLDX", "FSTRX", "ZLDX", "ZSTRX"},
         <<<<20, Top4>>, <<16, Top4>>>>)
 @@ Each({"ECALL", "IQCFG", "ICCFG", "ITID"}, <<<<20, Top4>>>>)
 @@ Each({"ISHL", "ISHR"}, <<<<20, Top4>>, <<16, Top4>>, <<10, 63>>>>)
 @@ Each({"ILDI", "FLDI", "ICMPI", "ILDM", "ISTR", "FLDM", "FSTR", "ZLDM", "ZSTR"},
         <<<<20, Top4>>, <<0, 65535>>>>)
 @@ Each({"ZLDI"}, <<<<20, Top4>>, <<8, 255>>, <<0, 255>>>>)
 @@ Each({"JMP", "CALL", "JGT", "JLE"}, <<<<0, MaxAddr24>>>>)
 @@ Each({"JIF", "JMPF", "JMPFN", "SETIV"}, <<<<20, Top4>>, <<0, MaxAddr16>>>>)
 @@ Each({"ICMP"}, <<<<16, Top4>>, <<12, Top4>>>>)

QuantumSlots ==
    Each({"QPREP"}, <<<<21, Top3>>, <<18, Top3>>>>)
 @@ Each({"QKERNEL", "QKERNELF", "QKERNELZ"},
         <<<<21, Top3>>, <<18, Top3>>, <<13, 31>>, <<9, Top4>>, <<5, Top4>>>>)
 @@ Each({"QHADM", "QFLIP", "QPHASE"}, <<<<21, Top3>>, <<18, Top3>>, <<10, Top4>>>>)
 @@ Each({"QCNOT", "QCUSTOM", "QCZ", "QSWAP"},
         <<<<21, Top3>>, <<18, Top3>>, <<14, Top4>>, <<10, Top4>>>>)
 @@ Each({"QROT"},
         <<<<21, Top3>>, <<18, Top3>>, <<14, Top4>>, <<12, 2>>, <<8, Top4>>>>)
 @@ Each({"QMEAS"}, <<<<20, Top4>>, <<17, Top3>>, <<13, Top4>>>>)
 @@ Each({"QTENSOR"}, <<<<21, Top3>>, <<18, Top3>>, <<15, Top3>>>>)
 @@ Each({"QMIXED"}, <<<<21, Top3>>, <<17, Top4>>, <<13, Top4>>>>)
 @@ Each({"QPREPN"}, <<<<21, Top3>>, <<18, Top3>>, <<14, Top4>>>>)

StateSlots ==
    Each({"FSIN", "FCOS", "FSQRT"}, <<<<20, Top4>>, <<16, Top4>>>>)
 @@ Each({"FATAN2"}, <<<<20, Top4>>, <<16, Top4>>, <<12, Top4>>>>)
 @@ Each({"QPTRACE", "QRESET"}, <<<<21, Top3>>, <<18, Top3>>, <<10, Top4>>>>)
 @@ Each({"QPREPS"}, <<<<21, Top3>>, <<18, Top3>>, <<15, Top3>>>>)
 @@ Each({"QPREPSM"}, <<<<21, Top3>>, <<17, Top4>>, <<13, Top4>>>>)
 @@ Each({"QXCH"}, <<<<21, Top3>>, <<18, Top3>>>>)
 @@ Each({"QPREPR"}, <<<<21, Top3>>, <<16, Top4>>>>)
 @@ Each({"QENCODE"}, <<<<21, Top3>>, <<16, Top4>>, <<12, 15>>, <<10, 2>>>>)
 @@ Each({"QOBSERVE"},
         <<<<21, Top3>>, <<18, Top3>>, <<16, 3>>, <<12, Top4>>, <<8, Top4>>>>)
 @@ Each({"QLOAD", "QSTORE"}, <<<<21, Top3>>, <<8, 255>>>>)
 @@ Each({"HREDUCE"}, <<<<20, Top4>>, <<16, Top4>>, <<11, 31>>>>)
 @@ Each({"LABEL"}, <<<<8, 65535>>>>)

Slots == ScalarSlots @@ QuantumSlots @@ StateSlots

Unsigned(kind, v) ==
    CASE kind = "i16" -> v % 65536
      [] kind = "i8"  -> v % 256
      [] OTHER        -> v

(* The fields as numbers, targets and label names already looked up.          *)
Fits(op, numbers) == \A k \in DOMAIN numbers :
                        Unsigned(Fields[op][k], numbers[k]) <= Slots[op][k][2]
(* What field k adds to the word; no format has more than five fields.       *)
Bits(op, numbers, k) ==
    IF k \in DOMAIN numbers
    THEN Unsigned(Fields[op][k], numbers[k]) * 2^Slots[op][k][1] ELSE 0
Encode(op, numbers) ==
    Opcode(op) * 2^24 + Bits(op, numbers, 1) + Bits(op, numbers, 2) + Bits(op, numbers, 3)
                      + Bits(op, numbers, 4) + Bits(op, numbers, 5)

(* decode: each field's lowest bit and its width.                             *)
ScalarReads ==
    Each({"NOP", "RET", "HALT", "HFORK", "HMERGE", "HATMS", "HATME", "RETI"}, <<>>)
 @@ Each({"ECALL"}, <<<<20, 4>>>>)
 @@ Each({"IADD", "ISUB", "IMUL", "IDIV", "IMOD", "IAND", "IOR", "IXOR", "IEQ", "ILT",
          "IGT", "FADD", "FSUB", "FMUL", "FDIV", "FEQ", "FLT", "FGT", "ZADD", "ZSUB",
          "ZMUL", "ZDIV"}, <<<<20, 4>>, <<16, 4>>, <<12, 4>>>>)
 @@ Each({"INOT", "IINC", "IDEC", "IMOV", "FMOV", "ZMOV", "CVTIF", "CVTFI", "CVTFZ",
          "CVTZF", "ILDX", "ISTRX", "FLDX", "FSTRX", "ZLDX", "ZSTRX"},
         <<<<20, 4>>, <<16, 4>>>>)
 @@ Each({"IQCFG", "ICCFG", "ITID"}, <<<<20, 4>>>>)

ControlReads ==
    Each({"ISHL", "ISHR"}, <<<<20, 4>>, <<16, 4>>, <<10, 6>>>>)
 @@ Each({"ILDI", "FLDI", "ICMPI", "ILDM", "ISTR", "FLDM", "FSTR", "ZLDM", "ZSTR"},
         <<<<20, 4>>, <<0, 16>>>>)
 @@ Each({"ZLDI"}, <<<<20, 4>>, <<8, 8>>, <<0, 8>>>>)
 @@ Each({"JMP", "CALL", "JGT", "JLE"}, <<<<0, 24>>>>)
 @@ Each({"JIF", "JMPF", "JMPFN", "SETIV"}, <<<<20, 4>>, <<0, 16>>>>)
 @@ Each({"ICMP"}, <<<<16, 4>>, <<12, 4>>>>)

QuantumReads ==
    Each({"QPREP", "QXCH"}, <<<<21, 3>>, <<18, 3>>>>)
 @@ Each({"QKERNEL", "QKERNELF", "QKERNELZ"},
         <<<<21, 3>>, <<18, 3>>, <<13, 5>>, <<9, 4>>, <<5, 4>>>>)
 @@ Each({"QPREPR"}, <<<<21, 3>>, <<16, 4>>>>)
 @@ Each({"QENCODE"}, <<<<21, 3>>, <<16, 4>>, <<12, 4>>, <<10, 2>>>>)
 @@ Each({"QHADM", "QFLIP", "QPHASE"}, <<<<21, 3>>, <<18, 3>>, <<10, 4>>>>)
 @@ Each({"QCNOT", "QCUSTOM", "QCZ", "QSWAP"},
         <<<<21, 3>>, <<18, 3>>, <<14, 4>>, <<10, 4>>>>)
 @@ Each({"QROT"}, <<<<21, 3>>, <<18, 3>>, <<14, 4>>, <<12, 2>>, <<8, 4>>>>)
 @@ Each({"QMEAS"}, <<<<20, 4>>, <<17, 3>>, <<13, 4>>>>)
 @@ Each({"QTENSOR"}, <<<<21, 3>>, <<18, 3>>, <<15, 3>>>>)

StateReads ==
    Each({"QMIXED", "QPREPSM"}, <<<<21, 3>>, <<17, 4>>, <<13, 4>>>>)
 @@ Each({"QPREPN"}, <<<<21, 3>>, <<18, 3>>, <<14, 4>>>>)
 @@ Each({"FSIN", "FCOS", "FSQRT"}, <<<<20, 4>>, <<16, 4>>>>)
 @@ Each({"FATAN2"}, <<<<20, 4>>, <<16, 4>>, <<12, 4>>>>)
 @@ Each({"QPTRACE", "QRESET"}, <<<<21, 3>>, <<18, 3>>, <<10, 4>>>>)
 @@ Each({"QPREPS"}, <<<<21, 3>>, <<18, 3>>, <<15, 3>>>>)
 @@ Each({"QOBSERVE"}, <<<<21, 3>>, <<18, 3>>, <<16, 2>>, <<12, 4>>, <<8, 4>>>>)
 @@ Each({"QLOAD", "QSTORE"}, <<<<21, 3>>, <<8, 8>>>>)
 @@ Each({"HREDUCE"}, <<<<20, 4>>, <<16, 4>>, <<11, 5>>>>)
 @@ Each({"LABEL"}, <<<<8, 16>>>>)

Reads == ScalarReads @@ ControlReads @@ QuantumReads @@ StateReads

MnemonicOf(word) == LET n == word \div 2^24
                    IN  IF n = 0 THEN "NOP" ELSE Opcodes[n]
Extract(word, at, width) == (word \div 2^at) % 2^width
(* Faulty: the sign bit is not extended.                                      *)
Unextended(v, width) == v
Signed(v, width) == IF v >= 2^(width - 1) THEN v - 2^width ELSE v

DecodedField(word, op, k, symbols) ==
    LET v == Extract(word, Reads[op][k][1], Reads[op][k][2])
    IN  CASE Fields[op][k] = "i16"    -> Signed(v, 16)
          [] Fields[op][k] = "i8"     -> Signed(v, 8)
          [] Fields[op][k] = "target" -> [addr |-> v]
          [] Fields[op][k] = "name"   -> IF v \in DOMAIN symbols THEN symbols[v] ELSE [id |-> v]
          [] OTHER                    -> v
Decode(word, symbols) ==
    LET op == MnemonicOf(word)
    IN  [op |-> op, f |-> [k \in DOMAIN Fields[op] |-> DecodedField(word, op, k, symbols)]]

------------------------------------------------------------------------------
(* The tables, as TLC evaluates them: an opcode names its mnemonic; a format  *)
(* has at most five fields, one below the other and all below the opcode; the *)
(* decoder reads each where the encoder puts it, and wide enough.             *)
SignedWidths == [i16 |-> 16, i8 |-> 8]
ASSUME FormatsAssumption ==
    \A op \in Mnemonics :
        /\ Opcode(op) \in Nat /\ MnemonicOf(Opcode(op) * 2^24) = op
        /\ op \in DOMAIN Slots /\ op \in DOMAIN Reads
        /\ Len(Fields[op]) \in 0..5
        /\ DOMAIN Fields[op] = 1..Len(Fields[op])
        /\ Len(Slots[op]) = Len(Fields[op]) /\ Len(Reads[op]) = Len(Fields[op])
        /\ \A k \in DOMAIN Fields[op] :
              /\ Slots[op][k][1] \in 0..24 /\ Reads[op][k][2] \in 0..24
              /\ Reads[op][k][1] = Slots[op][k][1]
              /\ Slots[op][k][2] \in 0..(2^Reads[op][k][2] - 1)
              /\ Slots[op][k][1] + Reads[op][k][2] <= (IF k = 1 THEN 24 ELSE Slots[op][k - 1][1])
              /\ Fields[op][k] \in DOMAIN SignedWidths => Reads[op][k][2] = SignedWidths[Fields[op][k]]

=============================================================================
