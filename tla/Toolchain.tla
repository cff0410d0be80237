----------------------------- MODULE Toolchain ------------------------------
(* From a source file to a running program by either road.  The text loader   *)
(* parses the source and hands the instructions to the runner; cqam-as parses *)
(* it, assembles it (with or without its labels), writes a .cqb image section *)
(* by section, and the binary loader or the disassembler reads what was       *)
(* written.  Writing may stop at any point and leave a prefix of the image.   *)
EXTENDS AssemblyText

CONSTANTS
    Sources,    \* the source files that may be given
    MaxLabels   \* labels that label_id_counter, a u16, can count

ASSUME LabelsAssumption == MaxLabels \in Nat /\ MaxLabels < 65536

(* A token as the lexer of a line leaves it, and a directive of a section.    *)
IsSequence(s) == Len(s) \in Nat /\ s = [k \in 1..Len(s) |-> s[k]]
IsToken(t) ==
    \/ t \in [reg : Files, n : Nat]
    \/ t \in [num : Int]
    \/ DOMAIN t = {"id"} /\ t.id[1] \in DOMAIN Ids /\ t.id[2] \in Ids[t.id[1]]
    \/ DOMAIN t = {"label"}
    \/ DOMAIN t = {"ref", "len"} /\ IsSequence(t.ref) /\ t.len \in BOOLEAN
IsLine(l) ==
    /\ DOMAIN l = {"op", "toks"} /\ l.op \in Mnemonics \cup DOMAIN Aliases
    /\ IsSequence(l.toks) /\ \A k \in DOMAIN l.toks : IsToken(l.toks[k])
IsDirective(d) ==
    \/ DOMAIN d = {"label"} /\ IsSequence(d.label)
    \/ d \in [org : Nat]
    \/ d \in [cells : Nat, count : Nat]
IsSection(directives) ==
    IsSequence(directives) /\ \A k \in DOMAIN directives : IsDirective(directives[k])
ASSUME SourcesAssumption ==
    \A s \in Sources :
        /\ IsSequence(s.code) /\ \A k \in DOMAIN s.code : IsLine(s.code[k])
        /\ IsSection(s.data) /\ IsSection(s.shared) /\ s.private \in Nat

VARIABLES
    source,     \* the source file: code lines, sections and pragmas
    stage,      \* how far cqam-as has come
    parsed,     \* what parse_program returns
    result,     \* AssemblyResult
    unwritten,  \* the sections write_cqb has still to write
    file,       \* the sections on disk
    torn,       \* whether the last section on disk is cut short
    loaded,     \* what load_binary returns
    listing     \* what disassemble returns

toolchainVars == <<source, stage, parsed, result, unwritten, file, torn, loaded, listing>>

Missing == [none |-> TRUE]

------------------------------------------------------------------------------
(* Places in a sequence: how many of a set are not beyond m, which is its     *)
(* n-th, and the elements of the sequence at them, in order.                  *)
UpTo(places, m) == Cardinality({k \in places : k <= m})
Nth(places, n) == CHOOSE k \in places : UpTo(places, k) = n
Chosen(s, places) == [n \in 1..Cardinality(places) |-> s[Nth(places, n)]]

(* .data and .shared: a label names the next directive that allocates.        *)
(* A directive is [label], [org] or [cells, count]: a .c64 of count values    *)
(* takes two cells for each.  A second label replaces a pending one.  Where a *)
(* label stands, and how long it is, is kept in 16 bits.                      *)

EmptySection == [cells |-> 0, labels |-> <<>>, pending |-> Missing, ok |-> TRUE]

Placed(labels, name, place) ==
    [n \in DOMAIN labels \cup {name} |-> IF n = name THEN place ELSE labels[n]]

Directive(s, d) ==
    IF ~s.ok THEN s
    ELSE CASE "label" \in DOMAIN d ->
                IF d.label \in DOMAIN s.labels THEN [s EXCEPT !.ok = FALSE]
                ELSE [s EXCEPT !.pending = [name |-> d.label]]
           [] "org" \in DOMAIN d ->
                IF d.org < s.cells THEN [s EXCEPT !.ok = FALSE] ELSE [s EXCEPT !.cells = d.org]
           [] OTHER ->
                [s EXCEPT !.cells = @ + d.cells,
                          !.pending = Missing,
                          !.labels = IF s.pending = Missing THEN @
                                     ELSE Placed(@, s.pending.name, [base |-> s.cells % 65536,
                                                                     count |-> d.count % 65536])]

ParseSection(directives) ==
    LET after[n \in 0..Len(directives)] ==
            IF n = 0 THEN EmptySection ELSE Directive(after[n - 1], directives[n])
        s == after[Len(directives)]
    IN  IF s.pending = Missing THEN s ELSE [s EXCEPT !.ok = FALSE]

(* "@name" and "@name.len", replaced in the line: the longest label that      *)
(* begins the name is taken, and what is left of the name stays behind it.    *)
(* A name is <<stem, c1, c2, ...>> with each c a digit, or -1 for a letter.   *)
(* Faulty: the shortest such label is taken.                                  *)
SubstituteShortest(labels, t) ==
    LET begins == {n \in DOMAIN labels : IsPrefix(n, t.ref)}
        label == CHOOSE n \in begins : \A m \in begins : Len(n) <= Len(m)
        rest == SubSeq(t.ref, Len(label) + 1, Len(t.ref))
    IN  CASE begins = {} -> t
          [] begins # {} /\ rest = <<>> ->
                [num |-> IF t.len THEN labels[label].count ELSE labels[label].base]
          [] OTHER -> [num |-> FoldLeft(LAMBDA v, c : 10 * v + c, labels[label].base, rest)]
Substitute(labels, t) ==
    LET begins == {n \in DOMAIN labels : IsPrefix(n, t.ref)}
        label == CHOOSE n \in begins : \A m \in begins : Len(m) <= Len(n)
        rest == SubSeq(t.ref, Len(label) + 1, Len(t.ref))
    IN  CASE begins = {} -> t
          [] begins # {} /\ rest = <<>> ->
                [num |-> IF t.len THEN labels[label].count ELSE labels[label].base]
          [] begins # {} /\ rest # <<>> /\ (t.len \/ -1 \in Range(rest)) -> [bad |-> TRUE]
          [] OTHER -> [num |-> FoldLeft(LAMBDA v, c : 10 * v + c, labels[label].base, rest)]

SubstituteIn(labels, t) == IF "ref" \in DOMAIN t THEN Substitute(labels, t) ELSE t

(* Data labels first, then shared labels in what is left.                     *)
Substituted(line, data, shared) ==
    [line EXCEPT !.toks = [k \in DOMAIN @ |->
        SubstituteIn(shared.labels, SubstituteIn(data.labels, @[k]))]]

PragmasOk(s) == s.qubits \in 0..16 /\ s.threads \in 0..256     \* 0: not given

ParseProgram(s) ==
    LET data == ParseSection(s.data)
        shared == ParseSection(s.shared)
        code == [k \in DOMAIN s.code |-> Parse(Substituted(s.code[k], data, shared))]
    IN  IF ~PragmasOk(s) \/ ~data.ok \/ ~shared.ok \/ Bad \in Range(code) THEN Missing
        ELSE [code |-> Chosen(code, {k \in DOMAIN code : code[k].op # "NOP"}),
              data |-> data.cells, shared |-> shared.cells, private |-> s.private,
              qubits |-> s.qubits, threads |-> s.threads]

------------------------------------------------------------------------------
(* assemble_with_options                                                      *)

LabelPlaces(code) == {k \in DOMAIN code : code[k].op = "LABEL"}
StepPlaces(code) == {k \in DOMAIN code : code[k].op # "LABEL"}
LabelsBefore(code, k) == UpTo(LabelPlaces(code), k - 1)
LabelIndexes(code, name) == {k \in DOMAIN code : code[k].op = "LABEL" /\ code[k].f[1] = name}
Duplicated(code) == \E k \in DOMAIN code : /\ code[k].op = "LABEL"
                                           /\ LabelIndexes(code, code[k].f[1]) # {k}

(* Pass 1: a label's word address; without the label words, the address of    *)
(* what follows it.                                                           *)
(* Faulty: the label words that are left out are still counted.               *)
AddressOfWords(code, name, strip) ==
    LET k == CHOOSE k \in LabelIndexes(code, name) : TRUE IN k - 1
AddressOf(code, name, strip) ==
    LET k == CHOOSE k \in LabelIndexes(code, name) : TRUE
    IN  IF strip THEN k - 1 - LabelsBefore(code, k) ELSE k - 1
Defined(code, i) == i.op \notin Jumps \/ LabelIndexes(code, Target(i)) # {}
Symbols(code) == [id \in 0..(Cardinality(LabelPlaces(code)) - 1) |->
                     code[Nth(LabelPlaces(code), id + 1)].f[1]]
EntryPoint(code, strip) ==
    IF strip \/ StepPlaces(code) = {} THEN 0 ELSE (Min(StepPlaces(code)) - 1) % 65536

(* Pass 2: every target and label as the number its word carries.             *)
Numbers(code, k, strip) ==
    LET i == code[k]
    IN  [n \in DOMAIN i.f |->
            CASE Fields[i.op][n] = "target" -> AddressOf(code, i.f[n], strip)
              [] Fields[i.op][n] = "name" -> LabelsBefore(code, k)
              [] OTHER -> i.f[n]]
Encodable(code, k, strip) == Defined(code, code[k]) /\ Fits(code[k].op, Numbers(code, k, strip))
Words(code, strip) ==
    Chosen([k \in DOMAIN code |-> Encode(code[k].op, Numbers(code, k, strip))],
           IF strip THEN StepPlaces(code) ELSE DOMAIN code)

(* One label more than its counter can hold is an overflow, which panics.    *)
Assembled(p, strip) ==
    IF \/ Duplicated(p.code)
       \/ Cardinality(LabelPlaces(p.code)) > MaxLabels
       \/ \E k \in DOMAIN p.code : ~Encodable(p.code, k, strip)
    THEN Missing
    ELSE [words |-> Words(p.code, strip), symbols |-> Symbols(p.code),
          entry |-> EntryPoint(p.code, strip), data |-> p.data, shared |-> p.shared,
          private |-> p.private, qubits |-> p.qubits, threads |-> p.threads]

------------------------------------------------------------------------------
(* The .cqb image                                                             *)

Section(kind, body, present) == IF present THEN <<[kind |-> kind, body |-> body]>> ELSE <<>>

WriteCqb(r, debug) ==
    Section("code", [words |-> r.words, entry |-> r.entry], TRUE)
    \o Section("data", r.data, r.data # 0)
    \o Section("metadata", [qubits |-> r.qubits, threads |-> r.threads], TRUE)
    \o Section("shared", r.shared, r.shared # 0)
    \o Section("private", r.private, r.private > 0)
    \o Section("debug", r.symbols, debug /\ r.symbols # <<>>)

(* A section cut short is an error.  The end of the file between two sections *)
(* (or inside the next one's magic number) is the end of the image.           *)
ReadSection(kind, default) ==
    LET found == {k \in DOMAIN file : file[k].kind = kind}
    IN  IF found = {} THEN default ELSE file[CHOOSE k \in found : TRUE].body
ReadError == torn \/ file = <<>>
Image == [code |-> ReadSection("code", Missing),
          data |-> ReadSection("data", 0),
          metadata |-> ReadSection("metadata", [qubits |-> 0, threads |-> 0]),
          shared |-> ReadSection("shared", 0),
          private |-> ReadSection("private", 0),
          symbols |-> ReadSection("debug", <<>>)]

Decoded(image) == [k \in DOMAIN image.code.words |-> Decode(image.code.words[k], image.symbols)]

(* "@N" becomes the name of the label decoded at N, in the instructions       *)
(* patch_target knows.                                                        *)
Patchable == {"JMP", "CALL", "SETIV", "JIF", "JMPF"}
ASSUME PatchableAssumption == Patchable \subseteq Jumps
Patched(i, code) ==
    IF /\ i.op \in Patchable
       /\ Target(i).addr + 1 \in DOMAIN code
       /\ code[Target(i).addr + 1].op = "LABEL"
    THEN [i EXCEPT !.f = [@ EXCEPT ![Len(@)] = code[Target(i).addr + 1].f[1]]]
    ELSE i
LoadBinary ==
    LET code == Decoded(Image)
    IN  [code |-> [k \in DOMAIN code |-> Patched(code[k], code)],
         data |-> Image.data, shared |-> Image.shared, private |-> Image.private,
         qubits |-> Image.metadata.qubits, threads |-> Image.metadata.threads]

(* Where execution goes: the last label of that name, or the address itself;  *)
(* SETIV takes only a label.                                                  *)
Unresolved == -1
Destination(code, i) ==
    LET t == Target(i)
    IN  CASE LabelIndexes(code, t) # {} -> Max(LabelIndexes(code, t)) - 1
          [] LabelIndexes(code, t) = {} /\ "addr" \in DOMAIN t /\ i.op # "SETIV" -> t.addr
          [] OTHER -> Unresolved

------------------------------------------------------------------------------
ToolchainInit ==
    /\ source \in Sources
    /\ stage = "source"
    /\ parsed = Missing /\ result = Missing
    /\ unwritten = <<>> /\ file = <<>> /\ torn = FALSE
    /\ loaded = Missing /\ listing = Missing

ParseSource ==
    /\ stage = "source"
    /\ parsed' = ParseProgram(source)
    /\ stage' = IF parsed' = Missing THEN "rejected" ELSE "parsed"
    /\ UNCHANGED <<source, result, unwritten, file, torn, loaded, listing>>

Assemble(strip) ==
    /\ stage = "parsed"
    /\ result' = Assembled(parsed, strip)
    /\ stage' = IF result' = Missing THEN "rejected" ELSE "assembled"
    /\ UNCHANGED <<source, parsed, unwritten, file, torn, loaded, listing>>

OpenFile(debug) ==
    /\ stage = "assembled"
    /\ unwritten' = WriteCqb(result, debug)
    /\ stage' = "writing"
    /\ UNCHANGED <<source, parsed, result, file, torn, loaded, listing>>

WriteSection ==
    /\ stage = "writing"
    /\ file' = Append(file, Head(unwritten))
    /\ unwritten' = Tail(unwritten)
    /\ stage' = IF unwritten' = <<>> THEN "written" ELSE "writing"
    /\ UNCHANGED <<source, parsed, result, torn, loaded, listing>>

(* A write fails: what was written stays on disk.                             *)
WriteFails(inside) ==
    /\ stage = "writing"
    /\ file' = IF inside THEN Append(file, Head(unwritten)) ELSE file
    /\ torn' = inside
    /\ stage' = "written"
    /\ UNCHANGED <<source, parsed, result, unwritten, loaded, listing>>

Load ==
    /\ stage = "written"
    /\ loaded = Missing
    /\ ~ReadError
    /\ loaded' = LoadBinary
    /\ UNCHANGED <<source, stage, parsed, result, unwritten, file, torn, listing>>

Disassemble ==
    /\ stage = "written"
    /\ listing = Missing
    /\ ~ReadError
    /\ listing' = LET code == Decoded(Image) IN [lines |-> [k \in DOMAIN code |-> Format(code[k])]]
    /\ UNCHANGED <<source, stage, parsed, result, unwritten, file, torn, loaded>>

ToolchainNext ==
    \/ ParseSource
    \/ \E strip \in BOOLEAN : Assemble(strip)
    \/ \E debug \in BOOLEAN : OpenFile(debug)
    \/ WriteSection
    \/ \E inside \in BOOLEAN : WriteFails(inside)
    \/ Load
    \/ Disassemble

ToolchainSpec == ToolchainInit /\ [][ToolchainNext]_toolchainVars
------------------------------------------------------------------------------
(* Properties                                                                 *)

(* Where control lands: how many instructions precede the address.  Labels do *)
(* nothing, so the count is the same with the label words and without.        *)
Landing(code, address) == UpTo(StepPlaces(code), address)
Steps(code) == Chosen(code, StepPlaces(code))
Complete == stage = "written" /\ unwritten = <<>> /\ ~torn

(* What the binary loader returns is what was parsed: the same instructions   *)
(* with the same operands (write, encode, decode and read agree on every      *)
(* field of every format), and the same sections.  From an image whose        *)
(* writing stopped it returns the same instructions, and of the sections a    *)
(* prefix, in the order written: never a section after a missing one.         *)
Kept(i) == IF i.op \in Jumps THEN [i EXCEPT !.f = Front(@)] ELSE i
SameSteps(a, b) ==
    /\ Len(a) = Len(b)
    /\ \A k \in DOMAIN a : a[k].op = b[k].op
    /\ \A k \in DOMAIN a : Kept(a[k]) = Kept(b[k])
LoadsWhatWasWritten ==
    loaded # Missing =>
        /\ SameSteps(Steps(parsed.code), Steps(loaded.code))
        /\ Complete => /\ loaded.data = parsed.data /\ loaded.shared = parsed.shared
                       /\ loaded.private = parsed.private
                       /\ loaded.qubits = parsed.qubits /\ loaded.threads = parsed.threads
        /\ loaded.private # 0 => loaded.shared = parsed.shared
        /\ loaded.shared # 0 => /\ loaded.data = parsed.data
                                /\ loaded.threads = parsed.threads
                                /\ loaded.qubits = parsed.qubits

(* A branch of the loaded program lands on the instruction it lands on in the *)
(* text program, with labels stripped or not, with debug symbols or without:  *)
(* through the assembler's addresses, the loader's patching of "@N" and the   *)
(* runner's label table.  SETIV, which takes no address, may instead find no  *)
(* handler; it never installs another one.  A branch that is not patched is   *)
(* misled when a label of the source is itself spelled "@N".                  *)
Misled(code, i) == i.op \notin Patchable /\ LabelIndexes(code, Target(i)) # {}
JumpsKeepTarget ==
    loaded # Missing =>
        LET text == Steps(parsed.code)
            binary == Steps(loaded.code)
        IN  \A k \in DOMAIN text : text[k].op \in Jumps /\ ~Misled(loaded.code, binary[k]) =>
               LET there == Destination(loaded.code, binary[k])
                   here == Destination(parsed.code, text[k])
               IN  \/ there = Unresolved /\ text[k].op = "SETIV"
                   \/ /\ there # Unresolved
                      /\ Landing(loaded.code, there) = Landing(parsed.code, here)

(* What a data reference stands for, and what has been put in its place.      *)
Labels(directives) == ParseSection(directives).labels
Defines(ref) == ref \in DOMAIN Labels(source.data) \cup DOMAIN Labels(source.shared)
OwnLabel(ref) == IF ref \in DOMAIN Labels(source.data) THEN Labels(source.data)[ref]
                                                     ELSE Labels(source.shared)[ref]
Meant(t) == [num |-> IF t.len THEN OwnLabel(t.ref).count ELSE OwnLabel(t.ref).base]
Replaced(t) == SubstituteIn(Labels(source.shared), SubstituteIn(Labels(source.data), t))
References == {t \in UNION {Range(source.code[k].toks) : k \in DOMAIN source.code} : "ref" \in DOMAIN t}

(* "Process longest labels first to avoid partial substitution": in an        *)
(* accepted program a reference to a label that is defined has become that    *)
(* label's address, or length, also when another label begins its name;       *)
(* unless the shorter one is a data label and the longer one a shared label,  *)
(* where the data labels go first.                                            *)
Shadowed(ref) ==
    /\ ref \notin DOMAIN Labels(source.data)
    /\ \E n \in DOMAIN Labels(source.data) : IsPrefix(n, ref)
DefinedReferencesResolve ==
    parsed # Missing =>
        \A t \in References : Defines(t.ref) /\ ~Shadowed(t.ref) => Replaced(t) = Meant(t)

(* Every line of a disassembly is accepted by the parser and is read back as  *)
(* an instruction that executes as the decoded one does; unless the source    *)
(* named an H register from 8 up by another file's letter (parse_reg takes    *)
(* any), which HREDUCE has room for and the disassembler prints as H.         *)
BeyondFile(i) == \E k \in DOMAIN i.f : Fields[i.op][k] \in {"Q", "H"} /\ i.f[k] >= 8
ListingReparses ==
    listing # Missing =>
        \A k \in DOMAIN listing.lines : ~BeyondFile(Decoded(Image)[k]) =>
            LET back == Parse(listing.lines[k])
                word == Decoded(Image)[k]
            IN  /\ back.op = word.op
                /\ Effective(back) = Effective(word)

=============================================================================
