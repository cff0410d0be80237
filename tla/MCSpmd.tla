------------------------------- MODULE MCSpmd -------------------------------
(***************************************************************************)
(* Programs and constants for model-checking Spmd.                         *)
(***************************************************************************)
EXTENDS Spmd

I(op) == [op |-> op, arg |-> 0]
A(op, arg) == [op |-> op, arg |-> arg]

Add1 == <<A("LOAD", 0), I("INC"), A("STORE", 0)>>
Section1 == <<I("HATMS")>> \o Add1 \o <<I("HATME")>>

\* One section; two sections with shared reads and private stores around them.
Counter == <<I("HFORK")>> \o Section1 \o <<I("HMERGE"), I("HALT")>>
TwoSections ==
    <<I("HFORK"), A("LOAD", 0)>> \o Section1
        \o <<A("LOAD", 0), A("STORE", 2)>> \o Section1
        \o <<A("LOAD", 0), I("HMERGE"), A("LOAD", 0), I("HALT")>>

\* spec.md 13.2: only the leader branches into the update.
LeaderIdiom ==
    <<I("HFORK"), I("HATMS"), A("JMPAF", 4), A("JMP", 7)>> \o Add1
        \o <<I("HATME"), I("HMERGE"), I("HALT")>>

\* Workers do private work that thread 0 skips, between two sections.
Uneven ==
    <<I("HFORK")>> \o Section1
        \o <<A("JTID", 8), A("JMP", 10), I("INC"), A("STORE", 3)>> \o Section1
        \o <<I("HMERGE"), I("HALT")>>

\* Two regions, so barrier, memory and threads are built twice.
TwoRegions ==
    <<I("HFORK")>> \o Section1 \o <<I("HMERGE"), I("HFORK")>> \o Section1
        \o <<I("HMERGE"), I("HALT")>>

Disciplined == {Counter, TwoSections, LeaderIdiom, Uneven, TwoRegions}

\* Every body of three instructions from a small set, before or inside a section of
\* one region: threads that miss a barrier, die, leave or enter sections by a jump.
Bodies(ops) == [1 .. 3 -> ops]
Ops == {I("HATMS"), I("HATME"), A("STORE", 0), A("JMPAF", 4), I("HMERGE"), I("FDIV0")}
BeforeSection ==
    {<<I("HFORK")>> \o b \o <<I("HATMS"), A("STORE", 0), I("HATME"), I("HMERGE")>>
        : b \in Bodies(Ops \cup {A("JTID", 4)})}
InsideSection ==
    {<<I("HFORK"), I("HATMS")>> \o b \o
     <<I("HATME"), I("HATMS"), A("STORE", 0), I("HATME"), I("HMERGE")>>
        : b \in Bodies(Ops \cup {A("JMPAF", 1), A("JTID", 6)})}
AnyBody == BeforeSection \cup InsideSection

\* The same with every error and trap, in and out of a region.
ErrorOps ==
    {I("HFORK"), I("HATMS"), I("HATME"), A("STORE", 0), I("HMERGE"), I("HALT"),
     I("IDIV0"), I("FDIV0"), A("QPREP", 0), A("QOBSERVE", 0)}
AnyError ==
    {<<I("HFORK")>> \o b \o <<I("HATME"), I("HMERGE")>> : b \in Bodies(ErrorOps)}
    \cup {<<A("QPREP", 0)>> \o b \o <<I("HATME"), I("HMERGE")>>
        : b \in {c \in Bodies(ErrorOps) : c[1].op \in {"HFORK", "QOBSERVE"}}}
AnyProgram == AnyBody \cup AnyError

\* Three blocks in a region, or in several: what a single thread runs.
Blocks == {Section1, <<A("LOAD", 0), A("STORE", 2)>>, <<I("HMERGE"), I("HFORK")>>,
           <<A("JMPAF", 0), I("INC")>>}
Built == {<<I("HFORK")>> \o b[1] \o b[2] \o b[3] \o <<I("HMERGE"), I("HALT")>>
             : b \in Bodies(Blocks)}

Cells1 == <<0>>
\* Two increments wrap around when ValueSpace = 4.
CellsNearMax == <<2>>

\* What ReadersSeeOneMemory asks of a program.
ASSUME DisciplinedAssumption == \A p \in Disciplined \cup Built : Sectioned(p)

\* A single thread takes shortcuts of its own: it runs Built in the place of Programs.
Alone == INSTANCE Spmd WITH N <- 1, Programs <- Built
Single == Started = {0}
ManyOrOneInit == Init \/ Alone!Init
ManyOrOneNext ==
    \/ ~Single /\ Next
    \/ Single /\ Alone!Next
ManyOrOneSpec ==
    /\ ManyOrOneInit /\ [][ManyOrOneNext]_vars
    /\ \A t \in Tids : WF_vars(~Single /\ Step(t))
    /\ WF_vars(Single /\ Alone!Step(0))

\* Every section adds one to the cell, with many threads and with one.
Counts == EverySectionCounts(0)
=============================================================================
