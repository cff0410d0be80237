------------------------------ MODULE MCShotMode -------------------------------
(* Programs of up to seven instructions: a preparation, a few instructions, an *)
(* observation, and some more.                                                 *)
EXTENDS ShotMode, TLC

I(op, r) == [op |-> op, q |-> r, h |-> 0, mode |-> "", to |-> 0]
Observe(r, i, mode) == [op |-> "observe", q |-> r, h |-> i, mode |-> mode, to |-> 0]
Jif(to) == [op |-> "jif", q |-> 0, h |-> 0, mode |-> "", to |-> to]

Body == {I("gate", 0), I("meas", 0), I("prep", 1), I("ecall", 0), Observe(1, 1, "dist"),
         Jif(1), Jif(5), Jif(6)}
Bodies == {<<I("meas", 0), a, b>> : a \in Body, b \in Body} \cup {<<I("prep", 1), a, b>> : a \in Body, b \in Body}
Ends == {<<>>, <<I("ecall", 0), I("gate", 1)>>, <<I("halt", 0)>>, <<Observe(1, 1, "sample")>>,
         <<I("prep", 0), Observe(0, 1, "prob")>>}
MCPrograms == {<<I("prep", 0)>> \o b \o <<Observe(0, 0, m)>> \o e :
                  b \in Bodies, m \in {"dist", "sample"}, e \in Ends}
=============================================================================
