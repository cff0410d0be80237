------------------------------- MODULE MCDebugger ------------------------------
(* Calls two deep, a recursion, a loop that never ends, an error, a program    *)
(* without HALT, a register that changes back at the end of a batch; every     *)
(* kind of command.                                                            *)
EXTENDS Debugger

I(op, arg) == [op |-> op, arg |-> arg]
Calls == <<I("call", 4), I("ecall", 0), I("halt", 0), I("load", 0), I("call", 7), I("ret", 0),
           I("set", 1), I("ret", 0)>>
Recursion == <<I("call", 3), I("err", 0), I("jif", 6), I("set", 2), I("call", 3), I("ret", 0)>>
Loop == <<I("load", 0), I("store", 0), I("jif", 1), I("set", 1), I("jif", 3)>>
Short == <<I("load", 0), I("ecall", 0)>>
Back == <<I("ecall", 0), I("ecall", 0), I("set", 1), I("set", 0)>>
MCFiles == {[program |-> Calls, data |-> 1], [program |-> Recursion, data |-> 0], [program |-> Loop, data |-> 2],
            [program |-> Short, data |-> 1], [program |-> Back, data |-> 0]}

Entry(cmd, arg) == [cmd |-> cmd, arg |-> arg, class |-> "none", condition |-> NoCondition]
MCEntries ==
    {Entry(c, 0) : c \in {"next", "finish", "continue", "toggle", "delete all", "watch", "unwatch", "restart", "load"}}
    \cup {Entry("step", n) : n \in 1..3} \cup {Entry("to", n) : n \in {3, 6}}
    \cup {Entry("break", n) : n \in {3, 5}} \cup {Entry(c, 1) : c \in {"delete", "enable", "disable"}}
    \cup {[Entry("break", 4) EXCEPT !.condition = [op |-> o, value |-> 0]] : o \in {"==", ">"}}
    \cup {[Entry("class", 0) EXCEPT !.class = "memory"]}
=============================================================================
