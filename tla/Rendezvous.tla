----------------------------- MODULE Rendezvous -----------------------------
(***************************************************************************)
(* What a reusable barrier promises to the threads that call it, without a *)
(* counter, a mutex or a condition variable.  A thread enters a round and  *)
(* learns there and then whether it is the first; it leaves the round only *)
(* after every thread has entered it, and is told "leader" iff it was the  *)
(* first.  This is the contract HATMS and HATME rely on.                   *)
(***************************************************************************)
EXTENDS Naturals

CONSTANTS
    Threads,        \* the threads that share the barrier
    MaxRounds       \* bound: rounds a behaviour completes

VARIABLES
    round,          \* [Threads -> Nat]: rounds each thread has left
    inside,         \* threads that have entered a round and not left it
    first,          \* those of them that entered their round first
    verdict         \* [Threads -> BOOLEAN]: what the last round told a thread

vars == <<round, inside, first, verdict>>

\* u has reached the round that t is about to enter or is in.
HasEntered(u, t) == round[u] > round[t] \/ (round[u] = round[t] /\ u \in inside)

Init ==
    /\ round = [t \in Threads |-> 0]
    /\ inside = {}
    /\ first = {}
    /\ verdict = [t \in Threads |-> FALSE]

\* t enters its next round while some other thread is still missing.
Enter(t) ==
    /\ t \notin inside
    /\ round[t] < MaxRounds
    /\ \E u \in Threads \ {t} : ~HasEntered(u, t)
    /\ inside' = inside \cup {t}
    /\ first' = IF \E u \in Threads \ {t} : HasEntered(u, t)
                THEN first ELSE first \cup {t}
    /\ UNCHANGED <<round, verdict>>

\* t enters as the last one and passes straight through.
Pass(t) ==
    /\ t \notin inside
    /\ round[t] < MaxRounds
    /\ \A u \in Threads \ {t} : HasEntered(u, t)
    /\ round' = [round EXCEPT ![t] = @ + 1]
    /\ verdict' = [verdict EXCEPT ![t] = (Threads = {t})]
    /\ UNCHANGED <<inside, first>>

\* t leaves a round that every thread has entered.
Leave(t) ==
    /\ t \in inside
    /\ \A u \in Threads : HasEntered(u, t)
    /\ inside' = inside \ {t}
    /\ first' = first \ {t}
    /\ round' = [round EXCEPT ![t] = @ + 1]
    /\ verdict' = [verdict EXCEPT ![t] = (t \in first)]

Next == \E t \in Threads : Enter(t) \/ Pass(t) \/ Leave(t)

Spec == Init /\ [][Next]_vars

\* Callers keep calling, and a thread that may leave does.
FairSpec ==
    /\ Spec
    /\ \A t \in Threads : WF_vars(Enter(t) \/ Pass(t)) /\ WF_vars(Leave(t))
=============================================================================
