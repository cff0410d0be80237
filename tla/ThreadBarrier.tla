--------------------------- MODULE ThreadBarrier ---------------------------
(***************************************************************************)
(* ThreadBarrier::wait (cqam-vm/src/thread_pool.rs), the reusable barrier  *)
(* behind HATMS and HATME, at the granularity of its mutex: everything     *)
(* between taking `inner` and either returning or blocking on `cvar` is    *)
(* one step.  A blocked thread sleeps on the condition variable until a    *)
(* notify_all or a spurious wakeup (std allows them), then takes the mutex *)
(* again and re-examines the generation.                                   *)
(*                                                                         *)
(* The callers are any threads that keep calling wait with distinct thread *)
(* ids; Spmd.tla composes this module with the threads that really do.     *)
(***************************************************************************)
EXTENDS Naturals, FiniteSets

CONSTANTS
    Threads,        \* the callers; thread_count is their number
    None,           \* Option::None of `elected`
    MaxGen          \* bound: generations a behaviour completes

ASSUME ThreadsAssumption == IsFiniteSet(Threads) /\ Threads # {}
ASSUME NoneAssumption    == None \notin Threads
ASSUME MaxGenAssumption  == MaxGen \in Nat

VARIABLES
    arrived,        \* BarrierState.arrived
    generation,     \* BarrierState.generation
    elected,        \* BarrierState.elected
    resolvedLeader, \* BarrierState.resolved_leader
    inWait,         \* threads inside wait, blocked in its loop
    sleeping,       \* those of them asleep on cvar, not yet woken
    myGen,          \* [Threads -> Nat]: the local my_generation
    isLeader        \* [Threads -> BOOLEAN]: the last BarrierWaitResult

state == <<arrived, generation, elected, resolvedLeader>>
locals == <<inWait, sleeping, myGen, isLeader>>
barrierVars == <<state, locals>>

ThreadCount == Cardinality(Threads)

-----------------------------------------------------------------------------
\* ThreadBarrier::new.  The code starts resolved_leader at thread id 0; no
\* thread reads it before the first generation completes, so any id will do.
BarrierInit ==
    /\ arrived = 0
    /\ generation = 0
    /\ elected = None
    /\ resolvedLeader \in Threads
    /\ inWait = {}
    /\ sleeping = {}
    /\ myGen = [t \in Threads |-> 0]
    /\ isLeader = [t \in Threads |-> FALSE]

\* The first arriver of a generation is the elected one.
Elect(t) == IF arrived + 1 = 1 THEN t ELSE elected

\* wait(t) up to the condition variable: t is not the last one.
ArriveAndBlock(t) ==
    /\ t \notin inWait
    /\ arrived + 1 # ThreadCount
    /\ arrived' = arrived + 1
    /\ elected' = Elect(t)
    /\ myGen' = [myGen EXCEPT ![t] = generation]
    /\ inWait' = inWait \cup {t}
    /\ sleeping' = sleeping \cup {t}
    /\ UNCHANGED <<generation, resolvedLeader, isLeader>>

\* The last arriver resolves the leader and opens the next generation; the
\* parameters are what it leaves in `arrived` and `elected` and who still sleeps.
CompleteGeneration(t, arrivedNext, electedNext, sleepingNext) ==
    /\ t \notin inWait
    /\ arrived + 1 = ThreadCount
    /\ resolvedLeader' = Elect(t)
    /\ elected' = electedNext
    /\ arrived' = arrivedNext
    /\ generation' = generation + 1
    /\ sleeping' = sleepingNext
    /\ isLeader' = [isLeader EXCEPT ![t] = (t = Elect(t))]
    /\ UNCHANGED <<inWait, myGen>>

\* Faulty variant: no notification.
ArriveLastNoNotify(t) == CompleteGeneration(t, 0, None, sleeping)

\* wait(t) by the last arriver, from lock to return: `elected` is taken, the
\* counter starts again and everybody is woken.
ArriveLast(t) == CompleteGeneration(t, 0, None, {})

\* The condition variable returns without a notification.
SpuriousWakeup(t) ==
    /\ t \in sleeping
    /\ sleeping' = sleeping \ {t}
    /\ UNCHANGED <<state, inWait, myGen, isLeader>>

\* A woken thread re-takes the mutex, finds its generation still current and
\* waits again.
WaitAgain(t) ==
    /\ t \in inWait \ sleeping
    /\ generation = myGen[t]
    /\ sleeping' = sleeping \cup {t}
    /\ UNCHANGED <<state, inWait, myGen, isLeader>>

\* Faulty variants: the wrong cell is read; the generation is tested once
\* (`if` instead of `while`).
ReturnReadsElected(t) ==
    /\ t \in inWait \ sleeping
    /\ generation # myGen[t]
    /\ inWait' = inWait \ {t}
    /\ isLeader' = [isLeader EXCEPT ![t] = (t = elected)]
    /\ UNCHANGED <<state, sleeping, myGen>>
ReturnWithoutRecheck(t) ==
    /\ t \in inWait \ sleeping
    /\ inWait' = inWait \ {t}
    /\ isLeader' = [isLeader EXCEPT ![t] = (t = resolvedLeader)]
    /\ UNCHANGED <<state, sleeping, myGen>>

\* A woken thread finds a new generation, reads resolved_leader and returns.
Return(t) ==
    /\ t \in inWait \ sleeping
    /\ generation # myGen[t]
    /\ inWait' = inWait \ {t}
    /\ isLeader' = [isLeader EXCEPT ![t] = (t = resolvedLeader)]
    /\ UNCHANGED <<state, sleeping, myGen>>

\* One call of wait by t: it arrives (while the bound lasts) or moves on.
Arrive(t) == generation < MaxGen /\ (ArriveAndBlock(t) \/ ArriveLast(t))
Wake(t)   == WaitAgain(t) \/ Return(t)

\* All calls have been made and have returned.
Finished == generation = MaxGen /\ inWait = {} /\ UNCHANGED barrierVars

BarrierNext ==
    \/ \E t \in Threads : Arrive(t) \/ SpuriousWakeup(t) \/ Wake(t)
    \/ Finished

BarrierSpec == BarrierInit /\ [][BarrierNext]_barrierVars

(***************************************************************************)
(* Fairness: the operating system runs every runnable thread, so a caller  *)
(* that can arrive does (each SPMD thread executes instructions until it   *)
(* reaches a barrier) and a woken thread gets the mutex back.  Nothing     *)
(* makes a spurious wakeup happen.                                         *)
(***************************************************************************)
BarrierFairSpec ==
    /\ BarrierSpec
    /\ \A t \in Threads : WF_barrierVars(Arrive(t)) /\ WF_barrierVars(Wake(t))

-----------------------------------------------------------------------------
\* Threads blocked in the generation that is still gathering, and threads whose
\* generation has completed but that have not returned from wait yet.
Gathering  == {t \in inWait : myGen[t] = generation}
Stragglers == {t \in inWait : myGen[t] # generation}

\* What t holds, or is about to be told, about the last completed generation.
Claims(t) == IF t \in Stragglers THEN resolvedLeader = t ELSE isLeader[t]

\* Type invariant of the barrier's fields and of the callers' locals.
BarrierTypeOK ==
    /\ arrived \in 0 .. ThreadCount - 1
    /\ generation \in 0 .. MaxGen
    /\ elected \in Threads \cup {None}
    /\ resolvedLeader \in Threads
    /\ inWait \in SUBSET Threads
    /\ sleeping \in SUBSET inWait
    /\ myGen \in [Threads -> Nat]
    /\ isLeader \in [Threads -> BOOLEAN]

\* The counter is exact and a straggler is at most one generation behind: a
\* fast thread that calls wait again cannot be counted twice, nor run a whole
\* generation ahead of a slow one (so a one-bit generation would suffice).
CountExact ==
    /\ arrived = Cardinality(Gathering)
    /\ \A t \in Stragglers : myGen[t] + 1 = generation

\* The elected thread is one that is waiting in the current generation; nobody
\* is elected while nobody waits.
ElectedWaits ==
    IF arrived = 0 THEN elected = None ELSE elected \in Gathering

\* No lost wakeup: a thread asleep on cvar belongs to the current generation, so
\* a later notify_all will reach it.
NoLostWakeup == sleeping \subseteq Gathering

\* Each completed generation has exactly one leader, even while slow threads
\* have still to read resolved_leader and fast ones are already gathering for
\* the next generation (the comment on BarrierState.resolved_leader).
OneLeader == generation > 0 => \E t \in Threads : \A u \in Threads : Claims(u) <=> u = t

\* resolved_leader may change only when nobody has still to read it.
NotOverwrittenBeforeRead ==
    [][resolvedLeader' # resolvedLeader => Stragglers = {}]_barrierVars

\* Every call of wait returns.
EveryCallReturns == \A t \in Threads : t \in inWait ~> t \notin inWait

-----------------------------------------------------------------------------
(***************************************************************************)
(* The barrier implements Rendezvous.  A thread that is not inside wait    *)
(* has left every completed round, so its round is the generation itself;  *)
(* a thread inside is still in the round it read on entry.  It is first    *)
(* iff it is elected (its generation gathers) or resolved (a straggler).   *)
(***************************************************************************)
roundBar == [t \in Threads |-> IF t \in inWait THEN myGen[t] ELSE generation]
firstBar ==
    {t \in inWait : t = IF myGen[t] = generation THEN elected ELSE resolvedLeader}

Rounds == INSTANCE Rendezvous
        WITH MaxRounds <- MaxGen, round <- roundBar, inside <- inWait,
             first <- firstBar, verdict <- isLeader

\* Safety: every behaviour of the barrier is one of the contract.
ImplementsRendezvous == Rounds!Spec

\* With the scheduler's fairness it also lets everybody out as the contract does.
ImplementsFairRendezvous == Rounds!FairSpec
=============================================================================
