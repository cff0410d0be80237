---------------------------- MODULE SharedMemory ----------------------------
(***************************************************************************)
(* The data side of SharedMemory (cqam-vm/src/thread_pool.rs) and of the   *)
(* runner that decides which CMEM cells it covers (cqam-run/src/runner.rs).*)
(* A region is [base, size]; `data` and `snapshot` are functions on the    *)
(* offsets 0 .. size-1.  Addresses are u16 in the code: AddrSpace cells    *)
(* here, and every u16 sum is taken modulo AddrSpace (a release build) or  *)
(* panics (a build with overflow checks).                                  *)
(***************************************************************************)
EXTENDS Naturals, Sequences

CONSTANTS
    AddrSpace,      \* number of CMEM cells (65536 in the code)
    OverflowChecks  \* TRUE: debug profile, u16 overflow panics

Addr == 0 .. AddrSpace - 1

\* u16 addition in a release build, and whether a debug build panics on it.
Sum16(a, b) == (a + b) % AddrSpace
Panics(a, b) == OverflowChecks /\ a + b >= AddrSpace

NoRegion == [base |-> 0, size |-> 0]

\* The runner's region for a .shared section: the pair is (base, end).
RunnerRegion(base, len) ==
    IF len = 0 THEN NoRegion ELSE [base |-> base, size |-> Sum16(base, len)]

\* HFORK reads cells base + i for i in 0 .. size-1.
CreationPanics(region) ==
    region.size > 0 /\ Panics(region.base, region.size - 1)
\* (Faulty: one cell too many.)
InitialDataInclusive(region, cmem) ==
    [i \in 0 .. region.size |-> cmem[Sum16(region.base, i)]]
InitialData(region, cmem) ==
    [i \in 0 .. region.size - 1 |-> cmem[Sum16(region.base, i)]]

\* contains / addr_to_offset: is addr inside the region, and at which offset.
ContainsPanics(region, addr) ==
    addr >= region.base /\ Panics(region.base, region.size)
Contains(region, addr) ==
    addr >= region.base /\ addr < Sum16(region.base, region.size)
Offset(region, addr) == addr - region.base

\* ExecutionContext::cmem_load of a thread that shares the region.
SharedLoad(region, data, snapshot, cmem, addr, inAtomic) ==
    IF Contains(region, addr)
    THEN (IF inAtomic THEN data ELSE snapshot)[Offset(region, addr)]
    ELSE cmem[addr]

\* write_back: the live data over a CMEM image.
WriteBack(region, data, cmem) ==
    [a \in Addr |->
        IF \E i \in DOMAIN data : a = Sum16(region.base, i)
        THEN data[CHOOSE i \in DOMAIN data : a = Sum16(region.base, i)]
        ELSE cmem[a]]
=============================================================================
