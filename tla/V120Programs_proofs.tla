--------------------------- MODULE V120Programs_proofs -------------------------
(***************************************************************************)
(* What libV120 promises to any programs that use it on the same crates,   *)
(* for every number of crates, handles, regions, pages and page sizes, and *)
(* every set of failing system calls.                                      *)
(***************************************************************************)
EXTENDS V120Programs, LibV120_proofs

\* Every call of the library, failing system calls included, keeps the invariant.
LEMMA InvNext ==
    ASSUME LibInv, LibraryNext
    PROVE  LibInv'
<1>0. \A h \in Handles : Owns[h] \subseteq Regions /\ StartPages[h] \subseteq Nat
    BY ProgramsAssumption
<1>1. ASSUME NEW h \in Handles, Allocating(h) PROVE LibInv'
    <2>1. ASSUME NEW c \in Crates, v120_open(h, c) PROVE LibInv'
        BY <2>1, OpenKeeps
    <2>2. CASE v120_close(h)
        BY <2>2, EmptyKeeps
    <2>3. ASSUME NEW r \in Owns[h], v120_add_vme_region(h, r) PROVE LibInv'
        BY <1>0, <2>3, AddKeeps
    <2>4. ASSUME NEW p \in StartPages[h], v120_allocate_vme(h, p) PROVE LibInv'
        BY <1>0, <2>4, AllocateKeeps
    <2>5. CASE AllocateRegion(h)
        BY <2>5, RegionKeeps
    <2>6. CASE AllocateReturn(h)
        BY <2>6, ReturnKeeps
    <2> QED
        BY <1>1, <2>1, <2>2, <2>3, <2>4, <2>5, <2>6 DEF Allocating
<1>2. ASSUME NEW h \in Handles, OtherCall(h) PROVE LibInv'
    <2>1. ASSUME NEW s \in Setups, v120_configure_page(h, s.idx, s.addr, s.config) PROVE LibInv'
        <3>1. s.idx \in Nat /\ s.addr \in Nat /\ s.config \in Modes
            BY ProgramsAssumption
        <3> QED
            BY <2>1, <3>1, MapKeeps
    <2>2. CASE v120_get_all_vme(h)
        BY <2>2, MapKeeps
    <2> QED
        BY <1>2, <2>1, <2>2, EmptyKeeps, OpenFileKeeps DEF OtherCall
<1> QED
    BY <1>1, <1>2 DEF LibraryNext

\* The inductive invariant holds in every sequence of calls of any number of
\* handles: the facts of V120.c that the theorems below rest on.
THEOREM LibraryInvariant == LibrarySpec => []LibInv
<1>1. LibInv /\ [LibraryNext]_library => LibInv'
    BY InvNext, InvStutter
<1> QED
    BY <1>1, InvInit, PTL DEF LibrarySpec

-------------------------------------------------------------------------------
(***************************************************************************)
(* What the library promises                                               *)
(***************************************************************************)
\* Handles, regions, descriptors and counts keep their types in every sequence
\* of calls; in particular no count of files or mappings goes below zero.
THEOREM LibraryTypeCorrect == LibrarySpec => []LibraryTypeOK
<1>1. LibInv => LibraryTypeOK
    BY DEF LibInv, Sound
<1> QED
    BY <1>1, LibraryInvariant, PTL

\* The error exits of v120_open and v120_alloc_pages, v120_cleanup and v120_next
\* give back to the kernel what the handle holds, for any calls that fail.
THEOREM KernelBooksBalance == LibrarySpec => []NothingLeaks
<1>1. LibInv => NothingLeaks
    BY DEF LibInv, Sound
<1> QED
    BY <1>1, LibraryInvariant, PTL

\* v120_allocate_vme uses pages without a gap or an overlap, in list order, and
\* returns the first page it left if it left one, for any regions, page size and
\* page count.
THEOREM RegionsTile == LibrarySpec => []AllocationTiles
<1>1. LibInv => AllocationTiles
    BY DEF LibInv, Lists, TilesToReturn, AllocationTiles
<1> QED
    BY <1>1, LibraryInvariant, PTL

\* A region's base pointer, whenever it is set, points into pages the handle has
\* mapped, whichever calls failed before: the program never faults.
THEOREM NoFault == LibrarySpec => []BasesAreMapped
BY BasesMapped, LibraryInvariant, PTL

\* Every byte of a region that v120_allocate_vme set up and nobody reconfigured
\* since is reached, through its base pointer, at the VME address and with the
\* access mode the program asked for.
THEOREM AllocatedRegionsWork == LibrarySpec => []RegionsReachTheirCard
BY RegionsReach, LibraryInvariant, PTL

\* Descriptor writes leave the configuration registers alone except in a
\* v120_allocate_vme that returns -1.
THEOREM SuccessLeavesRegisters == LibrarySpec => OverrunOnlyOnFailure
<1>1. ASSUME NEW h \in Handles, NEW s \in Setups, v120_configure_page(h, s.idx, s.addr, s.config)
      PROVE  config_regs' = config_regs
    <2>1. s.idx \in Nat /\ PageCount \in Nat
        BY ProgramsAssumption, LibraryAssumption
    <2>2. ~(s.idx + 1 > PageCount)
        BY <1>1, <2>1 DEF v120_configure_page
    <2> QED
        BY <1>1, <2>2 DEF v120_configure_page, v120_configure_pd_range
<1>2. ASSUME LibInv, [LibraryNext]_library, config_regs' # config_regs
      PROVE  \E h \in Handles : /\ alloc[h].phase = "loop"
                                /\ alloc'[h].phase = "done"
                                /\ alloc'[h].pgno = NULL
    <2>1. CASE \E h \in Handles : AllocateRegion(h)
        BY <1>2, <2>1, OverrunFails
    <2>2. CASE \E h \in Handles, s \in Setups : v120_configure_page(h, s.idx, s.addr, s.config)
        BY <1>1, <1>2, <2>2
    <2>3. CASE \E h \in Handles : \/ \E c \in Crates : v120_open(h, c)
                                  \/ v120_close(h)
                                  \/ \E r \in Owns[h] : v120_add_vme_region(h, r)
                                  \/ \E p \in StartPages[h] : v120_allocate_vme(h, p)
                                  \/ AllocateReturn(h) \/ v120_next(h) \/ v120_irq_open(h)
                                  \/ v120_dma(h) \/ v120_get_all_vme(h) \/ v120_delete_vme_list(h)
        <3>1. config_regs' = config_regs
            BY <2>3 DEF v120_open, v120_close, v120_add_vme_region, v120_allocate_vme,
               AllocateReturn, v120_next, v120_irq_open, v120_dma, v120_get_all_vme,
               v120_delete_vme_list
        <3> QED
            BY <1>2, <3>1
    <2>4. CASE UNCHANGED library
        BY <1>2, <2>4 DEF library
    <2> QED
        BY <1>2, <2>1, <2>2, <2>3, <2>4 DEF LibraryNext, Allocating, OtherCall
<1>3. LibInv /\ [LibraryNext]_library =>
          [config_regs' # config_regs =>
              \E h \in Handles : /\ alloc[h].phase = "loop"
                                 /\ alloc'[h].phase = "done"
                                 /\ alloc'[h].pgno = NULL]_library
    BY <1>2
<1> QED
    BY <1>3, LibraryInvariant, PTL DEF LibrarySpec, OverrunOnlyOnFailure
===============================================================================
