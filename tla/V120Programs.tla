------------------------------ MODULE V120Programs -----------------------------
(***************************************************************************)
(* Programs that use libV120, one handle each, on the same crates: any     *)
(* legal sequence of library calls, interleaved region by region.  Each    *)
(* handle belongs to one thread, as the library demands.                   *)
(***************************************************************************)
EXTENDS LibV120

CONSTANTS
    Owns,           \* Owns[h]: the VME_REGION structures of h's program
    Sparing,        \* handles used for region allocation only
    StartPages,     \* StartPages[h]: the arguments of v120_allocate_vme
    Setups          \* the calls of v120_configure_page: page, address, config

ASSUME ProgramsAssumption ==
    /\ Owns \in [Handles -> SUBSET Regions]
    /\ Sparing \subseteq Handles
    /\ StartPages \in [Handles -> SUBSET Nat]
    /\ \A s \in Setups : s.idx \in Nat /\ s.addr \in Nat /\ s.config \in Modes

Allocating(h) ==
    \/ \E c \in Crates : v120_open(h, c)
    \/ v120_close(h)
    \/ \E r \in Owns[h] : v120_add_vme_region(h, r)
    \/ \E p \in StartPages[h] : v120_allocate_vme(h, p)
    \/ AllocateRegion(h)
    \/ AllocateReturn(h)

OtherCall(h) ==
    \/ v120_next(h)
    \/ v120_irq_open(h)
    \/ v120_dma(h)
    \/ v120_get_all_vme(h)
    \/ \E s \in Setups : v120_configure_page(h, s.idx, s.addr, s.config)
    \/ v120_delete_vme_list(h)

LibraryNext ==
    \/ \E h \in Handles : Allocating(h)
    \/ \E h \in Handles \ Sparing : OtherCall(h)

LibrarySpec == LibraryInit /\ [][LibraryNext]_library
===============================================================================
