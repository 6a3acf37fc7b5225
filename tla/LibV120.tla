-------------------------------- MODULE LibV120 --------------------------------
(***************************************************************************)
(* libV120/V120.c: the library that opens a crate controller, maps pages   *)
(* of its VME window into the program and points the page descriptors of   *)
(* those pages at VME addresses.                                           *)
(*                                                                         *)
(* A crate has PageCount pages, each with a descriptor in pd; an access at *)
(* a byte of page p goes to the VME address its descriptor names.  The     *)
(* descriptors lie in front of the configuration registers, so a write     *)
(* past the last descriptor lands in them.  Descriptors belong to the      *)
(* crate and are shared by every handle open on it, in this program or in  *)
(* another; mappings and open files belong to a handle.                    *)
(*                                                                         *)
(* A pointer into the VME window is its byte offset in the window.  The    *)
(* loop of v120_allocate_vme takes one step per region, so that the        *)
(* accesses of another handle fall between its iterations.                 *)
(***************************************************************************)
EXTENDS Integers, Sequences, FiniteSets

CONSTANTS
    Crates,         \* crate numbers a program may name
    Attached,       \* crates with a device node
    Handles,        \* places a program keeps a V120_HANDLE in
    Regions,        \* VME_REGION structures of the programs
    vme_addr, len, config,   \* their fields of these names, set by the program
    Modes,          \* access modes: the configuration bits of a descriptor
    PageSize,       \* V120_PAGE_SIZE
    PageCount,      \* V120_PAGE_COUNT
    FailingCalls,   \* the system calls that may fail
    MaxMaps         \* bound: MaxMaps[h] mappings are granted to handle h

NULL == -1

SystemCalls == {"open", "mmap_ctrl", "open_vme", "mmap", "malloc", "open_irq"}

ASSUME LibraryAssumption ==
    /\ Crates \subseteq Nat
    /\ Attached \subseteq Crates
    /\ PageSize \in Nat \ {0}
    /\ PageCount \in Nat \ {0}
    /\ vme_addr \in [Regions -> Nat]
    /\ len \in [Regions -> Nat]
    /\ config \in [Regions -> Modes]
    \* a region longer than the descriptor block would run past the mapping of
    \* the registers, not only past the descriptors
    /\ \A r \in Regions : (vme_addr[r] % PageSize) + len[r] <= PageCount * PageSize
    /\ FailingCalls \subseteq SystemCalls
    /\ MaxMaps \in [Handles -> Nat]

VARIABLES
    handle,        \* handle[h]: the V120_HANDLE, or Closed
    region,        \* region[r]: base, start_page and end_page
    alloc,         \* alloc[h]: where the last v120_allocate_vme of h stands
    pd,            \* pd[c][page]: the page descriptors of crate c
    config_regs,   \* config_regs[c]: "intact", or "overwritten" past pd's end
    files, maps,   \* kernel: files and mappings opened for h, not yet released
    relied         \* relied[h]: regions set up and not reconfigured since

library == <<handle, region, alloc, pd, config_regs, files, maps, relied>>

-------------------------------------------------------------------------------
Pages == 0 .. PageCount - 1

\* struct V120_HANDLE: list_head from its head on, mmlist from its newest entry.
V120_HANDLE(c) == [crateno |-> c, list_head |-> <<>>, mmlist |-> <<>>,
                   vme_open |-> FALSE, irq_open |-> FALSE]
Closed == [crateno |-> NULL, list_head |-> <<>>, mmlist |-> <<>>,
           vme_open |-> FALSE, irq_open |-> FALSE]

IsOpen(h) == handle[h].crateno # NULL

\* A VME_REGION as the program initialises it.
VME_REGION == [base |-> NULL, start_page |-> 0, end_page |-> 0]

\* The states of a v120_allocate_vme call: none, about to handle list entry
\* `at` from page pgno on, or returned.
Idle == [phase |-> "idle", start |-> 0, at |-> 0, pgno |-> 0]
Loop(start, at, pgno) == [phase |-> "loop", start |-> start, at |-> at, pgno |-> pgno]
Returned(start, value) == [phase |-> "done", start |-> start, at |-> 0, pgno |-> value]

\* A page descriptor: the VME page it points to and its access bits.
V120_PD(addr, cfg) == [page |-> addr \div PageSize, config |-> cfg]
BlankPD == [page |-> 0, config |-> NULL]

Fails(call) == call \in FailingCalls

-------------------------------------------------------------------------------
(***************************************************************************)
(* Pages                                                                   *)
(***************************************************************************)
PageOffset(r) == vme_addr[r] % PageSize

\* Mutated form of NPages: the offset of an unaligned address is forgotten.
NPagesAligned(r) == (len[r] + PageSize - 1) \div PageSize

\* npages in v120_allocate_vme: zero for an aligned region of no length.
NPages(r) == (len[r] + PageOffset(r) + PageSize - 1) \div PageSize

RegionPages(r) == region[r].start_page .. region[r].end_page

\* Descriptor writes to pages P of crate c by anyone: the regions that used
\* those pages can no longer be relied on.
Reconfigured(c, P, rel) ==
    [h \in Handles |-> {r \in rel[h] : handle[h].crateno = c => RegionPages(r) \cap P = {}}]

\* v120_alloc_pages(h, pageno, npages) returns base.
v120_alloc_pages(h, pageno, npages, base) ==
    LET opened == [handle[h] EXCEPT !.vme_open = TRUE]
        filesNow == IF handle[h].vme_open THEN files ELSE [files EXCEPT ![h] = @ + 1]
    IN  \/ /\ pageno < 0 \/ npages < 0 \/ (~handle[h].vme_open /\ Fails("open_vme"))
           /\ base = NULL
           /\ UNCHANGED <<handle, files, maps>>
        \/ /\ pageno >= 0
           /\ Fails("mmap") \/ Fails("malloc") \/ maps[h] >= MaxMaps[h]
           /\ base = NULL
           /\ handle' = [handle EXCEPT ![h] = opened]
           /\ files' = filesNow
           /\ UNCHANGED maps
        \/ /\ pageno >= 0
           /\ maps[h] < MaxMaps[h]
           /\ base = pageno * PageSize
           /\ handle' = [handle EXCEPT ![h] =
                            [opened EXCEPT !.mmlist = <<<<pageno, npages>>>> \o @]]
           /\ files' = filesNow
           /\ maps' = [maps EXCEPT ![h] = @ + 1]

\* Mutated form of v120_get_vme: the page behind the last one is accepted.
v120_get_vme_past_end(h, start_page, end_page, base) ==
    IF end_page > PageCount
    THEN base = NULL /\ UNCHANGED <<handle, files, maps>>
    ELSE v120_alloc_pages(h, start_page, end_page - start_page + 1, base)

\* v120_get_vme swaps the ends of a range that is given the wrong way round.
v120_get_vme(h, start_page, end_page, base) ==
    LET first == IF start_page > end_page THEN end_page ELSE start_page
        last == IF start_page > end_page THEN start_page ELSE end_page
    IN  IF last >= PageCount
        THEN base = NULL /\ UNCHANGED <<handle, files, maps>>
        ELSE v120_alloc_pages(h, first, last - first + 1, base)

\* Mutated form of v120_configure_pd_range: every page gets the first address.
v120_configure_pd_same(c, startpg, addr, cfg, npages) ==
    /\ pd' = [pd EXCEPT ![c] = [p \in Pages |->
                 IF p \in startpg .. startpg + npages - 1
                 THEN V120_PD(addr, cfg) ELSE @[p]]]
    /\ UNCHANGED config_regs

\* v120_configure_pd_range of crate c: npages descriptors from startpg on.
v120_configure_pd_range(c, startpg, addr, cfg, npages) ==
    /\ pd' = [pd EXCEPT ![c] = [p \in Pages |->
                 IF p \in startpg .. startpg + npages - 1
                 THEN V120_PD(addr + (p - startpg) * PageSize, cfg) ELSE @[p]]]
    /\ config_regs' = IF startpg + npages > PageCount
                      THEN [config_regs EXCEPT ![c] = "overwritten"] ELSE config_regs

Bases == {NULL} \cup {p * PageSize : p \in Pages}

-------------------------------------------------------------------------------
(***************************************************************************)
(* Opening and closing                                                     *)
(***************************************************************************)
Opened(h, c) ==
    /\ handle' = [handle EXCEPT ![h] = V120_HANDLE(c)]
    /\ files' = [files EXCEPT ![h] = @ + 1]
    /\ maps' = [maps EXCEPT ![h] = @ + 1]

\* The calls of v120_open: what it holds when one of them fails, and what it gives
\* back from the label on that it then jumps to, errCalloc, errOpen or errMap.
OpenCalls == {"malloc", "open", "mmap_ctrl"}
Held == [malloc |-> {}, open |-> {"malloc"}, mmap_ctrl |-> {"malloc", "open"}]
GivenBack == [malloc |-> {}, open |-> {"malloc"}, mmap_ctrl |-> {"open", "malloc"}]

CountOf(flag) == IF flag THEN 1 ELSE 0

\* Mutated form of OpenFailed: the control device stays open when mmap fails.
OpenLeaked(h, call) ==
    LET kept == Held[call] \ {"malloc"}
    IN  /\ files' = [files EXCEPT ![h] = @ + CountOf("open" \in kept)]
        /\ maps' = [maps EXCEPT ![h] = @ + CountOf("mmap_ctrl" \in kept)]
        /\ UNCHANGED handle

OpenFailed(h, call) ==
    LET kept == Held[call] \ GivenBack[call]
    IN  /\ files' = [files EXCEPT ![h] = @ + CountOf("open" \in kept)]
        /\ maps' = [maps EXCEPT ![h] = @ + CountOf("mmap_ctrl" \in kept)]
        /\ UNCHANGED handle

\* A crate that is not there has no device to open.
FailingOpens(c) == {call \in OpenCalls : Fails(call) \/ (call = "open" /\ c \notin Attached)}
CanFailToOpen(c) == FailingOpens(c) # {}

v120_open(h, c) ==
    /\ ~IsOpen(h)
    /\ \/ c \in Attached /\ Opened(h, c)
       \/ \E call \in FailingOpens(c) : OpenFailed(h, call)
    /\ UNCHANGED <<region, alloc, pd, config_regs, relied>>

\* What v120_cleanup releases: the page mappings one by one, the registers'
\* mapping, the region list, and the files that were opened.
\* Mutated form of OpenFiles: the VME device is closed without having been opened.
OpenFilesUnchecked(hd) == 2 + CountOf(hd.irq_open)

OpenFiles(hd) == 1 + CountOf(hd.vme_open) + CountOf(hd.irq_open)
Mappings(hd) == 1 + Len(hd.mmlist)

v120_close(h) ==
    /\ IsOpen(h)
    /\ alloc[h].phase # "loop"
    /\ handle' = [handle EXCEPT ![h] = Closed]
    /\ files' = [files EXCEPT ![h] = @ - OpenFiles(handle[h])]
    /\ maps' = [maps EXCEPT ![h] = @ - Mappings(handle[h])]
    /\ alloc' = [alloc EXCEPT ![h] = Idle]
    /\ relied' = [relied EXCEPT ![h] = {}]
    /\ UNCHANGED <<region, pd, config_regs>>

\* v120_next closes the handle it is given, if any, and opens the first crate
\* with a higher number that can be opened.
v120_next(h) ==
    /\ alloc[h].phase # "loop"
    /\ LET left == [c \in Crates |-> c > handle[h].crateno]
       IN  \/ \E c \in Attached :
                 /\ left[c]
                 /\ \A d \in Crates : left[d] /\ d < c => CanFailToOpen(d)
                 /\ handle' = [handle EXCEPT ![h] = V120_HANDLE(c)]
           \/ /\ \A d \in Crates : left[d] => CanFailToOpen(d)
              /\ handle' = [handle EXCEPT ![h] = Closed]
    /\ LET held == IF IsOpen(h) THEN OpenFiles(handle[h]) ELSE 0
           got == CountOf(handle'[h].crateno # NULL)
           mapped == IF IsOpen(h) THEN Mappings(handle[h]) ELSE 0
       IN  /\ files' = [files EXCEPT ![h] = @ - held + got]
           /\ maps' = [maps EXCEPT ![h] = @ - mapped + got]
    /\ alloc' = [alloc EXCEPT ![h] = Idle]
    /\ relied' = [relied EXCEPT ![h] = {}]
    /\ UNCHANGED <<region, pd, config_regs>>

\* v120_irq_open opens the interrupt device once.
v120_irq_open(h) ==
    /\ IsOpen(h)
    /\ ~handle[h].irq_open
    /\ handle' = [handle EXCEPT ![h].irq_open = TRUE]
    /\ files' = [files EXCEPT ![h] = @ + 1]
    /\ UNCHANGED <<region, alloc, pd, config_regs, maps, relied>>

\* v120_dma_xfr and v120_dma_status open the VME device when it is not yet open.
v120_dma(h) ==
    /\ IsOpen(h)
    /\ ~handle[h].vme_open
    /\ handle' = [handle EXCEPT ![h].vme_open = TRUE]
    /\ files' = [files EXCEPT ![h] = @ + 1]
    /\ UNCHANGED <<region, alloc, pd, config_regs, maps, relied>>

-------------------------------------------------------------------------------
(***************************************************************************)
(* Pages and regions                                                       *)
(***************************************************************************)
\* v120_configure_page writes the descriptor before it maps the page.
v120_configure_page(h, idx, addr, cfg) ==
    /\ IsOpen(h)
    /\ alloc[h].phase # "loop"
    /\ idx < PageCount
    /\ addr % PageSize = 0
    /\ v120_configure_pd_range(handle[h].crateno, idx, addr, cfg, 1)
    /\ \E base \in Bases : v120_alloc_pages(h, idx, 1, base)
    /\ relied' = Reconfigured(handle[h].crateno, {idx}, relied)
    /\ UNCHANGED <<region, alloc>>

v120_get_all_vme(h) ==
    /\ IsOpen(h)
    /\ alloc[h].phase # "loop"
    /\ \E base \in Bases : v120_alloc_pages(h, 0, PageCount, base)
    /\ UNCHANGED <<region, alloc, pd, config_regs, relied>>

InSomeList(r) == \E h \in Handles : \E i \in DOMAIN handle[h].list_head :
                    handle[h].list_head[i] = r

\* v120_add_vme_region of a region the program has just initialised.  A region
\* has one next pointer, so a program adds it to one list, once.
v120_add_vme_region(h, r) ==
    /\ IsOpen(h)
    /\ alloc[h].phase # "loop"
    /\ ~InSomeList(r)
    /\ region' = [region EXCEPT ![r] = VME_REGION]
    /\ handle' = [handle EXCEPT ![h].list_head = <<r>> \o @]
    /\ alloc' = [alloc EXCEPT ![h] = Idle]
    /\ UNCHANGED <<pd, config_regs, files, maps, relied>>

v120_delete_vme_list(h) ==
    /\ IsOpen(h)
    /\ alloc[h].phase # "loop"
    /\ handle' = [handle EXCEPT ![h].list_head = <<>>]
    /\ alloc' = [alloc EXCEPT ![h] = Idle]
    /\ relied' = [relied EXCEPT ![h] = {}]
    /\ UNCHANGED <<region, pd, config_regs, files, maps>>

\* v120_allocate_vme up to its loop.  Nothing is promised of a region while it
\* is allocated anew.
v120_allocate_vme(h, start_page) ==
    /\ IsOpen(h)
    /\ alloc[h].phase # "loop"
    /\ alloc' = [alloc EXCEPT ![h] = IF start_page >= PageCount
                                     THEN Returned(start_page, NULL)
                                     ELSE Loop(start_page, 1, start_page)]
    /\ relied' = IF start_page >= PageCount THEN relied ELSE [relied EXCEPT ![h] = {}]
    /\ UNCHANGED <<handle, region, pd, config_regs, files, maps>>

\* One iteration: the pages are mapped, then the descriptors are written, and
\* only then is the result of the mapping looked at.
AllocateRegion(h) ==
    LET a == alloc[h]
        hd == handle[h]
        r == hd.list_head[a.at]
        endpage == a.pgno + NPages(r) - 1
        P == a.pgno .. endpage
    IN  /\ a.phase = "loop"
        /\ a.at <= Len(hd.list_head)
        /\ v120_configure_pd_range(hd.crateno, a.pgno, vme_addr[r], config[r], NPages(r))
        /\ \E base \in Bases :
              /\ v120_get_vme(h, a.pgno, endpage, base)
              /\ IF base = NULL
                 THEN /\ region' = [region EXCEPT ![r].base = NULL]
                      /\ alloc' = [alloc EXCEPT ![h] = Returned(a.start, NULL)]
                      /\ relied' = [Reconfigured(hd.crateno, P, relied)
                                      EXCEPT ![h] = relied[h]]
                 ELSE /\ region' = [region EXCEPT ![r] =
                             [base |-> base + PageOffset(r),
                              start_page |-> a.pgno, end_page |-> endpage]]
                      /\ alloc' = [alloc EXCEPT ![h] =
                             Loop(a.start, a.at + 1, a.pgno + NPages(r))]
                      /\ relied' = [Reconfigured(hd.crateno, P, relied)
                                      EXCEPT ![h] = relied[h] \cup {r}]

\* Mutated form of AllocateReturn: the last page used is returned.
AllocateReturnLast(h) ==
    LET a == alloc[h]
    IN  /\ a.phase = "loop"
        /\ a.at > Len(handle[h].list_head)
        /\ alloc' = [alloc EXCEPT ![h] = Returned(a.start, a.pgno - 1)]
        /\ UNCHANGED <<handle, region, pd, config_regs, files, maps, relied>>

\* The loop is over.  Without any region endpage was never assigned.
AllocateReturn(h) ==
    LET a == alloc[h]
    IN  /\ a.phase = "loop"
        /\ a.at > Len(handle[h].list_head)
        /\ IF a.at = 1
           THEN \E garbage \in {0, PageCount} :
                   alloc' = [alloc EXCEPT ![h] = Returned(a.start, garbage)]
           ELSE alloc' = [alloc EXCEPT ![h] = Returned(a.start, a.pgno)]
        /\ UNCHANGED <<handle, region, pd, config_regs, files, maps, relied>>

-------------------------------------------------------------------------------
LibraryInit ==
    /\ handle = [h \in Handles |-> Closed]
    /\ region = [r \in Regions |-> VME_REGION]
    /\ alloc = [h \in Handles |-> Idle]
    /\ pd = [c \in Crates |-> [p \in Pages |-> BlankPD]]
    /\ config_regs = [c \in Crates |-> "intact"]
    /\ files = [h \in Handles |-> 0]
    /\ maps = [h \in Handles |-> 0]
    /\ relied = [h \in Handles |-> {}]

-------------------------------------------------------------------------------
(***************************************************************************)
(* What a program may rely on, whoever calls the library and how           *)
(***************************************************************************)
Descriptor == [page : Nat, config : Modes \cup {NULL}]

\* The type of the library's state: handles, regions, allocations in progress,
\* descriptors and the kernel's counts.
LibraryTypeOK ==
    /\ handle \in [Handles -> [crateno : Crates \cup {NULL}, list_head : Seq(Regions),
                               mmlist : Seq(Nat \X Nat),
                               vme_open : BOOLEAN, irq_open : BOOLEAN]]
    /\ region \in [Regions -> [base : Nat \cup {NULL}, start_page : Nat,
                               end_page : Nat \cup {-1}]]
    /\ alloc \in [Handles -> [phase : {"idle", "loop", "done"}, start : Nat, at : Nat,
                              pgno : Nat \cup {NULL}]]
    /\ pd \in [Crates -> [Pages -> Descriptor]]
    /\ config_regs \in [Crates -> {"intact", "overwritten"}]
    /\ files \in [Handles -> Nat]
    /\ maps \in [Handles -> Nat]
    /\ relied \in [Handles -> SUBSET Regions]

\* Where byte i of region r is found: in page PageOf(r, i), at ByteOf(r, i).
PageOf(r, i) == (region[r].base + i) \div PageSize
ByteOf(r, i) == (region[r].base + i) % PageSize

InMapping(h, page) ==
    page \in Pages /\ \E k \in DOMAIN handle[h].mmlist :
        LET m == handle[h].mmlist[k] IN page \in m[1] .. m[1] + m[2] - 1

\* Byte i of r, accessed through the base pointer of r, reaches its address.
Reaches(h, r, i) ==
    LET d == pd[handle[h].crateno][PageOf(r, i)]
    IN  /\ d.page * PageSize + ByteOf(r, i) = vme_addr[r] + i
        /\ d.config = config[r]

\* Every byte of a region that v120_allocate_vme has set up, accessed through
\* its base pointer, is mapped and reaches the VME address and access mode the
\* program asked for, until somebody configures one of its pages again; a later
\* failure in the same call takes nothing away.  About v120_allocate_vme: pages
\* handed out, descriptors written and base set by three separate calculations.
RegionsReachTheirCard ==
    \A h \in Handles : \A r \in relied[h] : \A i \in 0 .. len[r] - 1 :
        InMapping(h, PageOf(r, i)) /\ Reaches(h, r, i)

\* A region's base pointer, whenever it is set, lies in memory that is mapped as
\* long as the handle is open, also after a v120_allocate_vme that failed and
\* left the pointers of an earlier call behind: the program never faults.
\* About v120_alloc_pages and v120_clean_mem_list, which unmap only on close.
BasesAreMapped ==
    \A h \in Handles : \A k \in DOMAIN handle[h].list_head :
        LET r == handle[h].list_head[k]
        IN  region[r].base # NULL =>
               \A i \in 0 .. len[r] - 1 : InMapping(h, PageOf(r, i))

\* Regions 1 .. n of the list of h follow each other page by page from `first`
\* on, and end before page `next`.
Tiled(h, n, first, next) ==
    LET list == handle[h].list_head
        begin(k) == region[list[k]].start_page
        end(k) == region[list[k]].end_page
    IN  /\ \A k \in 1 .. n :
              /\ begin(k) = IF k = 1 THEN first ELSE end(k - 1) + 1
              /\ end(k) = begin(k) + NPages(list[k]) - 1
        /\ n > 0 => next = end(n) + 1

\* v120_allocate_vme uses the pages from start_page on without a gap or an
\* overlap, in list order, and returns the first page it did not use.  Of the
\* value it returns after it has used the last page, zero by its documentation
\* and PageCount in the code, nothing is said.  About its loop and its return
\* value, endpage + 1.
AllocationTiles ==
    \A h \in Handles :
        LET a == alloc[h]
            list == handle[h].list_head
        IN  /\ a.phase = "loop" => Tiled(h, a.at - 1, a.start, a.pgno)
            /\ a.phase = "done" /\ a.pgno # NULL /\ list # <<>>
                  => \E unused \in {a.pgno, PageCount} :
                        Tiled(h, Len(list), a.start, unused)

\* The kernel holds for a handle exactly the files and mappings the handle
\* records, and none for a closed one, whichever of the calls of v120_open and
\* v120_alloc_pages failed on the way.  About their error exits, v120_cleanup
\* and v120_next.
NothingLeaks ==
    \A h \in Handles :
        /\ files[h] = IF IsOpen(h) THEN OpenFiles(handle[h]) ELSE 0
        /\ maps[h] = IF IsOpen(h) THEN Mappings(handle[h]) ELSE 0

\* Descriptor writes run past the last descriptor, into the configuration
\* registers, only in a v120_allocate_vme that returns -1.  About
\* v120_allocate_vme, which writes descriptors before it looks at the result of
\* v120_get_vme: a call that succeeds leaves the registers alone.
OverrunOnlyOnFailure ==
    [][config_regs' # config_regs =>
         \E h \in Handles : /\ alloc[h].phase = "loop"
                            /\ alloc'[h].phase = "done"
                            /\ alloc'[h].pgno = NULL]_library
===============================================================================
