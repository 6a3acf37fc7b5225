----------------------------- MODULE LibV120_proofs ----------------------------
(***************************************************************************)
(* Proofs about libV120, for every number of crates, handles, regions,     *)
(* pages and page sizes, and every set of failing system calls.            *)
(***************************************************************************)
EXTENDS LibV120, TLAPS

(***************************************************************************)
(* The inductive invariant.  Sound keeps the handles well formed, Lists    *)
(* keeps the allocated regions apart, and SetUp ties the base pointers, the  *)
(* mappings and the page descriptors together.                             *)
(***************************************************************************)
HandleType == [crateno : Crates \cup {NULL}, list_head : Seq(Regions),
               mmlist : Seq(Nat \X Nat), vme_open : BOOLEAN, irq_open : BOOLEAN]

\* A call in progress belongs to an open handle and has a list entry or the end
\* of the list before it.
LoopSane ==
    \A h \in Handles : alloc[h].phase = "loop" =>
        /\ IsOpen(h)
        /\ alloc[h].pgno \in Nat
        /\ alloc[h].at \in 1 .. Len(handle[h].list_head) + 1

ClosedEmpty == \A h \in Handles : ~IsOpen(h) => handle[h] = Closed /\ relied[h] = {}

Sound == LibraryTypeOK /\ NothingLeaks /\ LoopSane /\ ClosedEmpty

\* No region is in two lists, or twice in one.
Distinct ==
    \A g, h \in Handles :
        \A i \in DOMAIN handle[g].list_head, j \in DOMAIN handle[h].list_head :
            handle[g].list_head[i] = handle[h].list_head[j] => g = h /\ i = j

\* What the loop of v120_allocate_vme has handled lies behind it, and only that
\* is relied on.
Behind ==
    \A h \in Handles : alloc[h].phase = "loop" =>
        /\ alloc[h].at = 1 => alloc[h].pgno = alloc[h].start
        /\ \A k \in 1 .. alloc[h].at - 1 :
              region[handle[h].list_head[k]].end_page < alloc[h].pgno
        /\ \A r \in relied[h] : \E k \in 1 .. alloc[h].at - 1 : handle[h].list_head[k] = r

\* What AllocationTiles says, and of the code's return value after the last page
\* too: it is the page behind the last region, also when there is none.
TilesToReturn ==
    \A h \in Handles :
        LET a == alloc[h]
        IN  /\ a.phase = "loop" => Tiled(h, a.at - 1, a.start, a.pgno)
            /\ a.phase = "done" /\ a.pgno # NULL /\ handle[h].list_head # <<>>
                  => Tiled(h, Len(handle[h].list_head), a.start, a.pgno)

Lists == Distinct /\ Behind /\ TilesToReturn

\* Handle h has n pages from `first` on in one mapping.
Mapped(h, first, n) ==
    \E k \in DOMAIN handle[h].mmlist : handle[h].mmlist[k] = <<first, n>>

\* A base pointer that is set points into the region's own pages, which are mapped.
BaseSet(h, r) ==
    region[r].base # NULL /\ NPages(r) > 0 =>
        /\ region[r].base = region[r].start_page * PageSize + PageOffset(r)
        /\ region[r].end_page = region[r].start_page + NPages(r) - 1
        /\ region[r].end_page < PageCount
        /\ Mapped(h, region[r].start_page, NPages(r))

BasesSet ==
    \A h \in Handles : \A k \in DOMAIN handle[h].list_head : BaseSet(h, handle[h].list_head[k])

\* The descriptors of a region's pages are those of its addresses.
Described(c, r) ==
    \A p \in RegionPages(r) :
        pd[c][p] = V120_PD(vme_addr[r] + (p - region[r].start_page) * PageSize, config[r])

InList(h, r) == \E k \in DOMAIN handle[h].list_head : handle[h].list_head[k] = r

ReliedSet ==
    \A h \in Handles : \A r \in relied[h] :
        /\ InList(h, r) /\ region[r].base # NULL
        /\ NPages(r) > 0 => Described(handle[h].crateno, r)

SetUp == BasesSet /\ ReliedSet

LibInv == Sound /\ Lists /\ SetUp

\* A step that maps pages for h, or fails to, leaves the rest of the handles as
\* it was, keeps what is mapped, and counts what it opens.
OnlyMaps(h) ==
    /\ handle' \in [Handles -> HandleType]
    /\ \A g \in Handles : /\ handle'[g].crateno = handle[g].crateno
                          /\ handle'[g].list_head = handle[g].list_head
                          /\ g # h => handle'[g] = handle[g]
    /\ \A first, n \in Nat : Mapped(h, first, n) => Mapped(h, first, n)'
    /\ files' \in [Handles -> Nat] /\ maps' \in [Handles -> Nat]
    /\ NothingLeaks'

-------------------------------------------------------------------------------
(***************************************************************************)
(* Arithmetic of pages                                                     *)
(***************************************************************************)
\* Division by the page size, as the C code uses it, on numbers that are not
\* negative.
LEMMA Division ==
    ASSUME NEW n \in Nat, NEW x \in Nat, n # 0
    PROVE  /\ x \div n \in Nat
           /\ x % n \in 0 .. n - 1
           /\ x = n * (x \div n) + (x % n)
OBVIOUS

\* Division rounds down, and after adding n - 1 it rounds up.
LEMMA DivisionBounds ==
    ASSUME NEW n \in Nat, NEW x \in Nat, n # 0
    PROVE  /\ x \div n \in Nat /\ n * (x \div n) <= x
           /\ (x + n - 1) \div n \in Nat /\ x <= n * ((x + n - 1) \div n)
<1>1. x \div n \in Nat /\ n * (x \div n) <= x
    OBVIOUS
<1>2. x + n - 1 \in Nat
    OBVIOUS
<1> DEFINE y == x + n - 1
<1> HIDE DEF y
<1>3. y \div n \in Nat /\ y % n \in 0 .. n - 1 /\ y = n * (y \div n) + (y % n)
    BY <1>2, Division DEF y
<1>4. y = x + n - 1
    BY DEF y
<1>5. n * (y \div n) \in Nat
    BY <1>3
<1>6. x <= n * (y \div n)
    BY <1>3, <1>4, <1>5
<1> QED
    BY <1>1, <1>3, <1>6 DEF y

\* A quotient and a remainder that fit are the ones division gives.
LEMMA DivisionUnique ==
    ASSUME NEW n \in Nat, NEW q \in Nat, NEW r \in Nat, r < n
    PROVE  (q * n + r) \div n = q /\ (q * n + r) % n = r
OBVIOUS

\* The pages of a region: as many as its bytes, counted from the start of its
\* first page, need.
LEMMA PagesOfRegion ==
    ASSUME NEW r \in Regions
    PROVE  /\ PageOffset(r) \in 0 .. PageSize - 1
           /\ NPages(r) \in Nat
           /\ len[r] > 0 => NPages(r) > 0
           /\ \A i \in 0 .. len[r] - 1 : (PageOffset(r) + i) \div PageSize \in 0 .. NPages(r) - 1
<1>1. PageSize \in Nat /\ PageSize # 0 /\ vme_addr[r] \in Nat /\ len[r] \in Nat
    BY LibraryAssumption
<1>2. PageOffset(r) \in 0 .. PageSize - 1
    BY <1>1, Division DEF PageOffset
<1> DEFINE L == len[r] + PageOffset(r)
<1>3. NPages(r) = (L + PageSize - 1) \div PageSize /\ L \in Nat /\ L + PageSize - 1 \in Nat
    BY <1>1, <1>2 DEF NPages
<1> HIDE DEF L
<1>4. NPages(r) \in Nat /\ L <= PageSize * NPages(r)
    BY <1>1, <1>3, DivisionBounds
<1>5. ASSUME NEW x \in Nat, x < L PROVE x \div PageSize < NPages(r)
    <2>1. x \div PageSize \in Nat /\ PageSize * (x \div PageSize) <= x
        BY <1>1, DivisionBounds
    <2>2. PageSize * (x \div PageSize) < PageSize * NPages(r)
        BY <1>1, <1>3, <1>4, <1>5, <2>1
    <2> QED
        BY <1>1, <1>4, <2>1, <2>2
<1>6. \A i \in 0 .. len[r] - 1 : (PageOffset(r) + i) \div PageSize \in 0 .. NPages(r) - 1
    <2> TAKE i \in 0 .. len[r] - 1
    <2>1. PageOffset(r) + i \in Nat /\ PageOffset(r) + i < L
        BY <1>1, <1>2 DEF L
    <2>2. (PageOffset(r) + i) \div PageSize \in Nat
        BY <1>1, <2>1, Division
    <2> QED
        BY <1>4, <1>5, <2>1, <2>2
<1>7. ASSUME len[r] > 0 PROVE NPages(r) > 0
    <2>1. 0 \in 0 .. len[r] - 1
        BY <1>1, <1>7
    <2>2. (PageOffset(r) + 0) \div PageSize \in 0 .. NPages(r) - 1
        BY <1>6, <2>1
    <2> QED
        BY <1>4, <2>2
<1> QED
    BY <1>2, <1>4, <1>6, <1>7

\* A new entry at the head of a list moves the others one place.
LEMMA Prepend ==
    ASSUME NEW S, NEW m \in S, NEW s \in Seq(S)
    PROVE  /\ <<m>> \o s \in Seq(S)
           /\ Len(<<m>> \o s) = Len(s) + 1
           /\ (<<m>> \o s)[1] = m
           /\ 1 \in DOMAIN (<<m>> \o s)
           /\ \A k \in DOMAIN s : k + 1 \in DOMAIN (<<m>> \o s) /\ (<<m>> \o s)[k + 1] = s[k]
           /\ \A k \in DOMAIN (<<m>> \o s) : k = 1 \/ (k - 1 \in DOMAIN s /\ (<<m>> \o s)[k] = s[k - 1])
<1> DEFINE t == <<m>> \o s
<1>1. <<m>> \in Seq(S) /\ Len(<<m>>) = 1 /\ Len(s) \in Nat
    OBVIOUS
<1>2. t \in Seq(S) /\ Len(t) = Len(s) + 1 /\ t[1] = m
    BY <1>1
<1>3. DOMAIN t = 1 .. Len(s) + 1 /\ DOMAIN s = 1 .. Len(s)
    BY <1>2
<1>4. \A k \in 2 .. Len(s) + 1 : t[k] = s[k - 1]
    BY <1>1
<1> HIDE DEF t
<1>5. \A k \in DOMAIN s : k + 1 \in DOMAIN t /\ t[k + 1] = s[k]
    BY <1>1, <1>3, <1>4
<1>6. \A k \in DOMAIN t : k = 1 \/ (k - 1 \in DOMAIN s /\ t[k] = s[k - 1])
    BY <1>1, <1>3, <1>4
<1>7. 1 \in DOMAIN t
    BY <1>1, <1>3
<1> QED
    BY <1>2, <1>5, <1>6, <1>7 DEF t

-------------------------------------------------------------------------------
(***************************************************************************)
(* Soundness of the handles                                                *)
(***************************************************************************)
\* v120_alloc_pages returns NULL, or the address of pages it has mapped.
LEMMA AllocPages ==
    ASSUME Sound, NEW h \in Handles, IsOpen(h),
           NEW pageno \in Nat, NEW npages \in Nat, NEW base \in Bases,
           v120_alloc_pages(h, pageno, npages, base)
    PROVE  /\ OnlyMaps(h)
           /\ base # NULL => base = pageno * PageSize /\ Mapped(h, pageno, npages)'
<1> DEFINE opened == [handle[h] EXCEPT !.vme_open = TRUE]
           mapped == [opened EXCEPT !.mmlist = <<<<pageno, npages>>>> \o @]
           filesNow == IF handle[h].vme_open THEN files ELSE [files EXCEPT ![h] = @ + 1]
<1>0. /\ handle \in [Handles -> HandleType]
      /\ files \in [Handles -> Nat] /\ maps \in [Handles -> Nat]
      /\ handle[h].crateno # NULL
    BY DEF Sound, LibraryTypeOK, HandleType, IsOpen
<1>a. files[h] = OpenFiles(handle[h]) /\ maps[h] = Mappings(handle[h])
    BY DEF Sound, NothingLeaks
<1>b. filesNow = IF handle[h].vme_open THEN files ELSE [files EXCEPT ![h] = files[h] + 1]
    OBVIOUS
<1> HIDE DEF filesNow
<1>1. /\ opened \in HandleType /\ opened.vme_open = TRUE
      /\ opened.crateno = handle[h].crateno /\ opened.list_head = handle[h].list_head
      /\ opened.mmlist = handle[h].mmlist /\ opened.irq_open = handle[h].irq_open
    BY <1>0 DEF HandleType
<1>2. /\ mapped \in HandleType /\ mapped.vme_open = TRUE
      /\ mapped.crateno = handle[h].crateno /\ mapped.list_head = handle[h].list_head
      /\ mapped.mmlist = <<<<pageno, npages>>>> \o handle[h].mmlist
      /\ mapped.irq_open = handle[h].irq_open
    <2> HIDE DEF opened
    <2>1. <<<<pageno, npages>>>> \in Seq(Nat \X Nat) /\ opened.mmlist \in Seq(Nat \X Nat)
        BY <1>1 DEF HandleType
    <2>2. <<<<pageno, npages>>>> \o opened.mmlist \in Seq(Nat \X Nat)
        BY <2>1
    <2> QED
        BY <1>1, <2>2 DEF HandleType
<1>3. /\ Len(mapped.mmlist) = Len(handle[h].mmlist) + 1
      /\ mapped.mmlist[1] = <<pageno, npages>> /\ 1 \in DOMAIN mapped.mmlist
      /\ \A k \in DOMAIN handle[h].mmlist :
            k + 1 \in DOMAIN mapped.mmlist /\ mapped.mmlist[k + 1] = handle[h].mmlist[k]
    <2> HIDE DEF mapped, opened
    <2> DEFINE m == <<pageno, npages>>
               mmlist == handle[h].mmlist
    <2>1. mmlist \in Seq(Nat \X Nat) /\ m \in Nat \X Nat
        BY <1>0 DEF HandleType
    <2>2. mapped.mmlist = <<m>> \o mmlist
        BY <1>2
    <2> HIDE DEF m, mmlist
    <2>3. /\ Len(mapped.mmlist) = Len(mmlist) + 1
          /\ mapped.mmlist[1] = m /\ 1 \in DOMAIN mapped.mmlist
          /\ \A k \in DOMAIN mmlist :
                k + 1 \in DOMAIN mapped.mmlist /\ mapped.mmlist[k + 1] = mmlist[k]
        <3> DEFINE S == Nat \X Nat
        <3> HIDE DEF S
        <3>1. m \in S /\ mmlist \in Seq(S)
            BY <2>1 DEF S
        <3> QED
            BY <2>2, <3>1, Prepend
    <2> QED
        BY <2>3 DEF m, mmlist
<1>4. CASE UNCHANGED <<handle, files, maps>> /\ base = NULL
    BY <1>4, <1>0 DEF Sound, NothingLeaks, IsOpen, OnlyMaps, Mapped
<1>5. CASE /\ handle' = [handle EXCEPT ![h] = opened] /\ files' = filesNow
           /\ UNCHANGED maps /\ base = NULL
    <2> HIDE DEF opened
    <2>1. files' \in [Handles -> Nat] /\ files'[h] = OpenFiles(opened)
          /\ \A g \in Handles : g # h => files'[g] = files[g]
        <3>0. opened.vme_open = TRUE /\ opened.irq_open = handle[h].irq_open
            BY <1>0, <1>1
        <3>1. OpenFiles(opened) = IF handle[h].vme_open THEN OpenFiles(handle[h])
                                                        ELSE OpenFiles(handle[h]) + 1
            BY <3>0 DEF OpenFiles, CountOf
        <3>2. CASE handle[h].vme_open
            BY <1>0, <1>a, <1>b, <1>5, <3>1, <3>2
        <3>3. CASE ~handle[h].vme_open
            BY <1>0, <1>a, <1>b, <1>5, <3>1, <3>3
        <3> QED
            BY <3>2, <3>3
    <2>2. maps'[h] = Mappings(opened)
        BY <1>a, <1>1, <1>5 DEF Mappings
    <2>3. NothingLeaks'
        BY <1>0, <1>1, <1>5, <2>1, <2>2 DEF Sound, NothingLeaks, IsOpen
    <2> QED
        BY <1>0, <1>1, <1>5, <2>1, <2>3 DEF OnlyMaps, Mapped
<1>6. CASE /\ handle' = [handle EXCEPT ![h] = mapped] /\ files' = filesNow
           /\ maps' = [maps EXCEPT ![h] = @ + 1] /\ base = pageno * PageSize
    <2> HIDE DEF mapped, opened
    <2>0. OpenFiles(mapped) = IF handle[h].vme_open THEN OpenFiles(handle[h])
                                                   ELSE OpenFiles(handle[h]) + 1
        <3>1. mapped.vme_open = TRUE /\ mapped.irq_open = handle[h].irq_open
            BY <1>0, <1>2
        <3> QED
            BY <3>1 DEF OpenFiles, CountOf
    <2>1. files' \in [Handles -> Nat] /\ files'[h] = OpenFiles(mapped)
          /\ \A g \in Handles : g # h => files'[g] = files[g]
        <3>2. CASE handle[h].vme_open
            BY <1>0, <1>a, <1>b, <1>6, <2>0, <3>2
        <3>3. CASE ~handle[h].vme_open
            BY <1>0, <1>a, <1>b, <1>6, <2>0, <3>3
        <3> QED
            BY <3>2, <3>3
    <2>2. maps' \in [Handles -> Nat] /\ maps'[h] = Mappings(mapped)
        <3>1. handle[h].mmlist \in Seq(Nat \X Nat)
            BY <1>0 DEF HandleType
        <3>2. Mappings(mapped) = Mappings(handle[h]) + 1
            BY <1>3, <3>1 DEF Mappings
        <3> QED
            BY <1>0, <1>a, <1>6, <3>2
    <2>3. NothingLeaks'
        BY <1>0, <1>2, <1>6, <2>1, <2>2 DEF Sound, NothingLeaks, IsOpen
    <2>4. /\ handle' \in [Handles -> HandleType]
          /\ \A g \in Handles : /\ handle'[g].crateno = handle[g].crateno
                                /\ handle'[g].list_head = handle[g].list_head
                                /\ g # h => handle'[g] = handle[g]
        BY <1>0, <1>2, <1>6
    <2>5. /\ \A first, n \in Nat : Mapped(h, first, n) => Mapped(h, first, n)'
          /\ Mapped(h, pageno, npages)'
        BY <1>0, <1>3, <1>6 DEF Mapped
    <2> QED
        BY <1>6, <2>1, <2>2, <2>3, <2>4, <2>5 DEF OnlyMaps
<1>7. QED
    BY <1>4, <1>5, <1>6 DEF v120_alloc_pages, filesNow

\* Handle h has the mapping after the step.
NowMapped(h, first, n) ==
    \E k \in DOMAIN handle'[h].mmlist : handle'[h].mmlist[k] = <<first, n>>

\* v120_get_vme, as v120_allocate_vme calls it for the n pages from start on.
GotVme(h, start, n, base) ==
    /\ OnlyMaps(h)
    /\ base # NULL => base \in Nat /\ start + n <= PageCount
    /\ base # NULL /\ n > 0 => base = start * PageSize /\ NowMapped(h, start, n)

\* v120_get_vme, called by v120_allocate_vme for the pages start .. start + n - 1,
\* either fails or returns the address of n pages it has just mapped.
LEMMA GetVme ==
    ASSUME Sound, NEW h \in Handles, IsOpen(h),
           NEW start \in Nat, NEW n \in Nat, NEW base \in Bases,
           v120_get_vme(h, start, start + n - 1, base)
    PROVE  GotVme(h, start, n, base)
<1> DEFINE end == start + n - 1
           first == IF start > end THEN end ELSE start
           last == IF start > end THEN start ELSE end
<1>0. PageCount \in Nat /\ PageSize \in Nat
    BY LibraryAssumption
<1>a. ASSUME base # NULL PROVE base \in Nat
    <2>1. PICK p \in Pages : base = p * PageSize
        BY <1>a DEF Bases
    <2>2. p \in Nat
        BY <1>0, <2>1 DEF Pages
    <2> QED
        BY <1>0, <2>1, <2>2
<1>1. /\ base # NULL => base \in Nat
      /\ end \in Int /\ first \in Int /\ last \in Nat /\ last - first + 1 \in Nat
      /\ n > 0 => first = start /\ last - first + 1 = n
    BY <1>0, <1>a
<1>2. CASE base = NULL /\ UNCHANGED <<handle, files, maps>>
    <2>1. OnlyMaps(h)
        BY <1>2 DEF Sound, LibraryTypeOK, HandleType, NothingLeaks, IsOpen, OnlyMaps, Mapped
    <2> QED
        BY <1>2, <2>1 DEF GotVme
<1>3. CASE last < PageCount /\ v120_alloc_pages(h, first, last - first + 1, base)
    <2>1. CASE first < 0
        <3>1. base = NULL /\ UNCHANGED <<handle, files, maps>>
            BY <1>1, <1>3, <2>1 DEF v120_alloc_pages
        <3> QED
            BY <1>2, <3>1
    <2>2. CASE first >= 0
        <3>1. first \in Nat
            BY <1>1, <2>2
        <3>2. /\ OnlyMaps(h)
              /\ base # NULL => /\ base = first * PageSize
                                /\ Mapped(h, first, last - first + 1)'
            BY <1>1, <1>3, <3>1, AllocPages
        <3>3. start + n <= PageCount
            BY <1>0, <1>1, <1>3
        <3>4. base # NULL /\ n > 0 => Mapped(h, start, n)'
            BY <1>1, <3>2
        <3>5. base # NULL /\ n > 0 => NowMapped(h, start, n)
            BY <3>4 DEF Mapped, NowMapped
        <3> QED
            BY <1>1, <3>2, <3>3, <3>5 DEF GotVme
    <2> QED
        BY <1>1, <2>1, <2>2
<1>4. QED
    BY <1>0, <1>1, <1>2, <1>3 DEF v120_get_vme

\* The handles and the kernel's counts, which LibraryTypeOK types together with
\* the rest.
HandlesTyped ==
    /\ handle \in [Handles -> HandleType]
    /\ files \in [Handles -> Nat] /\ maps \in [Handles -> Nat]

RestTyped ==
    /\ region \in [Regions -> [base : Nat \cup {NULL}, start_page : Nat,
                               end_page : Nat \cup {-1}]]
    /\ alloc \in [Handles -> [phase : {"idle", "loop", "done"}, start : Nat, at : Nat,
                              pgno : Nat \cup {NULL}]]
    /\ pd \in [Crates -> [Pages -> Descriptor]]
    /\ config_regs \in [Crates -> {"intact", "overwritten"}]
    /\ relied \in [Handles -> SUBSET Regions]

\* The type invariant in two halves: the handles, and everything else.
LEMMA TypeParts == LibraryTypeOK <=> HandlesTyped /\ RestTyped
BY DEF LibraryTypeOK, HandlesTyped, RestTyped, HandleType

\* Soundness is the conjunction of its parts, here for the primed state.
LEMMA SoundParts ==
    ASSUME HandlesTyped', RestTyped', NothingLeaks', LoopSane', ClosedEmpty'
    PROVE  Sound'
BY DEF Sound, LibraryTypeOK, HandlesTyped, RestTyped, HandleType, Descriptor

\* v120_configure_pd_range writes the descriptors of npages pages from startpg on
\* and no others.
Configured(c, startpg, addr, cfg, npages) ==
    /\ pd' \in [Crates -> [Pages -> Descriptor]]
    /\ config_regs' \in [Crates -> {"intact", "overwritten"}]
    /\ \A d \in Crates : d # c => pd'[d] = pd[d]
    /\ \A p \in Pages : p \notin startpg .. startpg + npages - 1 => pd'[c][p] = pd[c][p]
    /\ \A p \in Pages : p \in startpg .. startpg + npages - 1 =>
          pd'[c][p] = V120_PD(addr + (p - startpg) * PageSize, cfg)
    /\ config_regs' # config_regs => startpg + npages > PageCount

\* v120_configure_pd_range writes the descriptors of npages pages from startpg
\* on for successive addresses, and reaches the configuration registers behind
\* the descriptor table only when the range ends past the last page.
LEMMA ConfigureRange ==
    ASSUME LibraryTypeOK, NEW c \in Crates,
           NEW startpg \in Nat, NEW addr \in Nat, NEW cfg \in Modes, NEW npages \in Nat,
           v120_configure_pd_range(c, startpg, addr, cfg, npages)
    PROVE  Configured(c, startpg, addr, cfg, npages)
<1>0. /\ PageSize \in Nat /\ PageSize # 0 /\ PageCount \in Nat /\ Pages \subseteq Nat
      /\ pd \in [Crates -> [Pages -> Descriptor]]
      /\ config_regs \in [Crates -> {"intact", "overwritten"}]
    BY LibraryAssumption DEF LibraryTypeOK, Pages
<1>1. ASSUME NEW p \in Pages, p \in startpg .. startpg + npages - 1
      PROVE  V120_PD(addr + (p - startpg) * PageSize, cfg) \in Descriptor
    <2>1. p - startpg \in Nat
        BY <1>0, <1>1
    <2>2. addr + (p - startpg) * PageSize \in Nat
        BY <1>0, <2>1
    <2>3. (addr + (p - startpg) * PageSize) \div PageSize \in Nat
        BY <1>0, <2>2, Division
    <2> QED
        BY <2>3 DEF V120_PD, Descriptor
<1> DEFINE row == [p \in Pages |-> IF p \in startpg .. startpg + npages - 1
                     THEN V120_PD(addr + (p - startpg) * PageSize, cfg) ELSE pd[c][p]]
<1>2. row \in [Pages -> Descriptor]
    BY <1>0, <1>1
<1>3. pd' = [pd EXCEPT ![c] = row]
    BY DEF v120_configure_pd_range
<1>4. config_regs' \in [Crates -> {"intact", "overwritten"}]
    BY <1>0 DEF v120_configure_pd_range
<1>5. \A p \in Pages : row[p] = IF p \in startpg .. startpg + npages - 1
                     THEN V120_PD(addr + (p - startpg) * PageSize, cfg) ELSE pd[c][p]
    OBVIOUS
<1>6. config_regs' # config_regs => startpg + npages > PageCount
    BY DEF v120_configure_pd_range
<1> HIDE DEF row
<1>7. pd' \in [Crates -> [Pages -> Descriptor]] /\ pd'[c] = row
      /\ \A d \in Crates : d # c => pd'[d] = pd[d]
    BY <1>0, <1>2, <1>3
<1> QED
    BY <1>4, <1>5, <1>6, <1>7 DEF Configured

\* A program starts with closed handles and nothing mapped.
LEMMA SoundInit == ASSUME LibraryInit PROVE Sound
<1>1. Closed \in HandleType
    <2>1. <<>> \in Seq(Regions) /\ <<>> \in Seq(Nat \X Nat)
        OBVIOUS
    <2> QED
        BY <2>1 DEF Closed, HandleType
<1>2. HandlesTyped
    BY <1>1 DEF LibraryInit, HandlesTyped
<1>3. RestTyped
    BY DEF LibraryInit, RestTyped, VME_REGION, Idle, BlankPD, Descriptor, NULL
<1>4. NothingLeaks /\ LoopSane /\ ClosedEmpty
    BY DEF LibraryInit, NothingLeaks, LoopSane, ClosedEmpty, IsOpen, Closed, Idle
<1> QED
    BY <1>2, <1>3, <1>4, TypeParts DEF Sound

\* A v120_open that fails keeps nothing of what it had taken.
LEMMA FailedOpen ==
    ASSUME files \in [Handles -> Int], maps \in [Handles -> Int], NEW h \in Handles,
           NEW call \in OpenCalls, OpenFailed(h, call)
    PROVE  UNCHANGED <<handle, files, maps>>
<1>1. Held[call] \ GivenBack[call] = {}
    BY DEF OpenCalls, Held, GivenBack
<1>2. /\ files' = [files EXCEPT ![h] = @ + 0] /\ maps' = [maps EXCEPT ![h] = @ + 0]
      /\ UNCHANGED handle
    BY <1>1 DEF OpenFailed, CountOf
<1> QED
    BY <1>2

\* Opening and closing keep the counts.
LEMMA SoundOpen ==
    ASSUME Sound, NEW h \in Handles, NEW c \in Crates, v120_open(h, c)
    PROVE  Sound'
<1>0. /\ HandlesTyped /\ RestTyped /\ NothingLeaks /\ LoopSane /\ ClosedEmpty
      /\ c \in Nat /\ c # NULL
    BY TypeParts, LibraryAssumption DEF Sound, NULL
<1>1. /\ V120_HANDLE(c) \in HandleType /\ V120_HANDLE(c).crateno = c
      /\ OpenFiles(V120_HANDLE(c)) = 1 /\ Mappings(V120_HANDLE(c)) = 1
    <2>1. <<>> \in Seq(Regions) /\ <<>> \in Seq(Nat \X Nat) /\ Len(<<>>) = 0
        OBVIOUS
    <2> QED
        BY <2>1 DEF V120_HANDLE, HandleType, OpenFiles, Mappings, CountOf
<1>2. UNCHANGED <<region, alloc, pd, config_regs, relied>> /\ ~IsOpen(h)
    BY DEF v120_open
<1>3. RestTyped'
    BY <1>0, <1>2 DEF RestTyped, Descriptor
<1>4. CASE Opened(h, c)
    <2>1. HandlesTyped'
        BY <1>0, <1>1, <1>4 DEF Opened, HandlesTyped
    <2>2. NothingLeaks'
        BY <1>0, <1>1, <1>2, <1>4, <2>1 DEF Opened, HandlesTyped, NothingLeaks, IsOpen
    <2>3. LoopSane' /\ ClosedEmpty'
        BY <1>0, <1>1, <1>2, <1>4 DEF Opened, HandlesTyped, LoopSane, ClosedEmpty, IsOpen
    <2> QED
        BY <1>3, <2>1, <2>2, <2>3, SoundParts
<1>5. ASSUME NEW call \in OpenCalls, OpenFailed(h, call) PROVE Sound'
    <2>1. UNCHANGED <<handle, files, maps>>
        BY <1>0, <1>5, FailedOpen DEF HandlesTyped
    <2> QED
        BY <1>0, <1>2, <2>1 DEF Sound, LibraryTypeOK, NothingLeaks, LoopSane, ClosedEmpty, IsOpen
<1>6. QED
    BY <1>4, <1>5 DEF v120_open, FailingOpens

\* v120_cleanup, which v120_close runs, gives back every file and mapping.
LEMMA SoundClose ==
    ASSUME Sound, NEW h \in Handles, v120_close(h)
    PROVE  Sound'
<1>0. /\ HandlesTyped /\ RestTyped /\ NothingLeaks /\ LoopSane /\ ClosedEmpty
    BY TypeParts DEF Sound
<1>1. Closed \in HandleType /\ Closed.crateno = NULL
    <2>1. <<>> \in Seq(Regions) /\ <<>> \in Seq(Nat \X Nat)
        OBVIOUS
    <2> QED
        BY <2>1 DEF Closed, HandleType
<1>2. /\ handle' = [handle EXCEPT ![h] = Closed]
      /\ files'[h] = 0 /\ files' \in [Handles -> Nat]
      /\ maps'[h] = 0 /\ maps' \in [Handles -> Nat]
      /\ \A g \in Handles : g # h => files'[g] = files[g] /\ maps'[g] = maps[g]
    <2>1. handle[h].mmlist \in Seq(Nat \X Nat) /\ OpenFiles(handle[h]) \in Nat
        BY <1>0 DEF HandlesTyped, HandleType, OpenFiles, CountOf
    <2>2. Mappings(handle[h]) \in Nat
        BY <2>1 DEF Mappings
    <2>3. files[h] = OpenFiles(handle[h]) /\ maps[h] = Mappings(handle[h])
        BY <1>0 DEF v120_close, NothingLeaks
    <2> QED
        BY <1>0, <2>1, <2>2, <2>3 DEF v120_close, HandlesTyped
<1>3. HandlesTyped' /\ NothingLeaks'
    BY <1>0, <1>1, <1>2 DEF HandlesTyped, NothingLeaks, IsOpen
<1>4. RestTyped'
    BY <1>0 DEF v120_close, RestTyped, Descriptor, Idle
<1>5. LoopSane' /\ ClosedEmpty'
    BY <1>0, <1>1, <1>2 DEF v120_close, LoopSane, ClosedEmpty, HandlesTyped, RestTyped, IsOpen, Idle
<1> QED
    BY <1>3, <1>4, <1>5, SoundParts

\* v120_next closes the handle and opens the next crate, or leaves it closed.
LEMMA SoundNext ==
    ASSUME Sound, NEW h \in Handles, v120_next(h)
    PROVE  Sound'
<1>0. /\ HandlesTyped /\ RestTyped /\ NothingLeaks /\ LoopSane /\ ClosedEmpty
    BY TypeParts DEF Sound
<1>1. PICK hd \in {Closed} \cup {V120_HANDLE(c) : c \in Attached} :
         handle' = [handle EXCEPT ![h] = hd]
    BY DEF v120_next
<1>2. /\ hd \in HandleType
      /\ OpenFiles(hd) = 1 /\ Mappings(hd) = 1
      /\ hd.crateno = NULL => hd = Closed
    <2>1. <<>> \in Seq(Regions) /\ <<>> \in Seq(Nat \X Nat) /\ Len(<<>>) = 0
        OBVIOUS
    <2>2. CASE hd = Closed
        BY <2>1, <2>2 DEF Closed, HandleType, OpenFiles, Mappings, CountOf
    <2>3. CASE hd # Closed
        <3>0. PICK c \in Attached : hd = V120_HANDLE(c)
            BY <1>1, <2>3
        <3>1. c \in Crates /\ c # NULL
            BY LibraryAssumption DEF NULL
        <3> QED
            BY <2>1, <3>0, <3>1 DEF V120_HANDLE, HandleType, OpenFiles, Mappings, CountOf
    <2> QED
        BY <1>1, <2>2, <2>3
<1>3. handle'[h] = hd /\ \A g \in Handles : g # h => handle'[g] = handle[g]
    BY <1>0, <1>1 DEF HandlesTyped
<1>4. /\ files'[h] = CountOf(hd.crateno # NULL) /\ files' \in [Handles -> Nat]
      /\ maps'[h] = CountOf(hd.crateno # NULL) /\ maps' \in [Handles -> Nat]
      /\ \A g \in Handles : g # h => files'[g] = files[g] /\ maps'[g] = maps[g]
    <2> DEFINE held == IF IsOpen(h) THEN OpenFiles(handle[h]) ELSE 0
               mapped == IF IsOpen(h) THEN Mappings(handle[h]) ELSE 0
    <2>1. files[h] = held /\ maps[h] = mapped /\ held \in Nat /\ mapped \in Nat
        BY <1>0 DEF NothingLeaks, HandlesTyped
    <2>2. CountOf(hd.crateno # NULL) \in Nat
        BY DEF CountOf
    <2>3. /\ files' = [files EXCEPT ![h] = @ - held + CountOf(hd.crateno # NULL)]
          /\ maps' = [maps EXCEPT ![h] = @ - mapped + CountOf(hd.crateno # NULL)]
        BY <1>3 DEF v120_next
    <2> HIDE DEF held, mapped
    <2> QED
        BY <1>0, <2>1, <2>2, <2>3 DEF HandlesTyped
<1>5. HandlesTyped'
    BY <1>0, <1>1, <1>2, <1>4 DEF HandlesTyped
<1>6. NothingLeaks'
    BY <1>0, <1>2, <1>3, <1>4 DEF NothingLeaks, IsOpen, CountOf
<1>7. RestTyped'
    BY <1>0 DEF v120_next, RestTyped, Descriptor, Idle
<1>8. LoopSane' /\ ClosedEmpty'
    BY <1>0, <1>2, <1>3 DEF v120_next, LoopSane, ClosedEmpty, RestTyped, IsOpen, Idle
<1> QED
    BY <1>5, <1>6, <1>7, <1>8, SoundParts

\* v120_irq_open and the DMA calls open one file more.
LEMMA SoundOpenFile ==
    ASSUME Sound, NEW h \in Handles, v120_irq_open(h) \/ v120_dma(h)
    PROVE  Sound'
<1>0. /\ HandlesTyped /\ RestTyped /\ NothingLeaks /\ LoopSane /\ ClosedEmpty
    BY TypeParts DEF Sound
<1>1. PICK hd \in HandleType :
        /\ handle' = [handle EXCEPT ![h] = hd]
        /\ hd.crateno = handle[h].crateno /\ hd.list_head = handle[h].list_head
        /\ hd.mmlist = handle[h].mmlist
        /\ OpenFiles(hd) = OpenFiles(handle[h]) + 1
    <2>1. CASE v120_irq_open(h)
        <3> DEFINE hd == [handle[h] EXCEPT !.irq_open = TRUE]
        <3>0. handle[h] \in HandleType /\ handle[h].irq_open = FALSE
            BY <1>0, <2>1 DEF v120_irq_open, HandlesTyped, HandleType
        <3>1. /\ hd \in HandleType
              /\ hd.crateno = handle[h].crateno /\ hd.list_head = handle[h].list_head
              /\ hd.mmlist = handle[h].mmlist
              /\ hd.irq_open = TRUE /\ hd.vme_open = handle[h].vme_open
            BY <3>0 DEF HandleType
        <3>2. handle' = [handle EXCEPT ![h] = hd]
            BY <1>0, <2>1 DEF v120_irq_open, HandlesTyped
        <3> HIDE DEF hd
        <3>3. OpenFiles(hd) = OpenFiles(handle[h]) + 1
            BY <3>0, <3>1 DEF HandleType, OpenFiles, CountOf
        <3> QED
            BY <3>1, <3>2, <3>3
    <2>2. CASE v120_dma(h)
        <3> DEFINE hd == [handle[h] EXCEPT !.vme_open = TRUE]
        <3>0. handle[h] \in HandleType /\ handle[h].vme_open = FALSE
            BY <1>0, <2>2 DEF v120_dma, HandlesTyped, HandleType
        <3>1. /\ hd \in HandleType
              /\ hd.crateno = handle[h].crateno /\ hd.list_head = handle[h].list_head
              /\ hd.mmlist = handle[h].mmlist
              /\ hd.vme_open = TRUE /\ hd.irq_open = handle[h].irq_open
            BY <3>0 DEF HandleType
        <3>2. handle' = [handle EXCEPT ![h] = hd]
            BY <1>0, <2>2 DEF v120_dma, HandlesTyped
        <3> HIDE DEF hd
        <3>3. OpenFiles(hd) = OpenFiles(handle[h]) + 1
            BY <3>0, <3>1 DEF HandleType, OpenFiles, CountOf
        <3> QED
            BY <3>1, <3>2, <3>3
    <2> QED
        BY <2>1, <2>2
<1>2. /\ IsOpen(h) /\ files' = [files EXCEPT ![h] = @ + 1]
      /\ UNCHANGED <<region, alloc, pd, config_regs, maps, relied>>
    BY DEF v120_irq_open, v120_dma
<1>3. HandlesTyped'
    BY <1>0, <1>1, <1>2 DEF HandlesTyped
<1>4. NothingLeaks'
    BY <1>0, <1>1, <1>2 DEF HandlesTyped, NothingLeaks, IsOpen, Mappings
<1>5. RestTyped'
    BY <1>0, <1>2 DEF RestTyped, Descriptor
<1>6. LoopSane' /\ ClosedEmpty'
    BY <1>0, <1>1, <1>2 DEF HandlesTyped, LoopSane, ClosedEmpty, IsOpen
<1> QED
    BY <1>3, <1>4, <1>5, <1>6, SoundParts

\* v120_configure_page and v120_get_all_vme map pages, whether or not they
\* have changed descriptors before.
LEMMA SoundMap ==
    ASSUME Sound, NEW h \in Handles,
           \/ \E idx, addr \in Nat, cfg \in Modes : v120_configure_page(h, idx, addr, cfg)
           \/ v120_get_all_vme(h)
    PROVE  Sound' /\ OnlyMaps(h) /\ UNCHANGED <<region, alloc>>
<1>0. /\ HandlesTyped /\ RestTyped /\ NothingLeaks /\ LoopSane /\ ClosedEmpty
      /\ IsOpen(h) /\ UNCHANGED <<region, alloc>>
    BY TypeParts DEF Sound, v120_configure_page, v120_get_all_vme
<1>1. OnlyMaps(h)
    <2>1. CASE v120_get_all_vme(h)
        <3>1. PICK base \in Bases : v120_alloc_pages(h, 0, PageCount, base)
            BY <2>1 DEF v120_get_all_vme
        <3>2. PageCount \in Nat
            BY LibraryAssumption
        <3> QED
            BY <1>0, <3>1, <3>2, AllocPages
    <2>2. ASSUME NEW idx \in Nat, NEW addr \in Nat, NEW cfg \in Modes,
                 v120_configure_page(h, idx, addr, cfg)
          PROVE  OnlyMaps(h)
        <3>1. PICK base \in Bases : v120_alloc_pages(h, idx, 1, base)
            BY <2>2 DEF v120_configure_page
        <3> QED
            BY <1>0, <3>1, AllocPages
    <2> QED
        BY <2>1, <2>2
<1>2. pd' \in [Crates -> [Pages -> Descriptor]] /\ config_regs' \in [Crates -> {"intact", "overwritten"}]
      /\ \A g \in Handles : relied'[g] \subseteq relied[g]
      /\ relied' \in [Handles -> SUBSET Regions]
    <2>1. CASE v120_get_all_vme(h)
        BY <1>0, <2>1 DEF v120_get_all_vme, RestTyped
    <2>2. ASSUME NEW idx \in Nat, NEW addr \in Nat, NEW cfg \in Modes,
                 v120_configure_page(h, idx, addr, cfg)
          PROVE  pd' \in [Crates -> [Pages -> Descriptor]] /\ config_regs' \in [Crates -> {"intact", "overwritten"}]
        <3>2. handle[h].crateno \in Crates
            BY <1>0 DEF HandlesTyped, HandleType, IsOpen
        <3>3. v120_configure_pd_range(handle[h].crateno, idx, addr, cfg, 1)
            BY <2>2 DEF v120_configure_page
        <3>4. Configured(handle[h].crateno, idx, addr, cfg, 1)
            BY <3>2, <3>3, ConfigureRange DEF Sound
        <3> QED
            BY <3>4 DEF Configured
    <2>3. ASSUME NEW idx \in Nat, NEW addr \in Nat, NEW cfg \in Modes,
                 v120_configure_page(h, idx, addr, cfg)
          PROVE  /\ \A g \in Handles : relied'[g] \subseteq relied[g]
                 /\ relied' \in [Handles -> SUBSET Regions]
        BY <1>0, <2>3 DEF v120_configure_page, Reconfigured, RestTyped
    <2> QED
        BY <2>1, <2>2, <2>3
<1>3. HandlesTyped' /\ NothingLeaks'
    BY <1>1 DEF OnlyMaps, HandlesTyped
<1>4. RestTyped'
    BY <1>0, <1>2 DEF RestTyped, Descriptor
<1>5. LoopSane'
    BY <1>0, <1>1 DEF OnlyMaps, LoopSane, IsOpen
<1>6. ClosedEmpty'
    BY <1>0, <1>1, <1>2 DEF OnlyMaps, ClosedEmpty, IsOpen
<1> QED
    BY <1>0, <1>1, <1>3, <1>4, <1>5, <1>6, SoundParts

\* v120_add_vme_region and v120_delete_vme_list change a list, its regions and
\* what is relied on, and neither descriptors nor mappings.
LEMMA SoundList ==
    ASSUME Sound, NEW h \in Handles,
           (\E r \in Regions : v120_add_vme_region(h, r)) \/ v120_delete_vme_list(h)
    PROVE  Sound'
<1>0. /\ HandlesTyped /\ RestTyped /\ NothingLeaks /\ LoopSane /\ ClosedEmpty
      /\ IsOpen(h)
    BY TypeParts DEF Sound, v120_add_vme_region, v120_delete_vme_list
<1>1. /\ UNCHANGED <<pd, config_regs, files, maps>>
      /\ alloc' = [alloc EXCEPT ![h] = Idle]
      /\ relied' = relied \/ relied' = [relied EXCEPT ![h] = {}]
      /\ region' = region \/ \E r \in Regions : region' = [region EXCEPT ![r] = VME_REGION]
    BY DEF v120_add_vme_region, v120_delete_vme_list
<1>2. PICK list \in Seq(Regions) : handle' = [handle EXCEPT ![h].list_head = list]
    <2>1. CASE v120_delete_vme_list(h)
        <3>1. <<>> \in Seq(Regions)
            OBVIOUS
        <3> QED
            BY <2>1, <3>1 DEF v120_delete_vme_list
    <2>2. ASSUME NEW r \in Regions, v120_add_vme_region(h, r)
          PROVE  \E list \in Seq(Regions) : handle' = [handle EXCEPT ![h].list_head = list]
        <3>1. handle[h].list_head \in Seq(Regions)
            BY <1>0 DEF HandlesTyped, HandleType
        <3>2. <<r>> \o handle[h].list_head \in Seq(Regions)
            BY <3>1, Prepend
        <3>3. handle' = [handle EXCEPT ![h].list_head = <<r>> \o handle[h].list_head]
            BY <2>2 DEF v120_add_vme_region
        <3> QED
            BY <3>2, <3>3
    <2> QED
        BY <2>1, <2>2
<1> DEFINE hd == [handle[h] EXCEPT !.list_head = list]
<1>3. /\ hd \in HandleType
      /\ hd.crateno = handle[h].crateno /\ hd.mmlist = handle[h].mmlist
      /\ hd.vme_open = handle[h].vme_open /\ hd.irq_open = handle[h].irq_open
    BY <1>0 DEF HandlesTyped, HandleType
<1>4. handle' = [handle EXCEPT ![h] = hd]
    BY <1>2
<1> HIDE DEF hd
<1>5. HandlesTyped'
    BY <1>0, <1>1, <1>3, <1>4 DEF HandlesTyped
<1>6. NothingLeaks'
    BY <1>0, <1>1, <1>3, <1>4 DEF HandlesTyped, NothingLeaks, IsOpen, OpenFiles, Mappings
<1>7. RestTyped'
    <2>1. region' \in [Regions -> [base : Nat \cup {NULL}, start_page : Nat,
                                   end_page : Nat \cup {-1}]]
        <3>1. VME_REGION \in [base : Nat \cup {NULL}, start_page : Nat, end_page : Nat \cup {-1}]
            BY DEF VME_REGION
        <3> QED
            BY <1>0, <1>1, <3>1 DEF RestTyped
    <2> QED
        BY <1>0, <1>1, <2>1 DEF RestTyped, Descriptor, Idle
<1>8. LoopSane' /\ ClosedEmpty'
    BY <1>0, <1>1, <1>3, <1>4 DEF HandlesTyped, RestTyped, LoopSane, ClosedEmpty, IsOpen, Idle
<1> QED
    BY <1>5, <1>6, <1>7, <1>8, SoundParts

\* The entry of v120_allocate_vme sets up its loop or returns at once.
LEMMA SoundAllocate ==
    ASSUME Sound, NEW h \in Handles,
           NEW start \in Nat, v120_allocate_vme(h, start)
    PROVE  Sound'
<1>0. /\ HandlesTyped /\ RestTyped /\ NothingLeaks /\ LoopSane /\ ClosedEmpty
      /\ IsOpen(h) /\ UNCHANGED <<handle, region, pd, config_regs, files, maps>>
    BY TypeParts DEF Sound, v120_allocate_vme
<1>1. PICK a \in {Returned(start, NULL), Loop(start, 1, start)} : alloc' = [alloc EXCEPT ![h] = a]
    BY DEF v120_allocate_vme
<1>2. HandlesTyped' /\ NothingLeaks'
    BY <1>0 DEF HandlesTyped, NothingLeaks, IsOpen
<1>3. RestTyped'
    BY <1>0 DEF v120_allocate_vme, RestTyped, Descriptor, Returned, Loop
<1>4. LoopSane'
    <2>1. handle[h].list_head \in Seq(Regions)
        BY <1>0 DEF HandlesTyped, HandleType
    <2>2. 1 \in 1 .. Len(handle[h].list_head) + 1
        BY <2>1
    <2>3. alloc'[h].phase = "loop" => alloc'[h].pgno = start /\ alloc'[h].at = 1
        BY <1>0, <1>1 DEF RestTyped, Returned, Loop
    <2>4. \A g \in Handles : g # h => alloc'[g] = alloc[g]
        BY <1>0, <1>1 DEF RestTyped
    <2> QED
        BY <1>0, <2>2, <2>3, <2>4 DEF LoopSane, IsOpen
<1>5. ClosedEmpty'
    BY <1>0 DEF v120_allocate_vme, ClosedEmpty, RestTyped, IsOpen
<1> QED
    BY <1>2, <1>3, <1>4, <1>5, SoundParts

\* Handle h is about to allocate region r.
AtRegion(h, r) ==
    LET a == alloc[h]
    IN  /\ a.phase = "loop" /\ IsOpen(h) /\ handle[h].crateno \in Crates
        /\ a.at \in DOMAIN handle[h].list_head /\ r = handle[h].list_head[a.at]
        /\ a.pgno \in Nat /\ a.at \in Nat \ {0} /\ a.start \in Nat
        /\ NPages(r) \in Nat /\ PageOffset(r) \in Nat

\* The pages it is about to use.
PagesAt(h, r) == alloc[h].pgno .. alloc[h].pgno + NPages(r) - 1

\* One iteration maps the pages, writes the descriptors, and then either fails
\* or sets the region and goes on to the next.
IterationMaps(h, r, base) == GotVme(h, alloc[h].pgno, NPages(r), base)

IterationConfigures(h, r) ==
    Configured(handle[h].crateno, alloc[h].pgno, vme_addr[r], config[r], NPages(r))

IterationFails(h, r) ==
    /\ region' = [region EXCEPT ![r].base = NULL]
    /\ alloc' = [alloc EXCEPT ![h] = Returned(alloc[h].start, NULL)]
    /\ relied' = [Reconfigured(handle[h].crateno, PagesAt(h, r), relied) EXCEPT ![h] = relied[h]]

IterationSets(h, r, base) ==
    LET a == alloc[h]
    IN  /\ region' = [region EXCEPT ![r] = [base |-> base + PageOffset(r), start_page |-> a.pgno,
                                          end_page |-> a.pgno + NPages(r) - 1]]
        /\ alloc' = [alloc EXCEPT ![h] = Loop(a.start, a.at + 1, a.pgno + NPages(r))]
        /\ relied' = [Reconfigured(handle[h].crateno, PagesAt(h, r), relied)
                        EXCEPT ![h] = relied[h] \cup {r}]

Iteration(h, r, base) ==
    /\ AtRegion(h, r) /\ IterationMaps(h, r, base) /\ IterationConfigures(h, r)
    /\ IF base = NULL THEN IterationFails(h, r) ELSE IterationSets(h, r, base)

\* An iteration of the loop of v120_allocate_vme has a region, the next one of
\* the list, and a base pointer, which is NULL when mapping its pages failed.
LEMMA AnIteration ==
    ASSUME Sound, NEW h \in Handles, AllocateRegion(h)
    PROVE  \E r \in Regions, base \in Bases : Iteration(h, r, base)
<1> DEFINE list == handle[h].list_head
           r == list[alloc[h].at]
           pgno == alloc[h].pgno
<1>0. /\ HandlesTyped /\ RestTyped /\ LoopSane /\ LibraryTypeOK
    BY TypeParts DEF Sound
<1>1. /\ alloc[h].phase = "loop" /\ alloc[h].at <= Len(list)
      /\ IsOpen(h) /\ pgno \in Nat /\ alloc[h].at \in 1 .. Len(list) + 1
      /\ alloc[h].start \in Nat
    BY <1>0 DEF AllocateRegion, LoopSane, RestTyped
<1>2. list \in Seq(Regions) /\ handle[h].crateno \in Crates
    BY <1>0, <1>1 DEF HandlesTyped, HandleType, IsOpen
<1>3. alloc[h].at \in DOMAIN list /\ r \in Regions /\ alloc[h].at \in Nat \ {0}
    <2> HIDE DEF list
    <2>1. Len(list) \in Nat /\ DOMAIN list = 1 .. Len(list)
        BY <1>2
    <2>2. alloc[h].at \in 1 .. Len(list)
        BY <1>1, <2>1
    <2> QED
        BY <1>2, <2>1, <2>2
<1>4. NPages(r) \in Nat /\ PageOffset(r) \in Nat
    <2> HIDE DEF r
    <2>1. PageOffset(r) \in 0 .. PageSize - 1 /\ NPages(r) \in Nat /\ PageSize \in Nat
        BY <1>3, PagesOfRegion, LibraryAssumption
    <2> QED
        BY <2>1
<1>5. AtRegion(h, r)
    BY <1>1, <1>2, <1>3, <1>4 DEF AtRegion
<1>6. v120_configure_pd_range(handle[h].crateno, pgno, vme_addr[r], config[r], NPages(r))
    BY DEF AllocateRegion
<1>7. PICK base \in Bases : /\ v120_get_vme(h, pgno, pgno + NPages(r) - 1, base)
                            /\ IF base = NULL THEN IterationFails(h, r)
                                              ELSE IterationSets(h, r, base)
    BY DEF AllocateRegion, IterationFails, IterationSets, PagesAt
<1> HIDE DEF r, pgno, list
<1>8. Configured(handle[h].crateno, pgno, vme_addr[r], config[r], NPages(r))
    <2>1. vme_addr[r] \in Nat /\ config[r] \in Modes
        BY <1>3, LibraryAssumption
    <2> QED
        BY <1>0, <1>1, <1>2, <1>4, <1>6, <2>1, ConfigureRange
<1>9. GotVme(h, pgno, NPages(r), base)
    BY <1>1, <1>4, <1>7, GetVme
<1>10. IterationConfigures(h, r) /\ IterationMaps(h, r, base)
    BY <1>8, <1>9 DEF IterationConfigures, IterationMaps, pgno
<1> QED
    BY <1>3, <1>5, <1>7, <1>10 DEF Iteration

\* Who is touched by an iteration for region r of handle h, and how.
Framed(h, r) ==
    /\ relied' \in [Handles -> SUBSET Regions]
    /\ \A g \in Handles : g # h => alloc'[g] = alloc[g]
    /\ \A q \in Regions : q # r => region'[q] = region[q]
    /\ \A g \in Handles : g # h => relied'[g] \subseteq relied[g]
    /\ \A g \in Handles : \A q \in relied'[g] :
          g # h /\ handle[g].crateno = handle[h].crateno => RegionPages(q) \cap PagesAt(h, r) = {}

HasFailed(h, r) ==
    /\ relied'[h] = relied[h]
    /\ alloc'[h].phase = "done" /\ alloc'[h].pgno = NULL
    /\ region'[r].base = NULL

HasSet(h, r, base) ==
    /\ relied'[h] = relied[h] \cup {r}
    /\ alloc'[h].phase = "loop" /\ alloc'[h].start = alloc[h].start
    /\ alloc'[h].at = alloc[h].at + 1 /\ alloc'[h].pgno = alloc[h].pgno + NPages(r)
    /\ region'[r].base = base + PageOffset(r) /\ region'[r].start_page = alloc[h].pgno
    /\ region'[r].end_page = alloc[h].pgno + NPages(r) - 1

\* An iteration changes the region it is at, the descriptors of its pages and
\* what other handles of the crate rely on there, and nothing else.
LEMMA IterationFrame ==
    ASSUME Sound, NEW h \in Handles, NEW r \in Regions, NEW base \in Bases,
           Iteration(h, r, base)
    PROVE  Framed(h, r) /\ IF base = NULL THEN HasFailed(h, r) ELSE HasSet(h, r, base)
<1>0. RestTyped
    BY TypeParts DEF Sound
<1> DEFINE rel == Reconfigured(handle[h].crateno, PagesAt(h, r), relied)
<1>1. rel \in [Handles -> SUBSET Regions]
      /\ \A g \in Handles : rel[g] = {q \in relied[g] : handle[g].crateno = handle[h].crateno =>
                                                   RegionPages(q) \cap PagesAt(h, r) = {}}
    BY <1>0 DEF Reconfigured, RestTyped
<1>2. relied[h] \in SUBSET Regions /\ relied[h] \cup {r} \in SUBSET Regions
    BY <1>0 DEF RestTyped
<1> HIDE DEF rel
<1>3. relied' = [rel EXCEPT ![h] = IF base = NULL THEN relied[h] ELSE relied[h] \cup {r}]
    BY DEF Iteration, IterationFails, IterationSets, rel
<1>4. /\ \A g \in Handles : g # h => relied'[g] = rel[g]
      /\ relied' \in [Handles -> SUBSET Regions]
      /\ relied'[h] = IF base = NULL THEN relied[h] ELSE relied[h] \cup {r}
    BY <1>1, <1>2, <1>3
<1>5. /\ \A g \in Handles : g # h => alloc'[g] = alloc[g]
      /\ \A q \in Regions : q # r => region'[q] = region[q]
    <2>1. PICK a, x : alloc' = [alloc EXCEPT ![h] = a] /\ region' = [region EXCEPT ![r] = x]
        BY DEF Iteration, IterationFails, IterationSets
    <2> QED
        BY <1>0, <2>1 DEF RestTyped
<1>6. Framed(h, r)
    BY <1>1, <1>4, <1>5 DEF Framed
<1>7. CASE base = NULL
    <2>1. /\ alloc' = [alloc EXCEPT ![h] = Returned(alloc[h].start, NULL)]
          /\ region' = [region EXCEPT ![r].base = NULL]
        BY <1>7 DEF Iteration, IterationFails
    <2>2. alloc'[h] = Returned(alloc[h].start, NULL)
        BY <1>0, <2>1 DEF RestTyped
    <2>3. region'[r].base = NULL
        BY <1>0, <2>1 DEF RestTyped
    <2> QED
        BY <1>4, <1>6, <1>7, <2>2, <2>3 DEF HasFailed, Returned
<1>8. CASE base # NULL
    <2> DEFINE x == [base |-> base + PageOffset(r), start_page |-> alloc[h].pgno,
                     end_page |-> alloc[h].pgno + NPages(r) - 1]
    <2>1. /\ alloc' = [alloc EXCEPT ![h] = Loop(alloc[h].start, alloc[h].at + 1,
                                               alloc[h].pgno + NPages(r))]
          /\ region' = [region EXCEPT ![r] = x]
        BY <1>8 DEF Iteration, IterationSets
    <2> HIDE DEF x
    <2>2. /\ alloc'[h] = Loop(alloc[h].start, alloc[h].at + 1, alloc[h].pgno + NPages(r))
          /\ region'[r] = x
        BY <1>0, <2>1 DEF RestTyped
    <2> QED
        BY <1>4, <1>6, <1>8, <2>2 DEF HasSet, Loop, x
<1> QED
    BY <1>7, <1>8

\* An iteration of v120_allocate_vme keeps the handles sound.
LEMMA SoundRegion ==
    ASSUME Sound, NEW h \in Handles, NEW r \in Regions, NEW base \in Bases,
           Iteration(h, r, base)
    PROVE  Sound'
<1> DEFINE a == alloc[h]
           list == handle[h].list_head
<1>0. /\ HandlesTyped /\ RestTyped /\ LoopSane /\ ClosedEmpty
    BY TypeParts DEF Sound
<1>1. /\ AtRegion(h, r) /\ OnlyMaps(h) /\ IterationConfigures(h, r)
      /\ base # NULL => base \in Nat
    BY DEF Iteration, IterationMaps, GotVme
<1>2. HandlesTyped' /\ NothingLeaks'
    BY <1>1 DEF OnlyMaps, HandlesTyped
<1>3. Framed(h, r) /\ IF base = NULL THEN HasFailed(h, r) ELSE HasSet(h, r, base)
    BY IterationFrame
<1>4. region' \in [Regions -> [base : Nat \cup {NULL}, start_page : Nat, end_page : Nat \cup {-1}]]
    <2> DEFINE T == [base : Nat \cup {NULL}, start_page : Nat, end_page : Nat \cup {-1}]
    <2>1. CASE base = NULL
        <3> DEFINE x == [region[r] EXCEPT !.base = NULL]
        <3>1. region' = [region EXCEPT ![r] = x]
            BY <2>1 DEF Iteration, IterationFails
        <3>2. x \in T
            BY <1>0 DEF RestTyped
        <3> HIDE DEF x, T
        <3>3. region \in [Regions -> T]
            BY <1>0 DEF RestTyped, T
        <3> QED
            BY <3>1, <3>2, <3>3 DEF T
    <2>2. CASE base # NULL
        <3> DEFINE x == [base |-> base + PageOffset(r), start_page |-> a.pgno,
                         end_page |-> a.pgno + NPages(r) - 1]
        <3>1. a.pgno \in Nat /\ NPages(r) \in Nat /\ PageOffset(r) \in Nat /\ base \in Nat
            BY <1>1, <2>2 DEF AtRegion
        <3>2. a.pgno + NPages(r) - 1 \in Nat \cup {-1} /\ base + PageOffset(r) \in Nat
            BY <3>1
        <3>3. x \in T
            BY <3>1, <3>2
        <3>4. region' = [region EXCEPT ![r] = x]
            BY <2>2 DEF Iteration, IterationSets
        <3> HIDE DEF x, T
        <3>5. region \in [Regions -> T]
            BY <1>0 DEF RestTyped, T
        <3> QED
            BY <3>3, <3>4, <3>5 DEF T
    <2> QED
        BY <2>1, <2>2
<1>5. alloc' \in [Handles -> [phase : {"idle", "loop", "done"}, start : Nat, at : Nat,
                              pgno : Nat \cup {NULL}]]
    <2> DEFINE T == [phase : {"idle", "loop", "done"}, start : Nat, at : Nat, pgno : Nat \cup {NULL}]
    <2>1. a.start \in Nat /\ a.at + 1 \in Nat /\ a.pgno + NPages(r) \in Nat
        BY <1>1 DEF AtRegion
    <2>2. Returned(a.start, NULL) \in T /\ Loop(a.start, a.at + 1, a.pgno + NPages(r)) \in T
        BY <2>1 DEF Returned, Loop
    <2>3. PICK x \in T : alloc' = [alloc EXCEPT ![h] = x]
        BY <2>2 DEF Iteration, IterationFails, IterationSets
    <2> HIDE DEF T
    <2>4. alloc \in [Handles -> T]
        BY <1>0 DEF RestTyped, T
    <2> QED
        BY <2>3, <2>4 DEF T
<1>6. RestTyped'
    BY <1>1, <1>3, <1>4, <1>5 DEF IterationConfigures, Configured, Framed, RestTyped, Descriptor
<1>7. LoopSane'
    <2>1. handle'[h].list_head = list /\ list \in Seq(Regions) /\ IsOpen(h)'
        BY <1>0, <1>1 DEF OnlyMaps, HandlesTyped, HandleType, AtRegion, IsOpen
    <2>2. alloc'[h].phase = "loop" =>
             alloc'[h].pgno = a.pgno + NPages(r) /\ alloc'[h].at = a.at + 1
        BY <1>3 DEF HasFailed, HasSet
    <2>3. a.at + 1 \in 1 .. Len(list) + 1 /\ a.pgno + NPages(r) \in Nat
        <3>1. a.at \in DOMAIN list /\ a.pgno \in Nat /\ NPages(r) \in Nat
            BY <1>1 DEF AtRegion
        <3> HIDE DEF list, a
        <3>2. DOMAIN list = 1 .. Len(list) /\ Len(list) \in Nat
            BY <2>1
        <3> QED
            BY <3>1, <3>2
    <2>4. \A g \in Handles : g # h => alloc'[g] = alloc[g] /\ handle'[g] = handle[g]
        BY <1>1, <1>3 DEF OnlyMaps, Framed
    <2> HIDE DEF list, a
    <2>5. ASSUME NEW g \in Handles, alloc'[g].phase = "loop"
          PROVE  /\ IsOpen(g)' /\ alloc'[g].pgno \in Nat
                 /\ alloc'[g].at \in 1 .. Len(handle'[g].list_head) + 1
        <3>1. CASE g = h
            BY <2>1, <2>2, <2>3, <2>5, <3>1
        <3>2. CASE g # h
            BY <1>0, <2>4, <2>5, <3>2 DEF LoopSane, IsOpen
        <3> QED
            BY <3>1, <3>2
    <2> QED
        BY <2>5 DEF LoopSane
<1>8. ClosedEmpty'
    BY <1>0, <1>1, <1>3 DEF AtRegion, OnlyMaps, Framed, ClosedEmpty, IsOpen
<1> QED
    BY <1>2, <1>6, <1>7, <1>8, SoundParts

\* The return from v120_allocate_vme only ends the call.
LEMMA SoundReturn ==
    ASSUME Sound, NEW h \in Handles, AllocateReturn(h)
    PROVE  Sound'
<1>0. /\ HandlesTyped /\ RestTyped /\ NothingLeaks /\ LoopSane /\ ClosedEmpty
      /\ UNCHANGED <<handle, region, pd, config_regs, files, maps, relied>>
    BY TypeParts DEF Sound, AllocateReturn
<1>1. PICK v \in Nat : alloc' = [alloc EXCEPT ![h] = Returned(alloc[h].start, v)]
    <2>1. alloc[h].pgno \in Nat /\ 0 \in Nat /\ PageCount \in Nat
        BY <1>0, LibraryAssumption DEF AllocateReturn, LoopSane
    <2> QED
        BY <2>1 DEF AllocateReturn
<1>2. RestTyped'
    BY <1>0, <1>1 DEF RestTyped, Descriptor, Returned
<1>3. LoopSane'
    BY <1>0, <1>1 DEF RestTyped, LoopSane, Returned, IsOpen
<1>4. HandlesTyped' /\ NothingLeaks' /\ ClosedEmpty'
    BY <1>0 DEF HandlesTyped, NothingLeaks, ClosedEmpty, IsOpen
<1> QED
    BY <1>2, <1>3, <1>4, SoundParts

-------------------------------------------------------------------------------
(***************************************************************************)
(* Regions                                                                 *)
(***************************************************************************)
\* Tiles stay where they are when the list and its regions do.
LEMMA TiledKept ==
    ASSUME NEW g, NEW n \in Nat, NEW first, NEW next,
           handle[g].list_head \in Seq(Regions), n <= Len(handle[g].list_head),
           handle'[g].list_head = handle[g].list_head,
           \A k \in 1 .. n : region'[handle[g].list_head[k]] = region[handle[g].list_head[k]],
           Tiled(g, n, first, next)
    PROVE  Tiled(g, n, first, next)'
<1> DEFINE list == handle[g].list_head
<1>1. /\ \A k \in 1 .. n :
            /\ region[list[k]].start_page = IF k = 1 THEN first ELSE region[list[k - 1]].end_page + 1
            /\ region[list[k]].end_page = region[list[k]].start_page + NPages(list[k]) - 1
      /\ n > 0 => next = region[list[n]].end_page + 1
    BY DEF Tiled
<1>2. \A k \in 1 .. n : region'[list[k]] = region[list[k]] /\ (k # 1 => k - 1 \in 1 .. n)
    OBVIOUS
<1>3. n > 0 => n \in 1 .. n
    OBVIOUS
<1>4. handle'[g].list_head = list
    OBVIOUS
<1> HIDE DEF list
<1>5. /\ \A k \in 1 .. n :
            /\ region'[list[k]].start_page = IF k = 1 THEN first ELSE region'[list[k - 1]].end_page + 1
            /\ region'[list[k]].end_page = region'[list[k]].start_page + NPages(list[k]) - 1
      /\ n > 0 => next = region'[list[n]].end_page + 1
    BY <1>1, <1>2, <1>3
<1> QED
    BY <1>4, <1>5 DEF Tiled

\* The region after n tiles takes the pages behind them.
LEMMA TiledExtended ==
    ASSUME NEW h, NEW n \in Nat, NEW first, NEW next, NEW r \in Regions,
           handle[h].list_head \in Seq(Regions), n < Len(handle[h].list_head),
           handle'[h].list_head = handle[h].list_head,
           \A k \in 1 .. n : region'[handle[h].list_head[k]] = region[handle[h].list_head[k]],
           r = handle[h].list_head[n + 1],
           region'[r].start_page = next,
           next \in Nat, n = 0 => next = first,
           region'[r].end_page = next + NPages(r) - 1,
           Tiled(h, n, first, next)
    PROVE  Tiled(h, n + 1, first, next + NPages(r))'
<1> DEFINE list == handle[h].list_head
           begin(k) == region'[list[k]].start_page
           end(k) == region'[list[k]].end_page
<1>0. NPages(r) \in Nat
    BY PagesOfRegion
<1>1. Tiled(h, n, first, next)'
    <2>1. n <= Len(handle[h].list_head)
        OBVIOUS
    <2> QED
        BY <2>1, TiledKept
<1>2. /\ \A k \in 1 .. n :
            /\ begin(k) = IF k = 1 THEN first ELSE end(k - 1) + 1
            /\ end(k) = begin(k) + NPages(list[k]) - 1
      /\ n > 0 => next = end(n) + 1
    BY <1>1 DEF Tiled
<1>3. begin(n + 1) = next /\ end(n + 1) = next + NPages(r) - 1 /\ list[n + 1] = r
    OBVIOUS
<1>4. handle'[h].list_head = list
    OBVIOUS
<1> HIDE DEF list, begin, end
<1>5. ASSUME NEW k \in 1 .. n + 1
      PROVE  /\ begin(k) = IF k = 1 THEN first ELSE end(k - 1) + 1
             /\ end(k) = begin(k) + NPages(list[k]) - 1
    <2>1. CASE k = n + 1
        <3>1. CASE n = 0
            BY <1>3, <2>1, <3>1
        <3>2. CASE n > 0
            <4>1. k # 1 /\ k - 1 = n
                BY <2>1, <3>2
            <4> QED
                BY <1>2, <1>3, <2>1, <3>2, <4>1
        <3> QED
            BY <3>1, <3>2
    <2>2. CASE k # n + 1
        <3>1. k \in 1 .. n
            BY <2>2
        <3> QED
            BY <1>2, <3>1
    <2> QED
        BY <2>1, <2>2
<1>6. next + NPages(r) = end(n + 1) + 1
    BY <1>0, <1>3
<1> QED
    BY <1>4, <1>5, <1>6 DEF Tiled, list, begin, end

\* Descriptors written on other pages than those of r, or in another crate, do
\* not concern r.
LEMMA DescribedKept ==
    ASSUME LibInv, NEW g \in Handles, NEW r \in relied[g], NPages(r) > 0,
           NEW c, NEW first, NEW n, NEW addr, NEW cfg,
           Configured(c, first, addr, cfg, n),
           handle[g].crateno = c => RegionPages(r) \cap (first .. first + n - 1) = {},
           region'[r] = region[r], handle'[g].crateno = handle[g].crateno
    PROVE  Described(handle[g].crateno, r)'
<1>0. BasesSet /\ ReliedSet /\ HandlesTyped /\ RestTyped /\ ClosedEmpty
    BY TypeParts DEF LibInv, Sound, SetUp
<1>1. InList(g, r) /\ region[r].base # NULL /\ Described(handle[g].crateno, r)
    BY <1>0 DEF ReliedSet
<1>2. r \in Regions /\ BaseSet(g, r)
    BY <1>0, <1>1 DEF InList, BasesSet, RestTyped
<1>3. RegionPages(r) \subseteq Pages
    <2>1. /\ region[r].start_page \in Nat /\ region[r].end_page \in Int
          /\ region[r].end_page < PageCount /\ PageCount \in Nat
        BY <1>0, <1>1, <1>2, LibraryAssumption DEF BaseSet, RestTyped
    <2> QED
        BY <2>1 DEF RegionPages, Pages
<1>4. ASSUME NEW p \in RegionPages(r)
      PROVE  pd'[handle[g].crateno][p] = pd[handle[g].crateno][p]
    <2>1. CASE handle[g].crateno = c
        <3>1. p \in Pages /\ p \notin first .. first + n - 1
            BY <1>3, <2>1
        <3> QED
            BY <2>1, <3>1 DEF Configured
    <2>2. CASE handle[g].crateno # c
        <3>1. handle[g].crateno \in Crates
            BY <1>0 DEF HandlesTyped, HandleType, ClosedEmpty, IsOpen
        <3> QED
            BY <2>2, <3>1 DEF Configured
    <2> QED
        BY <2>1, <2>2
<1>5. \A p \in region[r].start_page .. region[r].end_page :
         pd'[handle[g].crateno][p]
           = V120_PD(vme_addr[r] + (p - region[r].start_page) * PageSize, config[r])
    BY <1>1, <1>4 DEF Described, RegionPages
<1> QED
    BY <1>5 DEF Described, RegionPages

\* No region is in a list when the program starts.
LEMMA ListsInit == ASSUME LibraryInit PROVE Lists /\ SetUp
<1>1. \A h \in Handles : /\ handle[h].list_head = <<>> /\ DOMAIN handle[h].list_head = {}
                         /\ alloc[h].phase = "idle" /\ relied[h] = {}
    <2>1. DOMAIN <<>> = {}
        OBVIOUS
    <2> QED
        BY <2>1 DEF LibraryInit, Closed, Idle
<1>2. Distinct /\ Behind /\ TilesToReturn
    BY <1>1 DEF Distinct, Behind, TilesToReturn
<1>3. BasesSet /\ ReliedSet
    BY <1>1 DEF BasesSet, ReliedSet
<1> QED
    BY <1>2, <1>3 DEF Lists, SetUp

\* Steps that leave the regions, the lists and the allocations alone, and the
\* descriptors of what is still relied on.
LEMMA ListsKept ==
    ASSUME LibInv, UNCHANGED <<region, alloc>>,
           \A g \in Handles : handle'[g].list_head = handle[g].list_head,
           \A g \in Handles : \A first, n \in Nat : Mapped(g, first, n) => Mapped(g, first, n)',
           \A g \in Handles : \A r \in relied'[g] :
              /\ r \in relied[g]
              /\ NPages(r) > 0 /\ Described(handle[g].crateno, r) => Described(handle[g].crateno, r)'
    PROVE  Lists' /\ SetUp'
<1>0. Distinct /\ Behind /\ TilesToReturn /\ BasesSet /\ ReliedSet /\ HandlesTyped /\ RestTyped
    BY TypeParts DEF LibInv, Sound, Lists, SetUp
<1>1. Distinct'
    BY <1>0 DEF Distinct
<1>2. Behind'
    BY <1>0 DEF Behind
<1>3. TilesToReturn'
    <2>1. \A g \in Handles : \A n, first, next : Tiled(g, n, first, next) => Tiled(g, n, first, next)'
        BY DEF Tiled
    <2>2. \A g \in Handles : handle'[g].list_head # <<>> => handle[g].list_head # <<>>
        OBVIOUS
    <2> QED
        BY <1>0, <2>1, <2>2 DEF TilesToReturn
<1>4. BasesSet'
    <2>1. ASSUME NEW g \in Handles, NEW r \in Regions, BaseSet(g, r) PROVE BaseSet(g, r)'
        <3>1. region[r].start_page \in Nat /\ NPages(r) \in Nat /\ region' = region
            BY <1>0, PagesOfRegion DEF RestTyped
        <3> QED
            BY <2>1, <3>1 DEF BaseSet
    <2>2. \A g \in Handles : \A k \in DOMAIN handle[g].list_head : handle[g].list_head[k] \in Regions
        BY <1>0 DEF HandlesTyped, HandleType
    <2> QED
        BY <1>0, <2>1, <2>2 DEF BasesSet
<1>5. ReliedSet'
    BY <1>0 DEF ReliedSet, InList
<1> QED
    BY <1>1, <1>2, <1>3, <1>4, <1>5 DEF Lists, SetUp

\* Steps that empty the list of h.
LEMMA ListsEmptied ==
    ASSUME LibInv, NEW h \in Handles, UNCHANGED <<region, pd>>,
           handle'[h].list_head = <<>>, relied'[h] = {}, alloc'[h].phase = "idle",
           \A g \in Handles : g # h => /\ handle'[g] = handle[g] /\ relied'[g] = relied[g]
                                       /\ alloc'[g] = alloc[g]
    PROVE  Lists' /\ SetUp'
<1>0. Distinct /\ Behind /\ TilesToReturn /\ BasesSet /\ ReliedSet
    BY DEF LibInv, Lists, SetUp
<1>1. DOMAIN handle'[h].list_head = {}
    <2>1. DOMAIN <<>> = {}
        OBVIOUS
    <2> QED
        BY <2>1
<1>2. Distinct'
    BY <1>0, <1>1 DEF Distinct
<1>3. Behind'
    BY <1>0, <1>1 DEF Behind
<1>4. TilesToReturn'
    <2>1. ASSUME NEW g \in Handles, g # h
          PROVE  \A n, first, next : Tiled(g, n, first, next) => Tiled(g, n, first, next)'
        BY <2>1 DEF Tiled
    <2> QED
        BY <1>0, <2>1 DEF TilesToReturn
<1>5. BasesSet'
    <2>1. ASSUME NEW g \in Handles, g # h
          PROVE  \A r : BaseSet(g, r) => BaseSet(g, r)'
        BY <2>1 DEF BaseSet, Mapped
    <2> QED
        BY <1>0, <1>1, <2>1 DEF BasesSet
<1>6. ReliedSet'
    <2>1. \A c, r : Described(c, r)' <=> Described(c, r)
        BY DEF Described, RegionPages
    <2> QED
        BY <1>0, <2>1 DEF ReliedSet, InList
<1> QED
    BY <1>2, <1>3, <1>4, <1>5, <1>6 DEF Lists, SetUp

\* A region is added at the head of the list of h.
LEMMA ListsAdd ==
    ASSUME LibInv, NEW h \in Handles, NEW r \in Regions, v120_add_vme_region(h, r)
    PROVE  Lists' /\ SetUp'
<1> DEFINE list == handle[h].list_head
<1>0. /\ Distinct /\ Behind /\ TilesToReturn /\ BasesSet /\ ReliedSet
      /\ HandlesTyped /\ RestTyped
    BY TypeParts DEF LibInv, Sound, Lists, SetUp
<1>1. list \in Seq(Regions)
    BY <1>0 DEF HandlesTyped, HandleType
<1>2. /\ handle'[h].list_head = <<r>> \o list
      /\ handle'[h].mmlist = handle[h].mmlist /\ handle'[h].crateno = handle[h].crateno
      /\ \A g \in Handles : g # h => handle'[g] = handle[g] /\ alloc'[g] = alloc[g]
      /\ alloc'[h].phase = "idle"
      /\ UNCHANGED <<pd, relied>>
    BY <1>0 DEF v120_add_vme_region, HandlesTyped, HandleType, RestTyped, Idle
<1>3. /\ region'[r].base = NULL
      /\ \A q \in Regions : q # r => region'[q] = region[q]
    BY <1>0 DEF v120_add_vme_region, RestTyped, VME_REGION
<1>4. /\ 1 \in DOMAIN handle'[h].list_head /\ handle'[h].list_head[1] = r
      /\ \A k \in DOMAIN handle'[h].list_head :
            k = 1 \/ (k - 1 \in DOMAIN list /\ handle'[h].list_head[k] = list[k - 1])
      /\ \A k \in DOMAIN list :
            k + 1 \in DOMAIN handle'[h].list_head /\ handle'[h].list_head[k + 1] = list[k]
      /\ \A k \in DOMAIN handle'[h].list_head : k \in Nat
    <2> HIDE DEF list
    <2>1. handle'[h].list_head \in Seq(Regions)
        BY <1>1, <1>2, Prepend
    <2> QED
        BY <1>1, <1>2, <2>1, Prepend
<1>5. \A g \in Handles : \A k \in DOMAIN handle[g].list_head :
         handle[g].list_head[k] \in Regions /\ handle[g].list_head[k] # r
    BY <1>0 DEF v120_add_vme_region, InSomeList, HandlesTyped, HandleType
<1> HIDE DEF list
\* Every entry of a list is the new one, or an old one in its old or the next place.
<1> DEFINE Place(g, k) == IF g = h THEN k - 1 ELSE k
<1>a. ASSUME NEW g \in Handles, NEW k \in DOMAIN handle'[g].list_head, ~(g = h /\ k = 1)
      PROVE  /\ Place(g, k) \in DOMAIN handle[g].list_head
             /\ handle'[g].list_head[k] = handle[g].list_head[Place(g, k)]
             /\ handle'[g].list_head[k] \in Regions /\ handle'[g].list_head[k] # r
    <2>1. /\ Place(g, k) \in DOMAIN handle[g].list_head
          /\ handle'[g].list_head[k] = handle[g].list_head[Place(g, k)]
        <3>1. CASE g = h
            BY <1>4, <1>a, <3>1 DEF list
        <3>2. CASE g # h
            BY <1>2, <1>a, <3>2
        <3> QED
            BY <3>1, <3>2
    <2> QED
        BY <1>5, <2>1
<1> HIDE DEF Place
<1>6. Distinct'
    <2> SUFFICES ASSUME NEW g1 \in Handles, NEW g2 \in Handles,
                        NEW i \in DOMAIN handle'[g1].list_head, NEW j \in DOMAIN handle'[g2].list_head,
                        handle'[g1].list_head[i] = handle'[g2].list_head[j]
                 PROVE  g1 = g2 /\ i = j
        BY DEF Distinct
    <2>1. CASE g1 = h /\ i = 1
        BY <1>4, <1>a, <2>1
    <2>2. CASE g2 = h /\ j = 1
        BY <1>4, <1>a, <2>2
    <2>3. CASE ~(g1 = h /\ i = 1) /\ ~(g2 = h /\ j = 1)
        <3>1. handle[g1].list_head[Place(g1, i)] = handle[g2].list_head[Place(g2, j)]
            BY <1>a, <2>3
        <3>2. g1 = g2 /\ Place(g1, i) = Place(g2, j)
            BY <1>0, <1>a, <2>3, <3>1 DEF Distinct
        <3>3. g1 = h => i \in Nat /\ j \in Nat
            BY <1>4, <3>2
        <3> QED
            BY <3>2, <3>3 DEF Place
    <2> QED
        BY <2>1, <2>2, <2>3
<1>7. ASSUME NEW g \in Handles, g # h
      PROVE  \A k \in DOMAIN handle[g].list_head :
                region'[handle[g].list_head[k]] = region[handle[g].list_head[k]]
    BY <1>3, <1>5
<1>8. Behind'
    <2> SUFFICES ASSUME NEW g \in Handles, g # h, alloc[g].phase = "loop"
                 PROVE  \A k \in 1 .. alloc[g].at - 1 :
                            region'[handle[g].list_head[k]].end_page < alloc[g].pgno
        BY <1>0, <1>2 DEF Behind
    <2>1. alloc[g].at \in 1 .. Len(handle[g].list_head) + 1 /\ handle[g].list_head \in Seq(Regions)
        BY <1>0 DEF LibInv, Sound, LoopSane, HandlesTyped, HandleType
    <2>2. \A k \in 1 .. alloc[g].at - 1 : k \in DOMAIN handle[g].list_head
        BY <2>1
    <2> QED
        BY <1>0, <1>7, <2>2 DEF Behind
<1>9. TilesToReturn'
    <2>1. ASSUME NEW g \in Handles, g # h, NEW n \in Nat, n <= Len(handle[g].list_head)
          PROVE  \A first, next : Tiled(g, n, first, next) => Tiled(g, n, first, next)'
        <3>1. handle[g].list_head \in Seq(Regions)
            BY <1>0 DEF HandlesTyped, HandleType
        <3>2. \A k \in 1 .. n : region'[handle[g].list_head[k]] = region[handle[g].list_head[k]]
            BY <1>7, <2>1, <3>1
        <3>3. handle'[g].list_head = handle[g].list_head
            BY <1>2, <2>1
        <3> QED
            BY <2>1, <3>1, <3>2, <3>3, TiledKept
    <2>2. ASSUME NEW g \in Handles, alloc[g].phase = "loop"
          PROVE  alloc[g].at - 1 \in Nat /\ alloc[g].at - 1 <= Len(handle[g].list_head)
        BY <1>0, <2>2 DEF LibInv, Sound, LoopSane, HandlesTyped, HandleType
    <2>3. \A g \in Handles : Len(handle[g].list_head) \in Nat
        BY <1>0 DEF HandlesTyped, HandleType
    <2> SUFFICES ASSUME NEW g \in Handles, g # h
                 PROVE  /\ alloc[g].phase = "loop" =>
                              Tiled(g, alloc[g].at - 1, alloc[g].start, alloc[g].pgno)'
                        /\ alloc[g].phase = "done" /\ alloc[g].pgno # NULL /\ handle[g].list_head # <<>>
                              => Tiled(g, Len(handle[g].list_head), alloc[g].start, alloc[g].pgno)'
        BY <1>2 DEF TilesToReturn
    <2> QED
        BY <1>0, <1>2, <2>1, <2>2, <2>3 DEF TilesToReturn
<1>10. BasesSet'
    <2>1. ASSUME NEW g \in Handles, NEW q \in Regions, q # r
          PROVE  BaseSet(g, q) => BaseSet(g, q)'
        BY <1>2, <1>3, <2>1 DEF BaseSet, Mapped
    <2>2. \A g \in Handles : BaseSet(g, r)'
        BY <1>3 DEF BaseSet
    <2>3. ASSUME NEW g \in Handles, NEW k \in DOMAIN handle'[g].list_head
          PROVE  BaseSet(g, handle[g].list_head[k])'
        <3> DEFINE q == handle'[g].list_head[k]
        <3>1. CASE g = h /\ k = 1
            <4>1. q = r
                BY <1>4, <3>1
            <4> QED
                BY <2>2, <4>1 DEF BaseSet
        <3>2. CASE ~(g = h /\ k = 1)
            <4>1. BaseSet(g, q) /\ q \in Regions /\ q # r
                BY <1>0, <1>a, <3>2 DEF BasesSet
            <4> QED
                BY <2>1, <4>1 DEF BaseSet, Mapped
        <3> QED
            BY <3>1, <3>2
    <2> QED
        BY <2>3 DEF BasesSet
<1>11. ReliedSet'
    <2> SUFFICES ASSUME NEW g \in Handles, NEW q \in relied[g]
                 PROVE  /\ InList(g, q)' /\ region'[q].base # NULL
                        /\ NPages(q) > 0 => Described(handle[g].crateno, q)'
        BY <1>2 DEF ReliedSet
    <2>1. InList(g, q) /\ region[q].base # NULL /\ (NPages(q) > 0 => Described(handle[g].crateno, q))
        BY <1>0 DEF ReliedSet
    <2>2. q \in Regions /\ q # r
        BY <1>5, <2>1 DEF InList
    <2>3. InList(g, q)'
        <3>1. PICK k \in DOMAIN handle[g].list_head : handle[g].list_head[k] = q
            BY <2>1 DEF InList
        <3>2. CASE g = h
            BY <1>4, <3>1, <3>2 DEF InList, list
        <3>3. CASE g # h
            BY <1>2, <3>1, <3>3 DEF InList
        <3> QED
            BY <3>2, <3>3
    <2>4. Described(handle[g].crateno, q) => Described(handle[g].crateno, q)'
        BY <1>2, <1>3, <2>2 DEF Described, RegionPages
    <2> QED
        BY <1>3, <2>1, <2>2, <2>3, <2>4
<1> QED
    BY <1>6, <1>8, <1>9, <1>10, <1>11 DEF Lists, SetUp

\* Lists and base pointers stay as they are when handles and regions do.
LEMMA BasesKept ==
    ASSUME UNCHANGED <<handle, region>>, Distinct, BasesSet
    PROVE  Distinct' /\ BasesSet'
<1>1. handle' = handle /\ region' = region
    OBVIOUS
<1>2. Distinct'
    BY <1>1 DEF Distinct
<1>3. \A g, r : BaseSet(g, r) => BaseSet(g, r)'
    BY <1>1, Zenon DEF BaseSet, Mapped
<1>4. BasesSet'
    BY <1>1, <1>3, Zenon DEF BasesSet
<1> QED
    BY <1>2, <1>4

\* A call of v120_allocate_vme begins: h gives up what it relied on.
LEMMA ListsAllocate ==
    ASSUME LibInv, NEW h \in Handles, NEW start \in Nat, v120_allocate_vme(h, start)
    PROVE  Lists' /\ SetUp'
<1>0. /\ Distinct /\ Behind /\ TilesToReturn /\ BasesSet /\ ReliedSet
      /\ HandlesTyped /\ RestTyped
    BY TypeParts DEF LibInv, Sound, Lists, SetUp
<1>1. /\ UNCHANGED <<handle, region, pd>>
      /\ \A g \in Handles : g # h => alloc'[g] = alloc[g] /\ relied'[g] = relied[g]
      /\ relied'[h] \in {{}, relied[h]}
      /\ \/ /\ alloc'[h].phase = "loop" /\ alloc'[h].at = 1 /\ relied'[h] = {}
            /\ alloc'[h].pgno = start /\ alloc'[h].start = start
         \/ alloc'[h].phase = "done" /\ alloc'[h].pgno = NULL
    BY <1>0 DEF v120_allocate_vme, RestTyped, Returned, Loop
<1>2. Distinct' /\ BasesSet'
    BY <1>0, <1>1, BasesKept
<1>3. Behind'
    <2>1. \A k \in 1 .. 1 - 1 : FALSE
        OBVIOUS
    <2> QED
        BY <1>0, <1>1, <2>1 DEF Behind
<1>4. TilesToReturn'
    <2>1. \A g \in Handles : \A n, first, next : Tiled(g, n, first, next) => Tiled(g, n, first, next)'
        BY <1>1 DEF Tiled
    <2>2. Tiled(h, 1 - 1, start, start)'
        BY DEF Tiled
    <2>3. handle' = handle
        BY <1>1
    <2> QED
        BY <1>0, <1>1, <2>1, <2>2, <2>3 DEF TilesToReturn
<1>5. ReliedSet'
    <2>1. \A c, r : Described(c, r)' <=> Described(c, r)
        BY <1>1 DEF Described, RegionPages
    <2> QED
        BY <1>0, <1>1, <2>1 DEF ReliedSet, InList
<1> QED
    BY <1>2, <1>3, <1>4, <1>5 DEF Lists, SetUp

\* The call returns: its loop has seen the whole list.
LEMMA ListsReturn ==
    ASSUME LibInv, NEW h \in Handles, AllocateReturn(h)
    PROVE  Lists' /\ SetUp'
<1> DEFINE list == handle[h].list_head
<1>0. /\ Distinct /\ Behind /\ TilesToReturn /\ BasesSet /\ ReliedSet
      /\ HandlesTyped /\ RestTyped /\ LoopSane
    BY TypeParts DEF LibInv, Sound, Lists, SetUp
<1>1. /\ UNCHANGED <<handle, region, pd, relied>>
      /\ \A g \in Handles : g # h => alloc'[g] = alloc[g]
      /\ alloc[h].phase = "loop" /\ alloc[h].at > Len(list)
      /\ alloc'[h].phase = "done"
      /\ alloc[h].at # 1 => alloc'[h].start = alloc[h].start /\ alloc'[h].pgno = alloc[h].pgno
    BY <1>0 DEF AllocateReturn, RestTyped, Returned
<1>2. Distinct' /\ BasesSet'
    BY <1>0, <1>1, BasesKept
<1>3. Behind'
    BY <1>0, <1>1 DEF Behind
<1>4. list \in Seq(Regions) /\ alloc[h].at \in 1 .. Len(list) + 1
    BY <1>0, <1>1 DEF HandlesTyped, HandleType, LoopSane
<1>5. alloc[h].at - 1 = Len(list) /\ (alloc[h].at = 1 => list = <<>>)
    <2> HIDE DEF list
    <2>1. Len(list) \in Nat
        BY <1>4
    <2>2. alloc[h].at - 1 = Len(list) /\ (alloc[h].at = 1 => Len(list) = 0)
        BY <1>1, <1>4, <2>1 DEF list
    <2> QED
        BY <1>4, <2>2
<1>6. TilesToReturn'
    <2>1. \A g \in Handles : \A n, first, next : Tiled(g, n, first, next) => Tiled(g, n, first, next)'
        BY <1>1 DEF Tiled
    <2>2. list # <<>> => Tiled(h, Len(list), alloc'[h].start, alloc'[h].pgno)
        BY <1>0, <1>1, <1>5 DEF TilesToReturn
    <2>3. handle' = handle
        BY <1>1
    <2> QED
        BY <1>0, <1>1, <2>1, <2>2, <2>3 DEF TilesToReturn
<1>7. ReliedSet'
    <2>1. \A c, r : Described(c, r)' <=> Described(c, r)
        BY <1>1 DEF Described, RegionPages
    <2> QED
        BY <1>0, <1>1, <2>1 DEF ReliedSet, InList
<1> QED
    BY <1>2, <1>3, <1>6, <1>7 DEF Lists, SetUp

\* One iteration of v120_allocate_vme.
LEMMA ListsRegion ==
    ASSUME LibInv, NEW h \in Handles, NEW r \in Regions, NEW base \in Bases,
           Iteration(h, r, base)
    PROVE  Lists' /\ SetUp'
<1> DEFINE list == handle[h].list_head
           at == alloc[h].at
           pgno == alloc[h].pgno
           c == handle[h].crateno
<1>0. /\ Distinct /\ Behind /\ TilesToReturn /\ BasesSet /\ ReliedSet
      /\ HandlesTyped /\ RestTyped /\ LoopSane /\ ClosedEmpty /\ Sound
    BY TypeParts DEF LibInv, Sound, Lists, SetUp
<1>1. /\ alloc[h].phase = "loop" /\ c \in Crates /\ IsOpen(h)
      /\ at \in DOMAIN list /\ r = list[at] /\ pgno \in Nat /\ at \in Nat \ {0}
      /\ NPages(r) \in Nat /\ PageOffset(r) \in Nat
    BY DEF Iteration, AtRegion
<1>2. Framed(h, r) /\ IF base = NULL THEN HasFailed(h, r) ELSE HasSet(h, r, base)
    BY <1>0, IterationFrame
<1>3. /\ OnlyMaps(h) /\ GotVme(h, pgno, NPages(r), base)
      /\ Configured(c, pgno, vme_addr[r], config[r], NPages(r))
    BY DEF Iteration, IterationMaps, IterationConfigures, GotVme
<1>4. /\ list \in Seq(Regions) /\ Len(list) \in Nat /\ DOMAIN list = 1 .. Len(list)
      /\ \A g \in Handles : handle'[g].list_head = handle[g].list_head
      /\ \A g \in Handles : handle'[g].crateno = handle[g].crateno
    BY <1>0, <1>3 DEF OnlyMaps, HandlesTyped, HandleType
<1>5. \A g \in Handles : \A k \in DOMAIN handle[g].list_head :
         /\ handle[g].list_head[k] \in Regions
         /\ handle[g].list_head[k] = r => g = h /\ k = at
    BY <1>0, <1>1 DEF HandlesTyped, HandleType, Distinct
<1>6. \A q \in Regions : q # r => region'[q] = region[q]
    BY <1>2 DEF Framed
<1>7. \A g \in Handles : g # h => alloc'[g] = alloc[g]
    BY <1>2 DEF Framed
<1> HIDE DEF list, at, pgno, c
\* the entries before this one
<1>8. \A k \in 1 .. at - 1 : /\ k \in DOMAIN list /\ list[k] # r
                             /\ region'[list[k]] = region[list[k]]
    <2> TAKE k \in 1 .. at - 1
    <2>1. k \in DOMAIN list /\ k # at
        BY <1>1, <1>4
    <2>2. list[k] # r /\ list[k] \in Regions
        BY <1>5, <2>1 DEF list
    <2> QED
        BY <1>6, <2>1, <2>2
<1>9. Distinct'
    BY <1>0, <1>4 DEF Distinct
<1>10. Behind'
    <2>1. ASSUME NEW g \in Handles, g # h, alloc[g].phase = "loop"
          PROVE  \A k \in 1 .. alloc[g].at - 1 :
                    region'[handle[g].list_head[k]] = region[handle[g].list_head[k]]
        <3> TAKE k \in 1 .. alloc[g].at - 1
        <3>1. k \in DOMAIN handle[g].list_head
            BY <1>0, <2>1 DEF LoopSane, HandlesTyped, HandleType
        <3> QED
            BY <1>5, <1>6, <2>1, <3>1
    <2>2. ASSUME base # NULL
          PROVE  /\ alloc'[h].at # 1
                 /\ \A k \in 1 .. alloc'[h].at - 1 :
                       region'[list[k]].end_page < alloc'[h].pgno
                 /\ \A q \in relied'[h] : \E k \in 1 .. alloc'[h].at - 1 : list[k] = q
        <3>1. /\ alloc'[h].at = at + 1 /\ alloc'[h].pgno = pgno + NPages(r)
              /\ region'[r].end_page = pgno + NPages(r) - 1 /\ relied'[h] = relied[h] \cup {r}
            BY <1>2, <2>2 DEF HasSet, at, pgno
        <3>2. \A k \in 1 .. at - 1 : region[list[k]].end_page < pgno
            BY <1>0, <1>1 DEF Behind, list, at, pgno
        <3>3. \A k \in 1 .. at - 1 : region[list[k]].end_page \in Int
            BY <1>0, <1>5, <1>8 DEF RestTyped, list
        <3>4. \A q \in relied[h] : \E k \in 1 .. at - 1 : list[k] = q
            BY <1>0, <1>1 DEF Behind, list, at
        <3>5. ASSUME NEW k \in 1 .. at PROVE region'[list[k]].end_page < pgno + NPages(r)
            <4>1. CASE k = at
                BY <1>1, <3>1, <4>1
            <4>2. CASE k # at
                <5>1. k \in 1 .. at - 1
                    BY <1>1, <4>2
                <5> QED
                    BY <1>1, <1>8, <3>2, <3>3, <5>1
            <4> QED
                BY <4>1, <4>2
        <3>6. alloc'[h].at - 1 = at /\ alloc'[h].at # 1 /\ at \in 1 .. at
              /\ \A k \in 1 .. at - 1 : k \in 1 .. at
            BY <1>1, <3>1
        <3>7. \A q \in relied'[h] : \E k \in 1 .. at : list[k] = q
            BY <1>1, <3>1, <3>4, <3>6
        <3> QED
            BY <3>1, <3>5, <3>6, <3>7
    <2>3. base = NULL => alloc'[h].phase = "done"
        BY <1>2 DEF HasFailed
    <2>4. ASSUME NEW g \in Handles, alloc'[g].phase = "loop"
          PROVE  /\ alloc'[g].at = 1 => alloc'[g].pgno = alloc'[g].start
                 /\ \A k \in 1 .. alloc'[g].at - 1 :
                       region'[handle'[g].list_head[k]].end_page < alloc'[g].pgno
                 /\ \A q \in relied'[g] : \E k \in 1 .. alloc'[g].at - 1 : handle'[g].list_head[k] = q
        <3>1. CASE g = h
            BY <1>4, <2>2, <2>3, <2>4, <3>1 DEF list
        <3>2. CASE g # h
            <4>1. alloc'[g] = alloc[g] /\ handle'[g].list_head = handle[g].list_head
                  /\ relied'[g] \subseteq relied[g]
                BY <1>2, <1>4, <1>7, <3>2 DEF Framed
            <4> QED
                BY <1>0, <2>1, <2>4, <3>2, <4>1 DEF Behind
        <3> QED
            BY <3>1, <3>2
    <2> QED
        BY <2>4 DEF Behind
<1>11. TilesToReturn'
    <2>1. ASSUME NEW g \in Handles, g # h, NEW n \in Nat, n <= Len(handle[g].list_head)
          PROVE  \A first, next : Tiled(g, n, first, next) => Tiled(g, n, first, next)'
        <3>1. handle[g].list_head \in Seq(Regions)
            BY <1>0 DEF HandlesTyped, HandleType
        <3>2. \A k \in 1 .. n : k \in DOMAIN handle[g].list_head
            BY <2>1, <3>1
        <3>3. \A k \in 1 .. n : region'[handle[g].list_head[k]] = region[handle[g].list_head[k]]
            BY <1>5, <1>6, <2>1, <3>2
        <3> QED
            BY <1>4, <2>1, <3>1, <3>3, TiledKept
    <2>2. ASSUME NEW g \in Handles, alloc[g].phase = "loop"
          PROVE  alloc[g].at - 1 \in Nat /\ alloc[g].at - 1 <= Len(handle[g].list_head)
        <3>1. alloc[g].at \in 1 .. Len(handle[g].list_head) + 1
            BY <1>0, <2>2 DEF LoopSane
        <3>2. Len(handle[g].list_head) \in Nat
            BY <1>0 DEF HandlesTyped, HandleType
        <3> QED
            BY <3>1, <3>2
    <2>3. \A g \in Handles : Len(handle[g].list_head) \in Nat
        BY <1>0 DEF HandlesTyped, HandleType
    <2>4. ASSUME base # NULL
          PROVE  Tiled(h, alloc[h].at - 1, alloc[h].start, alloc[h].pgno)'
        <3>0. at - 1 \in Nat /\ alloc[h].start \in Nat /\ pgno \in Nat
            BY <1>1 DEF Iteration, AtRegion
        <3>1. PICK n \in Nat, start \in Nat, page \in Nat :
                 n = at - 1 /\ start = alloc[h].start /\ page = pgno
            BY <3>0, Zenon
        <3>2. /\ alloc'[h].at = at + 1 /\ alloc'[h].start = alloc[h].start
              /\ alloc'[h].pgno = pgno + NPages(r)
              /\ region'[r].start_page = pgno /\ region'[r].end_page = pgno + NPages(r) - 1
            BY <1>2, <2>4 DEF HasSet, at, pgno
        <3>3. alloc'[h].at - 1 = n + 1 /\ alloc'[h].start = start
              /\ alloc'[h].pgno = page + NPages(r)
            BY <1>1, <3>1, <3>2
        <3>4. n = 0 => page = start
            BY <1>0, <1>1, <3>1 DEF Behind, at, pgno
        <3>5. Tiled(h, n, start, page)
            BY <1>0, <1>1, <3>1 DEF TilesToReturn, at, pgno
        <3>6. n < Len(list) /\ list[n + 1] = r /\ \A k \in 1 .. n : k \in 1 .. at - 1
            BY <1>1, <1>4, <3>1
        <3>7. Tiled(h, n + 1, start, page + NPages(r))'
            <4>1. /\ handle[h].list_head \in Seq(Regions) /\ n < Len(handle[h].list_head)
                  /\ handle'[h].list_head = handle[h].list_head
                  /\ r = handle[h].list_head[n + 1]
                BY <1>4, <3>6 DEF list
            <4>2. \A k \in 1 .. n :
                     region'[handle[h].list_head[k]] = region[handle[h].list_head[k]]
                BY <1>8, <3>6 DEF list
            <4>3. region'[r].start_page = page /\ region'[r].end_page = page + NPages(r) - 1
                BY <3>1, <3>2
            <4> QED
                BY <3>4, <3>5, <4>1, <4>2, <4>3, TiledExtended
        <3> QED
            BY <3>3, <3>7
    <2>5. ASSUME NEW g \in Handles
          PROVE  /\ alloc'[g].phase = "loop" =>
                        Tiled(g, alloc[g].at - 1, alloc[g].start, alloc[g].pgno)'
                 /\ alloc'[g].phase = "done" /\ alloc'[g].pgno # NULL /\ handle'[g].list_head # <<>>
                        => Tiled(g, Len(handle[g].list_head), alloc[g].start, alloc[g].pgno)'
        <3>1. CASE g = h
            BY <1>2, <2>4, <3>1 DEF HasFailed, HasSet
        <3>2. CASE g # h
            BY <1>0, <1>4, <1>7, <2>1, <2>2, <2>3, <3>2 DEF TilesToReturn
        <3> QED
            BY <3>1, <3>2
    <2> QED
        BY <2>5 DEF TilesToReturn
<1>12. BasesSet'
    <2>1. ASSUME NEW g \in Handles, NEW q \in Regions, BaseSet(g, q), q # r
          PROVE  BaseSet(g, q)'
        <3>1. /\ region'[q] = region[q] /\ region[q].start_page \in Nat /\ NPages(q) \in Nat
            BY <1>0, <1>6, <2>1, PagesOfRegion DEF RestTyped
        <3>2. \A first, n \in Nat : Mapped(g, first, n) => Mapped(g, first, n)'
            <4>1. CASE g = h
                BY <1>3, <4>1 DEF OnlyMaps
            <4>2. CASE g # h
                <5>1. handle'[g] = handle[g]
                    BY <1>3, <4>2 DEF OnlyMaps
                <5> QED
                    BY <5>1 DEF Mapped
            <4> QED
                BY <4>1, <4>2
        <3> QED
            BY <2>1, <3>1, <3>2 DEF BaseSet
    <2>2. BaseSet(h, r)'
        <3>1. CASE base = NULL
            BY <1>2, <3>1 DEF HasFailed, BaseSet
        <3>2. CASE base # NULL /\ NPages(r) > 0
            <4>1. NPages(r) > 0
                BY <3>2, PagesOfRegion
            <4>2. base = pgno * PageSize /\ NowMapped(h, pgno, NPages(r)) /\ pgno + NPages(r) <= PageCount
                BY <1>3, <3>2, <4>1 DEF GotVme
            <4>3. /\ region'[r].base = base + PageOffset(r) /\ region'[r].start_page = pgno
                  /\ region'[r].end_page = pgno + NPages(r) - 1
                BY <1>2, <3>2 DEF HasSet, pgno
            <4>4. pgno + NPages(r) - 1 < PageCount
                BY <1>1, <4>2, LibraryAssumption
            <4> QED
                BY <4>2, <4>3, <4>4 DEF BaseSet, Mapped, NowMapped
        <3>3. CASE ~(NPages(r) > 0)
            BY <3>3 DEF BaseSet
        <3> QED
            BY <3>1, <3>2, <3>3
    <2>3. ASSUME NEW g \in Handles, NEW k \in DOMAIN handle[g].list_head
          PROVE  BaseSet(g, handle[g].list_head[k])'
        <3> DEFINE q == handle[g].list_head[k]
        <3>1. q \in Regions /\ BaseSet(g, q) /\ handle'[g].list_head[k] = q
            BY <1>0, <1>4, <1>5 DEF BasesSet
        <3>2. CASE q = r
            <4>1. g = h
                BY <1>5, <3>2
            <4> QED
                BY <2>2, <3>1, <3>2, <4>1 DEF BaseSet
        <3>3. CASE q # r
            BY <2>1, <3>1, <3>3 DEF BaseSet
        <3> QED
            BY <3>2, <3>3
    <2> QED
        BY <1>4, <2>3 DEF BasesSet
<1>13. ReliedSet'
    \* what was relied on before, on other pages than these
    <2>1. ASSUME NEW g \in Handles, NEW q \in relied[g], q # r,
                 handle[g].crateno = c => RegionPages(q) \cap PagesAt(h, r) = {}
          PROVE  /\ InList(g, q)' /\ region'[q].base # NULL
                 /\ NPages(q) > 0 => Described(handle[g].crateno, q)'
        <3>1. /\ InList(g, q) /\ region[q].base # NULL
              /\ NPages(q) > 0 => Described(handle[g].crateno, q)
            BY <1>0 DEF ReliedSet
        <3>2. q \in Regions /\ region'[q] = region[q] /\ BaseSet(g, q)
            BY <1>0, <1>5, <1>6, <2>1, <3>1 DEF InList, BasesSet
        <3>3. InList(g, q)'
            BY <1>4, <3>1 DEF InList
        <3>4. ASSUME NPages(q) > 0 PROVE Described(handle[g].crateno, q)'
            BY <1>0, <1>3, <1>4, <2>1, <3>2, <3>4, DescribedKept DEF PagesAt, c, pgno
        <3> QED
            BY <3>1, <3>2, <3>3, <3>4
    <2>2. \A q \in relied[h] : /\ q # r
                               /\ RegionPages(q) \cap PagesAt(h, r) = {}
        <3> TAKE q \in relied[h]
        <3>1. PICK k \in 1 .. at - 1 : list[k] = q /\ region[q].end_page < pgno
            BY <1>0, <1>1 DEF Behind, list, at, pgno
        <3>2. q # r /\ q \in Regions
            BY <1>0, <1>8, <3>1 DEF RestTyped
        <3>3. region[q].end_page \in Int /\ region[q].start_page \in Int
            BY <1>0, <3>2 DEF RestTyped
        <3>4. \A p \in RegionPages(q) : p < pgno /\ p \in Int
            BY <1>1, <3>1, <3>3 DEF RegionPages
        <3>5. \A p \in PagesAt(h, r) : p >= pgno
            BY <1>1 DEF PagesAt, pgno
        <3> QED
            BY <1>1, <3>2, <3>4, <3>5
    <2>3. ASSUME base # NULL
          PROVE  /\ InList(h, r)' /\ region'[r].base # NULL
                 /\ NPages(r) > 0 => Described(handle[h].crateno, r)'
        <3>1. /\ region'[r].base = base + PageOffset(r) /\ region'[r].start_page = pgno
              /\ region'[r].end_page = pgno + NPages(r) - 1
              /\ base \in Nat /\ pgno + NPages(r) <= PageCount
            BY <1>2, <1>3, <2>3 DEF HasSet, GotVme, pgno
        <3>2. region'[r].base # NULL
            BY <1>1, <3>1 DEF NULL
        <3>3. InList(h, r)'
            BY <1>1, <1>4 DEF InList, list
        <3>4. pgno .. pgno + NPages(r) - 1 \subseteq Pages
            BY <1>1, <3>1, LibraryAssumption DEF Pages
        <3>5. \A p \in pgno .. pgno + NPages(r) - 1 :
                 pd'[c][p] = V120_PD(vme_addr[r] + (p - pgno) * PageSize, config[r])
            BY <1>3, <3>4 DEF Configured
        <3>6. handle'[h].crateno = c
            BY <1>4 DEF c
        <3>7. Described(handle[h].crateno, r)'
            BY <3>1, <3>5, <3>6 DEF Described, RegionPages
        <3> QED
            BY <3>2, <3>3, <3>7
    <2>4. ASSUME NEW g \in Handles, NEW q \in relied'[g]
          PROVE  /\ InList(g, q)' /\ region'[q].base # NULL
                 /\ NPages(q) > 0 => Described(handle[g].crateno, q)'
        <3>1. CASE g # h
            <4>1. /\ q \in relied[g]
                  /\ handle[g].crateno = c => RegionPages(q) \cap PagesAt(h, r) = {}
                BY <1>2, <2>4, <3>1 DEF Framed, c
            <4>2. q # r
                BY <1>0, <1>5, <3>1, <4>1 DEF ReliedSet, InList
            <4> QED
                BY <2>1, <4>1, <4>2
        <3>2. CASE g = h /\ q \in relied[h]
            BY <2>1, <2>2, <3>2
        <3>3. CASE g = h /\ q \notin relied[h]
            <4>1. base # NULL /\ q = r
                BY <1>2, <2>4, <3>3 DEF HasFailed, HasSet
            <4> QED
                BY <2>3, <3>3, <4>1
        <3> QED
            BY <3>1, <3>2, <3>3
    <2> QED
        BY <2>4 DEF ReliedSet
<1> QED
    BY <1>9, <1>10, <1>11, <1>12, <1>13 DEF Lists, SetUp

-------------------------------------------------------------------------------
(***************************************************************************)
(* The invariant                                                           *)
(***************************************************************************)
\* v120_open begins with an empty list and relies on nothing.
LEMMA OpenKeeps ==
    ASSUME LibInv, NEW h \in Handles, NEW c \in Crates, v120_open(h, c)
    PROVE  LibInv'
<1>0. HandlesTyped /\ ClosedEmpty /\ ~IsOpen(h)
    BY TypeParts DEF LibInv, Sound, v120_open
<1>1. Sound'
    BY SoundOpen DEF LibInv
<1>2. /\ UNCHANGED <<region, alloc, pd, relied>>
      /\ handle[h] = Closed /\ relied[h] = {}
      /\ handle'[h] \in {Closed, V120_HANDLE(c)}
      /\ \A g \in Handles : g # h => handle'[g] = handle[g]
    BY <1>0 DEF v120_open, Opened, OpenFailed, ClosedEmpty, HandlesTyped
<1>3. /\ handle[h].list_head = <<>> /\ handle'[h].list_head = <<>>
      /\ handle[h].mmlist = <<>> /\ DOMAIN handle[h].mmlist = {}
    <2>1. DOMAIN <<>> = {}
        OBVIOUS
    <2> QED
        BY <1>2, <2>1 DEF Closed, V120_HANDLE
<1>4. \A g \in Handles : handle'[g].list_head = handle[g].list_head
    BY <1>2, <1>3
<1>5. \A g \in Handles : \A first, n \in Nat : Mapped(g, first, n) => Mapped(g, first, n)'
    BY <1>2, <1>3 DEF Mapped
<1>6. \A g \in Handles : \A r \in relied'[g] :
         /\ r \in relied[g]
         /\ NPages(r) > 0 /\ Described(handle[g].crateno, r) => Described(handle[g].crateno, r)'
    <2>1. \A g \in Handles : \A r \in relied'[g] : r \in relied[g] /\ handle'[g] = handle[g]
        BY <1>2
    <2> QED
        BY <1>2, <2>1 DEF Described, RegionPages
<1> QED
    BY <1>1, <1>2, <1>4, <1>5, <1>6, ListsKept DEF LibInv

\* v120_irq_open and the DMA calls concern no region.
LEMMA OpenFileKeeps ==
    ASSUME LibInv, NEW h \in Handles, v120_irq_open(h) \/ v120_dma(h)
    PROVE  LibInv'
<1>0. HandlesTyped
    BY TypeParts DEF LibInv, Sound
<1>1. Sound'
    BY SoundOpenFile DEF LibInv
<1>a. PICK hd : /\ handle' = [handle EXCEPT ![h] = hd]
                /\ hd.crateno = handle[h].crateno /\ hd.list_head = handle[h].list_head
                /\ hd.mmlist = handle[h].mmlist
    <2>1. CASE v120_irq_open(h)
        <3> DEFINE hd == [handle[h] EXCEPT !.irq_open = TRUE]
        <3>1. handle' = [handle EXCEPT ![h] = hd]
            BY <2>1 DEF v120_irq_open
        <3>2. hd.crateno = handle[h].crateno /\ hd.list_head = handle[h].list_head
              /\ hd.mmlist = handle[h].mmlist
            BY <1>0 DEF HandlesTyped, HandleType
        <3> QED
            BY <3>1, <3>2
    <2>2. CASE v120_dma(h)
        <3> DEFINE hd == [handle[h] EXCEPT !.vme_open = TRUE]
        <3>1. handle' = [handle EXCEPT ![h] = hd]
            BY <2>2 DEF v120_dma
        <3>2. hd.crateno = handle[h].crateno /\ hd.list_head = handle[h].list_head
              /\ hd.mmlist = handle[h].mmlist
            BY <1>0 DEF HandlesTyped, HandleType
        <3> QED
            BY <3>1, <3>2
    <2> QED
        BY <2>1, <2>2
<1>2. /\ UNCHANGED <<region, alloc, pd, relied>>
      /\ \A g \in Handles : /\ handle'[g].list_head = handle[g].list_head
                            /\ handle'[g].mmlist = handle[g].mmlist
                            /\ handle'[g].crateno = handle[g].crateno
    BY <1>0, <1>a DEF v120_irq_open, v120_dma, HandlesTyped
<1>3. \A g \in Handles : \A first, n \in Nat : Mapped(g, first, n) => Mapped(g, first, n)'
    BY <1>2 DEF Mapped
<1>4. \A g \in Handles : \A r \in relied'[g] :
         /\ r \in relied[g]
         /\ NPages(r) > 0 /\ Described(handle[g].crateno, r) => Described(handle[g].crateno, r)'
    BY <1>2 DEF Described, RegionPages
<1> QED
    BY <1>1, <1>2, <1>3, <1>4, ListsKept DEF LibInv

\* v120_configure_page and v120_get_all_vme only add mappings; the first gives
\* up what was relied on in the page it writes.
LEMMA MapKeeps ==
    ASSUME LibInv, NEW h \in Handles,
           \/ \E idx, addr \in Nat, cfg \in Modes : v120_configure_page(h, idx, addr, cfg)
           \/ v120_get_all_vme(h)
    PROVE  LibInv'
<1>0. HandlesTyped /\ RestTyped /\ LibraryTypeOK
    BY TypeParts DEF LibInv, Sound
<1>1. Sound' /\ OnlyMaps(h) /\ UNCHANGED <<region, alloc>>
    BY SoundMap DEF LibInv
<1>2. \A g \in Handles : /\ handle'[g].list_head = handle[g].list_head
                         /\ handle'[g].crateno = handle[g].crateno
    BY <1>1 DEF OnlyMaps
<1>3. \A g \in Handles : \A first, n \in Nat : Mapped(g, first, n) => Mapped(g, first, n)'
    <2> SUFFICES ASSUME NEW g \in Handles
                 PROVE  \A first, n \in Nat : Mapped(g, first, n) => Mapped(g, first, n)'
        OBVIOUS
    <2>1. CASE g = h
        BY <1>1, <2>1 DEF OnlyMaps
    <2>2. CASE g # h
        <3>1. handle'[g] = handle[g]
            BY <1>1, <2>2 DEF OnlyMaps
        <3> QED
            BY <3>1 DEF Mapped
    <2> QED
        BY <2>1, <2>2
<1>4. ASSUME NEW g \in Handles, NEW r \in relied'[g]
      PROVE  /\ r \in relied[g]
             /\ NPages(r) > 0 /\ Described(handle[g].crateno, r) => Described(handle[g].crateno, r)'
    <2>1. CASE v120_get_all_vme(h)
        <3>1. UNCHANGED <<region, pd, relied>>
            BY <2>1 DEF v120_get_all_vme
        <3> QED
            BY <1>2, <1>4, <3>1 DEF Described, RegionPages
    <2>2. ASSUME NEW idx \in Nat, NEW addr \in Nat, NEW cfg \in Modes,
                 v120_configure_page(h, idx, addr, cfg)
          PROVE  /\ r \in relied[g]
                 /\ NPages(r) > 0 => Described(handle[g].crateno, r)'
        <3>1. /\ v120_configure_pd_range(handle[h].crateno, idx, addr, cfg, 1)
              /\ relied' = Reconfigured(handle[h].crateno, {idx}, relied) /\ IsOpen(h)
            BY <2>2 DEF v120_configure_page
        <3>3. handle[h].crateno \in Crates
            BY <1>0, <3>1 DEF HandlesTyped, HandleType, IsOpen
        <3>4. Configured(handle[h].crateno, idx, addr, cfg, 1)
            BY <1>0, <3>1, <3>3, ConfigureRange
        <3>5. /\ r \in relied[g]
              /\ handle[g].crateno = handle[h].crateno => RegionPages(r) \cap {idx} = {}
            BY <1>4, <3>1 DEF Reconfigured
        <3>6. idx .. idx + 1 - 1 = {idx}
            OBVIOUS
        <3> QED
            BY <1>1, <1>2, <3>4, <3>5, <3>6, DescribedKept
    <2> QED
        BY <2>1, <2>2
<1> QED
    BY <1>1, <1>2, <1>3, <1>4, ListsKept DEF LibInv

\* v120_close, v120_next and v120_delete_vme_list empty the list.
LEMMA EmptyKeeps ==
    ASSUME LibInv, NEW h \in Handles,
           v120_close(h) \/ v120_next(h) \/ v120_delete_vme_list(h)
    PROVE  LibInv'
<1>0. HandlesTyped /\ RestTyped
    BY TypeParts DEF LibInv, Sound
<1>1. Sound'
    BY SoundClose, SoundNext, SoundList DEF LibInv
<1>2. PICK hd : handle' = [handle EXCEPT ![h] = hd] /\ hd.list_head = <<>>
    <2>0. Closed.list_head = <<>> /\ \A c : V120_HANDLE(c).list_head = <<>>
        BY DEF Closed, V120_HANDLE
    <2>1. CASE v120_close(h)
        <3>1. handle' = [handle EXCEPT ![h] = Closed]
            BY <2>1 DEF v120_close
        <3> QED
            BY <2>0, <3>1
    <2>2. CASE v120_next(h)
        <3>1. PICK hd \in {Closed} \cup {V120_HANDLE(c) : c \in Attached} :
                 handle' = [handle EXCEPT ![h] = hd]
            BY <2>2 DEF v120_next
        <3> QED
            BY <2>0, <3>1
    <2>3. CASE v120_delete_vme_list(h)
        <3> DEFINE hd == [handle[h] EXCEPT !.list_head = <<>>]
        <3>1. handle' = [handle EXCEPT ![h] = hd]
            BY <2>3 DEF v120_delete_vme_list
        <3>2. hd.list_head = <<>>
            BY <1>0 DEF HandlesTyped, HandleType
        <3> QED
            BY <3>1, <3>2
    <2> QED
        BY <2>1, <2>2, <2>3
<1>3. /\ UNCHANGED <<region, pd>>
      /\ alloc' = [alloc EXCEPT ![h] = Idle] /\ relied' = [relied EXCEPT ![h] = {}]
    BY DEF v120_close, v120_next, v120_delete_vme_list
<1>4. handle'[h].list_head = <<>> /\ \A g \in Handles : g # h => handle'[g] = handle[g]
    BY <1>0, <1>2 DEF HandlesTyped
<1>5. /\ relied'[h] = {} /\ alloc'[h].phase = "idle"
      /\ \A g \in Handles : g # h => relied'[g] = relied[g] /\ alloc'[g] = alloc[g]
    BY <1>0, <1>3 DEF RestTyped, Idle
<1> QED
    BY <1>1, <1>3, <1>4, <1>5, ListsEmptied DEF LibInv

\* The invariant of the library: true at first, and kept by every call.
LEMMA InvInit == LibraryInit => LibInv
BY SoundInit, ListsInit DEF LibInv

\* v120_add_vme_region keeps the invariant.
LEMMA AddKeeps ==
    ASSUME LibInv, NEW h \in Handles, NEW r \in Regions, v120_add_vme_region(h, r)
    PROVE  LibInv'
<1>1. Sound'
    BY SoundList DEF LibInv
<1> QED
    BY <1>1, ListsAdd DEF LibInv

\* The entry of v120_allocate_vme keeps it.
LEMMA AllocateKeeps ==
    ASSUME LibInv, NEW h \in Handles, NEW start \in Nat, v120_allocate_vme(h, start)
    PROVE  LibInv'
BY SoundAllocate, ListsAllocate DEF LibInv

\* Each turn of its loop keeps it, whether the mapping succeeds or fails.
LEMMA RegionKeeps ==
    ASSUME LibInv, NEW h \in Handles, AllocateRegion(h)
    PROVE  LibInv'
<1>1. Sound
    BY DEF LibInv
<1>2. PICK r \in Regions, base \in Bases : Iteration(h, r, base)
    BY <1>1, AnIteration
<1> QED
    BY <1>1, <1>2, SoundRegion, ListsRegion DEF LibInv

\* Its return keeps it.
LEMMA ReturnKeeps ==
    ASSUME LibInv, NEW h \in Handles, AllocateReturn(h)
    PROVE  LibInv'
BY SoundReturn, ListsReturn DEF LibInv

\* So does a step that is not the library's.
LEMMA InvStutter ==
    ASSUME LibInv, UNCHANGED library
    PROVE  LibInv'
<1>1. /\ handle' = handle /\ region' = region /\ alloc' = alloc /\ pd' = pd
      /\ config_regs' = config_regs /\ files' = files /\ maps' = maps /\ relied' = relied
    BY DEF library
<1>2. Sound'
    BY <1>1 DEF LibInv, Sound, LibraryTypeOK, Descriptor, NothingLeaks, LoopSane, ClosedEmpty,
                IsOpen
<1>3. \A g \in Handles : \A first, n \in Nat : Mapped(g, first, n) => Mapped(g, first, n)'
    BY <1>1 DEF Mapped
<1>4. \A g \in Handles : \A r \in relied'[g] :
         /\ r \in relied[g]
         /\ NPages(r) > 0 /\ Described(handle[g].crateno, r) => Described(handle[g].crateno, r)'
    BY <1>1 DEF Described, RegionPages
<1> QED
    BY <1>1, <1>2, <1>3, <1>4, ListsKept DEF LibInv

-------------------------------------------------------------------------------
(***************************************************************************)
(* What a program may rely on, from the invariant                          *)
(***************************************************************************)
\* Every byte of a region lies in its pages, up to its length; a region that does
\* not end with a page has some bytes to spare.
OnItsPages(r, i) == PageOffset(r) + i < NPages(r) * PageSize

LEMMA BytesOnPages ==
    ASSUME NEW r \in Regions, NEW i \in 0 .. len[r] - 1
    PROVE  i \in Nat /\ OnItsPages(r, i)
<1>1. PageSize \in Nat /\ PageSize # 0 /\ len[r] \in Nat
    BY LibraryAssumption
<1>2. /\ PageOffset(r) \in 0 .. PageSize - 1 /\ NPages(r) \in Nat
      /\ (PageOffset(r) + i) \div PageSize \in 0 .. NPages(r) - 1
    BY PagesOfRegion
<1> DEFINE x == PageOffset(r) + i
           o == x \div PageSize
<1>3. x \in Nat /\ i \in Nat
    BY <1>1, <1>2
<1>4. o \in Nat /\ x % PageSize \in 0 .. PageSize - 1 /\ x = PageSize * o + (x % PageSize)
    BY <1>1, <1>3, Division
<1>5. o \in 0 .. NPages(r) - 1
    BY <1>2
<1> HIDE DEF x, o
<1>6. x < (o + 1) * PageSize /\ o + 1 <= NPages(r)
    BY <1>1, <1>2, <1>3, <1>4, <1>5
<1>7. (o + 1) * PageSize <= NPages(r) * PageSize
    BY <1>1, <1>2, <1>4, <1>6
<1>8. x < NPages(r) * PageSize
    BY <1>1, <1>2, <1>3, <1>4, <1>6, <1>7
<1> QED
    BY <1>3, <1>8 DEF OnItsPages, x

\* Byte i of a region whose base pointer is set lies in the page of its address.
LEMMA BytePages ==
    ASSUME LibraryTypeOK, NEW h, NEW r \in Regions, BaseSet(h, r), region[r].base # NULL,
           NEW i \in Nat, OnItsPages(r, i)
    PROVE  LET o == (PageOffset(r) + i) \div PageSize
           IN  /\ o \in 0 .. NPages(r) - 1
               /\ PageOf(r, i) = region[r].start_page + o
               /\ ByteOf(r, i) = (PageOffset(r) + i) % PageSize
               /\ PageOf(r, i) \in RegionPages(r)
               /\ InMapping(h, PageOf(r, i))
<1> DEFINE o == (PageOffset(r) + i) \div PageSize
           b == (PageOffset(r) + i) % PageSize
           start == region[r].start_page
<1>1. /\ PageSize \in Nat /\ PageSize # 0 /\ PageCount \in Nat /\ start \in Nat /\ i \in Nat
    <2>1. PageSize \in Nat /\ PageSize # 0 /\ PageCount \in Nat
        BY LibraryAssumption
    <2>2. start \in Nat
        BY DEF LibraryTypeOK
    <2> QED
        BY <2>1, <2>2
<1>2. PageOffset(r) \in Nat /\ NPages(r) \in Nat /\ o \in 0 .. NPages(r) - 1 /\ NPages(r) > 0
    <2>1. PageOffset(r) \in 0 .. PageSize - 1 /\ NPages(r) \in Nat
        BY PagesOfRegion
    <2>2. PageOffset(r) + i \in Nat /\ PageOffset(r) \in Nat
        BY <1>1, <2>1
    <2>3. o \in Nat /\ PageSize * o <= PageOffset(r) + i
        BY <1>1, <2>2, DivisionBounds
    <2>4. PageSize * o < PageSize * NPages(r)
        BY <1>1, <2>1, <2>2, <2>3 DEF OnItsPages
    <2>5. o < NPages(r)
        BY <1>1, <2>1, <2>3, <2>4
    <2> QED
        BY <2>1, <2>2, <2>3, <2>5
<1>3. PageOffset(r) + i \in Nat
    BY <1>1, <1>2
<1> DEFINE x == PageOffset(r) + i
<1>4. b \in 0 .. PageSize - 1 /\ o \in Nat /\ x = PageSize * o + b
    BY <1>1, <1>3, Division
<1>5. /\ region[r].base = start * PageSize + PageOffset(r)
      /\ region[r].end_page = start + NPages(r) - 1
      /\ start + NPages(r) - 1 < PageCount /\ Mapped(h, start, NPages(r))
    BY <1>1, <1>2 DEF BaseSet
<1> HIDE DEF o, b, start
<1>6. region[r].base + i = (start + o) * PageSize + b
    <2>1. region[r].base + i = start * PageSize + x
        BY <1>1, <1>2, <1>5
    <2>2. start * PageSize + (PageSize * o + b) = (start + o) * PageSize + b
        BY <1>1, <1>4
    <2> QED
        BY <1>4, <2>1, <2>2
<1>7. (region[r].base + i) \div PageSize = start + o /\ (region[r].base + i) % PageSize = b
    <2>1. start + o \in Nat /\ b \in Nat /\ b < PageSize
        BY <1>1, <1>4
    <2>2. /\ ((start + o) * PageSize + b) \div PageSize = start + o
          /\ ((start + o) * PageSize + b) % PageSize = b
        BY <1>1, <2>1, DivisionUnique
    <2> QED
        BY <1>6, <2>2
<1>8. start + o \in start .. start + NPages(r) - 1 /\ start + o \in Pages
    BY <1>1, <1>2, <1>5 DEF Pages
<1>9. InMapping(h, start + o)
    BY <1>5, <1>8 DEF InMapping, Mapped
<1> QED
    BY <1>2, <1>5, <1>7, <1>8, <1>9 DEF PageOf, ByteOf, RegionPages, o, b, start

\* Under the invariant every base pointer that is set points into mapped pages.
LEMMA BasesMapped == LibInv => BasesAreMapped
<1> SUFFICES ASSUME LibInv, NEW h \in Handles, NEW k \in DOMAIN handle[h].list_head,
                    NEW r, r = handle[h].list_head[k], region[r].base # NULL,
                    NEW i \in 0 .. len[r] - 1
             PROVE  InMapping(h, PageOf(r, i))
    BY DEF BasesAreMapped
<1>1. LibraryTypeOK /\ r \in Regions /\ BaseSet(h, r)
    BY DEF LibInv, Sound, SetUp, BasesSet, LibraryTypeOK
<1>2. i \in Nat /\ OnItsPages(r, i)
    BY <1>1, BytesOnPages
<1> QED
    BY <1>1, <1>2, BytePages

\* Under the invariant every byte of the pages of a region that is relied on is
\* mapped, and its page's descriptor leads to its address.
LEMMA PagesReach ==
    ASSUME LibInv, NEW h \in Handles, NEW r \in relied[h], NEW i \in Nat, OnItsPages(r, i)
    PROVE  InMapping(h, PageOf(r, i)) /\ Reaches(h, r, i)
<1> DEFINE o == (PageOffset(r) + i) \div PageSize
           b == (PageOffset(r) + i) % PageSize
           start == region[r].start_page
           c == handle[h].crateno
<1>1. LibraryTypeOK /\ InList(h, r) /\ region[r].base # NULL
    BY DEF LibInv, Sound, SetUp, ReliedSet
<1>2. r \in Regions /\ BaseSet(h, r)
    BY <1>1 DEF LibInv, SetUp, BasesSet, InList, LibraryTypeOK
<1>3. /\ PageSize \in Nat /\ PageSize # 0 /\ vme_addr[r] \in Nat /\ len[r] \in Nat
    BY <1>2, LibraryAssumption
<1>4. /\ o \in 0 .. NPages(r) - 1 /\ PageOf(r, i) = start + o /\ ByteOf(r, i) = b
      /\ PageOf(r, i) \in RegionPages(r) /\ InMapping(h, PageOf(r, i))
    BY <1>1, <1>2, BytePages
<1>5. /\ NPages(r) > 0 /\ i \in Nat /\ start \in Nat
    BY <1>1, <1>2, <1>3, <1>4, PagesOfRegion DEF LibraryTypeOK
<1>6. pd[c][start + o] = V120_PD(vme_addr[r] + (start + o - start) * PageSize, config[r])
    BY <1>4, <1>5 DEF LibInv, SetUp, ReliedSet, Described
<1> DEFINE q == vme_addr[r] \div PageSize
           off == PageOffset(r)
<1>7. q \in Nat /\ off \in 0 .. PageSize - 1 /\ vme_addr[r] = PageSize * q + off
    BY <1>3, Division DEF PageOffset
<1>8. /\ off + i \in Nat /\ o \in Nat /\ b \in 0 .. PageSize - 1 /\ off + i = PageSize * o + b
    <2>1. off + i \in Nat
        BY <1>3, <1>5, <1>7
    <2> QED
        BY <1>3, <2>1, Division
<1> HIDE DEF o, b, start, c, q, off
<1>9. (vme_addr[r] + (start + o - start) * PageSize) \div PageSize = q + o
    <2>1. start + o - start = o
        BY <1>5, <1>8
    <2>2. vme_addr[r] + o * PageSize = (q + o) * PageSize + off
        BY <1>3, <1>7, <1>8
    <2>3. q + o \in Nat /\ off \in Nat /\ off < PageSize
        BY <1>3, <1>7, <1>8
    <2>4. ((q + o) * PageSize + off) \div PageSize = q + o
        BY <1>3, <2>3, DivisionUnique
    <2> QED
        BY <2>1, <2>2, <2>4
<1>10. (q + o) * PageSize + b = vme_addr[r] + i
    <2>1. (q + o) * PageSize + b = PageSize * q + (PageSize * o + b)
        BY <1>3, <1>7, <1>8
    <2> QED
        BY <1>3, <1>5, <1>7, <1>8, <2>1
<1>11. pd[c][start + o].page = q + o /\ pd[c][start + o].config = config[r]
    BY <1>6, <1>9 DEF V120_PD
<1> QED
    BY <1>4, <1>10, <1>11 DEF Reaches, c

\* In particular every byte up to its length.
LEMMA RegionsReach == LibInv => RegionsReachTheirCard
<1> SUFFICES ASSUME LibInv, NEW h \in Handles, NEW r \in relied[h],
                    NEW i \in 0 .. len[r] - 1
             PROVE  InMapping(h, PageOf(r, i)) /\ Reaches(h, r, i)
    BY DEF RegionsReachTheirCard
<1>1. r \in Regions
    BY DEF LibInv, Sound, LibraryTypeOK
<1>2. i \in Nat /\ OnItsPages(r, i)
    BY <1>1, BytesOnPages
<1> QED
    BY <1>2, PagesReach

\* A turn of v120_allocate_vme that writes past the descriptors is the last one, and
\* the call returns -1.
LEMMA OverrunFails ==
    ASSUME LibInv, NEW h \in Handles, AllocateRegion(h), config_regs' # config_regs
    PROVE  alloc[h].phase = "loop" /\ alloc'[h].phase = "done" /\ alloc'[h].pgno = NULL
<1>0. Sound
    BY DEF LibInv
<1>1. PICK r \in Regions, base \in Bases : Iteration(h, r, base)
    BY <1>0, AnIteration
<1>2. alloc[h].pgno + NPages(r) > PageCount
    BY <1>1 DEF Iteration, IterationConfigures, Configured
<1>3. base # NULL => alloc[h].pgno + NPages(r) <= PageCount
    BY <1>1 DEF Iteration, IterationMaps, GotVme
<1>4. base = NULL
    <2>1. alloc[h].pgno \in Nat /\ NPages(r) \in Nat /\ PageCount \in Nat
        BY <1>1, LibraryAssumption DEF Iteration, AtRegion
    <2> QED
        BY <1>2, <1>3, <2>1
<1>5. HasFailed(h, r) /\ alloc[h].phase = "loop"
    BY <1>0, <1>1, <1>4, IterationFrame DEF Iteration, AtRegion
<1> QED
    BY <1>5 DEF HasFailed
===============================================================================
