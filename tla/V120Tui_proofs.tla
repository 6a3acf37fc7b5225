----------------------------- MODULE V120Tui_proofs ----------------------------
(***************************************************************************)
(* Proofs about the pages and commands of v120_tui, for every number of    *)
(* crates, cards and pages, every script and whatever the user types.      *)
(***************************************************************************)
EXTENDS V120Tui, LibV120_proofs, Ascending_proofs

(***************************************************************************)
(* The inductive invariant.  PagesTyped and ControlTyped are the types,    *)
(* PagesSound keeps the list of pages whole, and CardsKept says that what  *)
(* the last allocation of a crate set up is still as it left it.           *)
(***************************************************************************)
Frames == [rest : Seq(Command), pbuf : Buffers]
LiveBuffers == {b \in Buffers : kind[b] # "free"}

PagesTyped ==
    /\ bufs \in Seq(Buffers)
    /\ kind \in [Buffers -> {"free", "list", "config", "vme", "dummy"}]
    /\ shows \in [Buffers -> Regions \cup {NULL}]
    /\ cpos \in Nat
    /\ {g_buffer, g_lastbuf} \subseteq Buffers \cup {NULL}

ControlTyped ==
    /\ scripts \in Seq(Frames) /\ Len(scripts) < NTOKENS
    /\ pc \in {"openallcrates", "key", "add_vme", "bufferclean", "crateclean"}
    /\ adding \in [crate : Crates \cup {NULL}, region : Regions \cup {NULL}]
    /\ pc = "add_vme" => adding.crate \in Crates /\ adding.region \in Regions
    /\ unopened \subseteq Crates
    /\ status \in {"running", "exited", "fault", "undefined"}

\* The list holds each page there is exactly once.
Listed == IsInjective(bufs) /\ ToSet(bufs) = LiveBuffers

\* While the user works, the buffer list is in front, and what the pointers and the
\* cursor point to is, or was, a page.
Browsing ==
    /\ Len(bufs) > cpos
    /\ kind[bufs[1]] = "list"
    /\ g_buffer \in LiveBuffers
    /\ g_lastbuf \in Buffers

PagesSound ==
    status = "running" =>
        /\ Listed
        /\ pc \in {"key", "add_vme"} => Browsing
        /\ pc = "openallcrates" =>
              Cardinality(LiveBuffers) + Cardinality(unopened) <= Cardinality(Crates)

\* A crate is opened through its own handle only, and every region that the last
\* allocation of the crate has reached can be relied on.
CardsKept ==
    \A c \in Crates :
        /\ handle[c].crateno \in {c, NULL}
        /\ \A k \in DOMAIN handle[c].list_head :
              \/ alloc[c].phase = "loop" /\ k < alloc[c].at
              \/ alloc[c].phase = "done" /\ alloc[c].pgno # NULL
              => handle[c].list_head[k] \in relied[c]

IInv == LibInv /\ PagesTyped /\ ControlTyped /\ PagesSound /\ CardsKept

-------------------------------------------------------------------------------
(***************************************************************************)
(* The list of pages                                                       *)
(***************************************************************************)
\* Exchanging the first two entries of a list leaves the others where they are.
LEMMA SwapFirst ==
    ASSUME NEW S, NEW s \in Seq(S), Len(s) >= 2,
           NEW new, new = <<s[2], s[1]>> \o SubSeq(s, 3, Len(s))
    PROVE  /\ new \in Seq(S) /\ Len(new) = Len(s)
           /\ new[1] = s[2] /\ new[2] = s[1]
           /\ \A k \in 3 .. Len(s) : new[k] = s[k]
<1> DEFINE n == Len(s)
           front == <<s[2], s[1]>>
           back == SubSeq(s, 3, n)
<1>1. n \in Nat /\ \A k \in 1 .. n : s[k] \in S
    BY LenProperties, ElementOfSeq
<1>2. front \in Seq(S) /\ Len(front) = 2 /\ front[1] = s[2] /\ front[2] = s[1]
    <2>1. s[1] \in S /\ s[2] \in S
        BY <1>1
    <2> QED
        BY <2>1
<1>3. /\ back \in Seq(S) /\ Len(back) = n - 2
      /\ \A k \in 1 .. n - 2 : back[k] = s[k + 2]
    <2>1. 3 \in Int /\ n \in Int /\ \A k \in 3 .. n : s[k] \in S
        BY <1>1
    <2>2. /\ back \in Seq(S)
          /\ Len(back) = IF 3 <= n THEN n - 3 + 1 ELSE 0
          /\ \A k \in 1 .. n - 3 + 1 : back[k] = s[3 + k - 1]
        BY <2>1, SubSeqProperties
    <2> HIDE DEF back, n
    <2>3. n >= 2
        BY DEF n
    <2>4. ASSUME NEW k \in 1 .. n - 2 PROVE back[k] = s[k + 2]
        <3>1. k \in 1 .. n - 3 + 1 /\ 3 + k - 1 = k + 2
            BY <1>1
        <3> QED
            BY <2>2, <3>1
    <2> QED
        BY <1>1, <2>2, <2>3, <2>4
<1>4. new = front \o back
    OBVIOUS
<1>5. n >= 2
    OBVIOUS
<1> HIDE DEF front, back, n
<1>6. /\ front \o back \in Seq(S)
      /\ Len(front \o back) = Len(front) + Len(back)
      /\ \A k \in 1 .. (Len(front) + Len(back)) :
            (front \o back)[k] = IF k <= Len(front) THEN front[k] ELSE back[k - Len(front)]
    <2>1. front \in Seq(S) /\ back \in Seq(S)
        BY <1>2, <1>3
    <2> QED
        BY <2>1, ConcatProperties
<1>7. ASSUME NEW k \in 3 .. n PROVE new[k] = s[k]
    <2>1. k \in 1 .. (Len(front) + Len(back)) /\ ~(k <= Len(front))
        BY <1>1, <1>2, <1>3
    <2>2. new[k] = back[k - 2]
        BY <1>2, <1>4, <1>6, <2>1
    <2>3. k - 2 \in 1 .. n - 2 /\ (k - 2) + 2 = k
        BY <1>1
    <2> QED
        BY <1>3, <2>2, <2>3
<1>8. new[1] = s[2] /\ new[2] = s[1]
    <2>1. 1 \in 1 .. (Len(front) + Len(back)) /\ 2 \in 1 .. (Len(front) + Len(back))
        BY <1>1, <1>2, <1>3, <1>5
    <2>2. new[1] = front[1] /\ new[2] = front[2]
        BY <1>2, <1>4, <1>6, <2>1
    <2> QED
        BY <1>2, <2>2
<1>9. new \in Seq(S) /\ Len(new) = n
    BY <1>1, <1>2, <1>3, <1>4, <1>6
<1> QED
    BY <1>7, <1>8, <1>9 DEF n

\* buffernew puts a page at the front of the list, where nothing was.
LEMMA PutInFront ==
    ASSUME NEW list \in Seq(Buffers), IsInjective(list), NEW b \in Buffers, b \notin ToSet(list)
    PROVE  LET added == <<b>> \o list
           IN  /\ added \in Seq(Buffers) /\ IsInjective(added)
               /\ ToSet(added) = ToSet(list) \cup {b}
               /\ Len(added) = Len(list) + 1
               /\ added[1] = b
               /\ \A k \in 1 .. Len(list) : added[k + 1] = list[k]
<1> DEFINE added == <<b>> \o list
           n == Len(list)
<1>1. /\ n \in Nat /\ DOMAIN list = 1 .. n
      /\ added \in Seq(Buffers) /\ Len(added) = n + 1 /\ added[1] = b
      /\ \A k \in DOMAIN list : added[k + 1] = list[k]
    BY Prepend
<1>2. \A k \in 1 .. n : list[k] # b
    BY <1>1 DEF ToSet
<1>3. \A j, k \in 1 .. n : list[j] = list[k] => j = k
    BY <1>1 DEF IsInjective
<1>4. DOMAIN added = 1 .. n + 1
    BY <1>1
<1> HIDE DEF added, n
<1>5. ASSUME NEW k \in 1 .. n + 1, k # 1 PROVE k - 1 \in 1 .. n /\ added[k] = list[k - 1]
    <2>1. k - 1 \in 1 .. n /\ (k - 1) + 1 = k
        BY <1>1, <1>5
    <2> QED
        BY <1>1, <2>1
<1>6. IsInjective(added)
    <2> SUFFICES ASSUME NEW j \in 1 .. n + 1, NEW k \in 1 .. n + 1, added[j] = added[k]
                 PROVE  j = k
        BY <1>4 DEF IsInjective
    <2>1. CASE j = 1 \/ k = 1
        BY <1>1, <1>2, <1>5, <2>1
    <2>2. CASE j # 1 /\ k # 1
        <3>1. j - 1 \in 1 .. n /\ k - 1 \in 1 .. n /\ list[j - 1] = list[k - 1]
            BY <1>5, <2>2
        <3>2. j - 1 = k - 1
            BY <1>3, <3>1
        <3> QED
            BY <3>2, <1>1
    <2> QED
        BY <2>1, <2>2
<1>7. ToSet(added) = ToSet(list) \cup {b}
    <2>1. ASSUME NEW x \in ToSet(added) PROVE x \in ToSet(list) \cup {b}
        <3>1. PICK k \in 1 .. n + 1 : x = added[k]
            BY <1>4 DEF ToSet
        <3> QED
            BY <1>1, <1>5, <3>1 DEF ToSet
    <2>2. ASSUME NEW x \in ToSet(list) PROVE x \in ToSet(added)
        <3>1. PICK k \in 1 .. n : x = list[k]
            BY <1>1 DEF ToSet
        <3>2. k + 1 \in 1 .. n + 1 /\ x = added[k + 1]
            BY <1>1, <3>1
        <3> QED
            BY <1>4, <3>2 DEF ToSet
    <2>3. b \in ToSet(added)
        <3>1. 1 \in 1 .. n + 1
            BY <1>1
        <3> QED
            BY <1>1, <1>4, <3>1 DEF ToSet
    <2> QED
        BY <2>1, <2>2, <2>3
<1> QED
    BY <1>1, <1>6, <1>7 DEF added, n

\* A new page is listed once, and the page in front stays in front.
LEMMA Shuffled ==
    ASSUME NEW list \in Seq(Buffers), IsInjective(list), NEW b \in Buffers, b \notin ToSet(list),
           list # <<>>
    PROVE  LET new == buffershuffle(<<b>> \o list)
           IN  /\ new \in Seq(Buffers) /\ IsInjective(new)
               /\ ToSet(new) = ToSet(list) \cup {b}
               /\ Len(new) = Len(list) + 1
               /\ new[1] = list[1]
<1> DEFINE added == <<b>> \o list
           new == buffershuffle(added)
           n == Len(added)
<1>1. /\ added \in Seq(Buffers) /\ IsInjective(added)
      /\ ToSet(added) = ToSet(list) \cup {b}
      /\ n = Len(list) + 1
      /\ \A k \in 1 .. Len(list) : added[k + 1] = list[k]
    BY PutInFront
<1>2. Len(list) \in Nat /\ Len(list) > 0
    BY LenProperties, EmptySeq
<1>3. n \in Nat /\ n >= 2 /\ DOMAIN added = 1 .. n
    BY <1>1, <1>2
<1>4. added[2] = list[1]
    BY <1>1, <1>2
<1> HIDE DEF added
<1>5. new = <<added[2], added[1]>> \o SubSeq(added, 3, n)
    BY <1>3 DEF buffershuffle
<1> HIDE DEF new, n
<1>6. /\ new \in Seq(Buffers) /\ Len(new) = n
      /\ new[1] = added[2] /\ new[2] = added[1]
      /\ \A k \in 3 .. n : new[k] = added[k]
    BY <1>1, <1>3, <1>5, SwapFirst DEF n
<1> DEFINE from == [k \in 1 .. n |-> IF k = 1 THEN 2 ELSE IF k = 2 THEN 1 ELSE k]
<1>7. from \in [1 .. n -> 1 .. n] /\ \A k \in 1 .. n : from[from[k]] = k /\ new[k] = added[from[k]]
    <2>1. 1 \in 1 .. n /\ 2 \in 1 .. n
        BY <1>3
    <2>2. \A k \in 1 .. n : k = 1 \/ k = 2 \/ k \in 3 .. n
        BY <1>3
    <2> QED
        BY <1>6, <2>1, <2>2
<1>8. DOMAIN new = 1 .. n
    BY <1>6
<1> HIDE DEF from
<1>9. IsInjective(new)
    <2>1. \A j, k \in 1 .. n : from[j] = from[k] => j = k
        BY <1>7
    <2>2. \A j, k \in 1 .. n : added[j] = added[k] => j = k
        BY <1>1, <1>3 DEF IsInjective
    <2> QED
        BY <1>7, <1>8, <2>1, <2>2 DEF IsInjective
<1>10. ToSet(new) = ToSet(added)
    <2>1. ToSet(new) \subseteq ToSet(added)
        BY <1>3, <1>7, <1>8 DEF ToSet
    <2>2. ASSUME NEW x \in ToSet(added) PROVE x \in ToSet(new)
        <3>1. PICK k \in 1 .. n : x = added[k]
            BY <1>3 DEF ToSet
        <3>2. from[k] \in 1 .. n /\ new[from[k]] = x
            BY <1>7, <3>1
        <3> QED
            BY <1>8, <3>2 DEF ToSet
    <2> QED
        BY <2>1, <2>2
<1> QED
    BY <1>1, <1>4, <1>6, <1>9, <1>10 DEF new, added

\* A page taken off the list is not on it any more, and all others still are.
LEMMA TakenOff ==
    ASSUME NEW list \in Seq(Buffers), IsInjective(list), NEW i \in 1 .. Len(list)
    PROVE  LET rest == RemoveAt(list, i)
           IN  /\ rest \in Seq(Buffers) /\ IsInjective(rest)
               /\ ToSet(rest) = ToSet(list) \ {list[i]}
               /\ Len(rest) = Len(list) - 1
               /\ i # 1 => rest[1] = list[1]
<1> DEFINE rest == RemoveAt(list, i)
           n == Len(list)
<1>1. /\ n \in Nat /\ DOMAIN list = 1 .. n
      /\ rest \in Seq(Buffers) /\ Len(rest) = n - 1
      /\ \A j \in 1 .. (n - 1) : rest[j] = IF j < i THEN list[j] ELSE list[j + 1]
    BY RemoveAtProperties
<1>2. \A j, k \in 1 .. n : list[j] = list[k] => j = k
    BY <1>1 DEF IsInjective
<1>3. DOMAIN rest = 1 .. (n - 1)
    BY <1>1
<1> HIDE DEF rest
<1> DEFINE was(j) == IF j < i THEN j ELSE j + 1
<1>4. \A j \in 1 .. (n - 1) : was(j) \in 1 .. n /\ was(j) # i /\ rest[j] = list[was(j)]
    BY <1>1
<1>5. \A j, k \in 1 .. (n - 1) : was(j) = was(k) => j = k
    BY <1>1
<1>6. \A k \in 1 .. n : k # i => \E j \in 1 .. (n - 1) : was(j) = k
    <2> SUFFICES ASSUME NEW k \in 1 .. n, k # i PROVE \E j \in 1 .. (n - 1) : was(j) = k
        OBVIOUS
    <2>1. CASE k < i
        <3>1. k \in 1 .. (n - 1) /\ was(k) = k
            BY <1>1, <2>1
        <3> QED
            BY <3>1
    <2>2. CASE k > i
        <3>1. k - 1 \in 1 .. (n - 1) /\ was(k - 1) = k
            BY <1>1, <2>2
        <3> QED
            BY <3>1
    <2> QED
        BY <2>1, <2>2
<1> HIDE DEF was, n
<1>7. IsInjective(rest)
    BY <1>2, <1>3, <1>4, <1>5 DEF IsInjective
<1>8. ToSet(rest) = ToSet(list) \ {list[i]}
    <2>0. i \in 1 .. n
        BY DEF n
    <2>1. ASSUME NEW x \in ToSet(rest) PROVE x \in ToSet(list) \ {list[i]}
        <3>1. PICK j \in 1 .. (n - 1) : x = rest[j]
            BY <1>3 DEF ToSet
        <3> QED
            BY <1>1, <1>2, <1>4, <2>0, <3>1 DEF ToSet
    <2>2. ASSUME NEW x \in ToSet(list) \ {list[i]} PROVE x \in ToSet(rest)
        <3>1. PICK k \in 1 .. n : x = list[k]
            BY <1>1 DEF ToSet
        <3>2. PICK j \in 1 .. (n - 1) : was(j) = k
            BY <1>6, <2>2, <3>1
        <3> QED
            BY <1>3, <1>4, <3>1, <3>2 DEF ToSet
    <2> QED
        BY <2>1, <2>2
<1>9. ASSUME i # 1 PROVE rest[1] = list[1]
    <2>1. 1 \in 1 .. (n - 1) /\ 1 < i
        BY <1>1, <1>9 DEF n
    <2> QED
        BY <1>1, <2>1
<1> QED
    BY <1>1, <1>7, <1>8, <1>9 DEF rest, n

-------------------------------------------------------------------------------
(***************************************************************************)
(* Calls of libV120                                                        *)
(***************************************************************************)
\* What the program does with the handle of a crate.
CrateCall(c) ==
    \/ v120_open(c, c)
    \/ \E r \in Regions : v120_add_vme_region(c, r)
    \/ v120_allocate_vme(c, 0)
    \/ AllocateRegion(c)
    \/ AllocateReturn(c)
    \/ v120_close(c)

Kept(c) ==
    /\ handle[c].crateno \in {c, NULL}
    /\ \A k \in DOMAIN handle[c].list_head :
          \/ alloc[c].phase = "loop" /\ k < alloc[c].at
          \/ alloc[c].phase = "done" /\ alloc[c].pgno # NULL
          => handle[c].list_head[k] \in relied[c]

\* A turn of the loop of v120_allocate_vme makes one region more reliable, and takes
\* nothing from the other crates, whose pages are not those of this one.
LEMMA RegionKept ==
    ASSUME LibInv, CardsKept, NEW c \in Crates, AllocateRegion(c)
    PROVE  CardsKept'
<1>0. Sound /\ c \in Handles
    BY TuiAssumption DEF LibInv
<1>1. PICK r \in Regions, base \in Bases : Iteration(c, r, base)
    BY <1>0, AnIteration
<1>2. Framed(c, r) /\ IF base = NULL THEN HasFailed(c, r) ELSE HasSet(c, r, base)
    BY <1>0, <1>1, IterationFrame
<1>3. \A d \in Crates : /\ handle'[d].crateno = handle[d].crateno
                        /\ handle'[d].list_head = handle[d].list_head
    BY <1>1, TuiAssumption DEF Iteration, IterationMaps, GotVme, OnlyMaps
<1>4. handle[c].crateno = c
    BY <1>1 DEF Iteration, AtRegion, IsOpen, CardsKept
<1>5. ASSUME NEW d \in Crates, d # c PROVE relied'[d] = relied[d] /\ alloc'[d] = alloc[d]
    <2>1. d \in Handles /\ handle[d].crateno # c
        <3>1. d \in Handles /\ c # NULL
            BY TuiAssumption, LibraryAssumption DEF NULL
        <3>2. handle[d].crateno \in {d, NULL}
            BY DEF CardsKept
        <3> QED
            BY <1>5, <3>1, <3>2
    <2>2. relied'[d] = Reconfigured(c, PagesAt(c, r), relied)[d]
        BY <1>1, <1>4, <1>5, <2>1 DEF Iteration, IterationFails, IterationSets, Reconfigured
    <2>3. relied'[d] = {q \in relied[d] : handle[d].crateno = c
                                              => RegionPages(q) \cap PagesAt(c, r) = {}}
        BY <2>1, <2>2 DEF Reconfigured
    <2> QED
        BY <1>2, <1>5, <2>1, <2>3 DEF Framed
<1>6. Kept(c)'
    <2>1. ASSUME NEW k \in DOMAIN handle[c].list_head,
                 alloc'[c].phase = "loop" /\ k < alloc'[c].at
          PROVE  handle[c].list_head[k] \in relied'[c]
        <3>1. base # NULL /\ HasSet(c, r, base)
            BY <1>2, <2>1 DEF HasFailed
        <3>2. /\ alloc[c].phase = "loop" /\ alloc[c].at \in Nat
              /\ r = handle[c].list_head[alloc[c].at] /\ k \in Nat
            <4>1. handle[c].list_head \in Seq(Regions)
                BY <1>0 DEF Sound, LibraryTypeOK
            <4>2. DOMAIN handle[c].list_head = 1 .. Len(handle[c].list_head)
                  /\ Len(handle[c].list_head) \in Nat
                BY <4>1, LenProperties
            <4> QED
                BY <1>1, <2>1, <4>2 DEF Iteration, AtRegion
        <3>3. k < alloc[c].at \/ k = alloc[c].at
            BY <2>1, <3>1, <3>2 DEF HasSet
        <3> QED
            BY <3>1, <3>2, <3>3 DEF HasSet, CardsKept
    <2>2. ~(alloc'[c].phase = "done" /\ alloc'[c].pgno # NULL)
        BY <1>2 DEF HasFailed, HasSet
    <2> QED
        BY <1>3, <1>4, <2>1, <2>2 DEF Kept
<1>7. ASSUME NEW d \in Crates, d # c PROVE Kept(d)'
    BY <1>3, <1>5, <1>7 DEF Kept, CardsKept
<1> QED
    BY <1>6, <1>7 DEF Kept, CardsKept

\* The other calls change nothing of a crate but the one they are given.
LEMMA OthersKept ==
    ASSUME LibInv, CardsKept, NEW c \in Crates,
           handle' \in [Handles -> HandleType],
           \A d \in Crates : d # c => /\ handle'[d] = handle[d] /\ alloc'[d] = alloc[d]
                                      /\ relied'[d] = relied[d],
           Kept(c)'
    PROVE  CardsKept'
BY DEF Kept, CardsKept

\* Every call keeps the library's invariant and what is known of each crate.
LEMMA CallKeeps ==
    ASSUME LibInv, CardsKept, NEW c \in Crates, CrateCall(c)
    PROVE  LibInv' /\ CardsKept'
<1>0. c \in Handles /\ Handles = Crates /\ c # NULL
    BY TuiAssumption, LibraryAssumption DEF NULL
<1>1. /\ handle \in [Handles -> HandleType] /\ relied \in [Handles -> SUBSET Regions]
      /\ alloc \in [Handles -> [phase : {"idle", "loop", "done"}, start : Nat, at : Nat,
                                pgno : Nat \cup {NULL}]]
    BY DEF LibInv, Sound, LibraryTypeOK, HandleType
<1>2. LibInv'
    <2>1. 0 \in Nat
        OBVIOUS
    <2> QED
        BY <1>0, <2>1, OpenKeeps, AddKeeps, AllocateKeeps, RegionKeeps, ReturnKeeps, EmptyKeeps
        DEF CrateCall
<1>3. handle' \in [Handles -> HandleType]
    BY <1>2 DEF LibInv, Sound, LibraryTypeOK, HandleType
<1>4. ASSUME v120_open(c, c) PROVE CardsKept'
    <2>1. /\ alloc' = alloc /\ relied' = relied
          /\ handle' = handle \/ handle' = [handle EXCEPT ![c] = V120_HANDLE(c)]
        BY <1>4 DEF v120_open, Opened, OpenFailed
    <2>2. \/ handle'[c].crateno = c /\ handle'[c].list_head = <<>>
          \/ handle'[c] = handle[c]
        BY <1>0, <1>1, <2>1 DEF V120_HANDLE
    <2>3. DOMAIN <<>> = {}
        OBVIOUS
    <2>4. Kept(c)'
        BY <2>1, <2>2, <2>3 DEF Kept, CardsKept
    <2>5. \A d \in Crates : d # c => handle'[d] = handle[d]
        BY <1>0, <1>1, <2>1
    <2> QED
        BY <1>3, <2>1, <2>4, <2>5, OthersKept
<1>5. ASSUME NEW r \in Regions, v120_add_vme_region(c, r) PROVE CardsKept'
    <2>1. /\ handle' = [handle EXCEPT ![c].list_head = <<r>> \o @]
          /\ alloc' = [alloc EXCEPT ![c] = Idle] /\ relied' = relied
        BY <1>5 DEF v120_add_vme_region
    <2>2. alloc'[c].phase = "idle" /\ handle'[c].crateno = handle[c].crateno
        BY <1>0, <1>1, <2>1 DEF Idle, HandleType
    <2>3. Kept(c)'
        BY <2>2 DEF Kept, CardsKept
    <2>4. \A d \in Crates : d # c => handle'[d] = handle[d] /\ alloc'[d] = alloc[d]
        BY <1>0, <1>1, <2>1
    <2> QED
        BY <1>3, <2>1, <2>3, <2>4, OthersKept
<1>6. ASSUME v120_allocate_vme(c, 0) PROVE CardsKept'
    <2>1. PageCount \in Nat /\ ~(0 >= PageCount)
        BY LibraryAssumption
    <2>2. /\ handle' = handle /\ alloc' = [alloc EXCEPT ![c] = Loop(0, 1, 0)]
          /\ relied' = [relied EXCEPT ![c] = {}]
        BY <1>6, <2>1 DEF v120_allocate_vme
    <2>3. alloc'[c].phase = "loop" /\ alloc'[c].at = 1
        BY <1>0, <1>1, <2>2 DEF Loop
    <2>4. \A k \in DOMAIN handle[c].list_head : ~(k < 1)
        <3>1. handle[c].list_head \in Seq(Regions)
            BY <1>0, <1>1 DEF HandleType
        <3>2. DOMAIN handle[c].list_head = 1 .. Len(handle[c].list_head)
              /\ Len(handle[c].list_head) \in Nat
            BY <3>1, LenProperties
        <3> QED
            BY <3>2
    <2>5. Kept(c)'
        BY <2>2, <2>3, <2>4 DEF Kept, CardsKept
    <2>6. \A d \in Crates : d # c => alloc'[d] = alloc[d] /\ relied'[d] = relied[d]
        BY <1>0, <1>1, <2>2
    <2> QED
        BY <1>3, <2>2, <2>5, <2>6, OthersKept
<1>7. ASSUME AllocateRegion(c) PROVE CardsKept'
    BY <1>7, RegionKept
<1>8. ASSUME AllocateReturn(c) PROVE CardsKept'
    <2>1. handle' = handle /\ relied' = relied
        BY <1>8 DEF AllocateReturn
    <2>2. PICK v : alloc' = [alloc EXCEPT ![c] = Returned(alloc[c].start, v)]
        BY <1>8 DEF AllocateReturn
    <2>3. \A k \in DOMAIN handle[c].list_head : handle[c].list_head[k] \in relied[c]
        <3>1. handle[c].list_head \in Seq(Regions)
            BY <1>0, <1>1 DEF HandleType
        <3>2. DOMAIN handle[c].list_head = 1 .. Len(handle[c].list_head)
              /\ Len(handle[c].list_head) \in Nat
            BY <3>1, LenProperties
        <3>3. alloc[c].at \in Nat
            BY <1>0, <1>1
        <3>4. alloc[c].phase = "loop" /\ alloc[c].at > Len(handle[c].list_head)
            BY <1>8 DEF AllocateReturn
        <3>5. \A k \in DOMAIN handle[c].list_head : k < alloc[c].at
            BY <3>2, <3>3, <3>4
        <3> QED
            BY <3>4, <3>5 DEF CardsKept
    <2>4. Kept(c)'
        BY <2>1, <2>3 DEF Kept, CardsKept
    <2>5. \A d \in Crates : d # c => alloc'[d] = alloc[d]
        BY <1>0, <1>1, <2>2
    <2> QED
        BY <1>3, <2>1, <2>4, <2>5, OthersKept
<1>9. ASSUME v120_close(c) PROVE CardsKept'
    <2>1. /\ handle' = [handle EXCEPT ![c] = Closed]
          /\ alloc' = [alloc EXCEPT ![c] = Idle] /\ relied' = [relied EXCEPT ![c] = {}]
        BY <1>9 DEF v120_close
    <2>2. alloc'[c].phase = "idle" /\ handle'[c].crateno = NULL
        BY <1>0, <1>1, <2>1 DEF Idle, Closed
    <2>3. Kept(c)'
        BY <2>2 DEF Kept
    <2>4. \A d \in Crates : d # c =>
             handle'[d] = handle[d] /\ alloc'[d] = alloc[d] /\ relied'[d] = relied[d]
        BY <1>0, <1>1, <2>1
    <2> QED
        BY <1>3, <2>3, <2>4, OthersKept
<1> QED
    BY <1>2, <1>4, <1>5, <1>6, <1>7, <1>8, <1>9 DEF CrateCall


Calls == UNCHANGED library \/ \E c \in Crates : CrateCall(c)

\* A command calls the library only to add a region to an open crate.
LEMMA ExecuteCalls ==
    ASSUME NEW cmd, NEW b, Execute(cmd, b)
    PROVE  Calls
<1>1. ASSUME NEW c, DoAddVme(c) PROVE Calls
    <2>1. CASE c \in Crates /\ \E r \in Regions : v120_add_vme_region(c, r)
        BY <2>1 DEF Calls, CrateCall
    <2>2. CASE Done
        BY <2>2 DEF Done, Calls
    <2> QED
        BY <1>1, <2>1, <2>2 DEF DoAddVme
<1> QED
    BY <1>1 DEF Execute, Switch, DoKill, Done, DoQuit, Calls

\* Whatever the program does, it calls the library with the handle of one crate, or not
\* at all.
LEMMA LibraryMoves ==
    ASSUME ControlTyped, TuiNext
    PROVE  Calls
<1>1. CASE OpenCrate
    <2>1. unopened \subseteq Nat /\ unopened \subseteq Crates /\ unopened # {}
        BY <1>1, LibraryAssumption DEF OpenCrate, ControlTyped
    <2>2. \E x \in unopened : \A y \in unopened : x <= y
        BY <2>1, LeastNatural
    <2> DEFINE i == CHOOSE c \in unopened : \A d \in unopened : c <= d
    <2>3. i \in unopened
        BY <2>2
    <2>4. v120_open(i, i)
        BY <1>1 DEF OpenCrate
    <2> HIDE DEF i
    <2> QED
        BY <2>1, <2>3, <2>4 DEF Calls, CrateCall
<1>2. CASE AddVmeStart
    <2>1. adding.crate \in Crates /\ v120_allocate_vme(adding.crate, 0)
        BY <1>2 DEF AddVmeStart, ControlTyped
    <2> QED
        BY <2>1 DEF Calls, CrateCall
<1>3. CASE AddVmeLoop
    <2>1. adding.crate \in Crates
        BY <1>3 DEF AddVmeLoop, ControlTyped
    <2>2. AllocateRegion(adding.crate) \/ AllocateReturn(adding.crate)
        BY <1>3 DEF AddVmeLoop
    <2> QED
        BY <2>1, <2>2 DEF Calls, CrateCall
<1>4. CASE ScriptLine
    <2>1. CASE StalePage(scripts[1].pbuf)
        BY <2>1 DEF StalePage, Calls
    <2>2. CASE Execute(Head(scripts[1].rest), scripts[1].pbuf)
        BY <2>2, ExecuteCalls
    <2> QED
        BY <1>4, <2>1, <2>2 DEF ScriptLine
<1>5. CASE inpcommand
    BY <1>5, ExecuteCalls DEF inpcommand
<1>6. ASSUME NEW c \in Crates, QuitCrate(c) PROVE Calls
    BY <1>6 DEF QuitCrate, Calls, CrateCall
<1>7. CASE \/ StartList \/ AddVmeShow \/ ScriptInScript \/ ScriptEnd \/ RedrawFaults
           \/ bugoto \/ SwitchKey \/ inpfileload \/ QuitBuffer \/ QuitBuffersDone \/ Exit
    BY <1>7 DEF StartList, AddVmeShow, ScriptInScript, ScriptEnd, RedrawFaults, bugoto,
       SwitchKey, Switch, inpfileload, QuitBuffer, QuitBuffersDone, Exit, Calls
<1>8. CASE buup \/ budn \/ bupgup \/ bupgdn
    BY <1>8 DEF buup, budn, bupgup, bupgdn, CursorTo, Calls
<1> QED
    BY <1>1, <1>2, <1>3, <1>4, <1>5, <1>6, <1>7, <1>8
    DEF TuiNext, Starting, Scripted, AddingVme, Key, Quitting


-------------------------------------------------------------------------------
(***************************************************************************)
(* Scripts                                                                 *)
(***************************************************************************)
\* While the crates are being opened there is memory for one more page.
LEMMA FreshExists ==
    ASSUME PagesTyped, ControlTyped, PagesSound, status = "running", pc = "openallcrates"
    PROVE  /\ Fresh \in Buffers /\ kind[Fresh] = "free"
           /\ IsFiniteSet(LiveBuffers) /\ IsFiniteSet(unopened)
<1>1. LiveBuffers \in SUBSET Buffers /\ unopened \in SUBSET Crates
    BY DEF LiveBuffers, ControlTyped
<1>2. /\ IsFiniteSet(LiveBuffers)
      /\ Cardinality(LiveBuffers) = Cardinality(Buffers) => LiveBuffers = Buffers
    BY <1>1, FS_Subset, TuiAssumption
<1>3. IsFiniteSet(unopened)
    BY <1>1, FS_Subset, TuiAssumption
<1>4. /\ Cardinality(LiveBuffers) \in Nat /\ Cardinality(unopened) \in Nat
      /\ Cardinality(Buffers) \in Nat /\ Cardinality(Crates) \in Nat
    BY <1>2, <1>3, FS_CardinalityType, TuiAssumption
<1>5. /\ Cardinality(LiveBuffers) + Cardinality(unopened) <= Cardinality(Crates)
      /\ Cardinality(Buffers) > Cardinality(Crates)
    BY TuiAssumption DEF PagesSound
<1>6. Cardinality(LiveBuffers) # Cardinality(Buffers)
    BY <1>4, <1>5
<1>7. \E b \in Buffers : kind[b] = "free"
    BY <1>6 DEF LiveBuffers
<1> QED
    BY <1>2, <1>3, <1>7 DEF Fresh

\* A script that begins, on a page, begins with its lines.
LEMMA FrameTyped ==
    ASSUME NEW f \in DOMAIN Scripts, NEW b \in Buffers
    PROVE  Frame(f, b) \in Frames
BY TuiAssumption DEF Frame, Frames

\* A line that has been read is taken off the innermost script.
LEMMA LineRead ==
    ASSUME scripts \in Seq(Frames), scripts # <<>>, scripts[1].rest # <<>>,
           NEW left, left = [scripts EXCEPT ![1].rest = Tail(@)]
    PROVE  /\ left \in Seq(Frames) /\ Len(left) = Len(scripts)
           /\ scripts[1].pbuf \in Buffers
           /\ Head(scripts[1].rest) \in Command
<1>1. Len(scripts) \in Nat /\ Len(scripts) > 0
    BY LenProperties, EmptySeq
<1>2. 1 \in 1 .. Len(scripts)
    BY <1>1
<1>3. scripts[1] \in Frames
    BY <1>2, ElementOfSeq
<1> DEFINE line == scripts[1].rest
           new == [scripts[1] EXCEPT !.rest = Tail(line)]
<1>4. line \in Seq(Command) /\ line # <<>>
    BY <1>3 DEF Frames
<1>5. Tail(line) \in Seq(Command) /\ Head(line) \in Command
    BY <1>4, HeadTailProperties
<1>6. new \in Frames
    BY <1>3, <1>5 DEF Frames
<1>7. left = [scripts EXCEPT ![1] = new]
    OBVIOUS
<1> HIDE DEF line, new
<1>8. left \in Seq(Frames) /\ Len(left) = Len(scripts)
    <2>1. /\ [scripts EXCEPT ![1] = new] \in Seq(Frames)
          /\ Len([scripts EXCEPT ![1] = new]) = Len(scripts)
        BY <1>2, <1>6, ExceptSeq
    <2> QED
        BY <1>7, <2>1
<1> QED
    BY <1>3, <1>5, <1>8 DEF Frames, line

\* A script loaded, from a key or from a script, is in front of those being read.
LEMMA ScriptLoaded ==
    ASSUME NEW s \in Seq(Frames), NEW e \in Frames
    PROVE  /\ <<e>> \o s \in Seq(Frames) /\ Len(<<e>> \o s) = Len(s) + 1
           /\ <<e>> \in Seq(Frames) /\ Len(<<e>>) = 1
BY Prepend

\* The status a drawing ends with.
LEMMA StatusDrawn ==
    ASSUME NEW b
    PROVE  Drawn(b) \in {"running", "fault", "undefined"}
BY DEF Drawn

\* A command leaves the program at the keyboard, adding a card, or about to quit.
LEMMA ExecuteTyped ==
    ASSUME ControlTyped, pc = "key", status = "running", NEW cmd, NEW b, Execute(cmd, b)
    PROVE  /\ pc' \in {"key", "add_vme", "bufferclean"}
           /\ adding' \in [crate : Crates \cup {NULL}, region : Regions \cup {NULL}]
           /\ pc' = "add_vme" => adding'.crate \in Crates /\ adding'.region \in Regions
           /\ status' \in {"running", "fault", "undefined"}
<1>1. adding \in [crate : Crates \cup {NULL}, region : Regions \cup {NULL}]
    BY DEF ControlTyped
<1>2. CASE cmd[1] \in Switches /\ Switch(cmd[1])
    BY <1>1, <1>2, StatusDrawn DEF Switch
<1>3. CASE cmd[1] = "kill" /\ DoKill(b)
    BY <1>1, <1>3 DEF DoKill, Done, Followed
<1>4. CASE cmd[1] = "add-vme" /\ DoAddVme(cmd[2])
    <2>1. status' = status
        BY <1>4 DEF DoAddVme
    <2>2. CASE Done
        BY <1>1, <2>1, <2>2 DEF Done
    <2>3. ASSUME NEW r \in Regions, cmd[2] \in Crates,
                 adding' = [crate |-> cmd[2], region |-> r], pc' = "add_vme"
          PROVE  /\ adding' \in [crate : Crates \cup {NULL}, region : Regions \cup {NULL}]
                 /\ pc' \in {"key", "add_vme", "bufferclean"}
                 /\ pc' = "add_vme" => adding'.crate \in Crates /\ adding'.region \in Regions
                 /\ status' \in {"running", "fault", "undefined"}
        BY <2>1, <2>3
    <2> QED
        BY <1>4, <2>2, <2>3 DEF DoAddVme
<1>5. CASE cmd[1] = "add-dummy" /\ NewPage("dummy", NULL) /\ Done /\ UNCHANGED status
    BY <1>1, <1>5 DEF Done
<1>6. CASE cmd[1] = "quit" /\ DoQuit
    BY <1>1, <1>6 DEF DoQuit
<1>7. CASE cmd[1] = "unknown" /\ Done /\ UNCHANGED <<pages, status>>
    BY <1>1, <1>7 DEF Done
<1> QED
    BY <1>2, <1>3, <1>4, <1>5, <1>6, <1>7 DEF Execute


\* No step leaves the types of main's own state.
LEMMA ControlKeeps ==
    ASSUME PagesTyped, ControlTyped, PagesSound, TuiNext
    PROVE  ControlTyped'
<1>0. /\ scripts \in Seq(Frames) /\ Len(scripts) < NTOKENS /\ Len(scripts) \in Nat
      /\ pc \in {"openallcrates", "key", "add_vme", "bufferclean", "crateclean"}
      /\ adding \in [crate : Crates \cup {NULL}, region : Regions \cup {NULL}]
      /\ pc = "add_vme" => adding.crate \in Crates /\ adding.region \in Regions
      /\ unopened \subseteq Crates
      /\ status = "running"
      /\ NTOKENS \in Nat /\ NTOKENS > 1
    BY LenProperties, TuiAssumption DEF ControlTyped, TuiNext
<1>a. pc = "key" => g_buffer \in Buffers
    BY <1>0 DEF PagesSound, Browsing, LiveBuffers
<1>b. <<>> \in Seq(Frames) /\ Len(<<>>) = 0
    BY EmptySeq
<1>c. scripts # <<>> =>
         Tail(scripts) \in Seq(Frames) /\ Len(Tail(scripts)) = Len(scripts) - 1
    BY <1>0, HeadTailProperties
<1>1. CASE OpenCrate
    BY <1>0, <1>1 DEF OpenCrate, ControlTyped
<1>2. CASE StartList
    <2>1. Fresh \in Buffers
        BY <1>0, <1>2, FreshExists DEF StartList
    <2>2. scripts' \in Seq(Frames) /\ Len(scripts') \in {0, 1}
        <3>1. CASE Startup = NULL
            BY <1>2, <1>b, <3>1 DEF StartList
        <3>2. CASE Startup # NULL
            <4>1. Startup \in DOMAIN Scripts
                BY <3>2, TuiAssumption
            <4>2. Frame(Startup, Fresh) \in Frames
                BY <2>1, <4>1, FrameTyped
            <4> QED
                BY <1>2, <3>2, <4>2 DEF StartList
        <3> QED
            BY <3>1, <3>2
    <2> QED
        BY <1>0, <1>2, <2>2 DEF StartList, ControlTyped
<1>3. CASE AddVmeStart \/ AddVmeLoop
    BY <1>0, <1>3 DEF AddVmeStart, AddVmeLoop, control, ControlTyped
<1>4. CASE AddVmeShow
    BY <1>0, <1>4 DEF AddVmeShow, ControlTyped, NoCard
<1>5. CASE ScriptLine
    <2>1. /\ scripts' \in Seq(Frames) /\ Len(scripts') = Len(scripts)
        BY <1>0, <1>5, LineRead DEF ScriptLine, Reading, iskeyboard
    <2>2. CASE StalePage(scripts[1].pbuf)
        BY <1>0, <1>5, <2>1, <2>2 DEF ScriptLine, StalePage, ControlTyped
    <2>3. CASE Execute(Head(scripts[1].rest), scripts[1].pbuf)
        <3>1. pc = "key"
            BY <1>5 DEF ScriptLine, Reading
        <3> QED
            BY <1>0, <1>5, <2>1, <2>3, <3>1, ExecuteTyped DEF ScriptLine, ControlTyped
    <2> QED
        BY <1>5, <2>2, <2>3 DEF ScriptLine
<1>6. CASE ScriptInScript
    <2> DEFINE cmd == Head(scripts[1].rest)
               left == [scripts EXCEPT ![1].rest = Tail(@)]
    <2>1. /\ left \in Seq(Frames) /\ Len(left) = Len(scripts)
        BY <1>0, <1>6, LineRead DEF ScriptInScript, Reading, iskeyboard
    <2>2. CASE cmd[2] \notin DOMAIN Scripts \/ Len(scripts) = NTOKENS - 1
        BY <1>0, <1>6, <2>2 DEF ScriptInScript, ControlTyped
    <2>3. CASE cmd[2] \in DOMAIN Scripts /\ Len(scripts) # NTOKENS - 1
        <3>1. /\ scripts' = <<Frame(cmd[2], g_buffer)>> \o left
              /\ status' = status
            BY <1>6, <2>3 DEF ScriptInScript
        <3>2. Frame(cmd[2], g_buffer) \in Frames
            BY <1>6, <1>a, <2>3, FrameTyped DEF ScriptInScript, Reading
        <3>3. scripts' \in Seq(Frames) /\ Len(scripts') = Len(scripts) + 1
            BY <2>1, <3>1, <3>2, ScriptLoaded
        <3>4. Len(scripts) + 1 < NTOKENS
            BY <1>0, <2>3
        <3>5. UNCHANGED <<pc, adding, unopened>>
            BY <1>6 DEF ScriptInScript
        <3> QED
            BY <1>0, <3>1, <3>3, <3>4, <3>5 DEF ControlTyped
    <2> QED
        BY <2>2, <2>3
<1>7. CASE ScriptEnd
    <2>1. scripts # <<>>
        BY <1>7 DEF ScriptEnd, Reading, iskeyboard
    <2>2. scripts' \in Seq(Frames) /\ Len(scripts') < NTOKENS
        BY <1>0, <1>7, <1>c, <2>1 DEF ScriptEnd
    <2> QED
        BY <1>0, <1>7, <2>2 DEF ScriptEnd, Followed, ControlTyped
<1>8. CASE RedrawFaults
    BY <1>0, <1>8 DEF RedrawFaults, control, ControlTyped
<1>9. CASE buup \/ budn \/ bupgup \/ bupgdn
    BY <1>0, <1>9 DEF buup, budn, bupgup, bupgdn, CursorTo, control, ControlTyped
<1>10. CASE bugoto
    BY <1>0, <1>10, StatusDrawn DEF bugoto, control, ControlTyped
<1>11. CASE SwitchKey
    <2>1. PICK name \in Switches : Switch(name)
        BY <1>11 DEF SwitchKey
    <2>2. status' \in {"running", "fault", "undefined"} /\ UNCHANGED <<pc, adding>>
        BY <2>1, StatusDrawn DEF Switch
    <2>3. UNCHANGED <<scripts, unopened>>
        BY <1>11 DEF SwitchKey
    <2> QED
        BY <1>0, <2>2, <2>3 DEF ControlTyped
<1>12. CASE inpcommand
    <2>1. PICK cmd \in Typed : Execute(cmd, g_buffer)
        BY <1>12 DEF inpcommand
    <2>2. pc = "key" /\ UNCHANGED <<scripts, unopened>>
        BY <1>12 DEF inpcommand, Waiting, AtKey
    <2> QED
        BY <1>0, <2>1, <2>2, ExecuteTyped DEF ControlTyped
<1>13. CASE inpfileload
    <2>1. PICK cmd \in Typed :
             scripts' = IF cmd[2] \in DOMAIN Scripts THEN <<Frame(cmd[2], g_buffer)>> ELSE <<>>
        BY <1>13 DEF inpfileload
    <2>2. scripts' \in Seq(Frames) /\ Len(scripts') \in {0, 1}
        <3>1. CASE cmd[2] \in DOMAIN Scripts
            <4>1. Frame(cmd[2], g_buffer) \in Frames
                BY <1>13, <1>a, <3>1, FrameTyped DEF inpfileload, Waiting, AtKey
            <4> QED
                BY <2>1, <3>1, <4>1
        <3>2. CASE cmd[2] \notin DOMAIN Scripts
            BY <1>b, <2>1, <3>2
        <3> QED
            BY <3>1, <3>2
    <2> QED
        BY <1>0, <1>13, <2>2 DEF inpfileload, ControlTyped
<1>14. CASE Quitting
    BY <1>0, <1>14 DEF Quitting, QuitBuffer, QuitBuffersDone, QuitCrate, Exit, control,
       ControlTyped
<1> QED
    BY <1>1, <1>2, <1>3, <1>4, <1>5, <1>6, <1>7, <1>8, <1>9, <1>10, <1>11, <1>12, <1>13, <1>14
    DEF TuiNext, Starting, Scripted, AddingVme, Key


-------------------------------------------------------------------------------
(***************************************************************************)
(* Pages                                                                   *)
(***************************************************************************)
\* Both ends of a pair of numbers.
LEMMA OfTwo ==
    ASSUME NEW a \in Int, NEW b \in Int
    PROVE  /\ Max({a, b}) = IF a >= b THEN a ELSE b
           /\ Min({a, b}) = IF a <= b THEN a ELSE b
<1>1. Max({a, b}) = IF a >= b THEN a ELSE b
    <2> DEFINE m == IF a >= b THEN a ELSE b
    <2>1. m \in {a, b} /\ \A y \in {a, b} : m >= y
        OBVIOUS
    <2>2. Max({a, b}) \in {a, b} /\ \A y \in {a, b} : Max({a, b}) >= y
        BY <2>1 DEF Max
    <2> QED
        BY <2>1, <2>2
<1>2. Min({a, b}) = IF a <= b THEN a ELSE b
    <2> DEFINE m == IF a <= b THEN a ELSE b
    <2>1. m \in {a, b} /\ \A y \in {a, b} : m <= y
        OBVIOUS
    <2>2. Min({a, b}) \in {a, b} /\ \A y \in {a, b} : Min({a, b}) <= y
        BY <2>1 DEF Min
    <2> QED
        BY <2>1, <2>2
<1> QED
    BY <1>1, <1>2

\* What Listed and Browsing say in terms of positions in the list.
LEMMA ListPositions ==
    ASSUME PagesTyped, Listed
    PROVE  /\ Len(bufs) \in Nat /\ DOMAIN bufs = 1 .. Len(bufs)
           /\ \A k \in 1 .. Len(bufs) : bufs[k] \in Buffers /\ kind[bufs[k]] # "free"
           /\ \A j, k \in 1 .. Len(bufs) : bufs[j] = bufs[k] => j = k
           /\ \A b \in LiveBuffers : Position(b) \in 1 .. Len(bufs) /\ bufs[Position(b)] = b
<1>1. bufs \in Seq(Buffers)
    BY DEF PagesTyped
<1>2. Len(bufs) \in Nat /\ DOMAIN bufs = 1 .. Len(bufs)
    BY <1>1, LenProperties
<1>3. \A k \in DOMAIN bufs : bufs[k] \in LiveBuffers
    BY DEF Listed, ToSet
<1>4. \A b \in LiveBuffers : \E k \in DOMAIN bufs : bufs[k] = b
    BY DEF Listed, ToSet
<1>5. \A b \in LiveBuffers : Position(b) \in DOMAIN bufs /\ bufs[Position(b)] = b
    BY <1>4 DEF Position
<1> QED
    BY <1>2, <1>3, <1>5 DEF Listed, IsInjective, LiveBuffers

\* A page added while the user works, or not for want of memory.
LEMMA NewPageKeeps ==
    ASSUME PagesTyped, Listed, Browsing, NEW k \in {"vme", "dummy"},
           NEW r \in Regions \cup {NULL}, NewPage(k, r)
    PROVE  PagesTyped' /\ Listed' /\ Browsing'
<1>1. CASE UNCHANGED pages
    BY <1>1 DEF pages, PagesTyped, Listed, Browsing, LiveBuffers
<1>2. ASSUME NEW b \in Buffers, kind[b] = "free", kind' = [kind EXCEPT ![b] = k],
             shows' = [shows EXCEPT ![b] = r], bufs' = buffershuffle(<<b>> \o bufs),
             UNCHANGED <<cpos, g_buffer, g_lastbuf>>
      PROVE  PagesTyped' /\ Listed' /\ Browsing'
    <2>1. /\ bufs \in Seq(Buffers) /\ IsInjective(bufs) /\ b \notin ToSet(bufs)
          /\ ToSet(bufs) = LiveBuffers
        BY <1>2 DEF PagesTyped, Listed, LiveBuffers
    <2>2. Len(bufs) \in Nat /\ cpos \in Nat /\ Len(bufs) > cpos
        BY <2>1, LenProperties DEF PagesTyped, Browsing
    <2>3. bufs # <<>>
        BY <2>2, EmptySeq
    <2>4. /\ bufs' \in Seq(Buffers) /\ IsInjective(bufs')
          /\ ToSet(bufs') = ToSet(bufs) \cup {b}
          /\ Len(bufs') = Len(bufs) + 1
          /\ bufs'[1] = bufs[1]
        BY <1>2, <2>1, <2>3, Shuffled
    <2>5. /\ kind \in [Buffers -> {"free", "list", "config", "vme", "dummy"}]
          /\ shows \in [Buffers -> Regions \cup {NULL}]
        BY DEF PagesTyped
    <2>6. \A q \in Buffers : kind'[q] = IF q = b THEN k ELSE kind[q]
        BY <1>2, <2>5
    <2>7. LiveBuffers' = LiveBuffers \cup {b}
        BY <2>6 DEF LiveBuffers
    <2>8. PagesTyped'
        BY <1>2, <2>4, <2>5 DEF PagesTyped
    <2>9. Listed'
        BY <2>1, <2>4, <2>7 DEF Listed
    <2>10. bufs[1] \in Buffers
        BY <2>1, <2>2, <2>3, ElementOfSeq
    <2>11. Browsing'
        <3>1. kind'[bufs[1]] = "list"
            BY <1>2, <2>6, <2>10 DEF Browsing
        <3>2. Len(bufs') > cpos
            BY <2>2, <2>4
        <3> QED
            BY <1>2, <2>4, <2>7, <3>1, <3>2 DEF Browsing
    <2> QED
        BY <2>8, <2>9, <2>11
<1> QED
    BY <1>1, <1>2 DEF NewPage

\* Showing another page keeps the list; the page shown is live if it can be drawn.
LEMMA GotoKeeps ==
    ASSUME PagesTyped, Listed, Browsing, NEW b \in Buffers, buffergoto(b), status' = Drawn(b)
    PROVE  PagesTyped' /\ (status' = "running" => Listed' /\ Browsing')
<1>1. /\ g_lastbuf' = g_buffer /\ g_buffer' = b
      /\ bufs' = bufs /\ kind' = kind /\ shows' = shows /\ cpos' = cpos
    BY DEF buffergoto
<1>2. g_buffer \in Buffers
    BY DEF Browsing, LiveBuffers
<1>3. PagesTyped'
    BY <1>1, <1>2 DEF PagesTyped
<1>4. LiveBuffers' = LiveBuffers
    BY <1>1 DEF LiveBuffers
<1>5. status' = "running" => b \in LiveBuffers
    BY DEF Drawn, Live, LiveBuffers
<1> QED
    BY <1>1, <1>2, <1>3, <1>4, <1>5 DEF Listed, Browsing

\* home, next-buffer and toggle-buffer lead to what is, or was, a page.
LEMMA TargetTyped ==
    ASSUME PagesTyped, Listed, Browsing, NEW name \in Switches
    PROVE  Target(name) \in Buffers
<1>1. /\ Len(bufs) \in Nat /\ \A k \in 1 .. Len(bufs) : bufs[k] \in Buffers
      /\ Position(g_buffer) \in 1 .. Len(bufs)
    BY ListPositions DEF Browsing
<1>2. 1 \in 1 .. Len(bufs)
    BY <1>1
<1>3. CASE name = "home"
    BY <1>1, <1>2, <1>3 DEF Target
<1>4. CASE name = "next-buffer"
    <2> DEFINE i == Position(g_buffer)
               next == IF i = Len(bufs) THEN 1 ELSE i + 1
    <2>1. next \in 1 .. Len(bufs)
        BY <1>1
    <2>2. Target(name) = bufs[next]
        BY <1>4 DEF Target
    <2> QED
        BY <1>1, <2>1, <2>2
<1>5. CASE name = "toggle-buffer"
    BY <1>5 DEF Target, Browsing
<1> QED
    BY <1>3, <1>4, <1>5 DEF Switches

\* Each of them keeps the list.
LEMMA SwitchKeeps ==
    ASSUME PagesTyped, Listed, Browsing, NEW name \in Switches, Switch(name)
    PROVE  PagesTyped' /\ (status' = "running" => Listed' /\ Browsing')
<1>1. Target(name) \in Buffers
    BY TargetTyped
<1>2. buffergoto(Target(name)) /\ status' = Drawn(Target(name))
    BY DEF Switch
<1> QED
    BY <1>1, <1>2, GotoKeeps

\* A page taken off the list is freed with it.
LEMMA UnlinkedKeeps ==
    ASSUME PagesTyped, Listed, NEW b \in LiveBuffers, Unlinked(b)
    PROVE  LET i == Position(b)
           IN  /\ bufs' \in Seq(Buffers) /\ Len(bufs') = Len(bufs) - 1
               /\ kind' \in [Buffers -> {"free", "list", "config", "vme", "dummy"}]
               /\ shows' = shows
               /\ Listed' /\ LiveBuffers' = LiveBuffers \ {b}
               /\ \A q \in Buffers : q # b => kind'[q] = kind[q]
               /\ i # 1 => bufs'[1] = bufs[1]
<1>1. /\ bufs \in Seq(Buffers) /\ IsInjective(bufs) /\ ToSet(bufs) = LiveBuffers
      /\ kind \in [Buffers -> {"free", "list", "config", "vme", "dummy"}]
    BY DEF PagesTyped, Listed
<1>2. Position(b) \in 1 .. Len(bufs) /\ bufs[Position(b)] = b
    BY ListPositions
<1>3. bufs' = RemoveAt(bufs, Position(b)) /\ kind' = [kind EXCEPT ![b] = "free"] /\ shows' = shows
    BY DEF Unlinked
<1>4. /\ bufs' \in Seq(Buffers) /\ IsInjective(bufs')
      /\ ToSet(bufs') = ToSet(bufs) \ {b}
      /\ Len(bufs') = Len(bufs) - 1
      /\ Position(b) # 1 => bufs'[1] = bufs[1]
    BY <1>1, <1>2, <1>3, TakenOff
<1>5. /\ kind' \in [Buffers -> {"free", "list", "config", "vme", "dummy"}]
      /\ \A q \in Buffers : kind'[q] = IF q = b THEN "free" ELSE kind[q]
    BY <1>1, <1>3
<1>6. LiveBuffers' = LiveBuffers \ {b}
    BY <1>5 DEF LiveBuffers
<1> QED
    BY <1>1, <1>3, <1>4, <1>5, <1>6 DEF Listed

\* bufferkill of a page behind the buffer list mends the list, the cursor and the
\* page that is shown.
LEMMA KillKeeps ==
    ASSUME PagesTyped, Listed, Browsing, NEW b \in LiveBuffers, b # bufs[1], bufferkill(b)
    PROVE  PagesTyped' /\ Listed' /\ Browsing'
<1> DEFINE i == Position(b)
<1>1. /\ Len(bufs) \in Nat
      /\ \A k \in 1 .. Len(bufs) : bufs[k] \in Buffers /\ kind[bufs[k]] # "free"
      /\ \A j, k \in 1 .. Len(bufs) : bufs[j] = bufs[k] => j = k
      /\ i \in 1 .. Len(bufs) /\ bufs[i] = b
    BY ListPositions
<1>2. Unlinked(b) /\ ShownInstead(b) /\ cpos' = 0
    BY DEF bufferkill
<1>3. /\ bufs' \in Seq(Buffers) /\ Len(bufs') = Len(bufs) - 1
      /\ kind' \in [Buffers -> {"free", "list", "config", "vme", "dummy"}]
      /\ shows' = shows
      /\ Listed' /\ LiveBuffers' = LiveBuffers \ {b}
      /\ \A q \in Buffers : q # b => kind'[q] = kind[q]
      /\ i # 1 => bufs'[1] = bufs[1]
    BY <1>2, UnlinkedKeeps
<1>4. i # 1
    BY <1>1
<1> HIDE DEF i
<1>5. i - 1 \in 1 .. Len(bufs) /\ i - 1 # i /\ Len(bufs) - 1 > 0
    BY <1>1, <1>4
<1>6. g_buffer' \in LiveBuffers \ {b} /\ g_lastbuf' \in Buffers
    <2>1. CASE g_buffer = b
        <3>1. g_buffer' = bufs[i - 1] /\ g_lastbuf' = bufs[i - 1]
            BY <1>2, <2>1 DEF ShownInstead, i
        <3>2. bufs[i - 1] \in LiveBuffers /\ bufs[i - 1] # b
            BY <1>1, <1>5 DEF LiveBuffers
        <3> QED
            BY <3>1, <3>2 DEF LiveBuffers
    <2>2. CASE g_buffer # b
        BY <1>2, <2>2 DEF ShownInstead, Browsing
    <2> QED
        BY <2>1, <2>2
<1>7. kind'[bufs'[1]] = "list"
    <2>1. bufs[1] \in Buffers
        BY <1>1
    <2> QED
        BY <1>3, <1>4, <2>1 DEF Browsing
<1>8. PagesTyped'
    BY <1>2, <1>3, <1>6 DEF PagesTyped, LiveBuffers
<1>9. Browsing'
    BY <1>2, <1>3, <1>5, <1>6, <1>7 DEF Browsing
<1> QED
    BY <1>3, <1>8, <1>9

\* What the user can kill is never the buffer list, which is in front.
LEMMA UserKillKeeps ==
    ASSUME PagesTyped, Listed, Browsing, Kill
    PROVE  PagesTyped' /\ Listed' /\ Browsing'
<1> DEFINE target == IF kind[g_buffer] = "list" THEN pos2buf ELSE g_buffer
<1>1. target \in LiveBuffers
    <2>1. Len(bufs) \in Nat /\ cpos \in Nat /\ Len(bufs) > cpos
        BY ListPositions DEF PagesTyped, Browsing
    <2>2. cpos + 1 \in 1 .. Len(bufs)
        BY <2>1
    <2>3. pos2buf \in LiveBuffers
        BY <2>2, ListPositions DEF pos2buf, LiveBuffers
    <2> QED
        BY <2>3 DEF Browsing
<1> HIDE DEF target
<1>2. CASE Killable(target)
    <2>1. bufferkill(target)
        BY <1>2 DEF Kill, target
    <2>2. target # bufs[1]
        BY <1>2 DEF Killable, Browsing
    <2> QED
        BY <1>1, <2>1, <2>2, KillKeeps
<1>3. CASE ~Killable(target)
    <2>1. UNCHANGED pages
        BY <1>3 DEF Kill, target
    <2> QED
        BY <2>1 DEF pages, PagesTyped, Listed, Browsing, LiveBuffers
<1> QED
    BY <1>2, <1>3


\* A command leaves the list whole.
LEMMA ExecuteKeeps ==
    ASSUME PagesTyped, Listed, Browsing, NEW cmd, NEW b, Execute(cmd, b)
    PROVE  PagesTyped' /\ (status' = "running" => Listed' /\ Browsing')
<1>1. ASSUME UNCHANGED pages PROVE PagesTyped' /\ Listed' /\ Browsing'
    BY <1>1 DEF pages, PagesTyped, Listed, Browsing, LiveBuffers
<1>2. CASE cmd[1] \in Switches /\ Switch(cmd[1])
    BY <1>2, SwitchKeeps
<1>3. CASE cmd[1] = "kill" /\ DoKill(b)
    BY <1>3, UserKillKeeps DEF DoKill
<1>4. CASE cmd[1] = "add-dummy" /\ NewPage("dummy", NULL) /\ Done /\ UNCHANGED status
    BY <1>4, NewPageKeeps
<1>5. CASE cmd[1] = "add-vme" /\ DoAddVme(cmd[2])
    BY <1>1, <1>5 DEF DoAddVme
<1>6. CASE cmd[1] = "quit" /\ DoQuit
    BY <1>1, <1>6 DEF DoQuit
<1>7. CASE cmd[1] = "unknown" /\ Done /\ UNCHANGED <<pages, status>>
    BY <1>1, <1>7
<1> QED
    BY <1>2, <1>3, <1>4, <1>5, <1>6, <1>7 DEF Execute

\* The keys of the buffer list leave its cursor on it.
LEMMA CursorKeeps ==
    ASSUME PagesTyped, Listed, Browsing, buup \/ budn \/ bupgup \/ bupgdn
    PROVE  PagesTyped' /\ Listed' /\ Browsing'
<1>1. Len(bufs) \in Nat /\ cpos \in Nat /\ Len(bufs) > cpos /\ BufferRows \in Nat
    BY ListPositions, TuiAssumption DEF PagesTyped, Browsing
<1>2. ASSUME NEW n \in Nat, n < Len(bufs), CursorTo(n)
      PROVE  PagesTyped' /\ Listed' /\ Browsing'
    <2>1. /\ cpos' = n
          /\ UNCHANGED <<bufs, kind, shows, g_buffer, g_lastbuf>>
        BY <1>2 DEF CursorTo
    <2>2. Len(bufs') > cpos'
        BY <1>1, <1>2, <2>1
    <2> QED
        BY <1>2, <2>1, <2>2 DEF PagesTyped, Listed, Browsing, LiveBuffers
<1>3. CASE buup
    <2>1. Max({0, cpos - 1}) = IF 0 >= cpos - 1 THEN 0 ELSE cpos - 1
        BY <1>1, OfTwo
    <2>2. Max({0, cpos - 1}) \in Nat /\ Max({0, cpos - 1}) < Len(bufs)
        BY <1>1, <2>1
    <2> QED
        BY <1>2, <1>3, <2>2 DEF buup
<1>4. CASE budn
    <2>1. (IF cpos + 1 < Len(bufs) THEN cpos + 1 ELSE cpos) \in Nat
          /\ (IF cpos + 1 < Len(bufs) THEN cpos + 1 ELSE cpos) < Len(bufs)
        BY <1>1
    <2> QED
        BY <1>2, <1>4, <2>1 DEF budn
<1>5. CASE bupgup
    <2>1. Max({0, cpos - BufferRows}) = IF 0 >= cpos - BufferRows THEN 0 ELSE cpos - BufferRows
        BY <1>1, OfTwo
    <2>2. Max({0, cpos - BufferRows}) \in Nat /\ Max({0, cpos - BufferRows}) < Len(bufs)
        BY <1>1, <2>1
    <2> QED
        BY <1>2, <1>5, <2>2 DEF bupgup
<1>6. CASE bupgdn
    <2> DEFINE last == Len(bufs) - 1
               down == cpos + BufferRows
    <2>1. last \in Int /\ down \in Int /\ last >= 0 /\ down >= 0
        BY <1>1
    <2>2. Min({last, down}) = IF last <= down THEN last ELSE down
        BY <2>1, OfTwo
    <2>3. Min({last, down}) \in Nat /\ Min({last, down}) < Len(bufs)
        BY <1>1, <2>1, <2>2
    <2> QED
        BY <1>2, <1>6, <2>3 DEF bupgdn
<1> QED
    BY <1>3, <1>4, <1>5, <1>6

\* The pages made before the user works: one for each crate, then the buffer list.
LEMMA StartKeeps ==
    ASSUME PagesTyped, ControlTyped, PagesSound, status = "running", Starting
    PROVE  PagesTyped' /\ PagesSound'
<1>0. /\ pc = "openallcrates" /\ Listed
      /\ Fresh \in Buffers /\ kind[Fresh] = "free"
      /\ IsFiniteSet(LiveBuffers) /\ IsFiniteSet(unopened)
      /\ Cardinality(LiveBuffers) + Cardinality(unopened) <= Cardinality(Crates)
    <2>1. pc = "openallcrates"
        BY DEF Starting, OpenCrate, StartList
    <2> QED
        BY <2>1, FreshExists DEF PagesSound
<1>1. /\ Cardinality(LiveBuffers) \in Nat /\ Cardinality(unopened) \in Nat
      /\ Cardinality(Crates) \in Nat
    BY <1>0, FS_CardinalityType, TuiAssumption
<1>2. /\ bufs \in Seq(Buffers) /\ IsInjective(bufs) /\ Fresh \notin ToSet(bufs)
      /\ ToSet(bufs) = LiveBuffers
      /\ kind \in [Buffers -> {"free", "list", "config", "vme", "dummy"}]
    BY <1>0 DEF PagesTyped, Listed, LiveBuffers
<1>3. ASSUME NEW k \in {"list", "config"}, kind' = [kind EXCEPT ![Fresh] = k],
             bufs' = <<Fresh>> \o bufs
      PROVE  /\ bufs' \in Seq(Buffers) /\ Len(bufs') > 0 /\ bufs'[1] = Fresh
             /\ kind' \in [Buffers -> {"free", "list", "config", "vme", "dummy"}]
             /\ kind'[Fresh] = k
             /\ Listed' /\ LiveBuffers' = LiveBuffers \cup {Fresh}
             /\ Cardinality(LiveBuffers') = Cardinality(LiveBuffers) + 1
    <2>1. /\ bufs' \in Seq(Buffers) /\ IsInjective(bufs')
          /\ ToSet(bufs') = ToSet(bufs) \cup {Fresh}
          /\ Len(bufs') = Len(bufs) + 1
          /\ bufs'[1] = Fresh
        BY <1>0, <1>2, <1>3, PutInFront
    <2>2. Len(bufs) \in Nat
        BY <1>2, LenProperties
    <2>3. /\ kind' \in [Buffers -> {"free", "list", "config", "vme", "dummy"}]
          /\ \A q \in Buffers : kind'[q] = IF q = Fresh THEN k ELSE kind[q]
        BY <1>2, <1>3
    <2>4. LiveBuffers' = LiveBuffers \cup {Fresh}
        BY <1>0, <2>3 DEF LiveBuffers
    <2>5. Fresh \notin LiveBuffers
        BY <1>0 DEF LiveBuffers
    <2>6. Cardinality(LiveBuffers \cup {Fresh}) = Cardinality(LiveBuffers) + 1
        BY <1>0, <2>5, FS_AddElement
    <2>7. Listed'
        BY <1>2, <2>1, <2>4 DEF Listed
    <2>8. Len(bufs') > 0
        BY <2>1, <2>2
    <2> QED
        BY <1>0, <2>1, <2>3, <2>4, <2>6, <2>7, <2>8
<1>4. CASE OpenCrate
    <2> DEFINE i == CHOOSE c \in unopened : \A d \in unopened : c <= d
    <2>1. unopened' = unopened \ {i} /\ pc' = pc
        BY <1>4 DEF OpenCrate
    <2>2. i \in unopened
        <3>1. unopened \subseteq Nat /\ unopened # {}
            BY <1>4, LibraryAssumption DEF OpenCrate, ControlTyped
        <3>2. \E x \in unopened : \A y \in unopened : x <= y
            BY <3>1, LeastNatural
        <3> QED
            BY <3>2
    <2>3. UNCHANGED <<shows, cpos, g_buffer, g_lastbuf>>
        BY <1>4 DEF OpenCrate, pages
    <2>4. \/ kind' = [kind EXCEPT ![Fresh] = "config"] /\ bufs' = <<Fresh>> \o bufs
          \/ UNCHANGED <<kind, bufs>>
        BY <1>4 DEF OpenCrate, pages
    <2> HIDE DEF i
    <2>5. Cardinality(unopened') = Cardinality(unopened) - 1
        BY <1>0, <2>1, <2>2, FS_RemoveElement
    <2>6. CASE kind' = [kind EXCEPT ![Fresh] = "config"] /\ bufs' = <<Fresh>> \o bufs
        <3>1. /\ bufs' \in Seq(Buffers)
              /\ kind' \in [Buffers -> {"free", "list", "config", "vme", "dummy"}]
              /\ Listed' /\ Cardinality(LiveBuffers') = Cardinality(LiveBuffers) + 1
            BY <1>3, <2>6
        <3>2. Cardinality(LiveBuffers') + Cardinality(unopened') <= Cardinality(Crates)
            BY <1>0, <1>1, <2>5, <3>1
        <3>3. PagesTyped'
            BY <2>3, <3>1 DEF PagesTyped
        <3> QED
            BY <1>0, <2>1, <3>1, <3>2, <3>3 DEF PagesSound
    <2>7. CASE UNCHANGED <<kind, bufs>>
        <3>1. LiveBuffers' = LiveBuffers
            BY <2>7 DEF LiveBuffers
        <3>2. Cardinality(LiveBuffers') + Cardinality(unopened') <= Cardinality(Crates)
            BY <1>0, <1>1, <2>5, <3>1
        <3>3. PagesTyped' /\ Listed'
            BY <1>0, <2>3, <2>7, <3>1 DEF PagesTyped, Listed
        <3> QED
            BY <1>0, <2>1, <3>2, <3>3 DEF PagesSound
    <2> QED
        BY <2>4, <2>6, <2>7
<1>5. CASE StartList
    <2>1. /\ kind' = [kind EXCEPT ![Fresh] = "list"] /\ bufs' = <<Fresh>> \o bufs
          /\ g_buffer' = Fresh /\ g_lastbuf' = Fresh /\ cpos' = 0 /\ pc' = "key"
          /\ shows' = shows
        BY <1>5 DEF StartList
    <2>2. /\ bufs' \in Seq(Buffers) /\ Len(bufs') > 0 /\ bufs'[1] = Fresh
          /\ kind' \in [Buffers -> {"free", "list", "config", "vme", "dummy"}]
          /\ kind'[Fresh] = "list"
          /\ Listed' /\ LiveBuffers' = LiveBuffers \cup {Fresh}
        BY <1>3, <2>1
    <2>3. PagesTyped'
        BY <1>0, <2>1, <2>2 DEF PagesTyped
    <2>4. Browsing'
        BY <1>0, <2>1, <2>2 DEF Browsing
    <2> QED
        BY <2>1, <2>2, <2>3, <2>4 DEF PagesSound
<1> QED
    BY <1>4, <1>5 DEF Starting

\* Quitting takes the pages off the list one by one.
LEMMA QuitKeeps ==
    ASSUME PagesTyped, ControlTyped, PagesSound, status = "running", Quitting
    PROVE  PagesTyped' /\ PagesSound'
<1>0. Listed
    BY DEF PagesSound
<1>1. CASE QuitBuffer
    <2>1. pc' = "bufferclean"
        BY <1>1 DEF QuitBuffer, control
    <2>2. /\ Unlinked(bufs[1])
          /\ UNCHANGED <<g_buffer, g_lastbuf, cpos>>
        BY <1>1 DEF QuitBuffer, bufferkill
    <2>3. bufs[1] \in LiveBuffers
        <3>1. 1 \in DOMAIN bufs
            BY <1>1, EmptySeq, LenProperties DEF QuitBuffer, PagesTyped
        <3> QED
            BY <1>0, <3>1 DEF Listed, ToSet
    <2>4. /\ bufs' \in Seq(Buffers)
          /\ kind' \in [Buffers -> {"free", "list", "config", "vme", "dummy"}]
          /\ shows' = shows /\ Listed'
        BY <1>0, <2>2, <2>3, UnlinkedKeeps
    <2> QED
        BY <2>1, <2>2, <2>4 DEF PagesTyped, PagesSound
<1>2. CASE QuitBuffersDone
    <2>1. /\ pc' = "crateclean" /\ g_buffer' = NULL /\ g_lastbuf' = NULL
          /\ UNCHANGED <<bufs, kind, shows, cpos>>
        BY <1>2 DEF QuitBuffersDone
    <2> QED
        BY <1>0, <2>1 DEF PagesTyped, PagesSound, Listed, LiveBuffers
<1>3. CASE (\E c \in Crates : QuitCrate(c)) \/ Exit
    <2>1. pc = "crateclean" /\ UNCHANGED pages /\ UNCHANGED control
        BY <1>3 DEF QuitCrate, Exit
    <2> QED
        BY <1>0, <2>1 DEF pages, control, PagesTyped, PagesSound, Listed, LiveBuffers
<1> QED
    BY <1>1, <1>2, <1>3 DEF Quitting

\* No step of the program breaks the list of pages.
LEMMA PagesKeep ==
    ASSUME PagesTyped, ControlTyped, PagesSound, TuiNext
    PROVE  PagesTyped' /\ PagesSound'
<1>0. status = "running" /\ Listed
    BY DEF TuiNext, PagesSound
<1>1. pc \in {"key", "add_vme"} => Browsing
    BY <1>0 DEF PagesSound
<1>2. ASSUME pc' # "openallcrates", PagesTyped', status' = "running" => Listed' /\ Browsing'
      PROVE  PagesTyped' /\ PagesSound'
    BY <1>2 DEF PagesSound
<1>3. ASSUME pc \in {"key", "add_vme"}, UNCHANGED pages, pc' # "openallcrates"
      PROVE  PagesTyped' /\ PagesSound'
    <2>1. PagesTyped' /\ Listed' /\ Browsing'
        BY <1>0, <1>1, <1>3 DEF pages, PagesTyped, Listed, Browsing, LiveBuffers
    <2> QED
        BY <1>2, <1>3, <2>1
<1>4. CASE Starting
    BY <1>0, <1>4, StartKeeps
<1>5. CASE Quitting
    BY <1>0, <1>5, QuitKeeps
<1>6. CASE AddVmeStart \/ AddVmeLoop
    BY <1>3, <1>6 DEF AddVmeStart, AddVmeLoop, control
<1>7. CASE AddVmeShow
    <2>1. pc = "add_vme" /\ pc' = "key"
        BY <1>7 DEF AddVmeShow
    <2>2. CASE UNCHANGED pages
        BY <1>3, <2>1, <2>2
    <2>3. CASE NewPage("vme", adding.region) /\ UNCHANGED status
        <3>1. adding.region \in Regions \cup {NULL}
            BY DEF ControlTyped
        <3>2. PagesTyped' /\ Listed' /\ Browsing'
            BY <1>0, <1>1, <2>1, <2>3, <3>1, NewPageKeeps
        <3> QED
            BY <1>2, <2>1, <3>2
    <2> QED
        BY <1>7, <2>2, <2>3 DEF AddVmeShow
<1>8. ASSUME NEW cmd, NEW b, pc = "key", Execute(cmd, b) PROVE PagesTyped' /\ PagesSound'
    <2>1. PagesTyped' /\ (status' = "running" => Listed' /\ Browsing')
        BY <1>0, <1>1, <1>8, ExecuteKeeps
    <2>2. pc' # "openallcrates"
        BY <1>0, <1>8, ExecuteTyped
    <2> QED
        BY <1>2, <2>1, <2>2
<1>9. CASE ScriptLine
    <2>1. CASE StalePage(scripts[1].pbuf)
        BY <1>3, <1>9, <2>1 DEF ScriptLine, StalePage, Reading
    <2> QED
        BY <1>8, <1>9, <2>1 DEF ScriptLine, Reading
<1>10. CASE ScriptInScript \/ ScriptEnd
    BY <1>3, <1>10 DEF ScriptInScript, ScriptEnd, Reading
<1>11. CASE RedrawFaults
    BY <1>3, <1>11 DEF RedrawFaults, AtKey, control
<1>12. CASE buup \/ budn \/ bupgup \/ bupgdn
    <2>1. pc = "key" /\ pc' = pc
        BY <1>12 DEF buup, budn, bupgup, bupgdn, CursorTo, Waiting, AtKey, control
    <2>2. PagesTyped' /\ Listed' /\ Browsing'
        BY <1>0, <1>1, <1>12, <2>1, CursorKeeps
    <2> QED
        BY <1>2, <2>1, <2>2
<1>13. CASE bugoto
    <2>1. pc = "key" /\ pc' = pc
        BY <1>13 DEF bugoto, Waiting, AtKey, control
    <2>2. buffergoto(pos2buf) /\ status' = Drawn(pos2buf)
        BY <1>13 DEF bugoto
    <2>3. pos2buf \in Buffers
        <3>1. Len(bufs) \in Nat /\ cpos \in Nat /\ Len(bufs) > cpos
            BY <1>0, <1>1, <2>1, ListPositions DEF PagesTyped, Browsing
        <3>2. cpos + 1 \in 1 .. Len(bufs)
            BY <3>1
        <3> QED
            BY <1>0, <3>2, ListPositions DEF pos2buf
    <2>4. PagesTyped' /\ (status' = "running" => Listed' /\ Browsing')
        BY <1>0, <1>1, <2>1, <2>2, <2>3, GotoKeeps
    <2> QED
        BY <1>2, <2>1, <2>4
<1>14. CASE SwitchKey
    <2>1. PICK name \in Switches : Switch(name)
        BY <1>14 DEF SwitchKey
    <2>2. pc = "key" /\ pc' = pc
        BY <1>14, <2>1 DEF SwitchKey, Switch, Waiting, AtKey
    <2>3. PagesTyped' /\ (status' = "running" => Listed' /\ Browsing')
        BY <1>0, <1>1, <2>1, <2>2, SwitchKeeps
    <2> QED
        BY <1>2, <2>2, <2>3
<1>15. CASE inpcommand
    BY <1>8, <1>15 DEF inpcommand, Waiting, AtKey
<1>16. CASE inpfileload
    BY <1>3, <1>16 DEF inpfileload, Waiting, AtKey
<1> QED
    BY <1>4, <1>5, <1>6, <1>7, <1>9, <1>10, <1>11, <1>12, <1>13, <1>14, <1>15, <1>16
    DEF TuiNext, Scripted, AddingVme, Key


-------------------------------------------------------------------------------
(***************************************************************************)
(* What the program promises                                               *)
(***************************************************************************)
\* The invariant holds before a crate is opened.
LEMMA TuiInitInv ==
    ASSUME TuiInit
    PROVE  IInv
<1>1. LibInv
    BY InvInit DEF TuiInit
<1>2. LiveBuffers = {}
    BY DEF TuiInit, LiveBuffers
<1>3. <<>> \in Seq(Buffers) /\ <<>> \in Seq(Frames) /\ Len(<<>>) = 0 /\ DOMAIN <<>> = {}
    OBVIOUS
<1>4. PagesTyped
    BY <1>3 DEF TuiInit, PagesTyped
<1>5. ControlTyped
    BY <1>3, TuiAssumption DEF TuiInit, ControlTyped, NoCard
<1>6. PagesSound
    <2>1. Cardinality({}) = 0 /\ Cardinality(Crates) \in Nat
        BY FS_EmptySet, FS_CardinalityType, TuiAssumption
    <2>2. Cardinality(LiveBuffers) + Cardinality(unopened) <= Cardinality(Crates)
        BY <1>2, <2>1 DEF TuiInit
    <2>3. Listed
        BY <1>2, <1>3 DEF TuiInit, Listed, IsInjective, ToSet
    <2> QED
        BY <2>2, <2>3 DEF TuiInit, PagesSound
<1>7. CardsKept
    BY <1>3, TuiAssumption DEF TuiInit, LibraryInit, CardsKept, Closed
<1> QED
    BY <1>1, <1>4, <1>5, <1>6, <1>7 DEF IInv

\* Every step keeps it.
LEMMA TuiNextInv ==
    ASSUME IInv, [TuiNext]_tui
    PROVE  IInv'
<1>1. CASE TuiNext
    <2>1. ControlTyped' /\ PagesTyped' /\ PagesSound'
        BY <1>1, ControlKeeps, PagesKeep DEF IInv
    <2>2. Calls
        BY <1>1, LibraryMoves DEF IInv
    <2>3. LibInv' /\ CardsKept'
        <3>1. CASE UNCHANGED library
            <4>1. LibInv'
                BY <3>1, InvStutter DEF IInv
            <4>2. CardsKept'
                BY <3>1 DEF IInv, library, CardsKept
            <4> QED
                BY <4>1, <4>2
        <3>2. ASSUME NEW c \in Crates, CrateCall(c) PROVE LibInv' /\ CardsKept'
            BY <3>2, CallKeeps DEF IInv
        <3> QED
            BY <2>2, <3>1, <3>2 DEF Calls
    <2> QED
        BY <2>1, <2>3 DEF IInv
<1>2. CASE UNCHANGED tui
    <2>1. UNCHANGED library /\ UNCHANGED pages /\ UNCHANGED control /\ UNCHANGED status
        BY <1>2 DEF tui
    <2>2. LibInv'
        BY <2>1, InvStutter DEF IInv
    <2>3. PagesTyped' /\ ControlTyped' /\ CardsKept'
        BY <2>1 DEF IInv, pages, control, library, PagesTyped, ControlTyped, CardsKept
    <2>4. LiveBuffers' = LiveBuffers
        BY <2>1 DEF pages, LiveBuffers
    <2>5. PagesSound'
        BY <2>1, <2>4 DEF IInv, pages, control, PagesSound, Listed, Browsing
    <2> QED
        BY <2>2, <2>3, <2>5 DEF IInv
<1> QED
    BY <1>1, <1>2

\* The inductive invariant holds whatever scripts say, the user types and memory and
\* the driver grant: the facts that the theorems below rest on.
THEOREM TuiInvariance == TuiSpec => []IInv
BY TuiInitInv, TuiNextInv, PTL DEF TuiSpec

\* Pages, cursors, pointers and scripts keep their types in every run of v120_tui; the
\* stack of scripts that load scripts stays below NTOKENS.
THEOREM TuiTypeCorrect == TuiSpec => []TuiTypeOK
<1>1. IInv => TuiTypeOK
    BY DEF IInv, PagesTyped, ControlTyped, TuiTypeOK
<1> QED
    BY <1>1, TuiInvariance, PTL

\* While the user works the list holds each page once, the buffer list in front, with
\* the cursor and the page on the screen on it, for any number of crates and pages,
\* any screen, any scripts and any commands.
THEOREM ListStaysSound == TuiSpec => []BuffersSound
<1>1. IInv => BuffersSound
    <2> SUFFICES ASSUME IInv, status = "running", pc \in {"key", "add_vme"}
                 PROVE  /\ IsInjective(bufs)
                        /\ ToSet(bufs) = {b \in Buffers : Live(b)}
                        /\ kind[bufs[1]] = "list"
                        /\ cpos < Len(bufs)
                        /\ g_buffer \in ToSet(bufs)
        BY DEF BuffersSound
    <2>1. Listed /\ Browsing
        BY DEF IInv, PagesSound
    <2>2. LiveBuffers = {b \in Buffers : Live(b)}
        BY DEF LiveBuffers, Live
    <2>3. cpos \in Nat /\ Len(bufs) \in Nat
        BY LenProperties DEF IInv, PagesTyped
    <2> QED
        BY <2>1, <2>2, <2>3 DEF Listed, Browsing
<1> QED
    BY <1>1, TuiInvariance, PTL

\* A page of a VME card reaches the card it was added for, byte by byte, after any
\* number of cards added, pages killed and allocations failed and repeated.
THEOREM CardsStayShown == TuiSpec => []BrowsersShowTheirCard
<1>1. IInv => BrowsersShowTheirCard
    <2> SUFFICES ASSUME IInv, NEW b \in Buffers, NEW c \in Crates,
                        NEW k \in DOMAIN handle[c].list_head, handle[c].list_head[k] = shows[b],
                        alloc[c].phase = "done", alloc[c].pgno # NULL,
                        NEW i \in 0 .. len[shows[b]] - 1
                 PROVE  InMapping(c, PageOf(shows[b], i)) /\ Reaches(c, shows[b], i)
        BY DEF BrowsersShowTheirCard
    <2>1. shows[b] \in relied[c]
        BY DEF IInv, CardsKept
    <2>2. RegionsReachTheirCard
        BY RegionsReach DEF IInv
    <2>3. c \in Handles
        BY TuiAssumption
    <2> QED
        BY <2>1, <2>2, <2>3 DEF RegionsReachTheirCard
<1> QED
    BY <1>1, TuiInvariance, PTL

===============================================================================
