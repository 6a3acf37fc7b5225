----------------------------- MODULE V120Tool_proofs ---------------------------
(***************************************************************************)
(* Proofs about the command line tool v120, for every number of processes  *)
(* and crates, every command line, every file and every address space.     *)
(***************************************************************************)
EXTENDS V120Tool, LibV120_proofs, FiniteSetTheorems, SequenceTheorems

(***************************************************************************)
(* Types                                                                   *)
(***************************************************************************)
Labels == {"start", "open", "fn", "close", "end", "allocate", "check", "transfer", "slot",
           "answer", "unlocked", "erase", "erased", "fread", "pgno", "reflash", "written",
           "configure", "scan", "lastacc"}

LocalTyped ==
    /\ job \in [Handles -> CommandLine \cup {NoJob}]
    /\ \A p \in Handles : job[p] \in Jobs[p] \cup {NoJob}
    /\ pc \in [Handles -> Labels]
    /\ at \in [Handles -> Nat] /\ count \in [Handles -> Nat]
    /\ found \in [Handles -> BOOLEAN]
    /\ DOMAIN pages = Handles
    /\ ret \in [Handles -> {"success", "failure", "fault"}]
    /\ DOMAIN got = Handles /\ \A p \in Handles : DOMAIN got[p] = Crates
    /\ cards \in [Handles -> [Crates -> Nat \cup {NULL}]]
    /\ disturbed \subseteq Handles

\* What the registers hold is of no concern here, except for page numbers and flags.
RegistersTyped ==
    /\ DOMAIN macro = Crates /\ DOMAIN buf = Crates
    /\ DOMAIN requester = Crates /\ DOMAIN vme_acc = Crates
    /\ DOMAIN mp = Crates /\ \A c \in Crates : mp[c].n \in FlashPages
    /\ slot \in [Crates -> BOOLEAN] /\ link \in [Crates -> BOOLEAN]
    /\ DOMAIN flash = Crates
    /\ \A c \in Crates : DOMAIN flash[c] = {"unlocked", "pages"}

ToolTyped == LocalTyped /\ RegistersTyped

(***************************************************************************)
(* Where a process stands: which command it runs there, and that it then   *)
(* has a crate open.                                                       *)
(***************************************************************************)
Upgrading(p) == job[p].cmd = "flash-upgrade"
Writing == {"fread", "pgno", "reflash", "written"}
Scanning == {"configure", "scan", "lastacc"}

Placed(p) ==
    /\ IF pc[p] = "start" THEN at[p] = 0 /\ \A c \in Crates : cards[p][c] = NULL
                        ELSE job[p] \in Jobs[p]
    /\ pc[p] \notin {"start", "open", "end"} => IsOpen(p) /\ ~Refused(job[p])
    /\ pc[p] = "start" => ~IsOpen(p)
    \* the loop over the crates comes back with the crate it has dealt with
    /\ pc[p] = "open" /\ IsOpen(p) => job[p].crate = ALL /\ ~Refused(job[p])
    /\ pc[p] = "close" => job[p].crate # ALL
    \* a scan has yet to come to the crates of higher numbers, and to this one
    /\ pc[p] # "end" => \A d \in Crates : d > handle[p].crateno => cards[p][d] = NULL
    /\ pc[p] = "fn" => cards[p][handle[p].crateno] = NULL
    /\ pc[p] \in {"allocate", "check", "transfer"} => job[p].cmd \in RW
    /\ pc[p] = "slot" => job[p].cmd = "requester"
    /\ pc[p] = "answer" => job[p].cmd \in DOMAIN ReportMacro
    /\ pc[p] \in Writing \cup {"unlocked", "erase", "erased"} => Upgrading(p)
    /\ pc[p] \in Scanning => job[p].cmd = "scan"
    \* a file is read up to its last page, or up to the page behind it
    /\ Upgrading(p) /\ pc[p] \in {"open", "fn", "unlocked", "erase", "erased"} => at[p] = 0
    /\ Upgrading(p) => at[p] <= Len(job[p].file.pages)

(***************************************************************************)
(* What a process that nobody disturbed has achieved so far                *)
(***************************************************************************)
\* The command has returned for the crate that is still open.
Over(p) == IsOpen(p) /\ pc[p] \in {"open", "close"} /\ ret[p] = "success"

\* The two halves of a page are those of page m of the file.
Right(page, file, m) ==
    /\ page[1] = file.pages[m]
    /\ m < Len(file.pages) \/ file.whole => page[2] = file.pages[m]

\* Page m of the file is in its place in the flash memory of crate c.
Holds(c, file, m) == Right(flash[c].pages[m - 1], file, m)

FlashWork(p) ==
    LET c == C(p)
        file == job[p].file
        n == at[p]
        more == n + 1 <= Len(file.pages)
    IN  Upgrading(p) =>
        /\ pc[p] \in Writing => link[c] /\ \A m \in 1 .. n : Holds(c, file, m)
        /\ pc[p] \in {"fread", "pgno", "reflash"} => macro[c] = "idle"
        /\ pc[p] \in {"pgno", "reflash", "written"} /\ more => Right(buf[c], file, n + 1)
        /\ pc[p] \in {"reflash", "written"} => mp[c].n = n
        /\ pc[p] = "written" => \/ macro[c] \in {"reflash", "failed"}
                                \/ macro[c] = "idle" /\ (more => Holds(c, file, n + 1))
        /\ Over(p) =>
              macro[c] = "idle" /\ \A m \in 1 .. Len(file.pages) : Holds(c, file, m)

\* What a report of job j finds when the macro unit has done its work on crate c.
Reported(j, c) ==
    IF j.cmd = "report-id" THEN mp[c].kind = "rev" ELSE buf[c] = Both("report")

ReportWork(p) ==
    LET c == C(p)
    IN  /\ pc[p] = "answer" => \/ ~link[c]
                               \/ macro[c] \in {ReportMacro[job[p].cmd], "failed"}
                               \/ macro[c] = "idle" /\ Reported(job[p], c)
        /\ Over(p) =>
              /\ job[p].cmd = "report-id" => got[p][c] \in {"rev", "unavailable"}
              /\ job[p].cmd = "report-flash" => got[p][c] = "report"

\* The cards of an address space that begin below address n.
Below(cfg, n) == {a \in CardsIn(cfg) : a < n}

ScanWork(p) ==
    LET c == C(p)
        sp == Space(p)
        described(q) == pd[c][q] = [page |-> q, config |-> sp]
    IN  job[p].cmd = "scan" =>
        /\ pc[p] \in Scanning => (sp = A24 => job[p].a24)
        /\ pc[p] = "configure" =>
              /\ at[p] * PageSize < ScanTop[sp]
              /\ \A q \in Pages : q < at[p] => described(q)
        /\ pc[p] \in {"scan", "lastacc"} =>
              /\ at[p] <= ScanTop[sp]
              /\ \A q \in Pages : q * PageSize < ScanTop[sp] => described(q)
              /\ count[p] = Cardinality(Below(sp, at[p]))
              /\ found[p] <=> at[p] - 1 \in Answering[sp]
        /\ pc[p] = "lastacc" =>
              /\ at[p] < ScanTop[sp]
              /\ \/ ~link[c]
                 \/ vme_acc[c] = IF at[p] \in Answering[sp] THEN "dtack" ELSE "timeout"
        /\ Over(p) =>
              cards[p][c] = Cardinality(CardsIn(IF job[p].a24 THEN A24 ELSE A16))

Achieved(p) == FlashWork(p) /\ ReportWork(p) /\ ScanWork(p)

ToolInv ==
    /\ LibInv
    /\ ToolTyped
    /\ \A p \in Handles : Placed(p) /\ (p \notin disturbed => Achieved(p))

-------------------------------------------------------------------------------
(***************************************************************************)
(* Command lines                                                           *)
(***************************************************************************)
\* A command line has the arguments of its command.
LEMMA Arguments ==
    ASSUME NEW j \in CommandLine
    PROVE  /\ j.crate \in Crates \cup {FIRST, ALL}
           /\ j.cmd \in RW => /\ j.region \in Regions /\ j.units \in Nat /\ j.stdin \in Nat
                              /\ j.binary \in BOOLEAN /\ j.dwidth \in {"b", "w", "s", "l"}
           /\ j.cmd = "flash-upgrade" =>
                 j.file.pages \in Seq(STRING) /\ j.file.whole \in BOOLEAN
           /\ j.cmd = "scan" => j.a24 \in BOOLEAN
           /\ j.cmd = "requester" => j.slot0 \in BOOLEAN
<1> DEFINE crates == Crates \cup {FIRST, ALL}
           plain == {"reset", "sysreset", "reinit", "report-id", "report-flash",
                     "report-status", "report-pcie"}
<1>1. CASE j \in [cmd : RW, crate : crates, region : Regions, units : Nat, stdin : Nat,
                  dwidth : {"b", "w", "s", "l"}, binary : BOOLEAN]
    BY <1>1 DEF RW
<1>2. CASE j \in [cmd : {"flash-upgrade"}, crate : crates,
                  file : [pages : Seq(STRING), whole : BOOLEAN]]
    BY <1>2 DEF RW
<1>3. CASE j \in [cmd : {"scan"}, crate : crates, a24 : BOOLEAN]
    BY <1>3 DEF RW
<1>4. CASE j \in [cmd : {"requester"}, crate : crates,
                  bus : {"query", "BR0", "BR1", "BR2", "BR3"}, slot0 : BOOLEAN]
    BY <1>4 DEF RW
<1>5. CASE j \in [cmd : plain, crate : crates]
    BY <1>5 DEF RW
<1> QED
    BY <1>1, <1>2, <1>3, <1>4, <1>5 DEF CommandLine

\* The process that reads a file has one that fits the flash memory.
LEMMA FileFits ==
    ASSUME LocalTyped, NEW p \in Handles, Placed(p), Upgrading(p)
    PROVE  /\ job[p].file.pages \in Seq(STRING) /\ Len(job[p].file.pages) \in Nat
           /\ at[p] \in 0 .. Len(job[p].file.pages)
           /\ 0 .. Len(job[p].file.pages) \subseteq FlashPages
<1>1. job[p] \in Jobs[p]
    BY DEF LocalTyped, Upgrading, NoJob
<1>2. job[p] \in CommandLine
    BY <1>1, ToolAssumption
<1>3. job[p].file.pages \in Seq(STRING) /\ Len(job[p].file.pages) \in Nat
    BY <1>2, Arguments, LenProperties DEF Upgrading
<1>4. 0 .. Len(job[p].file.pages) \subseteq FlashPages
    BY <1>1, ToolAssumption DEF Upgrading
<1>5. at[p] \in Nat /\ at[p] <= Len(job[p].file.pages)
    BY DEF LocalTyped, Placed
<1> QED
    BY <1>3, <1>4, <1>5

-------------------------------------------------------------------------------
(***************************************************************************)
(* Types                                                                   *)
(***************************************************************************)
\* What a process knows of its own changes in its own place only.
LEMMA CrateOpen ==
    ASSUME LibInv, NEW p \in Handles, IsOpen(p)
    PROVE  C(p) \in Crates
BY DEF LibInv, Sound, LibraryTypeOK, IsOpen, C

\* Writing a register of a crate, on the bus or off it, leaves the other crates alone.
LEMMA SetKeeps ==
    ASSUME NEW register, DOMAIN register = Crates, NEW c \in Crates, NEW value
    PROVE  /\ DOMAIN Set(register, c, value) = Crates
           /\ \A d \in Crates : d # c => Set(register, c, value)[d] = register[d]
           /\ Set(register, c, value)[c] = IF link[c] THEN value ELSE register[c]
BY DEF Set

\* Returning from a command leaves the other processes alone.
LEMMA ReturnTyped ==
    ASSUME LocalTyped, NEW p \in Handles, NEW result \in {"success", "failure"},
           Return(p, result)
    PROVE  /\ ret' \in [Handles -> {"success", "failure", "fault"}] /\ ret'[p] = result
           /\ pc' \in [Handles -> Labels]
           /\ pc'[p] = IF job[p].crate = ALL THEN "open" ELSE "close"
           /\ \A q \in Handles : q # p => ret'[q] = ret[q] /\ pc'[q] = pc[q]
BY DEF Return, Goto, LocalTyped, Labels

\* And going on.
LEMMA GotoTyped ==
    ASSUME LocalTyped, NEW p \in Handles, NEW label \in Labels, Goto(p, label)
    PROVE  /\ pc' \in [Handles -> Labels] /\ pc'[p] = label
           /\ \A q \in Handles : q # p => pc'[q] = pc[q]
BY DEF Goto, LocalTyped

\* Working on a crate disturbs the others who have it open.
LEMMA DisturbTyped ==
    ASSUME LocalTyped, NEW p, NEW c, Disturb(p, c)
    PROVE  /\ disturbed' \subseteq Handles /\ disturbed \subseteq disturbed'
           /\ \A q \in Handles : q # p /\ C(q) = c => q \in disturbed'
           /\ p \in disturbed' => p \in disturbed
BY DEF Disturb, LocalTyped, C

-------------------------------------------------------------------------------
(***************************************************************************)
(* What a step of one process leaves alone                                 *)
(***************************************************************************)
LocalSame(q) ==
    /\ job'[q] = job[q] /\ pc'[q] = pc[q] /\ at'[q] = at[q] /\ count'[q] = count[q]
    /\ found'[q] = found[q] /\ pages'[q] = pages[q] /\ ret'[q] = ret[q]
    /\ got'[q] = got[q] /\ cards'[q] = cards[q]

Untouched(c) ==
    /\ pd'[c] = pd[c] /\ macro'[c] = macro[c] /\ mp'[c] = mp[c] /\ buf'[c] = buf[c]
    /\ vme_acc'[c] = vme_acc[c] /\ link'[c] = link[c] /\ flash'[c] = flash[c]

\* A step of p that changes a crate makes itself known to the others who have it open.
Tells(p) ==
    /\ \A q \in Handles : q # p => LocalSame(q) /\ handle'[q] = handle[q]
    /\ disturbed \ {p} \subseteq disturbed'
    /\ \A c \in Crates : \/ Untouched(c)
                         \/ \A q \in Handles : q # p /\ C(q) = c => q \in disturbed'

\* Only a process that opens a crate has a new one to itself.
Moves(p) == Tells(p) /\ disturbed \subseteq disturbed'

\* What a process has achieved stays so while neither its books nor its crate change.
LEMMA StaysAchieved ==
    ASSUME LibInv, NEW q \in Handles, Placed(q), Achieved(q),
           LocalSame(q), handle'[q] = handle[q], IsOpen(q) => Untouched(C(q))
    PROVE  Achieved(q)'
<1>1. CASE ~IsOpen(q)
    <2>1. pc[q] \in {"start", "open", "end"}
        BY <1>1 DEF Placed
    <2>2. FlashWork(q)' /\ ReportWork(q)'
        BY <1>1, <2>1 DEF FlashWork, ReportWork, Writing, LocalSame, ReportMacro, Over, IsOpen
    <2>3. ScanWork(q)'
        BY <1>1, <2>1 DEF ScanWork, Scanning, LocalSame, Over, IsOpen
    <2> QED
        BY <2>2, <2>3 DEF Achieved
<1>2. CASE IsOpen(q)
    <2>1. C(q) \in Crates /\ C(q)' = C(q)
        BY <1>2, CrateOpen DEF C
    <2>2. Untouched(C(q))
        BY <1>2
    <2>7. Over(q)' = Over(q)
        BY DEF Over, IsOpen, LocalSame
    <2>3. FlashWork(q)'
        BY <2>1, <2>2, <2>7 DEF Achieved, FlashWork, Holds, Right, Upgrading, LocalSame, Untouched
    <2>4. ReportWork(q)'
        BY <2>1, <2>2, <2>7 DEF Achieved, ReportWork, Reported, Both, ReportMacro, LocalSame, Untouched
    <2>5. Space(q)' = Space(q)
        BY <2>1 DEF Space, LocalSame
    <2>6. ScanWork(q)'
        BY <2>1, <2>2, <2>5, <2>7 DEF Achieved, ScanWork, LocalSame, Untouched
    <2> QED
        BY <2>3, <2>4, <2>6 DEF Achieved
<1> QED
    BY <1>1, <1>2

\* So does what a process has achieved on a crate it does not share, while others work.
LEMMA OthersKept ==
    ASSUME ToolInv, NEW p \in Handles, Tells(p), NEW q \in Handles, q # p
    PROVE  Placed(q)' /\ (q \notin disturbed' => Achieved(q)')
<1>1. LocalSame(q) /\ handle'[q] = handle[q] /\ Placed(q)
    BY DEF Tells, ToolInv
<1>2. Placed(q)'
    BY <1>1 DEF Placed, LocalSame, IsOpen, Upgrading
<1>3. ASSUME q \notin disturbed' PROVE Achieved(q)'
    <2>1. Achieved(q)
        BY <1>3 DEF Tells, ToolInv
    <2>2. IsOpen(q) => Untouched(C(q))
        BY <1>3, CrateOpen DEF Tells, ToolInv
    <2> QED
        BY <1>1, <2>1, <2>2, StaysAchieved DEF ToolInv
<1> QED
    BY <1>2, <1>3

\* What an action of p must leave behind.
Stepped(p) ==
    /\ LibInv' /\ ToolTyped' /\ Tells(p)
    /\ Placed(p)' /\ (p \notin disturbed' => Achieved(p)')

OnlyOwn(p) == \A q \in Handles : q # p => LocalSame(q)

\* It keeps its own books only, or writes registers of its crate, or calls the library.
LEMMA PrivateStep ==
    ASSUME ToolInv, NEW p \in Handles, OnlyOwn(p), Private
    PROVE  LibInv' /\ RegistersTyped' /\ Moves(p) /\ disturbed' \subseteq Handles
<1>1. LibInv'
    BY InvStutter DEF ToolInv, Private
<1>2. RegistersTyped'
    BY DEF ToolInv, ToolTyped, RegistersTyped, Private, registers
<1>3. Moves(p)
    BY DEF Moves, Tells, OnlyOwn, Untouched, Private, registers, library
<1> QED
    BY <1>1, <1>2, <1>3 DEF ToolInv, ToolTyped, LocalTyped, Private

\* A process that writes a register says so to the others who have the crate open.
LEMMA RegisterStep ==
    ASSUME ToolInv, NEW p \in Handles, OnlyOwn(p), UNCHANGED library,
           \A d \in Crates : d # C(p) => Untouched(d),
           Disturb(p, C(p))
    PROVE  LibInv' /\ Moves(p) /\ disturbed' \subseteq Handles
<1>1. LibInv'
    BY InvStutter DEF ToolInv
<1>2. /\ disturbed' \subseteq Handles /\ disturbed \subseteq disturbed'
      /\ \A q \in Handles : q # p /\ C(q) = C(p) => q \in disturbed'
    BY DisturbTyped DEF ToolInv, ToolTyped
<1>3. Moves(p)
    BY <1>2 DEF Moves, Tells, OnlyOwn, library
<1> QED
    BY <1>1, <1>2, <1>3

\* A call of the library changes one handle and, when it writes page descriptors, those
\* of one crate, which the others are told.
LEMMA LibraryStep ==
    ASSUME ToolInv, NEW p \in Handles, OnlyOwn(p), UNCHANGED registers,
           \A q \in Handles : q # p => handle'[q] = handle[q],
           \/ pd' = pd /\ disturbed' \subseteq Handles /\ disturbed \subseteq disturbed'
           \/ (\A d \in Crates : d # C(p) => pd'[d] = pd[d]) /\ Disturb(p, C(p))
    PROVE  RegistersTyped' /\ Moves(p) /\ disturbed' \subseteq Handles
<1>1. RegistersTyped'
    BY DEF ToolInv, ToolTyped, RegistersTyped, registers
<1>2. CASE pd' = pd /\ disturbed' \subseteq Handles /\ disturbed \subseteq disturbed'
    BY <1>1, <1>2 DEF Moves, Tells, OnlyOwn, Untouched, registers
<1>3. CASE (\A d \in Crates : d # C(p) => pd'[d] = pd[d]) /\ Disturb(p, C(p))
    <2>1. /\ disturbed' \subseteq Handles /\ disturbed \subseteq disturbed'
          /\ \A q \in Handles : q # p /\ C(q) = C(p) => q \in disturbed'
        BY <1>3, DisturbTyped DEF ToolInv, ToolTyped
    <2>2. Moves(p)
        BY <1>3, <2>1 DEF Moves, Tells, OnlyOwn, Untouched, registers
    <2> QED
        BY <1>1, <2>1, <2>2
<1> QED
    BY <1>2, <1>3

\* Most places claim nothing of what has been achieved.
LEMMA NothingClaimed ==
    ASSUME NEW p,
           \/ pc'[p] \in {"start", "end", "fn", "allocate", "check", "transfer", "slot", "unlocked",
                          "erase", "erased"}
           \/ /\ pc'[p] \in {"open", "close"}
              /\ \/ ret'[p] # "success" \/ ~IsOpen(p)'
                 \/ job'[p].cmd \notin {"flash-upgrade", "report-id", "report-flash", "scan"}
    PROVE  Achieved(p)'
<1>1. FlashWork(p)'
    BY DEF FlashWork, Writing, Upgrading, Over
<1>2. ReportWork(p)'
    BY DEF ReportWork, Over
<1>3. ScanWork(p)'
    BY DEF ScanWork, Scanning, Over
<1> QED
    BY <1>1, <1>2, <1>3 DEF Achieved

-------------------------------------------------------------------------------
(***************************************************************************)
(* Actions on the process's own books                                      *)
(***************************************************************************)
\* The process has read its command line.
LEMMA StartStep ==
    ASSUME ToolInv, NEW p \in Handles, Start(p)
    PROVE  Stepped(p)
<1>0. LocalTyped /\ Placed(p) /\ pc[p] = "start"
    BY DEF ToolInv, ToolTyped, Start
<1>1. PICK j \in Jobs[p] : job' = [job EXCEPT ![p] = j]
    BY DEF Start
<1>2. j \in CommandLine
    BY ToolAssumption
<1>3. /\ pc' \in [Handles -> Labels] /\ pc'[p] = "open"
      /\ \A q \in Handles : q # p => pc'[q] = pc[q]
    BY <1>0, GotoTyped DEF Start, Labels
<1>4. /\ job' \in [Handles -> CommandLine \cup {NoJob}] /\ job'[p] = j
      /\ \A q \in Handles : q # p => job'[q] = job[q]
    BY <1>0, <1>1, <1>2 DEF LocalTyped
<1>5. UNCHANGED <<at, count, found, pages, ret, got, cards>> /\ Private
    BY DEF Start
<1>6. OnlyOwn(p)
    BY <1>3, <1>4, <1>5 DEF OnlyOwn, LocalSame
<1>7. LibInv' /\ RegistersTyped' /\ Moves(p) /\ disturbed' \subseteq Handles
    BY <1>5, <1>6, PrivateStep
<1>8. LocalTyped'
    BY <1>0, <1>3, <1>4, <1>5, <1>7 DEF LocalTyped
<1>9. Placed(p)'
    <2>1. at'[p] = 0
        BY <1>0, <1>5 DEF Placed
    <2>2. j.cmd = "flash-upgrade" => Len(j.file.pages) \in Nat
        BY <1>2, Arguments, LenProperties
    <2> QED
        BY <1>0, <1>3, <1>4, <1>5, <2>1, <2>2
           DEF Placed, Upgrading, Scanning, Writing, IsOpen, Private, library
<1>10. Achieved(p)'
    <2>1. ~IsOpen(p)'
        BY <1>0, <1>5 DEF Placed, IsOpen, Private, library
    <2> QED
        BY <1>3, <2>1, NothingClaimed
<1> QED
    BY <1>7, <1>8, <1>9, <1>10 DEF Stepped, Moves, ToolTyped

\* The process is over before it has opened anything.
LEMMA RefuseStep ==
    ASSUME ToolInv, NEW p \in Handles, Refuse(p)
    PROVE  Stepped(p)
<1>0. LocalTyped /\ Placed(p) /\ pc[p] = "open"
    BY DEF ToolInv, ToolTyped, Refuse
<1>1. /\ pc' \in [Handles -> Labels] /\ pc'[p] = "end"
      /\ \A q \in Handles : q # p => pc'[q] = pc[q]
    BY <1>0, GotoTyped DEF Refuse, Labels
<1>2. UNCHANGED <<job, at, count, found, pages, got, cards>> /\ Private
    BY DEF Refuse
<1>3. /\ ret' \in [Handles -> {"success", "failure", "fault"}]
      /\ \A q \in Handles : q # p => ret'[q] = ret[q]
    BY <1>0 DEF Refuse, LocalTyped
<1>4. OnlyOwn(p)
    BY <1>1, <1>2, <1>3 DEF OnlyOwn, LocalSame
<1>5. LibInv' /\ RegistersTyped' /\ Moves(p) /\ disturbed' \subseteq Handles
    BY <1>2, <1>4, PrivateStep
<1>6. LocalTyped'
    BY <1>0, <1>1, <1>2, <1>3, <1>5 DEF LocalTyped
<1>7. Placed(p)'
    BY <1>0, <1>1, <1>2 DEF Placed, Upgrading, Scanning, Writing
<1>8. Achieved(p)'
    BY <1>1, NothingClaimed
<1> QED
    BY <1>5, <1>6, <1>7, <1>8 DEF Stepped, Moves, ToolTyped

\* A command that is over with its crate returns to the loop over the crates, or to
\* the end of the program, which keeps its place in the file, if it has one.
LEMMA Leaves ==
    ASSUME ToolInv, NEW p \in Handles, NEW result \in {"success", "failure"}, Return(p, result),
           job' = job, at'[p] = at[p], handle'[p].crateno = handle[p].crateno,
           \A d \in Crates : d > handle[p].crateno => cards'[p][d] = cards[p][d],
           pc[p] \notin {"start", "open", "end"}
    PROVE  Placed(p)'
<1>0. LocalTyped /\ Placed(p)
    BY DEF ToolInv, ToolTyped
<1>1. pc'[p] = IF job[p].crate = ALL THEN "open" ELSE "close"
    BY <1>0, ReturnTyped
<1>2. Upgrading(p) => job[p].crate # ALL
    BY <1>0 DEF Placed, Refused, ByCrate, Upgrading
<1> QED
    BY <1>0, <1>1, <1>2 DEF Placed, Upgrading, Scanning, Writing, IsOpen

\* A command that returns, having learnt something or not, and touches no crate.
LEMMA ReturnStep ==
    ASSUME ToolInv, NEW p \in Handles, NEW result \in {"success", "failure"}, Return(p, result),
           pc[p] \notin {"start", "open", "end"},
           UNCHANGED <<job, at, count, found, pages, cards>>,
           DOMAIN got' = Handles, DOMAIN got'[p] = Crates,
           \A q \in Handles : q # p => got'[q] = got[q],
           Private
    PROVE  /\ LibInv' /\ ToolTyped' /\ Moves(p) /\ Placed(p)'
           /\ pc'[p] = IF job[p].crate = ALL THEN "open" ELSE "close"
           /\ ret'[p] = result /\ UNCHANGED handle /\ disturbed' = disturbed
<1>0. LocalTyped /\ Placed(p)
    BY DEF ToolInv, ToolTyped
<1>1. /\ ret' \in [Handles -> {"success", "failure", "fault"}] /\ ret'[p] = result
      /\ pc' \in [Handles -> Labels]
      /\ pc'[p] = IF job[p].crate = ALL THEN "open" ELSE "close"
      /\ \A q \in Handles : q # p => ret'[q] = ret[q] /\ pc'[q] = pc[q]
    BY <1>0, ReturnTyped
<1>2. OnlyOwn(p)
    BY <1>1 DEF OnlyOwn, LocalSame
<1>3. LibInv' /\ RegistersTyped' /\ Moves(p) /\ disturbed' \subseteq Handles
    BY <1>2, PrivateStep
<1>4. UNCHANGED handle /\ disturbed' = disturbed
    BY DEF Private, library
<1>5. DOMAIN got' = Handles /\ \A q \in Handles : DOMAIN got'[q] = Crates
    BY <1>0 DEF LocalTyped
<1>6. LocalTyped'
    BY <1>0, <1>1, <1>3, <1>5 DEF LocalTyped
<1>7. Placed(p)'
    BY <1>4, Leaves
<1> QED
    BY <1>1, <1>3, <1>4, <1>6, <1>7 DEF ToolTyped

\* What a process learns of its crate is its own.
LEMMA LearnTyped ==
    ASSUME ToolInv, NEW p \in Handles, IsOpen(p), NEW value, Learn(p, value)
    PROVE  /\ DOMAIN got' = Handles /\ DOMAIN got'[p] = Crates
           /\ got'[p][C(p)] = value
           /\ \A q \in Handles : q # p => got'[q] = got[q]
<1>1. C(p) \in Crates
    BY CrateOpen DEF ToolInv
<1> QED
    BY <1>1 DEF Learn, ToolInv, ToolTyped, LocalTyped

\* A misaligned address, or an allocation that failed, ends the command.
LEMMA CheckStep ==
    ASSUME ToolInv, NEW p \in Handles, Check(p)
    PROVE  Stepped(p)
<1>0. LocalTyped /\ Placed(p) /\ pc[p] = "check"
    BY DEF ToolInv, ToolTyped, Check
<1>1. UNCHANGED <<job, at, count, found, pages, got, cards>> /\ Private
    BY DEF Check, LocalAt
<1>2. DOMAIN got = Handles /\ DOMAIN got[p] = Crates
    BY <1>0 DEF LocalTyped
<1>3. job[p].cmd \in RW /\ ~Refused(job[p]) /\ IsOpen(p)
    BY <1>0 DEF Placed
<1>4. CASE Return(p, "failure")
    <2>1. /\ LibInv' /\ ToolTyped' /\ Moves(p) /\ Placed(p)'
          /\ pc'[p] = IF job[p].crate = ALL THEN "open" ELSE "close"
          /\ ret'[p] = "failure"
        BY <1>0, <1>1, <1>2, <1>4, ReturnStep
    <2>2. Achieved(p)'
        BY <2>1, NothingClaimed
    <2> QED
        BY <2>1, <2>2 DEF Stepped, Moves
<1>5. CASE UNCHANGED ret /\ Goto(p, "transfer")
    <2>1. /\ pc' \in [Handles -> Labels] /\ pc'[p] = "transfer"
          /\ \A q \in Handles : q # p => pc'[q] = pc[q]
        BY <1>0, <1>5, GotoTyped DEF Labels
    <2>2. OnlyOwn(p)
        BY <1>1, <1>5, <2>1 DEF OnlyOwn, LocalSame
    <2>3. LibInv' /\ RegistersTyped' /\ Moves(p) /\ disturbed' \subseteq Handles
        BY <1>1, <2>2, PrivateStep
    <2>4. LocalTyped'
        BY <1>0, <1>1, <1>5, <2>1, <2>3 DEF LocalTyped
    <2>5. handle' = handle
        BY <1>1 DEF Private, library
    <2>6. Placed(p)'
        BY <1>0, <1>1, <2>1, <2>5 DEF Placed, Upgrading, Scanning, Writing, IsOpen
    <2>7. Achieved(p)'
        BY <2>1, NothingClaimed
    <2> QED
        BY <2>3, <2>4, <2>6, <2>7 DEF Stepped, Moves, ToolTyped
<1> QED
    BY <1>4, <1>5 DEF Check

\* All values have been moved, or there were none, or one of them is no number.
LEMMA TransferDoneStep ==
    ASSUME ToolInv, NEW p \in Handles, Malformed(p) \/ TransferDone(p)
    PROVE  Stepped(p)
<1>0. LocalTyped /\ Placed(p) /\ pc[p] = "transfer"
    BY DEF ToolInv, ToolTyped, Malformed, TransferDone
<1>1. UNCHANGED <<job, at, count, found, pages, got, cards>> /\ Private
    BY DEF Malformed, TransferDone, LocalAt
<1>2. DOMAIN got = Handles /\ DOMAIN got[p] = Crates
    BY <1>0 DEF LocalTyped
<1>3. job'[p].cmd \in RW
    BY <1>0, <1>1 DEF Placed
<1>4. PICK result \in {"success", "failure"} : Return(p, result)
    BY DEF Malformed, TransferDone
<1>5. /\ LibInv' /\ ToolTyped' /\ Moves(p) /\ Placed(p)'
      /\ pc'[p] = IF job[p].crate = ALL THEN "open" ELSE "close"
    BY <1>0, <1>1, <1>2, <1>4, ReturnStep
<1>6. Achieved(p)'
    BY <1>3, <1>5, NothingClaimed DEF RW
<1> QED
    BY <1>5, <1>6 DEF Stepped, Moves

\* Registers that no process writes are reported at once.
LEMMA PrintStep ==
    ASSUME ToolInv, NEW p \in Handles, PrintRegisters(p) \/ PrintRecords(p)
    PROVE  Stepped(p)
<1>0. LocalTyped /\ Placed(p) /\ pc[p] = "fn"
    BY DEF ToolInv, ToolTyped, PrintRegisters, PrintRecords
<1>1. /\ UNCHANGED <<job, at, count, found, pages, cards>> /\ Private
      /\ Return(p, "success")
    BY DEF PrintRegisters, PrintRecords, LocalGot
<1>2. PICK value : Learn(p, value)
    BY DEF PrintRegisters, PrintRecords
<1>3. DOMAIN got' = Handles /\ DOMAIN got'[p] = Crates /\ \A q \in Handles : q # p => got'[q] = got[q]
    <2>1. IsOpen(p)
        BY <1>0 DEF Placed
    <2> QED
        BY <1>2, <2>1, LearnTyped
<1>4. job[p].cmd \in {"report-status", "report-pcie"}
    BY DEF PrintRegisters, PrintRecords
<1>5. /\ LibInv' /\ ToolTyped' /\ Moves(p) /\ Placed(p)'
      /\ pc'[p] = IF job[p].crate = ALL THEN "open" ELSE "close"
    BY <1>0, <1>1, <1>3, ReturnStep
<1>6. Achieved(p)'
    <2>1. job'[p].cmd = job[p].cmd /\ job'[p].crate = job[p].crate
        BY <1>1
    <2> QED
        BY <1>4, <1>5, <2>1, NothingClaimed
<1> QED
    BY <1>5, <1>6 DEF Stepped, Moves

\* What a process learns from a macro unit that is done is what it has asked for.
LEMMA AnswerStep ==
    ASSUME ToolInv, NEW p \in Handles, Answer(p)
    PROVE  Stepped(p)
<1>0. LocalTyped /\ Placed(p) /\ pc[p] = "answer"
    BY DEF ToolInv, ToolTyped, Answer
<1>1. UNCHANGED <<job, at, count, found, pages, cards>> /\ Private
    BY DEF Answer, LocalGot
<1>2. IsOpen(p) /\ job[p].cmd \in {"report-id", "report-flash"}
    BY <1>0 DEF Placed, ReportMacro
<1> DEFINE isid == job[p].cmd = "report-id"
<1> DEFINE answers(value, result) ==
              /\ Learn(p, value) /\ Return(p, result)
              /\ \/ MacroDone(p) /\ value = (IF isid THEN mp[C(p)].kind ELSE buf[C(p)][1])
                 \/ value = "unavailable" /\ (~isid => result = "failure")
<1>3. PICK value : \E result \in {"success", "failure"} : answers(value, result)
    BY Zenon DEF Answer
<1>4. PICK result \in {"success", "failure"} : answers(value, result)
    BY <1>3
<1>5. /\ DOMAIN got' = Handles /\ DOMAIN got'[p] = Crates /\ got'[p][C(p)] = value
      /\ \A q \in Handles : q # p => got'[q] = got[q]
    BY <1>2, <1>4, LearnTyped
<1>6. /\ LibInv' /\ ToolTyped' /\ Moves(p) /\ Placed(p)'
      /\ pc'[p] = IF job[p].crate = ALL THEN "open" ELSE "close"
      /\ ret'[p] = result /\ UNCHANGED handle /\ disturbed' = disturbed
    BY <1>0, <1>1, <1>4, <1>5, ReturnStep
<1>7. ASSUME p \notin disturbed' PROVE Achieved(p)'
    <2>1. ReportWork(p)
        BY <1>6, <1>7 DEF ToolInv, Achieved
    <2>2. job' = job
        BY <1>1
    <2>3. FlashWork(p)' /\ ScanWork(p)'
        BY <1>2, <1>6, <2>2 DEF FlashWork, ScanWork, Upgrading, Scanning, Over
    <2>4. ret'[p] = "success" =>
              /\ isid => got'[p][C(p)] \in {"rev", "unavailable"}
              /\ ~isid => got'[p][C(p)] = "report"
        BY <1>0, <1>2, <1>4, <1>5, <1>6, <2>1
           DEF ReportWork, MacroDone, Reported, Both, ReportMacro
    <2>5. C(p)' = C(p)
        BY <1>6 DEF C
    <2>6. ReportWork(p)'
        BY <1>2, <1>6, <2>2, <2>4, <2>5 DEF ReportWork, Over
    <2> QED
        BY <2>3, <2>6 DEF Achieved
<1> QED
    BY <1>6, <1>7 DEF Stepped, Moves

-------------------------------------------------------------------------------
(***************************************************************************)
(* Actions on the registers of a crate                                     *)
(***************************************************************************)
\* A process that has a crate open writes its registers, with values of their types.
LEMMA SetTyped ==
    ASSUME ToolInv, NEW p \in Handles, IsOpen(p),
           \/ macro' = macro
           \/ \E value : macro' = Set(macro, C(p), value),
           \/ buf' = buf
           \/ \E value : buf' = Set(buf, C(p), value),
           \/ vme_acc' = vme_acc
           \/ \E value : vme_acc' = Set(vme_acc, C(p), value),
           \/ requester' = requester
           \/ \E value : requester' = Set(requester, C(p), value),
           \/ mp' = mp
           \/ \E value : value.n \in FlashPages /\ mp' = Set(mp, C(p), value),
           \/ slot' = slot
           \/ \E value \in BOOLEAN : slot' = Set(slot, C(p), value),
           \/ link' = link
           \/ link' = [link EXCEPT ![C(p)] = TRUE],
           flash' = flash, UNCHANGED library
    PROVE  RegistersTyped' /\ \A d \in Crates : d # C(p) => Untouched(d)
<1> DEFINE c == C(p)
<1>0. RegistersTyped /\ c \in Crates
    BY CrateOpen DEF ToolInv, ToolTyped
<1> HIDE DEF c
<1>1. DOMAIN macro' = Crates /\ \A d \in Crates : d # c => macro'[d] = macro[d]
    BY <1>0, SetKeeps DEF RegistersTyped, c
<1>2. DOMAIN buf' = Crates /\ \A d \in Crates : d # c => buf'[d] = buf[d]
    BY <1>0, SetKeeps DEF RegistersTyped, c
<1>3. DOMAIN vme_acc' = Crates /\ \A d \in Crates : d # c => vme_acc'[d] = vme_acc[d]
    BY <1>0, SetKeeps DEF RegistersTyped, c
<1>4. DOMAIN requester' = Crates
    BY <1>0, SetKeeps DEF RegistersTyped, c
<1>5. /\ DOMAIN mp' = Crates /\ \A d \in Crates : mp'[d].n \in FlashPages
      /\ \A d \in Crates : d # c => mp'[d] = mp[d]
    <2>1. CASE mp' = mp
        BY <1>0, <2>1 DEF RegistersTyped
    <2>2. CASE \E value : value.n \in FlashPages /\ mp' = Set(mp, C(p), value)
        <3>1. PICK value : value.n \in FlashPages /\ mp' = Set(mp, C(p), value)
            BY <2>2
        <3>2. /\ DOMAIN mp' = Crates /\ \A d \in Crates : d # c => mp'[d] = mp[d]
              /\ mp'[c] = IF link[c] THEN value ELSE mp[c]
            BY <1>0, <3>1, SetKeeps DEF RegistersTyped, c
        <3> QED
            BY <1>0, <3>1, <3>2 DEF RegistersTyped
    <2> QED
        BY <2>1, <2>2
<1>6. slot' \in [Crates -> BOOLEAN]
    BY <1>0 DEF RegistersTyped, Set
<1>7. link' \in [Crates -> BOOLEAN] /\ \A d \in Crates : d # c => link'[d] = link[d]
    BY <1>0 DEF RegistersTyped, c
<1>8. RegistersTyped'
    BY <1>0, <1>1, <1>2, <1>3, <1>4, <1>5, <1>6, <1>7 DEF RegistersTyped
<1>9. ASSUME NEW d \in Crates, d # c PROVE Untouched(d)
    BY <1>1, <1>2, <1>3, <1>5, <1>7, <1>9 DEF Untouched, library
<1> QED
    BY <1>8, <1>9 DEF c

\* One more value is moved, or the access is not in the mapping and ends the process.
LEMMA TransferStep ==
    ASSUME ToolInv, NEW p \in Handles, Transfer(p)
    PROVE  Stepped(p)
<1>0. LocalTyped /\ Placed(p) /\ pc[p] = "transfer"
    BY DEF ToolInv, ToolTyped, Transfer
<1>1. UNCHANGED <<job, count, found, pages, got, cards>> /\ UNCHANGED library
    BY DEF Transfer, LocalAt
<1>2. job[p].cmd \in RW /\ IsOpen(p) /\ ~Refused(job[p])
    BY <1>0 DEF Placed
<1>3. job[p].crate # ALL /\ ~Upgrading(p)
    BY <1>2 DEF Refused, RW, Upgrading
<1>4. CASE /\ at' = [at EXCEPT ![p] = @ + 1]
           /\ vme_acc' = Set(vme_acc, C(p), "other")
           /\ Disturb(p, C(p))
           /\ UNCHANGED <<ret, pc, macro, mp, buf, requester, slot, link, flash>>
    <2>1. /\ at' \in [Handles -> Nat]
          /\ \A q \in Handles : q # p => at'[q] = at[q]
        BY <1>0, <1>4 DEF LocalTyped
    <2>2. OnlyOwn(p)
        BY <1>1, <1>4, <2>1 DEF OnlyOwn, LocalSame
    <2>3. RegistersTyped' /\ \A d \in Crates : d # C(p) => Untouched(d)
        BY <1>1, <1>2, <1>4, SetTyped
    <2>4. LibInv' /\ Moves(p) /\ disturbed' \subseteq Handles
        BY <1>1, <1>4, <2>2, <2>3, RegisterStep
    <2>5. LocalTyped'
        BY <1>0, <1>1, <1>4, <2>1, <2>4 DEF LocalTyped
    <2>6. Placed(p)'
        BY <1>0, <1>1, <1>3, <1>4 DEF Placed, Upgrading, Scanning, Writing, IsOpen, library
    <2>7. Achieved(p)'
        BY <1>0, <1>4, NothingClaimed
    <2> QED
        BY <2>3, <2>4, <2>5, <2>6, <2>7 DEF Stepped, Moves, ToolTyped
<1>5. CASE /\ ret' = [ret EXCEPT ![p] = "fault"]
           /\ Goto(p, "close")
           /\ UNCHANGED <<at, vme_acc, disturbed>>
           /\ UNCHANGED <<macro, mp, buf, requester, slot, link, flash>>
    <2>1. /\ pc' \in [Handles -> Labels] /\ pc'[p] = "close"
          /\ \A q \in Handles : q # p => pc'[q] = pc[q]
        BY <1>0, <1>5, GotoTyped DEF Labels
    <2>2. /\ ret' \in [Handles -> {"success", "failure", "fault"}] /\ ret'[p] = "fault"
          /\ \A q \in Handles : q # p => ret'[q] = ret[q]
        BY <1>0, <1>5 DEF LocalTyped
    <2>3. OnlyOwn(p)
        BY <1>1, <1>5, <2>1, <2>2 DEF OnlyOwn, LocalSame
    <2>4. Private
        BY <1>1, <1>5 DEF Private, registers
    <2>5. LibInv' /\ RegistersTyped' /\ Moves(p) /\ disturbed' \subseteq Handles
        BY <2>3, <2>4, PrivateStep
    <2>6. LocalTyped'
        BY <1>0, <1>1, <1>5, <2>1, <2>2, <2>5 DEF LocalTyped
    <2>7. Placed(p)'
        BY <1>0, <1>1, <1>3, <1>5, <2>1 DEF Placed, Upgrading, Scanning, Writing, IsOpen, library
    <2>8. Achieved(p)'
        BY <2>1, <2>2, NothingClaimed
    <2> QED
        BY <2>5, <2>6, <2>7, <2>8 DEF Stepped, Moves, ToolTyped
<1> QED
    BY <1>4, <1>5 DEF Transfer

\* The bus request level is read or written, and the slot is next.
LEMMA RequesterStep ==
    ASSUME ToolInv, NEW p \in Handles, Requester(p)
    PROVE  Stepped(p)
<1>0. LocalTyped /\ Placed(p) /\ pc[p] = "fn" /\ job[p].cmd = "requester"
    BY DEF ToolInv, ToolTyped, Requester
<1>1. /\ UNCHANGED <<job, at, count, found, pages, cards, ret>> /\ UNCHANGED library
      /\ UNCHANGED <<macro, mp, buf, slot, vme_acc, link, flash>>
      /\ Goto(p, "slot")
    BY DEF Requester, LocalGot
<1>2. IsOpen(p)
    BY <1>0 DEF Placed
<1>3. /\ pc' \in [Handles -> Labels] /\ pc'[p] = "slot"
      /\ \A q \in Handles : q # p => pc'[q] = pc[q]
    BY <1>0, <1>1, GotoTyped DEF Labels
<1>4. /\ DOMAIN got' = Handles /\ \A q \in Handles : DOMAIN got'[q] = Crates
      /\ \A q \in Handles : q # p => got'[q] = got[q]
    <2>1. got' = got \/ \E value : Learn(p, value)
        BY DEF Requester
    <2> QED
        BY <1>0, <1>2, <2>1, LearnTyped DEF LocalTyped
<1>5. OnlyOwn(p)
    BY <1>1, <1>3, <1>4 DEF OnlyOwn, LocalSame
<1>6. LibInv' /\ Moves(p) /\ disturbed' \subseteq Handles /\ RegistersTyped'
    <2>1. CASE UNCHANGED <<requester, disturbed>>
        BY <1>1, <1>5, <2>1, PrivateStep DEF Private, registers
    <2>2. CASE requester' = Set(requester, C(p), job[p].bus) /\ Disturb(p, C(p))
        <3>1. RegistersTyped' /\ \A d \in Crates : d # C(p) => Untouched(d)
            BY <1>1, <1>2, <2>2, SetTyped
        <3> QED
            BY <1>1, <1>5, <2>2, <3>1, RegisterStep
    <2> QED
        BY <2>1, <2>2 DEF Requester
<1>7. LocalTyped'
    BY <1>0, <1>1, <1>3, <1>4, <1>6 DEF LocalTyped
<1>8. Placed(p)'
    BY <1>0, <1>1, <1>3 DEF Placed, Upgrading, Scanning, Writing, IsOpen, library
<1>9. Achieved(p)'
    BY <1>3, NothingClaimed
<1> QED
    BY <1>6, <1>7, <1>8, <1>9 DEF Stepped, Moves, ToolTyped

\* A command that returns once it has written registers, or has let it be.
LEMMA WriteAndReturn ==
    ASSUME ToolInv, NEW p \in Handles, pc[p] \in {"fn", "slot"},
           NEW result \in {"success", "failure"}, Return(p, result),
           UNCHANGED <<job, at, count, found, pages, got, cards>>, UNCHANGED library,
           RegistersTyped', Disturb(p, C(p)) \/ Private,
           \A d \in Crates : d # C(p) => Untouched(d),
           job[p].cmd \in {"requester", "reset", "sysreset", "reinit"}
    PROVE  Stepped(p)
<1>0. LocalTyped /\ Placed(p)
    BY DEF ToolInv, ToolTyped
<1>1. /\ ret' \in [Handles -> {"success", "failure", "fault"}]
      /\ pc' \in [Handles -> Labels]
      /\ pc'[p] = IF job[p].crate = ALL THEN "open" ELSE "close"
      /\ \A q \in Handles : q # p => ret'[q] = ret[q] /\ pc'[q] = pc[q]
    BY <1>0, ReturnTyped
<1>2. OnlyOwn(p)
    BY <1>1 DEF OnlyOwn, LocalSame
<1>3. LibInv' /\ Moves(p) /\ disturbed' \subseteq Handles
    BY <1>2, RegisterStep, PrivateStep
<1>4. LocalTyped'
    BY <1>0, <1>1, <1>3 DEF LocalTyped
<1>5. Placed(p)'
    <2>1. handle' = handle
        BY DEF library
    <2> QED
        BY <2>1, Leaves
<1>6. Achieved(p)'
    <2>1. job'[p].cmd = job[p].cmd /\ job'[p].crate = job[p].crate
        OBVIOUS
    <2> QED
        BY <1>1, <2>1, NothingClaimed
<1> QED
    BY <1>3, <1>4, <1>5, <1>6 DEF Stepped, Moves, ToolTyped

\* The slot register is written, even by a query.
LEMMA RequesterSlotStep ==
    ASSUME ToolInv, NEW p \in Handles, RequesterSlot(p)
    PROVE  Stepped(p)
<1>0. LocalTyped /\ Placed(p) /\ pc[p] = "slot"
    BY DEF ToolInv, ToolTyped, RequesterSlot
<1>1. /\ UNCHANGED <<job, at, count, found, pages, got, cards>> /\ UNCHANGED library
      /\ UNCHANGED <<macro, mp, buf, requester, vme_acc, link, flash>>
      /\ slot' = Set(slot, C(p), job[p].slot0) /\ Disturb(p, C(p)) /\ Return(p, "success")
    BY DEF RequesterSlot, LocalGot
<1>2. IsOpen(p) /\ job[p].cmd = "requester"
    BY <1>0 DEF Placed
<1>3. job[p].slot0 \in BOOLEAN
    BY <1>0, <1>2, Arguments, ToolAssumption DEF Placed
<1>4. RegistersTyped' /\ \A d \in Crates : d # C(p) => Untouched(d)
    BY <1>1, <1>2, <1>3, SetTyped
<1> QED
    BY <1>0, <1>1, <1>2, <1>4, WriteAndReturn

\* A reset is on its way, and nobody waits for it.
LEMMA ResetStep ==
    ASSUME ToolInv, NEW p \in Handles, Reset(p)
    PROVE  Stepped(p)
<1>0. Placed(p) /\ pc[p] = "fn" /\ job[p].cmd \in {"reset", "sysreset"}
    BY DEF ToolInv, Reset
<1>1. /\ UNCHANGED <<job, at, count, found, pages, got, cards>> /\ UNCHANGED library
      /\ UNCHANGED <<mp, buf, requester, slot, vme_acc, link, flash>>
      /\ Return(p, "success")
    BY DEF Reset, LocalGot
<1>2. IsOpen(p)
    BY <1>0 DEF Placed
<1>3. macro' \in {Set(macro, C(p), "reset"), macro} /\ Disturb(p, C(p))
    BY DEF Reset, v120_macro_write
<1>4. RegistersTyped' /\ \A d \in Crates : d # C(p) => Untouched(d)
    BY <1>1, <1>2, <1>3, SetTyped
<1> QED
    BY <1>0, <1>1, <1>3, <1>4, WriteAndReturn

\* A crate is back on the bus, or not.
LEMMA ReinitStep ==
    ASSUME ToolInv, NEW p \in Handles, persist_one(p)
    PROVE  Stepped(p)
<1>0. Placed(p) /\ pc[p] = "fn" /\ job[p].cmd = "reinit"
    BY DEF ToolInv, persist_one
<1>1. /\ UNCHANGED <<job, at, count, found, pages, got, cards>> /\ UNCHANGED library
      /\ UNCHANGED <<macro, mp, buf, requester, slot, vme_acc, flash>>
    BY DEF persist_one, LocalGot
<1>2. IsOpen(p)
    BY <1>0 DEF Placed
<1>3. PICK result \in {"success", "failure"} : Return(p, result)
    BY DEF persist_one
<1>4. \/ link' = [link EXCEPT ![C(p)] = TRUE] /\ Disturb(p, C(p))
      \/ link' = link /\ Private
    BY <1>1 DEF persist_one, Private, registers
<1>5. RegistersTyped' /\ \A d \in Crates : d # C(p) => Untouched(d)
    BY <1>1, <1>2, <1>4, SetTyped
<1> QED
    BY <1>0, <1>1, <1>3, <1>4, <1>5, WriteAndReturn

\* A command that goes on once it has written a macro command to its crate.
LEMMA MacroWritten ==
    ASSUME ToolInv, NEW p \in Handles, IsOpen(p), NEW cmd, v120_macro_write(p, cmd),
           NEW label \in Labels, Goto(p, label), label \notin {"start", "open", "end"},
           UNCHANGED <<job, at, count, found, pages, ret, got, cards>>, UNCHANGED library,
           UNCHANGED <<mp, buf, requester, slot, vme_acc, link, flash>>
    PROVE  /\ LibInv' /\ ToolTyped' /\ Moves(p)
           /\ pc'[p] = label /\ C(p) \in Crates /\ C(p)' = C(p)
           /\ link[C(p)] => macro'[C(p)] = cmd
<1>0. LocalTyped /\ RegistersTyped
    BY DEF ToolInv, ToolTyped
<1>1. macro' = Set(macro, C(p), cmd) /\ Disturb(p, C(p))
    BY DEF v120_macro_write
<1>2. /\ pc' \in [Handles -> Labels] /\ pc'[p] = label
      /\ \A q \in Handles : q # p => pc'[q] = pc[q]
    BY <1>0, GotoTyped
<1>3. OnlyOwn(p)
    BY <1>2 DEF OnlyOwn, LocalSame
<1>4. RegistersTyped' /\ \A d \in Crates : d # C(p) => Untouched(d)
    BY <1>1, SetTyped
<1>5. LibInv' /\ Moves(p) /\ disturbed' \subseteq Handles
    BY <1>1, <1>3, <1>4, RegisterStep
<1>6. LocalTyped'
    BY <1>0, <1>2, <1>5 DEF LocalTyped
<1>7. C(p) \in Crates /\ C(p)' = C(p)
    BY CrateOpen DEF ToolInv, library, C
<1>8. link[C(p)] => macro'[C(p)] = cmd
    BY <1>0, <1>1, <1>7, SetKeeps DEF RegistersTyped
<1> QED
    BY <1>2, <1>4, <1>5, <1>6, <1>7, <1>8 DEF ToolTyped

\* The macro unit is asked for a report.
LEMMA ReportStep ==
    ASSUME ToolInv, NEW p \in Handles, Report(p)
    PROVE  Stepped(p)
<1>0. Placed(p) /\ pc[p] = "fn" /\ job[p].cmd \in {"report-id", "report-flash"}
    BY DEF ToolInv, Report, ReportMacro
<1>1. /\ UNCHANGED <<job, at, count, found, pages, ret, got, cards>> /\ UNCHANGED library
      /\ UNCHANGED <<mp, buf, requester, slot, vme_acc, link, flash>>
      /\ v120_macro_write(p, ReportMacro[job[p].cmd])
      /\ Goto(p, "answer")
    BY DEF Report, LocalGot
<1>2. IsOpen(p)
    BY <1>0 DEF Placed
<1>3. /\ LibInv' /\ ToolTyped' /\ Moves(p)
      /\ pc'[p] = "answer" /\ C(p) \in Crates /\ C(p)' = C(p)
      /\ link[C(p)] => macro'[C(p)] = ReportMacro[job[p].cmd]
    BY <1>1, <1>2, MacroWritten DEF Labels
<1>4. Placed(p)'
    BY <1>0, <1>1, <1>3 DEF Placed, Upgrading, Scanning, Writing, IsOpen, library, ReportMacro
<1>5. Achieved(p)'
    <2>1. job' = job /\ link' = link
        BY <1>1
    <2>2. FlashWork(p)' /\ ScanWork(p)'
        BY <1>0, <1>3, <2>1 DEF FlashWork, ScanWork, Upgrading, Scanning
    <2>3. ReportWork(p)'
        BY <1>0, <1>3, <2>1 DEF ReportWork, ReportMacro, Over
    <2> QED
        BY <2>2, <2>3 DEF Achieved
<1> QED
    BY <1>3, <1>4, <1>5 DEF Stepped, Moves

\* Unlocking and erasing promise nothing of the contents of the flash memory yet.
LEMMA UnlockStep ==
    ASSUME ToolInv, NEW p \in Handles, Unlock(p) \/ Erase(p)
    PROVE  Stepped(p)
<1>1. PICK label \in {"unlocked", "erased"}, cmd \in {"unlock", "erase"} :
          /\ v120_macro_write(p, cmd) /\ Goto(p, label)
    BY DEF Unlock, Erase, MacroFlash
<1>2. /\ UNCHANGED <<job, at, count, found, pages, ret, got, cards>> /\ UNCHANGED library
      /\ UNCHANGED <<mp, buf, requester, slot, vme_acc, link, flash>>
      /\ pc[p] \in {"fn", "erase"} /\ Placed(p)
    BY DEF ToolInv, Unlock, Erase, MacroFlash, LocalFlash
<1>3. Upgrading(p) /\ IsOpen(p)
    BY <1>2 DEF Unlock, Erase, MacroFlash, Placed, Upgrading
<1>4. /\ LibInv' /\ ToolTyped' /\ Moves(p)
      /\ pc'[p] = label
    BY <1>1, <1>2, <1>3, MacroWritten DEF Labels
<1>5. Placed(p)'
    BY <1>2, <1>3, <1>4 DEF Placed, Upgrading, Scanning, Writing, IsOpen, library, RW
<1>6. Achieved(p)'
    BY <1>4, NothingClaimed
<1> QED
    BY <1>4, <1>5, <1>6 DEF Stepped, Moves

\* The file cannot be opened, and nothing has been written.
LEMMA NoFileStep ==
    ASSUME ToolInv, NEW p \in Handles, NoFile(p)
    PROVE  Stepped(p)
<1>0. LocalTyped /\ pc[p] = "fn" /\ Return(p, "failure")
    BY DEF ToolInv, ToolTyped, NoFile
<1>1. UNCHANGED <<job, at, count, found, pages, got, cards>> /\ Private
    BY DEF NoFile, LocalFlash
<1>2. DOMAIN got = Handles /\ DOMAIN got[p] = Crates
    BY <1>0 DEF LocalTyped
<1>3. /\ LibInv' /\ ToolTyped' /\ Moves(p) /\ Placed(p)'
      /\ pc'[p] = IF job[p].crate = ALL THEN "open" ELSE "close"
      /\ ret'[p] = "failure"
    BY <1>0, <1>1, <1>2, ReturnStep
<1>4. Achieved(p)'
    BY <1>3, NothingClaimed
<1> QED
    BY <1>3, <1>4 DEF Stepped, Moves

\* The macro unit is told to write the page that is in the buffer.
LEMMA ReflashStep ==
    ASSUME ToolInv, NEW p \in Handles, Reflash(p)
    PROVE  Stepped(p)
<1>0. Placed(p) /\ pc[p] = "reflash" /\ v120_macro_write(p, "reflash") /\ Goto(p, "written")
    BY DEF ToolInv, Reflash, MacroFlash
<1>1. /\ UNCHANGED <<job, at, count, found, pages, ret, got, cards>> /\ UNCHANGED library
      /\ UNCHANGED <<mp, buf, requester, slot, vme_acc, link, flash>>
    BY DEF Reflash, MacroFlash, LocalFlash
<1>2. IsOpen(p) /\ Upgrading(p)
    BY <1>0 DEF Placed, Writing
<1>3. /\ LibInv' /\ ToolTyped' /\ Moves(p)
      /\ pc'[p] = "written" /\ C(p) \in Crates /\ C(p)' = C(p)
      /\ link[C(p)] => macro'[C(p)] = "reflash"
    BY <1>0, <1>1, <1>2, MacroWritten DEF Labels
<1>4. Placed(p)'
    BY <1>0, <1>1, <1>2, <1>3 DEF Placed, Upgrading, Scanning, Writing, IsOpen, library
<1>5. ASSUME p \notin disturbed' PROVE Achieved(p)'
    <2>1. FlashWork(p)
        BY <1>3, <1>5 DEF ToolInv, Achieved, Moves, Tells
    <2>2. ReportWork(p)' /\ ScanWork(p)'
        BY <1>1, <1>2, <1>3 DEF ReportWork, ScanWork, Upgrading, Scanning
    <2>3. FlashWork(p)'
        BY <1>0, <1>1, <1>2, <1>3, <2>1 DEF FlashWork, Over, Holds, Right, Writing, Upgrading
    <2> QED
        BY <2>2, <2>3 DEF Achieved
<1> QED
    BY <1>3, <1>4, <1>5 DEF Stepped, Moves

-------------------------------------------------------------------------------
(***************************************************************************)
(* flash-upgrade                                                           *)
(***************************************************************************)
\* Once the flash memory is erased, no page of the file is behind.
LEMMA FlashWaitStep ==
    ASSUME ToolInv, NEW p \in Handles, FlashWait(p)
    PROVE  Stepped(p)
<1>0. LocalTyped /\ Placed(p) /\ pc[p] \in {"unlocked", "erased"}
    BY DEF ToolInv, ToolTyped, FlashWait
<1>1. UNCHANGED <<job, at, count, found, pages, got, cards>> /\ Private
    BY DEF FlashWait, LocalFlash
<1>2. Upgrading(p) /\ IsOpen(p) /\ at[p] = 0
    BY <1>0 DEF Placed
<1>3. CASE Return(p, "failure")
    <2>1. DOMAIN got = Handles /\ DOMAIN got[p] = Crates
        BY <1>0 DEF LocalTyped
    <2>2. /\ LibInv' /\ ToolTyped' /\ Moves(p) /\ Placed(p)'
          /\ pc'[p] = IF job[p].crate = ALL THEN "open" ELSE "close"
          /\ ret'[p] = "failure"
        BY <1>0, <1>1, <1>3, <2>1, ReturnStep
    <2>3. Achieved(p)'
        BY <2>2, NothingClaimed
    <2> QED
        BY <2>2, <2>3 DEF Stepped, Moves
<1>4. CASE /\ MacroDone(p)
           /\ Goto(p, IF pc[p] = "unlocked" THEN "erase" ELSE "fread")
           /\ UNCHANGED ret
    <2> DEFINE label == IF pc[p] = "unlocked" THEN "erase" ELSE "fread"
    <2>1. /\ pc' \in [Handles -> Labels] /\ pc'[p] = label /\ label \in {"erase", "fread"}
          /\ \A q \in Handles : q # p => pc'[q] = pc[q]
        <3>1. label \in Labels
            BY DEF Labels
        <3> QED
            BY <1>0, <1>4, <3>1, GotoTyped
    <2>2. OnlyOwn(p)
        BY <1>1, <1>4, <2>1 DEF OnlyOwn, LocalSame
    <2>3. LibInv' /\ RegistersTyped' /\ Moves(p) /\ disturbed' \subseteq Handles
        BY <1>1, <2>2, PrivateStep
    <2>4. LocalTyped'
        BY <1>0, <1>1, <1>4, <2>1, <2>3 DEF LocalTyped
    <2>5. UNCHANGED <<handle, macro, link>>
        BY <1>1 DEF Private, library, registers
    <2> HIDE DEF label
    <2>6. Placed(p)'
        BY <1>0, <1>1, <1>2, <2>1, <2>5 DEF Placed, Upgrading, Scanning, Writing, IsOpen, RW
    <2>7. FlashWork(p)'
        BY <1>1, <1>2, <1>4, <2>1, <2>5 DEF FlashWork, Over, MacroDone, Writing, Upgrading, C
    <2>8. ReportWork(p)' /\ ScanWork(p)'
        BY <1>1, <1>2, <2>1 DEF ReportWork, ScanWork, Upgrading, Scanning
    <2> QED
        BY <2>3, <2>4, <2>6, <2>7, <2>8 DEF Stepped, Moves, ToolTyped, Achieved
<1> QED
    BY <1>3, <1>4 DEF FlashWait

\* The buffer is filled with the next page of the file, if there is one.
LEMMA FreadStep ==
    ASSUME ToolInv, NEW p \in Handles, fread(p)
    PROVE  Stepped(p)
<1> DEFINE c == C(p)
           file == job[p].file
           n == at[p] + 1
           page == CASE n > Len(file.pages) -> pages[p]
                     [] n = Len(file.pages) /\ ~file.whole -> <<file.pages[n], pages[p][2]>>
                     [] OTHER -> Both(file.pages[n])
<1>0. LocalTyped /\ RegistersTyped /\ Placed(p) /\ pc[p] = "fread"
    BY DEF ToolInv, ToolTyped, fread
<1>1. /\ UNCHANGED <<job, at, count, found, ret, got, cards>> /\ UNCHANGED library
      /\ UNCHANGED <<macro, mp, requester, slot, vme_acc, link, flash>>
    BY DEF fread, LocalFlash
<1>2. IsOpen(p) /\ Upgrading(p)
    BY <1>0 DEF Placed, Writing
<1>3. /\ pages' = [pages EXCEPT ![p] = page] /\ buf' = Set(buf, c, page)
      /\ Disturb(p, c) /\ Goto(p, "pgno")
    BY DEF fread
<1>4. /\ Len(file.pages) \in Nat /\ at[p] \in Nat
    BY <1>0, <1>2, FileFits
<1>5. n <= Len(file.pages) => Right(page, file, n)
    BY <1>4 DEF Right, Both
<1> HIDE DEF page
<1>6. /\ pc' \in [Handles -> Labels] /\ pc'[p] = "pgno"
      /\ \A q \in Handles : q # p => pc'[q] = pc[q]
    BY <1>0, <1>3, GotoTyped DEF Labels
<1>7. DOMAIN pages' = Handles /\ \A q \in Handles : q # p => pages'[q] = pages[q]
    BY <1>0, <1>3 DEF LocalTyped
<1>8. OnlyOwn(p)
    BY <1>1, <1>6, <1>7 DEF OnlyOwn, LocalSame
<1>9. RegistersTyped' /\ \A d \in Crates : d # C(p) => Untouched(d)
    BY <1>1, <1>2, <1>3, SetTyped
<1>10. LibInv' /\ Moves(p) /\ disturbed' \subseteq Handles
    BY <1>1, <1>3, <1>8, <1>9, RegisterStep
<1>11. LocalTyped'
    BY <1>0, <1>1, <1>6, <1>7, <1>10 DEF LocalTyped
<1>12. c \in Crates /\ C(p)' = c
    BY <1>1, <1>2, CrateOpen DEF ToolInv, library, C
<1>13. Placed(p)'
    BY <1>0, <1>1, <1>2, <1>6 DEF Placed, Upgrading, Scanning, Writing, IsOpen, library
<1>14. ASSUME p \notin disturbed' PROVE Achieved(p)'
    <2>1. FlashWork(p)
        BY <1>10, <1>14 DEF ToolInv, Achieved, Moves, Tells
    <2>2. link[c] => buf'[c] = page
        BY <1>0, <1>3, <1>12, SetKeeps DEF RegistersTyped
    <2>3. link[c]
        BY <1>0, <1>2, <2>1 DEF FlashWork, Writing
    <2>4. FlashWork(p)'
        BY <1>0, <1>1, <1>2, <1>5, <1>6, <1>12, <2>1, <2>2, <2>3
           DEF FlashWork, Over, Holds, Right, Writing, Upgrading
    <2>5. ReportWork(p)' /\ ScanWork(p)'
        BY <1>1, <1>2, <1>6 DEF ReportWork, ScanWork, Upgrading, Scanning
    <2> QED
        BY <2>4, <2>5 DEF Achieved
<1> QED
    BY <1>9, <1>10, <1>11, <1>13, <1>14 DEF Stepped, Moves, ToolTyped

\* The macro unit is told which page comes next, a page that there is.
LEMMA SetPageStep ==
    ASSUME ToolInv, NEW p \in Handles, SetPage(p)
    PROVE  Stepped(p)
<1> DEFINE c == C(p)
<1>0. LocalTyped /\ RegistersTyped /\ Placed(p) /\ pc[p] = "pgno"
    BY DEF ToolInv, ToolTyped, SetPage
<1>1. /\ UNCHANGED <<job, at, count, found, pages, ret, got, cards>> /\ UNCHANGED library
      /\ UNCHANGED <<macro, buf, requester, slot, vme_acc, link, flash>>
      /\ mp' = Set(mp, c, Parameter("page", at[p])) /\ Disturb(p, c) /\ Goto(p, "reflash")
    BY DEF SetPage, LocalFlash
<1>2. IsOpen(p) /\ Upgrading(p)
    BY <1>0 DEF Placed, Writing
<1>3. Parameter("page", at[p]).n = at[p] /\ at[p] \in FlashPages
    BY <1>0, <1>2, FileFits DEF Parameter
<1>4. /\ pc' \in [Handles -> Labels] /\ pc'[p] = "reflash"
      /\ \A q \in Handles : q # p => pc'[q] = pc[q]
    BY <1>0, <1>1, GotoTyped DEF Labels
<1>5. OnlyOwn(p)
    BY <1>1, <1>4 DEF OnlyOwn, LocalSame
<1>6. RegistersTyped' /\ \A d \in Crates : d # C(p) => Untouched(d)
    BY <1>1, <1>2, <1>3, SetTyped
<1>7. LibInv' /\ Moves(p) /\ disturbed' \subseteq Handles
    BY <1>1, <1>5, <1>6, RegisterStep
<1>8. LocalTyped'
    BY <1>0, <1>1, <1>4, <1>7 DEF LocalTyped
<1>9. c \in Crates /\ C(p)' = c
    BY <1>1, <1>2, CrateOpen DEF ToolInv, library, C
<1>10. Placed(p)'
    BY <1>0, <1>1, <1>2, <1>4 DEF Placed, Upgrading, Scanning, Writing, IsOpen, library
<1>11. ASSUME p \notin disturbed' PROVE Achieved(p)'
    <2>1. FlashWork(p)
        BY <1>7, <1>11 DEF ToolInv, Achieved, Moves, Tells
    <2>2. link[c]
        BY <1>0, <1>2, <2>1 DEF FlashWork, Writing
    <2>3. mp'[c].n = at[p]
        BY <1>0, <1>1, <1>3, <1>9, <2>2, SetKeeps DEF RegistersTyped
    <2>4. FlashWork(p)'
        BY <1>0, <1>1, <1>2, <1>4, <1>9, <2>1, <2>3
           DEF FlashWork, Over, Holds, Right, Writing, Upgrading
    <2>5. ReportWork(p)' /\ ScanWork(p)'
        BY <1>1, <1>2, <1>4 DEF ReportWork, ScanWork, Upgrading, Scanning
    <2> QED
        BY <2>4, <2>5 DEF Achieved
<1> QED
    BY <1>6, <1>7, <1>8, <1>10, <1>11 DEF Stepped, Moves, ToolTyped

\* The page written is one page more in its place; when it is the last one, all are.
LEMMA ReflashWaitStep ==
    ASSUME ToolInv, NEW p \in Handles, ReflashWait(p)
    PROVE  Stepped(p)
<1> DEFINE c == C(p)
           file == job[p].file
           n == at[p]
<1>0. LocalTyped /\ Placed(p) /\ pc[p] = "written"
    BY DEF ToolInv, ToolTyped, ReflashWait
<1>1. UNCHANGED <<job, count, found, pages, got, cards>> /\ Private
    BY DEF ReflashWait, LocalFlash
<1>2. Upgrading(p) /\ IsOpen(p) /\ job[p].crate # ALL
    BY <1>0 DEF Placed, Writing, Refused, ByCrate, Upgrading
<1>3. Len(file.pages) \in Nat /\ n \in Nat
    BY <1>0, <1>2, FileFits
<1>4. DOMAIN got = Handles /\ DOMAIN got[p] = Crates
    BY <1>0 DEF LocalTyped
<1>5. C(p)' = c /\ UNCHANGED <<handle, macro, mp, buf, link, flash>> /\ disturbed' = disturbed
    BY <1>1 DEF Private, library, registers, C
<1>6. p \notin disturbed' => FlashWork(p)
    BY <1>5 DEF ToolInv, Achieved
<1>7. CASE Return(p, "failure") /\ UNCHANGED at
    <2>1. /\ LibInv' /\ ToolTyped' /\ Moves(p) /\ Placed(p)'
          /\ pc'[p] = IF job[p].crate = ALL THEN "open" ELSE "close"
          /\ ret'[p] = "failure"
        BY <1>0, <1>1, <1>4, <1>7, ReturnStep
    <2>2. Achieved(p)'
        BY <1>2, <2>1, NothingClaimed
    <2> QED
        BY <2>1, <2>2 DEF Stepped, Moves
<1>8. CASE MacroDone(p) /\ EndOfFile(p) /\ Return(p, "success") /\ UNCHANGED at
    <2>1. /\ LibInv' /\ ToolTyped' /\ Moves(p) /\ Placed(p)'
          /\ pc'[p] = IF job[p].crate = ALL THEN "open" ELSE "close"
        BY <1>0, <1>1, <1>4, <1>8, ReturnStep
    <2>2. ASSUME p \notin disturbed' PROVE Achieved(p)'
        <3>1. macro[c] = "idle" /\ \A m \in 1 .. Len(file.pages) : Holds(c, file, m)
            <4>1. macro[c] = "idle"
                BY <1>8 DEF MacroDone
            <4>2. /\ \A m \in 1 .. n : Holds(c, file, m)
                  /\ n + 1 <= Len(file.pages) => Holds(c, file, n + 1)
                BY <1>0, <1>2, <1>6, <2>2, <4>1 DEF FlashWork, Writing
            <4>3. n + 1 >= Len(file.pages)
                BY <1>3, <1>8 DEF EndOfFile
            <4>4. \A m \in 1 .. Len(file.pages) : m \in 1 .. n \/ (m = n + 1 /\ n + 1 <= Len(file.pages))
                BY <1>3, <4>3
            <4> QED
                BY <4>1, <4>2, <4>4
        <3>2. FlashWork(p)'
            BY <1>1, <1>2, <1>5, <2>1, <3>1 DEF FlashWork, Holds, Right, Writing, Upgrading
        <3>3. ReportWork(p)' /\ ScanWork(p)'
            BY <1>1, <1>2, <2>1 DEF ReportWork, ScanWork, Upgrading, Scanning
        <3> QED
            BY <3>2, <3>3 DEF Achieved
    <2> QED
        BY <2>1, <2>2 DEF Stepped, Moves
<1>9. CASE /\ MacroDone(p) /\ ~EndOfFile(p)
           /\ at' = [at EXCEPT ![p] = @ + 1]
           /\ Goto(p, "fread")
           /\ UNCHANGED ret
    <2>1. /\ pc' \in [Handles -> Labels] /\ pc'[p] = "fread"
          /\ \A q \in Handles : q # p => pc'[q] = pc[q]
        BY <1>0, <1>9, GotoTyped DEF Labels
    <2>2. /\ at' \in [Handles -> Nat] /\ at'[p] = n + 1
          /\ \A q \in Handles : q # p => at'[q] = at[q]
        BY <1>0, <1>9 DEF LocalTyped
    <2>3. OnlyOwn(p)
        BY <1>1, <1>9, <2>1, <2>2 DEF OnlyOwn, LocalSame
    <2>4. LibInv' /\ RegistersTyped' /\ Moves(p) /\ disturbed' \subseteq Handles
        BY <1>1, <2>3, PrivateStep
    <2>5. LocalTyped'
        BY <1>0, <1>1, <1>9, <2>1, <2>2, <2>4 DEF LocalTyped
    <2>6. n + 1 <= Len(file.pages)
        BY <1>3, <1>9 DEF EndOfFile
    <2>7. Placed(p)'
        BY <1>0, <1>1, <1>2, <1>5, <2>1, <2>2, <2>6 DEF Placed, Upgrading, Scanning, Writing, IsOpen, RW
    <2>8. ASSUME p \notin disturbed' PROVE Achieved(p)'
        <3>1. macro[c] = "idle" /\ link[c]
            BY <1>9 DEF MacroDone
        <3>2. \A m \in 1 .. n + 1 : Holds(c, file, m)
            <4>1. (\A m \in 1 .. n : Holds(c, file, m)) /\ Holds(c, file, n + 1)
                BY <1>0, <1>2, <1>6, <2>6, <2>8, <3>1 DEF FlashWork, Writing
            <4>2. \A m \in 1 .. n + 1 : m \in 1 .. n \/ m = n + 1
                BY <1>3
            <4> QED
                BY <4>1, <4>2
        <3>3. FlashWork(p)'
            BY <1>1, <1>2, <1>5, <2>1, <2>2, <3>1, <3>2
               DEF FlashWork, Over, Holds, Right, Writing, Upgrading
        <3>4. ReportWork(p)' /\ ScanWork(p)'
            BY <1>1, <1>2, <2>1 DEF ReportWork, ScanWork, Upgrading, Scanning
        <3> QED
            BY <3>3, <3>4 DEF Achieved
    <2> QED
        BY <2>4, <2>5, <2>7, <2>8 DEF Stepped, Moves, ToolTyped
<1> QED
    BY <1>7, <1>8, <1>9 DEF ReflashWait

-------------------------------------------------------------------------------
(***************************************************************************)
(* Calls of the library                                                    *)
(***************************************************************************)
\* The crate that is opened has a higher number than the one before, if there was one.
LEMMA Higher ==
    ASSUME LibInv, NEW p \in Handles, NEW c,
           (c \in Crates /\ v120_open(p, c)) \/ v120_next(p), handle'[p] # Closed
    PROVE  handle'[p].crateno \in Crates /\ handle'[p].crateno > handle[p].crateno
<1>0. /\ handle \in [Handles -> HandleType] /\ ClosedEmpty
      /\ Crates \subseteq Nat /\ Attached \subseteq Crates
    BY TypeParts, LibraryAssumption DEF LibInv, Sound, HandlesTyped
<1>1. PICK d \in Crates : handle' = [handle EXCEPT ![p] = V120_HANDLE(d)] /\ d > handle[p].crateno
    <2>1. CASE c \in Crates /\ v120_open(p, c)
        <3>1. handle[p].crateno = NULL
            BY <2>1 DEF v120_open, IsOpen
        <3>2. handle[p] = Closed
            BY <1>0, <3>1 DEF ClosedEmpty, IsOpen
        <3>3. handle' = [handle EXCEPT ![p] = V120_HANDLE(c)]
            BY <2>1, <3>2 DEF v120_open, Opened, OpenFailed
        <3> QED
            <4>1. c \in Nat
                BY <1>0, <2>1
            <4>2. c > NULL
                BY <4>1 DEF NULL
            <4> QED
                BY <2>1, <3>1, <3>3, <4>2
    <2>2. CASE v120_next(p)
        BY <1>0, <2>2 DEF v120_next
    <2> QED
        BY <2>1, <2>2
<1> QED
    BY <1>0, <1>1 DEF V120_HANDLE

\* A crate is open, or the loop over the crates has come to its end.
LEMMA OpenStep ==
    ASSUME ToolInv, NEW p \in Handles, Open(p)
    PROVE  Stepped(p)
<1>0. LocalTyped /\ Placed(p) /\ pc[p] = "open" /\ ~Refused(job[p]) /\ LibInv
    BY DEF ToolInv, ToolTyped, Open
<1>1. /\ UNCHANGED <<job, at, count, found, pages, ret, got, cards>>
      /\ UNCHANGED registers
      /\ Goto(p, IF handle'[p] = Closed THEN "end" ELSE "fn")
      /\ disturbed' \in {disturbed \ {p}, disturbed \cup {p}}
    BY DEF Open
<1>2. (job[p].crate \in Crates /\ v120_open(p, job[p].crate)) \/ v120_next(p)
    BY DEF Open
<1>3. LibInv'
    BY <1>0, <1>2, OpenKeeps, EmptyKeeps
<1>4. /\ pd' = pd
      /\ \A q \in Handles : q # p => handle'[q] = handle[q]
    <2>1. pd' = pd /\ (handle' = handle \/ \E hd : handle' = [handle EXCEPT ![p] = hd])
        BY <1>2, Zenon DEF v120_next, v120_open, Opened, OpenFailed
    <2> QED
        BY <1>0, <2>1 DEF LibInv, Sound, LibraryTypeOK
<1>5. /\ pc' \in [Handles -> Labels]
      /\ pc'[p] = IF handle'[p] = Closed THEN "end" ELSE "fn"
      /\ \A q \in Handles : q # p => pc'[q] = pc[q]
    <2>1. CASE handle'[p] = Closed
        BY <1>0, <1>1, <2>1, GotoTyped DEF Labels
    <2>2. CASE handle'[p] # Closed
        BY <1>0, <1>1, <2>2, GotoTyped DEF Labels
    <2> QED
        BY <2>1, <2>2
<1>6. OnlyOwn(p)
    BY <1>1, <1>5 DEF OnlyOwn, LocalSame
<1>7. disturbed' \subseteq Handles /\ disturbed \ {p} \subseteq disturbed'
    BY <1>0, <1>1 DEF LocalTyped
<1>8. RegistersTyped' /\ Tells(p)
    <2>1. RegistersTyped'
        BY <1>1 DEF ToolInv, ToolTyped, RegistersTyped, registers
    <2> QED
        BY <1>1, <1>4, <1>6, <1>7, <2>1 DEF Tells, OnlyOwn, Untouched, registers
<1>9. LocalTyped'
    BY <1>0, <1>1, <1>5, <1>7 DEF LocalTyped
<1>10. handle'[p] # Closed => handle'[p].crateno # NULL
    BY <1>3 DEF LibInv, Sound, ClosedEmpty, IsOpen
<1>11. Placed(p)'
    <2>1. handle'[p] # Closed =>
              handle'[p].crateno \in Crates /\ handle'[p].crateno > handle[p].crateno
        BY <1>0, <1>2, Higher
    <2>2. handle'[p] # Closed =>
              /\ cards[p][handle'[p].crateno] = NULL
              /\ \A d \in Crates : d > handle'[p].crateno => cards[p][d] = NULL
        <3> SUFFICES ASSUME handle'[p] # Closed
                     PROVE  /\ cards[p][handle'[p].crateno] = NULL
                            /\ \A d \in Crates : d > handle'[p].crateno => cards[p][d] = NULL
            OBVIOUS
        <3>1. \A d \in Crates : d > handle[p].crateno => cards[p][d] = NULL
            BY <1>0 DEF Placed
        <3>2. handle[p].crateno \in Int /\ Crates \subseteq Int
            BY <1>0, LibraryAssumption DEF LibInv, Sound, LibraryTypeOK, NULL
        <3> QED
            BY <2>1, <3>1, <3>2
    <2> QED
        BY <1>0, <1>1, <1>5, <1>10, <2>2 DEF Placed, Upgrading, Scanning, Writing, IsOpen
<1>12. Achieved(p)'
    BY <1>5, NothingClaimed
<1> QED
    BY <1>3, <1>8, <1>9, <1>11, <1>12 DEF Stepped, Moves, ToolTyped

\* What the process has found out is told, and the crate is closed.
LEMMA CloseStep ==
    ASSUME ToolInv, NEW p \in Handles, Close(p)
    PROVE  Stepped(p)
<1>0. LocalTyped /\ Placed(p) /\ pc[p] = "close" /\ LibInv
    BY DEF ToolInv, ToolTyped, Close
<1>1. /\ UNCHANGED <<job, at, count, found, pages, ret, got, cards>>
      /\ UNCHANGED registers /\ disturbed' = disturbed
      /\ v120_close(p) /\ Goto(p, "end")
    BY DEF Close
<1>2. LibInv'
    BY <1>0, <1>1, EmptyKeeps
<1>3. pd' = pd /\ \A q \in Handles : q # p => handle'[q] = handle[q]
    BY <1>1 DEF v120_close
<1>4. /\ pc' \in [Handles -> Labels] /\ pc'[p] = "end"
      /\ \A q \in Handles : q # p => pc'[q] = pc[q]
    BY <1>0, <1>1, GotoTyped DEF Labels
<1>5. OnlyOwn(p)
    BY <1>1, <1>4 DEF OnlyOwn, LocalSame
<1>6. disturbed' \subseteq Handles
    BY <1>0, <1>1 DEF LocalTyped
<1>7. RegistersTyped' /\ Moves(p)
    BY <1>1, <1>3, <1>5, <1>6, LibraryStep
<1>8. LocalTyped'
    BY <1>0, <1>1, <1>4, <1>6 DEF LocalTyped
<1>9. Placed(p)'
    BY <1>0, <1>1, <1>4 DEF Placed, Upgrading, Scanning, Writing
<1>10. Achieved(p)'
    BY <1>4, NothingClaimed
<1> QED
    BY <1>2, <1>7, <1>8, <1>9, <1>10 DEF Stepped, Moves, ToolTyped

\* A call of a read or a write that keeps the crate, and goes on.
LEMMA CallStep ==
    ASSUME ToolInv, NEW p \in Handles, LibInv', job[p].cmd \in RW, IsOpen(p), ~Refused(job[p]),
           NEW label \in {"allocate", "check"}, Goto(p, label), pc[p] \in {"fn", "allocate"},
           UNCHANGED <<job, at, count, found, pages, ret, got, cards>>, UNCHANGED registers,
           \A q \in Handles : q # p => handle'[q] = handle[q],
           handle'[p].crateno = handle[p].crateno,
           \/ pd' = pd /\ disturbed' = disturbed
           \/ (\A d \in Crates : d # C(p) => pd'[d] = pd[d]) /\ Disturb(p, C(p))
    PROVE  Stepped(p)
<1>0. LocalTyped /\ Placed(p)
    BY DEF ToolInv, ToolTyped
<1>1. /\ pc' \in [Handles -> Labels] /\ pc'[p] = label
      /\ \A q \in Handles : q # p => pc'[q] = pc[q]
    BY <1>0, GotoTyped DEF Labels
<1>2. OnlyOwn(p)
    BY <1>1 DEF OnlyOwn, LocalSame
<1>3. RegistersTyped' /\ Moves(p) /\ disturbed' \subseteq Handles
    BY <1>0, <1>2, LibraryStep DEF LocalTyped
<1>4. LocalTyped'
    BY <1>0, <1>1, <1>3 DEF LocalTyped
<1>5. Placed(p)'
    BY <1>0, <1>1 DEF Placed, Upgrading, Scanning, Writing, IsOpen, RW
<1>6. Achieved(p)'
    BY <1>1, NothingClaimed
<1> QED
    BY <1>3, <1>4, <1>5, <1>6 DEF Stepped, Moves, ToolTyped

\* The region of a read or a write is put on the list of the handle.
LEMMA OpenVmeStep ==
    ASSUME ToolInv, NEW p \in Handles, OpenVme(p)
    PROVE  Stepped(p)
<1>0. Placed(p) /\ LibInv /\ pc[p] = "fn" /\ job[p].cmd \in RW
    BY DEF ToolInv, OpenVme
<1>1. /\ UNCHANGED <<job, at, count, found, pages, ret, got, cards>>
      /\ UNCHANGED registers /\ disturbed' = disturbed
      /\ v120_add_vme_region(p, job[p].region) /\ Goto(p, "allocate")
    BY DEF OpenVme, LocalAt
<1>2. job[p].region \in Regions
    BY <1>0, Arguments, ToolAssumption DEF Placed
<1>3. LibInv'
    BY <1>0, <1>1, <1>2, AddKeeps
<1>4. /\ \A q \in Handles : q # p => handle'[q] = handle[q]
      /\ handle'[p].crateno = handle[p].crateno
      /\ pd' = pd
    BY <1>0, <1>1 DEF v120_add_vme_region, LibInv, Sound, LibraryTypeOK
<1>5. IsOpen(p) /\ ~Refused(job[p])
    BY <1>0 DEF Placed
<1> QED
    BY <1>0, <1>1, <1>3, <1>4, <1>5, CallStep

\* It is allocated, step by step.
LEMMA AllocateStep ==
    ASSUME ToolInv, NEW p \in Handles, Allocate(p)
    PROVE  Stepped(p)
<1>0. Placed(p) /\ LibInv /\ Sound /\ pc[p] = "allocate"
    BY DEF ToolInv, Allocate, LibInv
<1>1. UNCHANGED <<job, at, count, found, pages, ret, got, cards>> /\ UNCHANGED registers
    BY DEF Allocate, LocalAt
<1>2. job[p].cmd \in RW /\ IsOpen(p) /\ ~Refused(job[p])
    BY <1>0 DEF Placed
<1>3. PICK label \in {"allocate", "check"} : Goto(p, label)
    BY DEF Allocate
<1>4. CASE v120_allocate_vme(p, PageCount - 1) /\ UNCHANGED disturbed
    <2>1. PageCount - 1 \in Nat
        BY LibraryAssumption
    <2>2. LibInv'
        BY <1>0, <1>4, <2>1, AllocateKeeps
    <2>3. handle' = handle /\ pd' = pd
        BY <1>4 DEF v120_allocate_vme
    <2> QED
        BY <1>0, <1>1, <1>2, <1>3, <1>4, <2>2, <2>3, CallStep
<1>5. CASE AllocateRegion(p) /\ Disturb(p, C(p))
    <2>1. LibInv'
        BY <1>0, <1>5, RegionKeeps
    <2>2. /\ \A q \in Handles : q # p => handle'[q] = handle[q]
          /\ handle'[p].crateno = handle[p].crateno
        <3>1. PICK r \in Regions, base \in Bases : Iteration(p, r, base)
            BY <1>0, <1>5, AnIteration
        <3> QED
            BY <3>1 DEF Iteration, IterationMaps, GotVme, OnlyMaps
    <2>3. \A d \in Crates : d # C(p) => pd'[d] = pd[d]
        BY <1>0, <1>5 DEF AllocateRegion, v120_configure_pd_range, C, Sound, LibraryTypeOK
    <2> QED
        BY <1>0, <1>1, <1>2, <1>3, <1>5, <2>1, <2>2, <2>3, CallStep
<1>6. CASE AllocateReturn(p) /\ UNCHANGED disturbed
    <2>1. LibInv'
        BY <1>0, <1>6, ReturnKeeps
    <2>2. handle' = handle /\ pd' = pd
        BY <1>6 DEF AllocateReturn
    <2> QED
        BY <1>0, <1>1, <1>2, <1>3, <1>6, <2>1, <2>2, CallStep
<1> QED
    BY <1>4, <1>5, <1>6 DEF Allocate

-------------------------------------------------------------------------------
(***************************************************************************)
(* scan                                                                    *)
(***************************************************************************)
\* The address spaces.
LEMMA Spaces ==
    /\ {A16, A24} \subseteq Modes /\ A16 # A24
    /\ \A cfg \in {A16, A24} :
          /\ ScanTop[cfg] \in Nat \ {0} /\ Answering[cfg] \in SUBSET Nat
          /\ CardsIn(cfg) \subseteq 0 .. ScanTop[cfg]
<1>1. \A cfg \in {A16, A24} : ScanTop[cfg] \in Nat \ {0} /\ Answering[cfg] \in SUBSET Nat
    BY ToolAssumption
<1>2. \A cfg \in {A16, A24} : CardsIn(cfg) \subseteq 0 .. ScanTop[cfg]
    BY <1>1 DEF CardsIn
<1> QED
    BY <1>1, <1>2, ToolAssumption DEF A16, A24

\* A page of the window that begins below the end of the address space is a page, and
\* the next one begins below it, too, or at it.
LEMMA NextPage ==
    ASSUME NEW cfg \in {A16, A24}, NEW n \in Nat, n * PageSize < ScanTop[cfg]
    PROVE  (n + 1) * PageSize <= ScanTop[cfg]
<1> DEFINE top == ScanTop[cfg]
           k == top \div PageSize
<1>1. PageSize \in Nat /\ PageSize # 0 /\ top \in Nat /\ top % PageSize = 0
    BY LibraryAssumption, ToolAssumption
<1> HIDE DEF top
<1>2. k \in Nat /\ top = PageSize * k + (top % PageSize)
    BY <1>1, Division
<1> HIDE DEF k
<1>3. top = PageSize * k
    BY <1>1, <1>2
<1>4. n * PageSize < PageSize * k
    BY <1>3 DEF top
<1>5. n < k
    <2>1. ASSUME k <= n PROVE FALSE
        <3>1. PageSize * k <= PageSize * n
            BY <1>1, <1>2, <2>1
        <3>2. PageSize * n = n * PageSize /\ n * PageSize \in Nat /\ PageSize * k \in Nat
            BY <1>1, <1>2
        <3> QED
            BY <1>4, <3>1, <3>2
    <2> QED
        BY <1>2, <2>1
<1>6. n + 1 <= k
    BY <1>2, <1>5
<1>7. PageSize * (n + 1) <= PageSize * k
    BY <1>1, <1>2, <1>6
<1>8. PageSize * (n + 1) = (n + 1) * PageSize
    BY <1>1
<1> QED
    BY <1>3, <1>7, <1>8 DEF top

\* The page of an address, and the address within it.
LEMMA PageOfAddress ==
    ASSUME NEW cfg \in {A16, A24}, NEW a \in Nat, a < ScanTop[cfg]
    PROVE  /\ a \div PageSize \in Pages
           /\ (a \div PageSize) * PageSize < ScanTop[cfg]
           /\ (a \div PageSize) * PageSize + (a % PageSize) = a
<1> DEFINE q == a \div PageSize
           b == a % PageSize
<1>1. /\ PageSize \in Nat /\ PageSize # 0 /\ PageCount \in Nat
      /\ ScanTop[cfg] \in Nat /\ ScanTop[cfg] <= PageCount * PageSize
    BY LibraryAssumption, ToolAssumption
<1>2. q \in Nat /\ b \in 0 .. PageSize - 1 /\ a = PageSize * q + b
    BY <1>1, Division
<1> HIDE DEF q, b
<1>3. PageSize * q = q * PageSize /\ q * PageSize \in Nat
    BY <1>1, <1>2
<1>4. q * PageSize + b = a /\ q * PageSize <= a
    BY <1>1, <1>2, <1>3
<1>5. q < PageCount
    <2>1. ASSUME PageCount <= q PROVE FALSE
        <3>1. PageCount * PageSize <= q * PageSize
            BY <1>1, <1>2, <2>1
        <3>2. PageCount * PageSize \in Nat
            BY <1>1
        <3> QED
            BY <1>1, <1>3, <1>4, <3>1, <3>2
    <2> QED
        BY <1>1, <1>2, <2>1
<1> QED
    BY <1>1, <1>2, <1>3, <1>4, <1>5 DEF Pages, q, b

\* Going on by one address adds a card when one begins there.
LEMMA CountOneMore ==
    ASSUME NEW cfg \in {A16, A24}, NEW n \in Nat, n < ScanTop[cfg]
    PROVE  /\ Cardinality(Below(cfg, n)) \in Nat
           /\ Cardinality(Below(cfg, n + 1)) =
                 IF n \in Answering[cfg] /\ n - 1 \notin Answering[cfg]
                 THEN Cardinality(Below(cfg, n)) + 1 ELSE Cardinality(Below(cfg, n))
<1>1. /\ Answering[cfg] \in SUBSET Nat /\ ScanTop[cfg] \in Nat
      /\ CardsIn(cfg) \subseteq 0 .. ScanTop[cfg]
    BY Spaces
<1>2. IsFiniteSet(Below(cfg, n)) /\ Cardinality(Below(cfg, n)) \in Nat
    <2>1. IsFiniteSet(0 .. ScanTop[cfg])
        <3>1. 0 \in Int /\ ScanTop[cfg] \in Int
            BY <1>1
        <3> QED
            BY <3>1, FS_Interval
    <2>2. Below(cfg, n) \in SUBSET (0 .. ScanTop[cfg])
        BY <1>1 DEF Below
    <2>3. IsFiniteSet(Below(cfg, n))
        BY <2>1, <2>2, FS_Subset
    <2> QED
        BY <2>3, FS_CardinalityType
<1>3. CASE n \in Answering[cfg] /\ n - 1 \notin Answering[cfg]
    <2>1. n \in CardsIn(cfg)
        BY <1>3 DEF CardsIn
    <2>2. Below(cfg, n + 1) = Below(cfg, n) \cup {n} /\ n \notin Below(cfg, n)
        BY <1>1, <2>1 DEF Below
    <2>3. Cardinality(Below(cfg, n) \cup {n}) = Cardinality(Below(cfg, n)) + 1
        BY <1>2, <2>2, FS_AddElement
    <2> QED
        BY <1>2, <1>3, <2>2, <2>3
<1>4. CASE ~(n \in Answering[cfg] /\ n - 1 \notin Answering[cfg])
    <2>1. n \notin CardsIn(cfg)
        BY <1>4 DEF CardsIn
    <2>2. Below(cfg, n + 1) = Below(cfg, n)
        BY <1>1, <2>1 DEF Below
    <2> QED
        BY <1>2, <1>4, <2>2
<1> QED
    BY <1>3, <1>4

\* No card begins below the first address, and all begin below the end.
LEMMA CountEnds ==
    ASSUME NEW cfg \in {A16, A24}
    PROVE  /\ Cardinality(Below(cfg, 0)) = 0
           /\ Below(cfg, ScanTop[cfg]) = CardsIn(cfg)
           /\ 0 - 1 \notin Answering[cfg]
<1>1. /\ Answering[cfg] \in SUBSET Nat /\ ScanTop[cfg] \in Nat
      /\ CardsIn(cfg) \subseteq 0 .. ScanTop[cfg]
    BY Spaces
<1>2. Below(cfg, 0) = {}
    BY <1>1 DEF Below
<1>3. Cardinality(Below(cfg, 0)) = 0
    BY <1>2, FS_EmptySet
<1>4. Below(cfg, ScanTop[cfg]) = CardsIn(cfg)
    BY DEF Below, CardsIn
<1> QED
    BY <1>1, <1>3, <1>4

\* The whole window is mapped, and the scan begins with the first page and A16.
LEMMA ScanMapStep ==
    ASSUME ToolInv, NEW p \in Handles, ScanMap(p)
    PROVE  Stepped(p)
<1>0. LocalTyped /\ Placed(p) /\ LibInv /\ pc[p] = "fn" /\ job[p].cmd = "scan"
    BY DEF ToolInv, ToolTyped, ScanMap
<1>1. /\ UNCHANGED <<job, count, found, pages, got, cards>> /\ UNCHANGED registers
      /\ at' = [at EXCEPT ![p] = 0] /\ v120_get_all_vme(p) /\ disturbed' = disturbed
    BY DEF ScanMap, LocalScan
<1>2. IsOpen(p) /\ ~Refused(job[p]) /\ C(p) \in Crates /\ ~Upgrading(p)
    BY <1>0, CrateOpen DEF Placed, Upgrading
<1>3. LibInv'
    BY <1>0, <1>1, MapKeeps
<1>4. /\ \A q \in Handles : q # p => handle'[q] = handle[q]
      /\ handle'[p].crateno = handle[p].crateno
    <2>1. OnlyMaps(p)
        BY <1>0, <1>1, SoundMap DEF LibInv
    <2> QED
        BY <2>1 DEF OnlyMaps
<1>5. pd' = pd
    BY <1>1 DEF v120_get_all_vme
<1>6. at' \in [Handles -> Nat] /\ at'[p] = 0 /\ \A q \in Handles : q # p => at'[q] = at[q]
    BY <1>0, <1>1 DEF LocalTyped
<1>7. /\ ret' \in [Handles -> {"success", "failure", "fault"}]
      /\ pc' \in [Handles -> Labels]
      /\ \/ pc'[p] = "configure"
         \/ pc'[p] = "open" /\ job[p].crate = ALL /\ ret'[p] = "failure"
         \/ pc'[p] = "close" /\ job[p].crate # ALL /\ ret'[p] = "failure"
      /\ \A q \in Handles : q # p => ret'[q] = ret[q] /\ pc'[q] = pc[q]
    <2>1. CASE Goto(p, "configure") /\ UNCHANGED ret
        BY <1>0, <2>1, GotoTyped DEF Labels, LocalTyped
    <2>2. CASE Return(p, "failure")
        BY <1>0, <2>2, ReturnTyped
    <2> QED
        BY <2>1, <2>2 DEF ScanMap
<1>8. OnlyOwn(p)
    BY <1>1, <1>6, <1>7 DEF OnlyOwn, LocalSame
<1>9. RegistersTyped' /\ Moves(p) /\ disturbed' \subseteq Handles
    BY <1>0, <1>1, <1>4, <1>5, <1>8, LibraryStep DEF LocalTyped
<1>10. LocalTyped'
    BY <1>0, <1>1, <1>6, <1>7, <1>9 DEF LocalTyped
<1>11. Placed(p)'
    BY <1>0, <1>1, <1>2, <1>4, <1>7 DEF Placed, Upgrading, Scanning, Writing, IsOpen
<1>12. ASSUME p \notin disturbed' PROVE Achieved(p)'
    <2>2. FlashWork(p)' /\ ReportWork(p)'
        BY <1>0, <1>1, <1>7 DEF FlashWork, ReportWork, Upgrading, Over
    <2>3. ScanWork(p)'
        <3>1. CASE pc'[p] # "configure"
            BY <1>1, <1>7, <3>1 DEF ScanWork, Scanning, Over
        <3>2. CASE pc'[p] = "configure"
            <4>1. cards'[p][C(p)] = NULL
                BY <1>0, <1>1 DEF Placed, C
            <4>2. C(p)' = C(p)
                BY <1>4 DEF C
            <4>3. Space(p)' = A16
                BY <4>1, <4>2 DEF Space
            <4>4. 0 * PageSize = 0 /\ 0 < ScanTop[A16] /\ A16 # A24
                BY Spaces, LibraryAssumption
            <4>5. \A q \in Pages : ~(q < 0)
                BY DEF Pages
            <4> QED
                BY <1>6, <3>2, <4>3, <4>4, <4>5 DEF ScanWork, Over
        <3> QED
            BY <3>1, <3>2
    <2> QED
        BY <2>2, <2>3 DEF Achieved
<1> QED
    BY <1>3, <1>9, <1>10, <1>11, <1>12 DEF Stepped, Moves, ToolTyped

\* One more page of the window shows the page of the address space of its number; when
\* it is the last one, all do.
LEMMA ConfigureStep ==
    ASSUME ToolInv, NEW p \in Handles, Configure(p)
    PROVE  Stepped(p)
<1> DEFINE c == C(p)
           sp == Space(p)
           n == at[p]
           last == (n + 1) * PageSize = ScanTop[sp]
<1>0. LocalTyped /\ Placed(p) /\ LibInv /\ pc[p] = "configure"
    BY DEF ToolInv, ToolTyped, Configure
<1>1. /\ UNCHANGED <<job, pages, ret, got, cards>> /\ UNCHANGED registers
      /\ at' = [at EXCEPT ![p] = IF last THEN 0 ELSE @ + 1]
      /\ count' = [count EXCEPT ![p] = 0] /\ found' = [found EXCEPT ![p] = FALSE]
      /\ Goto(p, IF last THEN "scan" ELSE "configure")
      /\ v120_configure_page(p, n, n * PageSize, sp) /\ Disturb(p, C(p))
    BY DEF Configure, LocalScan
<1>2. IsOpen(p) /\ ~Refused(job[p]) /\ c \in Crates /\ job[p].cmd = "scan"
    BY <1>0, CrateOpen DEF Placed, Scanning
<1>3. n \in Nat /\ sp \in {A16, A24} /\ sp \in Modes /\ PageSize \in Nat /\ PageSize # 0
    BY <1>0, Spaces, LibraryAssumption DEF LocalTyped, Space
<1> HIDE DEF c, sp, n, last
<1>4. n * PageSize \in Nat
    BY <1>3
<1>5. LibInv' /\ OnlyMaps(p)
    BY <1>0, <1>1, <1>3, <1>4, MapKeeps, SoundMap DEF LibInv
<1>6. /\ \A q \in Handles : q # p => handle'[q] = handle[q]
      /\ handle'[p].crateno = handle[p].crateno
    BY <1>5 DEF OnlyMaps
<1>7. pd' = [pd EXCEPT ![c] = [q \in Pages |->
                 IF q \in n .. n + 1 - 1
                 THEN V120_PD(n * PageSize + (q - n) * PageSize, sp) ELSE @[q]]]
    BY <1>1 DEF v120_configure_page, v120_configure_pd_range, c, C
<1>8. DOMAIN pd = Crates
    BY <1>0 DEF LibInv, Sound, LibraryTypeOK
<1>9. /\ \A d \in Crates : d # c => pd'[d] = pd[d]
      /\ \A q \in Pages : pd'[c][q] = IF q = n THEN [page |-> n, config |-> sp] ELSE pd[c][q]
    <2>1. /\ \A d \in Crates : d # c => pd'[d] = pd[d]
          /\ \A q \in Pages : pd'[c][q] = IF q \in n .. n + 1 - 1
                 THEN V120_PD(n * PageSize + (q - n) * PageSize, sp) ELSE pd[c][q]
        BY <1>2, <1>7, <1>8, Zenon
    <2>2. \A q \in Pages : q \in n .. n + 1 - 1 <=> q = n
        BY <1>3 DEF Pages
    <2>3. V120_PD(n * PageSize + (n - n) * PageSize, sp) = [page |-> n, config |-> sp]
        <3>1. (n * PageSize + 0) \div PageSize = n
            BY <1>3, DivisionUnique
        <3>2. n * PageSize + (n - n) * PageSize = n * PageSize + 0
            BY <1>3
        <3> QED
            BY <3>1, <3>2 DEF V120_PD
    <2> QED
        BY <2>1, <2>2, <2>3
<1>10. /\ pc' \in [Handles -> Labels]
       /\ pc'[p] = IF last THEN "scan" ELSE "configure"
       /\ \A q \in Handles : q # p => pc'[q] = pc[q]
    <2>1. CASE last
        BY <1>0, <1>1, <2>1, GotoTyped DEF Labels
    <2>2. CASE ~last
        BY <1>0, <1>1, <2>2, GotoTyped DEF Labels
    <2> QED
        BY <2>1, <2>2
<1>11. /\ at' \in [Handles -> Nat] /\ at'[p] = IF last THEN 0 ELSE n + 1
       /\ count' \in [Handles -> Nat] /\ count'[p] = 0
       /\ found' \in [Handles -> BOOLEAN] /\ found'[p] = FALSE
       /\ \A q \in Handles : q # p => at'[q] = at[q] /\ count'[q] = count[q] /\ found'[q] = found[q]
    BY <1>0, <1>1 DEF LocalTyped, n
<1>12. OnlyOwn(p)
    BY <1>1, <1>10, <1>11 DEF OnlyOwn, LocalSame
<1>13. RegistersTyped' /\ Moves(p) /\ disturbed' \subseteq Handles
    BY <1>1, <1>6, <1>9, <1>12, LibraryStep DEF c
<1>14. LocalTyped'
    BY <1>0, <1>1, <1>10, <1>11, <1>13 DEF LocalTyped
<1>15. Placed(p)'
    BY <1>0, <1>1, <1>2, <1>6, <1>10 DEF Placed, Upgrading, Scanning, Writing, IsOpen
<1>16. C(p)' = c /\ Space(p)' = sp
    BY <1>1, <1>6 DEF C, c, Space, sp
<1>17. ASSUME p \notin disturbed' PROVE Achieved(p)'
    <2>1. ScanWork(p)
        BY <1>13, <1>17 DEF ToolInv, Achieved, Moves, Tells
    <2>2. FlashWork(p)' /\ ReportWork(p)'
        BY <1>1, <1>2, <1>10 DEF FlashWork, ReportWork, Upgrading
    <2>3. ScanWork(p)'
        <3>1. /\ sp = A24 => job[p].a24
              /\ n * PageSize < ScanTop[sp]
              /\ \A q \in Pages : q < n => pd[c][q] = [page |-> q, config |-> sp]
            BY <1>0, <1>2, <2>1 DEF ScanWork, Scanning, c, sp, n
        <3>2. \A q \in Pages : q < n + 1 => pd'[c][q] = [page |-> q, config |-> sp]
            BY <1>3, <1>9, <3>1 DEF Pages
        <3>3. (n + 1) * PageSize <= ScanTop[sp] /\ (n + 1) * PageSize \in Nat
            BY <1>3, <3>1, NextPage
        <3>4. ScanTop[sp] \in Nat
            BY <1>3, Spaces
        <3>5. CASE last
            <4>1. \A q \in Pages : q * PageSize < ScanTop[sp] => q < n + 1
                <5> SUFFICES ASSUME NEW q \in Pages, n + 1 <= q
                             PROVE  ~(q * PageSize < (n + 1) * PageSize)
                    BY <1>3, <3>5 DEF Pages, last
                <5>1. q \in Nat
                    BY DEF Pages
                <5>2. (n + 1) * PageSize <= q * PageSize /\ q * PageSize \in Nat
                    BY <1>3, <5>1
                <5> QED
                    BY <3>3, <5>2
            <4>2. /\ Cardinality(Below(sp, 0)) = 0
                  /\ 0 - 1 \notin Answering[sp]
                BY <1>3, CountEnds
            <4>3. 0 <= ScanTop[sp]
                BY <3>4
            <4>4. /\ pc'[p] = "scan" /\ at'[p] = 0
                  /\ count'[p] = Cardinality(Below(sp, 0))
                  /\ ~found'[p]
                BY <1>10, <1>11, <3>5, <4>2
            <4>5. \A q \in Pages : q * PageSize < ScanTop[sp] =>
                        pd'[c][q] = [page |-> q, config |-> sp]
                BY <3>2, <4>1
            <4> QED
                BY <1>1, <1>16, <3>1, <4>2, <4>3, <4>4, <4>5 DEF ScanWork, Over
        <3>6. CASE ~last
            <4>1. (n + 1) * PageSize < ScanTop[sp]
                BY <3>3, <3>4, <3>6 DEF last
            <4> QED
                BY <1>1, <1>10, <1>11, <1>16, <3>1, <3>2, <3>6, <4>1 DEF ScanWork, Over
        <3> QED
            BY <3>5, <3>6
    <2> QED
        BY <2>2, <2>3 DEF Achieved
<1> QED
    BY <1>5, <1>13, <1>14, <1>15, <1>17 DEF Stepped, Moves, ToolTyped

\* A read at an address below the end of the space tells whether a card answers there.
LEMMA ScanReadStep ==
    ASSUME ToolInv, NEW p \in Handles, ScanRead(p)
    PROVE  Stepped(p)
<1> DEFINE c == C(p)
           sp == Space(p)
           n == at[p]
           d == pd[c][n \div PageSize]
           hit == (d.page * PageSize) + (n % PageSize) \in Answering[d.config]
           value == IF hit THEN "dtack" ELSE "timeout"
<1>0. LocalTyped /\ RegistersTyped /\ Placed(p) /\ pc[p] = "scan" /\ n < ScanTop[sp]
    BY DEF ToolInv, ToolTyped, ScanRead
<1>1. /\ UNCHANGED <<job, at, count, found, pages, ret, got, cards>> /\ UNCHANGED library
      /\ UNCHANGED <<macro, mp, buf, requester, slot, link, flash>>
      /\ vme_acc' = Set(vme_acc, c, value) /\ Disturb(p, c) /\ Goto(p, "lastacc")
    BY DEF ScanRead, LocalScan
<1>2. IsOpen(p) /\ ~Refused(job[p]) /\ c \in Crates /\ job[p].cmd = "scan"
    BY <1>0, CrateOpen DEF Placed, Scanning, ToolInv
<1>3. n \in Nat /\ sp \in {A16, A24}
    BY <1>0 DEF LocalTyped, Space
<1>4. /\ pc' \in [Handles -> Labels] /\ pc'[p] = "lastacc"
      /\ \A q \in Handles : q # p => pc'[q] = pc[q]
    BY <1>0, <1>1, GotoTyped DEF Labels
<1>5. OnlyOwn(p)
    BY <1>1, <1>4 DEF OnlyOwn, LocalSame
<1> HIDE DEF value
<1>6. RegistersTyped' /\ \A e \in Crates : e # C(p) => Untouched(e)
    BY <1>1, <1>2, SetTyped
<1>7. LibInv' /\ Moves(p) /\ disturbed' \subseteq Handles
    BY <1>1, <1>5, <1>6, RegisterStep
<1>8. LocalTyped'
    BY <1>0, <1>1, <1>4, <1>7 DEF LocalTyped
<1>9. C(p)' = c /\ Space(p)' = sp /\ UNCHANGED <<handle, pd>>
    BY <1>1 DEF C, Space, library
<1>10. Placed(p)'
    BY <1>0, <1>1, <1>2, <1>4, <1>9 DEF Placed, Upgrading, Scanning, Writing, IsOpen
<1>11. ASSUME p \notin disturbed' PROVE Achieved(p)'
    <2>1. ScanWork(p)
        BY <1>7, <1>11 DEF ToolInv, Achieved, Moves, Tells
    <2>2. FlashWork(p)' /\ ReportWork(p)'
        BY <1>1, <1>2, <1>4 DEF FlashWork, ReportWork, Upgrading
    <2>3. ScanWork(p)'
        <3>1. /\ sp = A24 => job[p].a24
              /\ n <= ScanTop[sp]
              /\ \A q \in Pages : q * PageSize < ScanTop[sp] => pd[c][q] = [page |-> q, config |-> sp]
              /\ count[p] = Cardinality(Below(sp, n))
              /\ found[p] <=> n - 1 \in Answering[sp]
            BY <1>0, <1>2, <2>1 DEF ScanWork, Scanning
        <3>2. /\ n \div PageSize \in Pages
              /\ (n \div PageSize) * PageSize < ScanTop[sp]
              /\ (n \div PageSize) * PageSize + (n % PageSize) = n
            BY <1>0, <1>3, PageOfAddress
        <3>3. d = [page |-> n \div PageSize, config |-> sp]
            BY <3>1, <3>2
        <3>4. hit <=> n \in Answering[sp]
            BY <3>2, <3>3
        <3>5. link[c] => vme_acc'[c] = IF n \in Answering[sp] THEN "dtack" ELSE "timeout"
            <4>1. value = IF n \in Answering[sp] THEN "dtack" ELSE "timeout"
                BY <3>4 DEF value
            <4> HIDE DEF c, hit, d, sp, n
            <4>2. link[c] => vme_acc'[c] = value
                BY <1>0, <1>1, <1>2, SetKeeps DEF RegistersTyped
            <4> QED
                BY <4>1, <4>2
        <3> HIDE DEF c, sp, d, n
        <3>6. UNCHANGED <<job, at, count, found, link>> /\ at[p] = n
            BY <1>1 DEF n
        <3> QED
            BY <1>0, <1>2, <1>4, <1>9, <3>1, <3>5, <3>6 DEF ScanWork, Over
    <2> QED
        BY <2>2, <2>3 DEF Achieved
<1> QED
    BY <1>6, <1>7, <1>8, <1>10, <1>11 DEF Stepped, Moves, ToolTyped

\* A card is counted at its first address, and the count goes on behind its last.
LEMMA ScanStatusStep ==
    ASSUME ToolInv, NEW p \in Handles, ScanStatus(p)
    PROVE  Stepped(p)
<1> DEFINE c == C(p)
           sp == Space(p)
           n == at[p]
           lastacc == Reads(c, vme_acc[c])
           acked == lastacc = "dtack"
           more == acked /\ ~found[p]
<1>0. LocalTyped /\ Placed(p) /\ pc[p] = "lastacc"
    BY DEF ToolInv, ToolTyped, ScanStatus
<1>1. UNCHANGED <<job, pages, got, cards>> /\ Private
    BY DEF ScanStatus, LocalScan
<1>2. IsOpen(p) /\ ~Refused(job[p]) /\ c \in Crates /\ job[p].cmd = "scan"
    BY <1>0, CrateOpen DEF Placed, Scanning, ToolInv
<1>3. n \in Nat /\ sp \in {A16, A24} /\ count[p] \in Nat
    BY <1>0 DEF LocalTyped, Space
<1>4. /\ UNCHANGED <<handle, pd, link, vme_acc>> /\ disturbed' = disturbed
      /\ C(p)' = c /\ Space(p)' = sp
    BY <1>1 DEF Private, library, registers, C, Space
<1>5. CASE Return(p, "failure") /\ UNCHANGED <<at, count, found>>
    <2>1. DOMAIN got = Handles /\ DOMAIN got[p] = Crates
        BY <1>0 DEF LocalTyped
    <2>2. /\ LibInv' /\ ToolTyped' /\ Moves(p) /\ Placed(p)'
          /\ pc'[p] = IF job[p].crate = ALL THEN "open" ELSE "close"
          /\ ret'[p] = "failure"
        BY <1>0, <1>1, <1>5, <2>1, ReturnStep
    <2>3. job'[p].crate = job[p].crate
        BY <1>1
    <2>4. Achieved(p)'
        BY <2>2, <2>3, NothingClaimed
    <2> QED
        BY <2>2, <2>4 DEF Stepped, Moves
<1>6. CASE /\ lastacc # "ones"
           /\ at' = [at EXCEPT ![p] = @ + 1]
           /\ count' = [count EXCEPT ![p] = IF acked /\ ~found[p] THEN @ + 1 ELSE @]
           /\ found' = [found EXCEPT ![p] = acked]
           /\ Goto(p, "scan")
           /\ UNCHANGED ret
    <2>1. /\ pc' \in [Handles -> Labels] /\ pc'[p] = "scan"
          /\ \A q \in Handles : q # p => pc'[q] = pc[q]
        BY <1>0, <1>6, GotoTyped DEF Labels
    <2>2. acked \in BOOLEAN /\ more \in BOOLEAN
        OBVIOUS
    <2>3. /\ at' \in [Handles -> Nat] /\ at'[p] = n + 1
          /\ count' \in [Handles -> Nat] /\ count'[p] = IF more THEN count[p] + 1 ELSE count[p]
          /\ found' \in [Handles -> BOOLEAN] /\ (found'[p] <=> acked)
          /\ \A q \in Handles : q # p => at'[q] = at[q] /\ count'[q] = count[q] /\ found'[q] = found[q]
        <3> HIDE DEF acked
        <3> QED
            BY <1>0, <1>3, <1>6, <2>2 DEF LocalTyped
    <2>4. OnlyOwn(p)
        BY <1>1, <1>6, <2>1, <2>3 DEF OnlyOwn, LocalSame
    <2>5. LibInv' /\ RegistersTyped' /\ Moves(p) /\ disturbed' \subseteq Handles
        BY <1>1, <2>4, PrivateStep
    <2>6. LocalTyped'
        BY <1>0, <1>1, <1>6, <2>1, <2>3, <2>5 DEF LocalTyped
    <2>7. Placed(p)'
        BY <1>0, <1>1, <1>2, <1>4, <2>1 DEF Placed, Upgrading, Scanning, Writing, IsOpen
    <2>8. ASSUME p \notin disturbed' PROVE Achieved(p)'
        <3>1. ScanWork(p)
            BY <1>4, <2>8 DEF ToolInv, Achieved
        <3>2. FlashWork(p)' /\ ReportWork(p)'
            BY <1>1, <1>2, <2>1 DEF FlashWork, ReportWork, Upgrading, Over
        <3>3. ScanWork(p)'
            <4>1. /\ sp = A24 => job[p].a24
                  /\ n < ScanTop[sp]
                  /\ \A q \in Pages : q * PageSize < ScanTop[sp] => pd[c][q] = [page |-> q, config |-> sp]
                  /\ count[p] = Cardinality(Below(sp, n))
                  /\ found[p] <=> n - 1 \in Answering[sp]
                  /\ link[c] => vme_acc[c] = IF n \in Answering[sp] THEN "dtack" ELSE "timeout"
                BY <1>0, <1>2, <3>1 DEF ScanWork, Scanning
            <4>2. acked <=> n \in Answering[sp]
                BY <1>6, <4>1 DEF Reads
            <4>3. /\ Cardinality(Below(sp, n)) \in Nat
                  /\ Cardinality(Below(sp, n + 1)) =
                        IF n \in Answering[sp] /\ n - 1 \notin Answering[sp]
                        THEN Cardinality(Below(sp, n)) + 1 ELSE Cardinality(Below(sp, n))
                BY <1>3, <4>1, CountOneMore
            <4>4. more <=> n \in Answering[sp] /\ n - 1 \notin Answering[sp]
                BY <4>1, <4>2
            <4> HIDE DEF acked, more, c, sp, n
            <4>5. count'[p] = Cardinality(Below(sp, n + 1))
                BY <2>3, <4>1, <4>3, <4>4
            <4>6. (n + 1) - 1 = n /\ n + 1 <= ScanTop[sp]
                <5>1. ScanTop[sp] \in Nat
                    BY <1>3, Spaces
                <5> QED
                    BY <1>3, <4>1, <5>1
            <4>7. found'[p] <=> (n + 1) - 1 \in Answering[sp]
                BY <2>3, <4>2, <4>6
            <4> QED
                BY <1>1, <1>4, <2>1, <2>3, <4>1, <4>5, <4>6, <4>7 DEF ScanWork, Over
        <3> QED
            BY <3>2, <3>3 DEF Achieved
    <2> QED
        BY <2>5, <2>6, <2>7, <2>8 DEF Stepped, Moves, ToolTyped
<1> QED
    BY <1>5, <1>6 DEF ScanStatus

\* All addresses have been read: the count is the number of cards.
LEMMA ScanDoneStep ==
    ASSUME ToolInv, NEW p \in Handles, ScanDone(p)
    PROVE  Stepped(p)
<1> DEFINE c == C(p)
           sp == Space(p)
<1>0. LocalTyped /\ Placed(p) /\ pc[p] = "scan" /\ at[p] = ScanTop[sp]
    BY DEF ToolInv, ToolTyped, ScanDone
<1>1. /\ UNCHANGED <<job, count, found, pages, got>> /\ Private
      /\ at' = [at EXCEPT ![p] = 0] /\ cards' = [cards EXCEPT ![p][c] = count[p]]
    BY DEF ScanDone, LocalScan
<1>2. IsOpen(p) /\ ~Refused(job[p]) /\ c \in Crates /\ job[p].cmd = "scan" /\ ~Upgrading(p)
    BY <1>0, CrateOpen DEF Placed, Scanning, ToolInv, Upgrading
<1>3. sp \in {A16, A24} /\ count[p] \in Nat /\ count[p] # NULL
    BY <1>0 DEF LocalTyped, Space, NULL
<1>4. /\ UNCHANGED <<handle, pd>> /\ disturbed' = disturbed /\ C(p)' = c
    BY <1>1 DEF Private, library, registers, C
<1>5. /\ at' \in [Handles -> Nat] /\ at'[p] = 0
      /\ cards' \in [Handles -> [Crates -> Nat \cup {NULL}]] /\ cards'[p][c] = count[p]
      /\ \A q \in Handles : q # p => at'[q] = at[q] /\ cards'[q] = cards[q]
    BY <1>0, <1>1, <1>2, <1>3 DEF LocalTyped
<1> DEFINE again == job[p].a24 /\ sp = A16
<1>6. /\ ret' \in [Handles -> {"success", "failure", "fault"}]
      /\ pc' \in [Handles -> Labels]
      /\ IF again THEN pc'[p] = "configure" /\ ret' = ret
         ELSE ret'[p] = "success" /\ pc'[p] = IF job[p].crate = ALL THEN "open" ELSE "close"
      /\ \A q \in Handles : q # p => ret'[q] = ret[q] /\ pc'[q] = pc[q]
    <2>1. CASE again
        BY <1>0, <2>1, GotoTyped DEF Labels, LocalTyped, ScanDone
    <2>2. CASE ~again
        BY <1>0, <2>2, ReturnTyped DEF ScanDone
    <2> QED
        BY <2>1, <2>2
<1> HIDE DEF again
<1>7. OnlyOwn(p)
    BY <1>1, <1>5, <1>6 DEF OnlyOwn, LocalSame
<1>8. LibInv' /\ RegistersTyped' /\ Moves(p) /\ disturbed' \subseteq Handles
    BY <1>1, <1>7, PrivateStep
<1>9. LocalTyped'
    BY <1>0, <1>1, <1>5, <1>6, <1>8 DEF LocalTyped
<1>10. Placed(p)'
    <2>1. \A d \in Crates : d # c => cards'[p][d] = cards[p][d]
        BY <1>0, <1>1, <1>2 DEF LocalTyped
    <2>2. \A d \in Crates : d > c => d # c
        <3>1. Crates \subseteq Nat
            BY LibraryAssumption
        <3> HIDE DEF c
        <3> QED
            BY <1>2, <3>1
    <2> QED
        BY <1>0, <1>1, <1>2, <1>4, <1>6, <2>1, <2>2 DEF C, Placed, Upgrading, Scanning, Writing, IsOpen
<1>11. ASSUME p \notin disturbed' PROVE Achieved(p)'
    <2>1. ScanWork(p)
        BY <1>4, <1>11 DEF ToolInv, Achieved
    <2>2. FlashWork(p)' /\ ReportWork(p)'
        BY <1>1, <1>2, <1>6 DEF FlashWork, ReportWork, Upgrading, Over
    <2>3. ScanWork(p)'
        <3>1. (sp = A24 => job[p].a24) /\ count[p] = Cardinality(Below(sp, ScanTop[sp]))
            BY <1>0, <1>2, <2>1 DEF ScanWork, Scanning
        <3>2. Below(sp, ScanTop[sp]) = CardsIn(sp)
            BY <1>3, CountEnds
        <3>3. cards'[p][c] = Cardinality(CardsIn(sp))
            BY <1>5, <3>1, <3>2
        <3>4. CASE again
            <4>1. Space(p)' = A24
                BY <1>3, <1>4, <1>5 DEF Space
            <4>2. 0 * PageSize = 0 /\ 0 < ScanTop[A24] /\ \A q \in Pages : ~(q < 0)
                BY Spaces, LibraryAssumption DEF Pages
            <4> QED
                BY <1>1, <1>5, <1>6, <3>4, <4>1, <4>2 DEF ScanWork, Scanning, Over, again
        <3>5. CASE ~again
            <4>1. sp = IF job[p].a24 THEN A24 ELSE A16
                BY <1>3, <3>1, <3>5 DEF again
            <4> HIDE DEF sp, c
            <4> QED
                BY <1>1, <1>4, <1>6, <3>3, <3>5, <4>1 DEF ScanWork, Scanning, Over
        <3> QED
            BY <3>4, <3>5
    <2> QED
        BY <2>2, <2>3 DEF Achieved
<1> QED
    BY <1>8, <1>9, <1>10, <1>11 DEF Stepped, Moves, ToolTyped

-------------------------------------------------------------------------------
(***************************************************************************)
(* The macro unit                                                          *)
(***************************************************************************)
\* Carrying out a macro command, or failing to, changes registers of one crate, and
\* never brings it back to the bus.
LEMMA UnitTyped ==
    ASSUME ToolInv, NEW c \in Crates, MacroUnit(c)
    PROVE  /\ RegistersTyped'
           /\ macro'[c] \in {"idle", "failed"} /\ (link'[c] => link[c])
           /\ \A d \in Crates : d # c => Untouched(d)
<1>0. RegistersTyped
    BY DEF ToolInv, ToolTyped
<1>1. UNCHANGED <<requester, slot, vme_acc, pd>>
    BY DEF MacroUnit, library
<1>2. /\ DOMAIN macro' = Crates /\ macro'[c] \in {"idle", "failed"}
      /\ \A d \in Crates : d # c => macro'[d] = macro[d]
    BY <1>0 DEF MacroUnit, RegistersTyped
<1>3. /\ buf' = buf \/ \E value : buf' = [buf EXCEPT ![c] = value]
      /\ mp' = mp \/ mp' = [mp EXCEPT ![c] = Parameter("rev", 0)]
      /\ link' = link \/ link' = [link EXCEPT ![c] = FALSE]
      /\ \/ flash' = flash
         \/ \E value : flash' = [flash EXCEPT ![c].unlocked = value]
         \/ \E value : flash' = [flash EXCEPT ![c].pages = value]
    <2>1. CASE Effect(c, macro[c])
        BY <2>1, Zenon DEF Effect
    <2>2. CASE UNCHANGED <<mp, buf, link, flash>>
        BY <2>2
    <2> QED
        BY <2>1, <2>2 DEF MacroUnit
<1>4. DOMAIN buf' = Crates /\ \A d \in Crates : d # c => buf'[d] = buf[d]
    BY <1>0, <1>3 DEF RegistersTyped
<1>5. /\ DOMAIN mp' = Crates /\ (\A d \in Crates : mp'[d].n \in FlashPages)
      /\ \A d \in Crates : d # c => mp'[d] = mp[d]
    <2>1. Parameter("rev", 0).n \in FlashPages
        BY ToolAssumption DEF Parameter
    <2> QED
        BY <1>0, <1>3, <2>1 DEF RegistersTyped
<1>6. /\ link' \in [Crates -> BOOLEAN] /\ (link'[c] => link[c])
      /\ \A d \in Crates : d # c => link'[d] = link[d]
    BY <1>0, <1>3 DEF RegistersTyped
<1>7. /\ DOMAIN flash' = Crates /\ (\A d \in Crates : DOMAIN flash'[d] = {"unlocked", "pages"})
      /\ \A d \in Crates : d # c => flash'[d] = flash[d]
    BY <1>0, <1>3 DEF RegistersTyped
<1>8. RegistersTyped'
    BY <1>0, <1>1, <1>2, <1>4, <1>5, <1>6, <1>7 DEF RegistersTyped
<1>9. \A d \in Crates : d # c => Untouched(d)
    BY <1>1, <1>2, <1>4, <1>5, <1>6, <1>7 DEF Untouched
<1> QED
    BY <1>2, <1>6, <1>8, <1>9

\* A page written from the buffer is in its place, and the others stay in theirs.
LEMMA PageWritten ==
    ASSUME ToolInv, NEW c \in Crates, MacroUnit(c), NEW p \in Handles, Upgrading(p),
           macro[c] = "reflash", macro'[c] = "idle", mp[c].n = at[p],
           at[p] + 1 <= Len(job[p].file.pages) => Right(buf[c], job[p].file, at[p] + 1),
           \A m \in 1 .. at[p] : Holds(c, job[p].file, m)
    PROVE  /\ link'[c] = link[c]
           /\ \A m \in 1 .. at[p] : Right(flash'[c].pages[m - 1], job[p].file, m)
           /\ at[p] + 1 <= Len(job[p].file.pages) =>
                 Right(flash'[c].pages[at[p]], job[p].file, at[p] + 1)
<1> DEFINE n == at[p]
           new == [k \in FlashPages |-> IF k = mp[c].n THEN buf[c] ELSE flash[c].pages[k]]
<1>0. /\ DOMAIN flash = Crates /\ DOMAIN flash[c] = {"unlocked", "pages"}
      /\ DOMAIN macro = Crates
    BY DEF ToolInv, ToolTyped, RegistersTyped
<1>1. /\ Len(job[p].file.pages) \in Nat /\ n \in 0 .. Len(job[p].file.pages)
      /\ 0 .. Len(job[p].file.pages) \subseteq FlashPages
    BY FileFits DEF ToolInv, ToolTyped
<1>2. Effect(c, "reflash")
    BY <1>0 DEF MacroUnit
<1>3. /\ flash' = [flash EXCEPT ![c].pages = new]
      /\ link' = link
    BY <1>2 DEF Effect
<1> HIDE DEF new
<1>4. flash'[c].pages = new
    BY <1>0, <1>3
<1>5. ASSUME NEW m \in 1 .. n PROVE new[m - 1] = flash[c].pages[m - 1]
    <2> DEFINE size == Len(job[p].file.pages)
    <2> HIDE DEF size, n
    <2>1. size \in Nat /\ n \in 0 .. size
        BY <1>1 DEF size
    <2>2. m - 1 \in 0 .. size /\ m - 1 # n
        BY <2>1
    <2>3. m - 1 \in 0 .. Len(job[p].file.pages) /\ m - 1 # n
        BY <2>2 DEF size
    <2> QED
        BY <1>1, <2>3 DEF new, n
<1>6. new[n] = buf[c]
    BY <1>1 DEF new
<1> QED
    BY <1>3, <1>4, <1>5, <1>6 DEF Holds

\* A process that waits for the macro unit finds what it has asked for.
LEMMA UnitAchieves ==
    ASSUME ToolInv, NEW c \in Crates, MacroUnit(c), NEW p \in Handles, C(p) = c, Achieved(p)
    PROVE  Achieved(p)'
<1>0. RegistersTyped /\ macro[c] \notin {"idle", "failed"}
    BY DEF ToolInv, ToolTyped, MacroUnit
<1>1. UNCHANGED <<job, pc, at, count, found, ret, got, cards, handle, pd, vme_acc>>
    BY DEF MacroUnit, library, local
<1>2. macro'[c] \in {"idle", "failed"} /\ (link'[c] => link[c])
    BY UnitTyped
<1>3. C(p)' = c /\ Space(p)' = Space(p)
    BY <1>1 DEF C, Space
<1>4. FlashWork(p)'
    <2>1. CASE ~Upgrading(p) \/ pc[p] # "written"
        <3>1. \/ ~Upgrading(p)
              \/ pc[p] \notin Writing /\ ~Over(p)
            BY <1>0, <2>1 DEF Achieved, FlashWork, Writing
        <3> QED
            BY <1>1, <3>1 DEF FlashWork, Over, IsOpen, Writing, Upgrading
    <2>2. CASE Upgrading(p) /\ pc[p] = "written"
        <3>1. /\ link[c] /\ macro[c] = "reflash" /\ mp[c].n = at[p]
              /\ \A m \in 1 .. at[p] : Holds(c, job[p].file, m)
              /\ at[p] + 1 <= Len(job[p].file.pages) => Right(buf[c], job[p].file, at[p] + 1)
            BY <1>0, <2>2 DEF Achieved, FlashWork, Writing
        <3>2. CASE macro'[c] = "failed"
            <4>1. UNCHANGED <<mp, buf, link, flash>>
                BY <1>0, <3>1, <3>2 DEF MacroUnit, RegistersTyped
            <4> QED
                BY <1>1, <1>3, <2>2, <3>1, <3>2, <4>1 DEF FlashWork, Over, IsOpen, Writing, Upgrading, Holds
        <3>3. CASE macro'[c] = "idle"
            <4>1. /\ link'[c] = link[c]
                  /\ \A m \in 1 .. at[p] : Right(flash'[c].pages[m - 1], job[p].file, m)
                  /\ at[p] + 1 <= Len(job[p].file.pages) =>
                        Right(flash'[c].pages[at[p]], job[p].file, at[p] + 1)
                BY <2>2, <3>1, <3>3, PageWritten
            <4>2. UNCHANGED <<mp, buf>>
                BY <1>0, <3>1, <3>3 DEF MacroUnit, Effect, RegistersTyped
            <4>3. at[p] \in Nat /\ (at[p] + 1) - 1 = at[p]
                BY DEF ToolInv, ToolTyped, LocalTyped
            <4> QED
                BY <1>1, <1>3, <2>2, <3>1, <3>3, <4>1, <4>2, <4>3
                   DEF FlashWork, Over, IsOpen, Writing, Upgrading, Holds, Right
        <3> QED
            BY <1>2, <3>2, <3>3
    <2> QED
        BY <2>1, <2>2
<1>5. ReportWork(p)'
    <2>1. pc[p] = "answer" =>
              \/ ~link'[c]
              \/ macro'[c] = "failed"
              \/ macro'[c] = "idle" /\ Reported(job[p], c)'
        <3> SUFFICES ASSUME pc[p] = "answer", link'[c], macro'[c] = "idle"
                     PROVE  Reported(job[p], c)'
            BY <1>2
        <3>1. macro[c] = ReportMacro[job[p].cmd] /\ job[p].cmd \in {"report-id", "report-flash"}
            BY <1>0, <1>2 DEF Achieved, ReportWork, ToolInv, Placed, ReportMacro
        <3>2. Effect(c, macro[c])
            BY <1>0 DEF MacroUnit, RegistersTyped
        <3>3. CASE job[p].cmd = "report-id"
            BY <1>0, <1>1, <3>1, <3>2, <3>3
               DEF Effect, ReportMacro, Reported, Parameter, RegistersTyped
        <3>4. CASE job[p].cmd = "report-flash"
            BY <1>0, <1>1, <3>1, <3>2, <3>4
               DEF Effect, ReportMacro, Reported, RegistersTyped
        <3> QED
            BY <3>1, <3>3, <3>4
    <2> QED
        BY <1>1, <1>3, <2>1 DEF Achieved, ReportWork, Reported, Over, IsOpen
<1>6. ScanWork(p)'
    BY <1>1, <1>2, <1>3 DEF Achieved, ScanWork, Over, IsOpen
<1> QED
    BY <1>4, <1>5, <1>6 DEF Achieved

\* A step of a macro unit keeps the invariant.
LEMMA MacroUnitKeeps ==
    ASSUME ToolInv, NEW c \in Crates, MacroUnit(c)
    PROVE  ToolInv'
<1>1. UNCHANGED <<job, pc, at, count, found, pages, ret, got, cards, handle, disturbed>>
      /\ UNCHANGED library
    BY DEF MacroUnit, library, local
<1>2. LibInv'
    BY <1>1, InvStutter DEF ToolInv
<1>3. RegistersTyped' /\ \A d \in Crates : d # c => Untouched(d)
    BY UnitTyped
<1>4. LocalTyped'
    BY <1>1 DEF ToolInv, ToolTyped, LocalTyped
<1>5. ASSUME NEW p \in Handles PROVE Placed(p)' /\ (p \notin disturbed' => Achieved(p)')
    <2>1. Placed(p)'
        BY <1>1 DEF ToolInv, Placed, Upgrading, IsOpen
    <2>2. ASSUME p \notin disturbed' PROVE Achieved(p)'
        <3>1. Achieved(p)
            BY <1>1, <2>2 DEF ToolInv
        <3>2. CASE C(p) = c
            BY <3>1, <3>2, UnitAchieves
        <3>3. CASE C(p) # c
            <4>1. disturbed' \subseteq Handles
                BY <1>4 DEF LocalTyped
            <4>2. LocalSame(p)
                BY <1>1 DEF LocalSame
            <4>3. IsOpen(p) => Untouched(C(p))
                BY <1>3, <3>3, CrateOpen DEF ToolInv
            <4> QED
                BY <1>1, <3>1, <4>2, <4>3, StaysAchieved DEF ToolInv
        <3> QED
            BY <3>2, <3>3
    <2> QED
        BY <2>1, <2>2
<1> QED
    BY <1>2, <1>3, <1>4, <1>5 DEF ToolInv, ToolTyped

-------------------------------------------------------------------------------
(***************************************************************************)
(* The theorems                                                            *)
(***************************************************************************)
\* It holds when no process has begun.
LEMMA ToolInvInit == ToolInit => ToolInv
<1> SUFFICES ASSUME ToolInit PROVE ToolInv
    OBVIOUS
<1>1. LibInv
    BY InvInit DEF ToolInit
<1>2. LocalTyped
    BY DEF ToolInit, LocalTyped, Labels, NULL
<1>3. RegistersTyped
    BY ToolAssumption DEF ToolInit, RegistersTyped, Parameter
<1>4. ASSUME NEW p \in Handles PROVE Placed(p) /\ Achieved(p)
    <2>1. /\ pc[p] = "start" /\ at[p] = 0 /\ job[p].cmd = "none"
          /\ \A c \in Crates : cards[p][c] = NULL
        BY DEF ToolInit, NoJob
    <2>2. Placed(p)
        <3>1. ~IsOpen(p)
            BY DEF ToolInit, LibraryInit, IsOpen, Closed
        <3> QED
            BY <2>1, <3>1 DEF Placed, Upgrading, Writing, Scanning
    <2>3. Achieved(p)
        BY <2>1 DEF Achieved, FlashWork, ReportWork, ScanWork, Upgrading
    <2> QED
        BY <2>2, <2>3
<1> QED
    BY <1>1, <1>2, <1>3, <1>4 DEF ToolInv, ToolTyped

\* Every action of a process leaves behind what it must.
LEMMA EveryStep ==
    ASSUME ToolInv, NEW p \in Handles, Command(p)
    PROVE  Stepped(p)
<1>1. CASE Start(p) \/ Refuse(p) \/ Open(p) \/ Close(p)
    BY <1>1, StartStep, RefuseStep, OpenStep, CloseStep
<1>2. CASE OpenVme(p) \/ Allocate(p) \/ Check(p) \/ Transfer(p) \/ Malformed(p)
           \/ TransferDone(p)
    BY <1>2, OpenVmeStep, AllocateStep, CheckStep, TransferStep, TransferDoneStep
<1>3. CASE Requester(p) \/ RequesterSlot(p) \/ Reset(p) \/ persist_one(p)
    BY <1>3, RequesterStep, RequesterSlotStep, ResetStep, ReinitStep
<1>4. CASE Report(p) \/ Answer(p) \/ PrintRegisters(p) \/ PrintRecords(p)
    BY <1>4, ReportStep, AnswerStep, PrintStep
<1>5. CASE NoFile(p) \/ Unlock(p) \/ Erase(p) \/ FlashWait(p) \/ fread(p) \/ SetPage(p) \/ Reflash(p)
           \/ ReflashWait(p)
    BY <1>5, NoFileStep, UnlockStep, FlashWaitStep, FreadStep, SetPageStep, ReflashStep, ReflashWaitStep
<1>6. CASE ScanMap(p) \/ Configure(p) \/ ScanRead(p) \/ ScanStatus(p) \/ ScanDone(p)
    BY <1>6, ScanMapStep, ConfigureStep, ScanReadStep, ScanStatusStep, ScanDoneStep
<1> QED
    BY <1>1, <1>2, <1>3, <1>4, <1>5, <1>6 DEF Command

\* And every step keeps it.
LEMMA ToolInvKept == ToolInv /\ [ToolNext]_tool => ToolInv'
<1> SUFFICES ASSUME ToolInv, [ToolNext]_tool PROVE ToolInv'
    OBVIOUS
<1>1. ASSUME NEW p \in Handles, Command(p) PROVE ToolInv'
    <2>1. Stepped(p)
        BY <1>1, EveryStep
    <2>2. ASSUME NEW q \in Handles, q # p PROVE Placed(q)' /\ (q \notin disturbed' => Achieved(q)')
        BY <2>1, <2>2, OthersKept DEF Stepped, Moves
    <2> QED
        BY <2>1, <2>2 DEF Stepped, Moves, ToolInv
<1>2. ASSUME NEW c \in Crates, MacroUnit(c) PROVE ToolInv'
    BY <1>2, MacroUnitKeeps
<1>3. CASE UNCHANGED tool
    <2>1. /\ UNCHANGED library /\ UNCHANGED handle /\ disturbed' = disturbed
          /\ \A p \in Handles : LocalSame(p)
          /\ \A c \in Crates : Untouched(c)
        BY <1>3 DEF tool, library, local, registers, LocalSame, Untouched
    <2>2. LibInv'
        BY <2>1, InvStutter DEF ToolInv
    <2>3. ToolTyped'
        BY <1>3 DEF ToolInv, ToolTyped, LocalTyped, RegistersTyped, tool, local, registers
    <2>4. ASSUME NEW p \in Handles PROVE Placed(p)' /\ (p \notin disturbed' => Achieved(p)')
        <3>1. Placed(p)'
            BY <2>1 DEF ToolInv, Placed, LocalSame, IsOpen, Upgrading
        <3>2. ASSUME p \notin disturbed' PROVE Achieved(p)'
            BY <2>1, <3>2, CrateOpen, StaysAchieved DEF ToolInv
        <3> QED
            BY <3>1, <3>2
    <2> QED
        BY <2>2, <2>3, <2>4 DEF ToolInv
<1> QED
    BY <1>1, <1>2, <1>3 DEF ToolNext

\* Whatever the processes are told to do, and however their steps and those of the
\* macro units interleave, the invariant of the tool holds.
THEOREM ToolInvariance == ToolSpec => []ToolInv
<1>1. ToolInit => ToolInv
    BY ToolInvInit
<1>2. ToolInv /\ [ToolNext]_tool => ToolInv'
    BY ToolInvKept
<1> QED
    BY <1>1, <1>2, PTL DEF ToolSpec

\* The variables of the tool keep their types, and the macro units are given numbers of
\* pages that there are: a flash-upgrade does not run past the flash memory, which holds
\* the image and one page to spare.
THEOREM ToolTypeCorrect == ToolSpec => []ToolTypeOK
<1>1. ToolInv => ToolTypeOK
    BY DEF ToolInv, ToolTyped, LocalTyped, RegistersTyped, ToolTypeOK
<1> QED
    BY <1>1, ToolInvariance, PTL

\* A flash-upgrade that reports success has put every byte of the file in its place,
\* for every file and every size of the flash memory it fits.
THEOREM FlashIsRight == ToolSpec => []FlashHoldsFile
<1>1. ToolInv => FlashHoldsFile
    <2> SUFFICES ASSUME ToolInv, NEW p \in Handles, ReturnedWith(p, "flash-upgrade"),
                        NEW n \in 1 .. Len(job[p].file.pages)
                 PROVE  Right(flash[C(p)].pages[n - 1], job[p].file, n)
        BY DEF FlashHoldsFile, Right
    <2>1. Upgrading(p) /\ Over(p) /\ FlashWork(p)
        BY DEF ReturnedWith, Upgrading, Over, ToolInv, Achieved
    <2> QED
        BY <2>1 DEF FlashWork, Holds
<1> QED
    BY <1>1, ToolInvariance, PTL

\* What a report says of a crate its process has to itself is so, for every set of
\* cards in every address space: a scan counts each card once.
THEOREM ReportsTold == ToolSpec => []ReportsAreTrue
<1>1. ToolInv => ReportsAreTrue
    <2> SUFFICES ASSUME ToolInv, NEW p \in Handles
                 PROVE  /\ ReturnedWith(p, "report-id") => got[p][C(p)] \in {"rev", "unavailable"}
                        /\ ReturnedWith(p, "report-flash") => got[p][C(p)] = "report"
                        /\ ReturnedWith(p, "scan") =>
                              cards[p][C(p)] = Cardinality(CardsIn(IF job[p].a24 THEN A24 ELSE A16))
        BY DEF ReportsAreTrue
    <2>1. p \notin disturbed => ReportWork(p) /\ ScanWork(p)
        BY DEF ToolInv, Achieved
    <2> QED
        BY <2>1 DEF ReturnedWith, Over, ReportWork, ScanWork
<1> QED
    BY <1>1, ToolInvariance, PTL

(***************************************************************************)
(* The transfers of read and write                                         *)
(***************************************************************************)
\* The values of command line j lie in the pages that its region is given.
TransfersFit(j) ==
    PageOffset(j.region) + Transfers(j) * Size(j) <= NPages(j.region) * PageSize

\* So they do when they are counted on the command line and not split in two: then
\* rw_open_vme asks for as many bytes as set_up_dwidth and the loops move.
LEMMA CountedTransfersFit ==
    ASSUME NEW p \in Handles, NEW j \in Jobs[p], j.cmd \in RW, j.units # 0, j.dwidth # "s"
    PROVE  TransfersFit(j)
<1>0. j \in CommandLine
    BY ToolAssumption
<1>1. j.region \in Regions /\ j.units \in Nat /\ j.dwidth \in {"b", "w", "l"}
    BY <1>0, Arguments
<1>2. len[j.region] = j.units * Size(j)
    <2>1. len[j.region] = RegionLen(j)
        BY ToolAssumption
    <2>2. RegionLen(j) = j.units * Size(j)
        BY <1>1 DEF RegionLen, Size
    <2> QED
        BY <2>1, <2>2
<1>3. PageSize \in Nat /\ PageOffset(j.region) \in Nat /\ NPages(j.region) \in Nat
    <2>1. PageSize \in Nat /\ PageOffset(j.region) \in 0 .. PageSize - 1
        BY <1>1, LibraryAssumption, PagesOfRegion
    <2> QED
        BY <1>1, <2>1, PagesOfRegion
<1>4. Size(j) \in 1 .. 4
    BY <1>1 DEF Size
<1> DEFINE l == len[j.region]
<1>5. l \in Nat /\ l > 0
    BY <1>1, <1>2, <1>4
<1>6. PageOffset(j.region) + (l - 1) < NPages(j.region) * PageSize
    <2>1. l - 1 \in 0 .. l - 1
        BY <1>5
    <2> HIDE DEF l
    <2>2. OnItsPages(j.region, l - 1)
        BY <1>1, <2>1, BytesOnPages DEF l
    <2> QED
        BY <2>2 DEF OnItsPages
<1>7. Transfers(j) * Size(j) = l
    <2>1. Transfers(j) = j.units
        BY DEF Transfers, FromBinary, Values
    <2> QED
        BY <1>2, <2>1
<1> HIDE DEF l
<1>8. NPages(j.region) * PageSize \in Nat
    BY <1>3
<1> QED
    BY <1>3, <1>5, <1>6, <1>7, <1>8 DEF TransfersFit

\* The bytes of the next value, of those that fit, are on the pages of the region.
LEMMA NextUnitFits ==
    ASSUME NEW p \in Handles, job[p] \in CommandLine, job[p].cmd \in RW, at[p] \in Nat,
           TransfersFit(job[p]), at[p] < Transfers(job[p]), NEW i \in NextUnit(p)
    PROVE  i \in Nat /\ OnItsPages(job[p].region, i)
<1> DEFINE j == job[p]
           n == at[p]
           s == Size(j)
           t == Transfers(j)
           o == PageOffset(j.region)
           m == NPages(j.region) * PageSize
<1>1. j.region \in Regions /\ j.units \in Nat /\ j.stdin \in Nat /\ j.dwidth \in {"b", "w", "s", "l"}
    BY Arguments
<1>2. s \in 1 .. 4 /\ t \in Nat
    <2>1. s \in 1 .. 4
        BY <1>1 DEF Size
    <2>2. StdinBuffer \div s \in Nat
        <3>1. s \in Nat /\ s # 0 /\ StdinBuffer \in Nat
            BY <2>1, ToolAssumption
        <3> HIDE DEF s
        <3> QED
            BY <3>1, Division
    <2>3. Block(j) \in Nat /\ Values(j) \in Nat
        BY <1>1, <2>2 DEF Block, Values
    <2> QED
        BY <2>1, <2>3 DEF Transfers
<1>3. o \in Nat /\ m \in Nat
    <2>1. PageSize \in Nat /\ PageOffset(j.region) \in 0 .. PageSize - 1 /\ NPages(j.region) \in Nat
        BY <1>1, LibraryAssumption, PagesOfRegion
    <2> QED
        BY <2>1
<1>4. i \in n * s .. (n + 1) * s - 1 /\ n \in Nat /\ n < t /\ o + t * s <= m
    BY DEF NextUnit, TransfersFit
<1> SUFFICES i \in Nat /\ o + i < m
    BY DEF OnItsPages
<1> HIDE DEF j, n, s, t, o, m
<1>5. (n + 1) * s <= t * s
    BY <1>2, <1>4
<1>6. n * s \in Nat /\ (n + 1) * s \in Nat /\ t * s \in Nat
    BY <1>2, <1>4
<1> QED
    BY <1>3, <1>4, <1>5, <1>6

\* Every value of a read or a write goes to the address the user named and never past
\* the mapping, for every address, count and width, when values that come from the
\* standard input, and those of split accesses, fit the pages of the region; the others
\* always do.  Without the hypothesis it is not so: see the run ToolStdin.
THEOREM TransfersReach ==
    ASSUME \A p \in Handles : \A j \in Jobs[p] :
              j.cmd \in RW /\ (j.units = 0 \/ j.dwidth = "s") => TransfersFit(j)
    PROVE  ToolSpec => []TransfersReachTheirCard
<1>1. ToolInv => TransfersReachTheirCard
    <2> SUFFICES ASSUME ToolInv, NEW p \in Handles, pc[p] = "transfer",
                        at[p] < Transfers(job[p]), job[p].region \in relied[p],
                        NEW i \in NextUnit(p)
                 PROVE  /\ InMapping(p, PageOf(job[p].region, i))
                        /\ Reaches(p, job[p].region, i)
        BY DEF TransfersReachTheirCard
    <2>1. job[p] \in Jobs[p] /\ job[p].cmd \in RW /\ at[p] \in Nat /\ LibInv
        BY DEF ToolInv, ToolTyped, LocalTyped, Placed
    <2>2. job[p] \in CommandLine
        BY <2>1, ToolAssumption
    <2>3. TransfersFit(job[p])
        BY <2>1, CountedTransfersFit
    <2>4. i \in Nat /\ OnItsPages(job[p].region, i)
        BY <2>1, <2>2, <2>3, NextUnitFits
    <2> QED
        BY <2>1, <2>4, PagesReach
<1> QED
    BY <1>1, ToolInvariance, PTL

===============================================================================
