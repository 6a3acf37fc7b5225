-------------------------------- MODULE V120Tool -------------------------------
(***************************************************************************)
(* The command line tool v120 (v120/*.c): each process runs one subcommand *)
(* on one crate, or on all of them in turn, through its own handle.        *)
(*                                                                         *)
(* Nothing locks a crate.  Two processes share its page descriptors, the   *)
(* transaction status vme_acc, and the macro unit with its parameters mp   *)
(* and its buffer buf, which the crate controller works on by itself: a    *)
(* process writes a command to the macro register and waits until the      *)
(* register reads zero.  A crate that has been reset is off the bus until  *)
(* it is reinitialised, and every register reads as all ones.              *)
(***************************************************************************)
EXTENDS LibV120

CONSTANTS
    Jobs,           \* Jobs[p]: the command lines process p may be given
    StdinBuffer,    \* the size of the buffer for binary data, in bytes
    FlashPages,     \* the pages of the crate's flash memory, from 0 on
    Answering,      \* Answering[cfg]: the VME addresses at which a card answers
    ScanTop,        \* ScanTop[cfg]: the size of that address space
    MacroFails      \* whether the macro unit may report failure

\* values of the option -m: none, a crate number, or A
FIRST == NULL
ALL == -2

\* the address spaces a scan visits
A16 == 0
A24 == 1

ByCrate == {"flash-upgrade", "reset", "sysreset"}     \* need a crate number
RW == {"read", "write"}

\* Mutated form of Size: the two halves of a split access are taken for longwords.
SizeOfWord(j) == IF j.dwidth = "b" THEN 1 ELSE 4

\* rw_open_vme: region.len, and rw.size of set_up_dwidth.
RegionLen(j) == j.units * (CASE j.dwidth = "b" -> 1 [] j.dwidth \in {"w", "s"} -> 2 [] j.dwidth = "l" -> 4)
Size(j) == CASE j.dwidth = "b" -> 1 [] j.dwidth = "w" -> 2 [] j.dwidth \in {"s", "l"} -> 4

\* The values of a transfer: none on the command line means that they come from the
\* standard input.
Values(j) == IF j.units = 0 THEN j.stdin ELSE j.units

\* v120_write_stdin_binary reads full blocks and returns when it has read one.
FromBinary(j) == j.units = 0 /\ j.binary
Block(j) == StdinBuffer \div Size(j)
Transfers(j) == IF FromBinary(j) /\ Block(j) < Values(j) THEN Block(j) ELSE Values(j)

\* What a user may ask of the program.  Contents of a file are named page by page; a
\* file may end in the middle of its last one.
CommandLine ==
    LET crates == Crates \cup {FIRST, ALL}
    IN  [cmd : RW, crate : crates, region : Regions, units : Nat, stdin : Nat,
         dwidth : {"b", "w", "s", "l"}, binary : BOOLEAN]
        \cup [cmd : {"flash-upgrade"}, crate : crates,
              file : [pages : Seq(STRING), whole : BOOLEAN]]
        \cup [cmd : {"scan"}, crate : crates, a24 : BOOLEAN]
        \cup [cmd : {"requester"}, crate : crates,
              bus : {"query", "BR0", "BR1", "BR2", "BR3"}, slot0 : BOOLEAN]
        \cup [cmd : {"reset", "sysreset", "reinit", "report-id", "report-flash",
                     "report-status", "report-pcie"}, crate : crates]

ASSUME ToolAssumption ==
    /\ {A16, A24} \subseteq Modes
    /\ Jobs \in [Handles -> SUBSET CommandLine]
    \* a VME_REGION lives on the stack of its process
    /\ \A p \in Handles : \A j \in Jobs[p] : j.cmd \in RW =>
          /\ len[j.region] = RegionLen(j)
          /\ \A q \in Handles \ {p} : \A k \in Jobs[q] : k.cmd \in RW => k.region # j.region
    /\ StdinBuffer \in Nat \ {0}
    \* an image fits the flash memory, with a page to spare for what is written
    \* when it ends with a page
    /\ 0 \in FlashPages
    /\ \A p \in Handles : \A j \in Jobs[p] :
          j.cmd = "flash-upgrade" => 0 .. Len(j.file.pages) \subseteq FlashPages
    /\ Answering \in [{A16, A24} -> SUBSET Nat]
    /\ ScanTop \in [{A16, A24} -> Nat \ {0}]
    /\ \A cfg \in {A16, A24} : ScanTop[cfg] % PageSize = 0 /\ ScanTop[cfg] <= PageCount * PageSize

VARIABLES
    job,           \* job[p]: the command line of p, or NoJob
    pc,            \* pc[p]: what p does next
    at, count, found, \* at[p], ...: the counters of p's loops
    pages,         \* pages[p]: reflash's buffer
    ret,           \* ret[p]: the exit status so far
    got, cards,    \* got[p], cards[p]: what p found out about each crate
    macro, mp, buf, requester, slot, vme_acc, link, \* registers of each crate
    flash,         \* flash[c]: [unlocked, pages] of crate c
    disturbed      \* processes whose crate another one worked on meanwhile

local == <<job, pc, at, count, found, pages, ret, got, cards>>
registers == <<macro, mp, buf, requester, slot, vme_acc, link, flash>>
tool == <<library, local, registers, disturbed>>

-------------------------------------------------------------------------------
NoJob == [cmd |-> "none"]

\* The content of a page of flash or of the buffer, in two halves, and of mp[0].
Both(x) == <<x, x>>
Junk == Both("junk")
Parameter(kind, n) == [kind |-> kind, n |-> n]

C(p) == handle[p].crateno

\* What a register of crate c reads as.
Reads(c, value) == IF link[c] THEN value ELSE "ones"

\* Process p works on crate c: whoever else has it open cannot rely on it.
Disturb(p, c) ==
    disturbed' = disturbed \cup {q \in Handles \ {p} : handle[q].crateno = c}

Goto(p, label) == pc' = [pc EXCEPT ![p] = label]

Set(register, c, value) == IF link[c] THEN [register EXCEPT ![c] = value] ELSE register

\* fn returns to do_for_each_crate, or the command to its end.
Return(p, result) ==
    /\ ret' = [ret EXCEPT ![p] = result]
    /\ Goto(p, IF job[p].crate = ALL THEN "open" ELSE "close")

\* A process that leaves the library and the crates as they are.
Private == UNCHANGED <<library, registers, disturbed>>

-------------------------------------------------------------------------------
(***************************************************************************)
(* main, do_for_each_crate and the macro unit                              *)
(***************************************************************************)
Start(p) ==
    /\ pc[p] = "start"
    /\ \E j \in Jobs[p] : job' = [job EXCEPT ![p] = j]
    /\ Goto(p, "open")
    /\ UNCHANGED <<at, count, found, pages, ret, got, cards>>
    /\ Private

\* Commands that refuse -m A, or the lack of -m.
Refused(j) ==
    \/ j.cmd \in ByCrate /\ j.crate \in {FIRST, ALL}
    \/ j.cmd \in RW \cup {"report-pcie"} /\ j.crate = ALL

Refuse(p) ==
    /\ pc[p] = "open" /\ Refused(job[p])
    /\ ret' = [ret EXCEPT ![p] = "failure"]
    /\ Goto(p, "end")
    /\ UNCHANGED <<job, at, count, found, pages, got, cards>>
    /\ Private

\* The loop for -m A keeps the result of the last crate; v120_next closes the
\* crate before.  A process has the crate it opens to itself, unless it comes while
\* the macro unit is still at work for an earlier one.
Open(p) ==
    /\ pc[p] = "open" /\ ~Refused(job[p])
    /\ IF job[p].crate \in Crates THEN v120_open(p, job[p].crate) ELSE v120_next(p)
    /\ Goto(p, IF handle'[p] = Closed THEN "end" ELSE "fn")
    /\ disturbed' = IF handle'[p] # Closed /\ macro[handle'[p].crateno] \notin {"idle", "failed"}
                    THEN disturbed \cup {p} ELSE disturbed \ {p}
    /\ UNCHANGED <<job, at, count, found, pages, ret, got, cards, registers>>

Close(p) ==
    /\ pc[p] = "close"
    /\ v120_close(p)
    /\ Goto(p, "end")
    /\ UNCHANGED <<job, at, count, found, pages, ret, got, cards, registers, disturbed>>

\* v120_macro_write, and then v120_macro_wait.
v120_macro_write(p, cmd) ==
    /\ macro' = Set(macro, C(p), cmd)
    /\ Disturb(p, C(p))

\* v120_macro_wait returns 0, or -1.
MacroDone(p) == link[C(p)] /\ macro[C(p)] = "idle"
MacroFailed(p) == link[C(p)] /\ macro[C(p)] = "failed"

\* The crate controller (external) carries out the command in the macro register.
Effect(c, cmd) ==
    \/ cmd = "unlock" /\ flash' = [flash EXCEPT ![c].unlocked = TRUE] /\ UNCHANGED <<mp, buf, link>>
    \/ /\ cmd = "erase" /\ flash[c].unlocked
       /\ flash' = [flash EXCEPT ![c].pages = [n \in FlashPages |-> Both("erased")]]
       /\ UNCHANGED <<mp, buf, link>>
    \/ /\ cmd = "reflash" /\ flash[c].unlocked
       /\ flash' = [flash EXCEPT ![c].pages = [n \in FlashPages |->
                                          IF n = mp[c].n THEN buf[c] ELSE @[n]]]
       /\ UNCHANGED <<mp, buf, link>>
    \/ cmd = "ident" /\ mp' = [mp EXCEPT ![c] = Parameter("rev", 0)] /\ UNCHANGED <<buf, flash, link>>
    \/ cmd = "flst" /\ buf' = [buf EXCEPT ![c] = Both("report")] /\ UNCHANGED <<mp, flash, link>>
    \/ cmd = "reset" /\ link' = [link EXCEPT ![c] = FALSE]
       /\ flash' = [flash EXCEPT ![c].unlocked = FALSE] /\ UNCHANGED <<mp, buf>>

MacroUnit(c) ==
    /\ macro[c] \notin {"idle", "failed"}
    /\ \/ Effect(c, macro[c]) /\ macro' = [macro EXCEPT ![c] = "idle"]
       \/ /\ MacroFails
          /\ macro' = [macro EXCEPT ![c] = "failed"]
          /\ UNCHANGED <<mp, buf, link, flash>>
    /\ UNCHANGED <<library, local, requester, slot, vme_acc, disturbed>>

-------------------------------------------------------------------------------
(***************************************************************************)
(* read and write                                                          *)
(***************************************************************************)
LocalAt == UNCHANGED <<job, count, found, pages, got, cards>>

OpenVme(p) ==
    /\ pc[p] = "fn" /\ job[p].cmd \in RW
    /\ v120_add_vme_region(p, job[p].region)
    /\ Goto(p, "allocate")
    /\ UNCHANGED <<at, ret, registers, disturbed>> /\ LocalAt

\* rw_open_vme maps the region to the last page of the crate.
Allocate(p) ==
    /\ pc[p] = "allocate"
    /\ \/ alloc[p].phase = "idle" /\ v120_allocate_vme(p, PageCount - 1) /\ UNCHANGED disturbed
       \/ AllocateRegion(p) /\ Disturb(p, C(p))
       \/ AllocateReturn(p) /\ UNCHANGED disturbed
    /\ Goto(p, IF alloc'[p].phase = "done" THEN "check" ELSE "allocate")
    /\ UNCHANGED <<at, ret, registers>> /\ LocalAt

\* The result of the allocation, then check_align.
Check(p) ==
    LET j == job[p]
    IN  /\ pc[p] = "check"
        /\ IF alloc[p].pgno = NULL \/ vme_addr[j.region] % Size(j) # 0
           THEN Return(p, "failure")
           ELSE UNCHANGED ret /\ Goto(p, "transfer")
        /\ UNCHANGED at /\ LocalAt /\ Private

\* The bytes of the next transfer, counted from the start of the region.
NextUnit(p) == at[p] * Size(job[p]) .. (at[p] + 1) * Size(job[p]) - 1
Byte(p, i) == [page |-> PageOf(job[p].region, i), byte |-> ByteOf(job[p].region, i)]

Transfer(p) ==
    /\ pc[p] = "transfer" /\ at[p] < Transfers(job[p])
    /\ IF \A i \in NextUnit(p) : InMapping(p, Byte(p, i).page)
       THEN /\ at' = [at EXCEPT ![p] = @ + 1]
            /\ vme_acc' = Set(vme_acc, C(p), "other")
            /\ Disturb(p, C(p))
            /\ UNCHANGED <<ret, pc>>
       ELSE /\ ret' = [ret EXCEPT ![p] = "fault"]     \* the kernel closes all
            /\ Goto(p, "close")
            /\ UNCHANGED <<at, vme_acc, disturbed>>
    /\ UNCHANGED <<library, macro, mp, buf, requester, slot, link, flash>> /\ LocalAt

\* A value that is no number ends a write with failure.  On the standard input an odd
\* token ends it as if the values before were all there were.
Malformed(p) ==
    LET j == job[p]
    IN  /\ pc[p] = "transfer" /\ at[p] < Transfers(j)
        /\ j.cmd = "write" /\ ~FromBinary(j)
        /\ \/ Return(p, "failure")
           \/ j.units = 0 /\ at[p] > 0 /\ Return(p, "success")
        /\ UNCHANGED at /\ LocalAt /\ Private

\* Binary data shorter than a block are waited for without end.
TransferDone(p) ==
    /\ pc[p] = "transfer" /\ at[p] = Transfers(job[p])
    /\ FromBinary(job[p]) => Transfers(job[p]) = Block(job[p])
    /\ Return(p, IF Transfers(job[p]) = 0 THEN "failure" ELSE "success")
    /\ UNCHANGED at /\ LocalAt /\ Private

-------------------------------------------------------------------------------
(***************************************************************************)
(* requester, reset, sysreset, reinit and report                           *)
(***************************************************************************)
LocalGot == UNCHANGED <<job, at, count, found, pages, cards>>
Learn(p, value) == got' = [got EXCEPT ![p][C(p)] = value]

Requester(p) ==
    LET c == C(p)
    IN  /\ pc[p] = "fn" /\ job[p].cmd = "requester"
        /\ IF job[p].bus = "query"
           THEN Learn(p, Reads(c, requester[c])) /\ UNCHANGED <<requester, disturbed>>
           ELSE requester' = Set(requester, c, job[p].bus) /\ Disturb(p, c) /\ UNCHANGED got
        /\ Goto(p, "slot")
        /\ UNCHANGED <<library, ret, macro, mp, buf, slot, vme_acc, link, flash>> /\ LocalGot

\* A query writes the slot register too.
RequesterSlot(p) ==
    /\ pc[p] = "slot"
    /\ slot' = Set(slot, C(p), job[p].slot0)
    /\ Disturb(p, C(p))
    /\ Return(p, "success")
    /\ UNCHANGED <<library, got, macro, mp, buf, requester, vme_acc, link, flash>> /\ LocalGot

\* full_reset does not wait; sys_reset pulses a line of the VME bus.
Reset(p) ==
    /\ pc[p] = "fn" /\ job[p].cmd \in {"reset", "sysreset"}
    /\ IF job[p].cmd = "reset" THEN v120_macro_write(p, "reset")
                               ELSE UNCHANGED macro /\ Disturb(p, C(p))
    /\ Return(p, "success")
    /\ UNCHANGED <<library, got, mp, buf, requester, slot, vme_acc, link, flash>> /\ LocalGot

persist_one(p) ==
    /\ pc[p] = "fn" /\ job[p].cmd = "reinit"
    /\ \/ link' = [link EXCEPT ![C(p)] = TRUE] /\ Disturb(p, C(p)) /\ Return(p, "success")
       \/ UNCHANGED <<link, disturbed>> /\ Return(p, "failure")
    /\ UNCHANGED <<library, got, macro, mp, buf, requester, slot, vme_acc, flash>> /\ LocalGot

\* print_one_id and v120_report_flash_ use the macro unit.
ReportMacro == [cmd \in {"report-id", "report-flash"} |->
                  IF cmd = "report-id" THEN "ident" ELSE "flst"]
Report(p) ==
    /\ pc[p] = "fn" /\ job[p].cmd \in DOMAIN ReportMacro
    /\ v120_macro_write(p, ReportMacro[job[p].cmd])
    /\ Goto(p, "answer")
    /\ UNCHANGED <<library, ret, got, mp, buf, requester, slot, vme_acc, link, flash>> /\ LocalGot

\* A failed identification leaves part of the report out.
Answer(p) ==
    LET c == C(p)
        isid == job[p].cmd = "report-id"
    IN  /\ pc[p] = "answer"
        /\ \/ MacroDone(p) /\ Learn(p, IF isid THEN mp[c].kind ELSE buf[c][1]) /\ Return(p, "success")
           \/ MacroFailed(p) /\ Learn(p, "unavailable")
                             /\ Return(p, IF isid THEN "success" ELSE "failure")
        /\ LocalGot /\ Private

\* print_power, print_uptime, print_one_status and print_one_mon read registers
\* no process writes.
PrintRegisters(p) ==
    /\ pc[p] = "fn" /\ job[p].cmd = "report-status"
    /\ Learn(p, Reads(C(p), "status"))
    /\ Return(p, "success")
    /\ LocalGot /\ Private

\* print_pcie_records restarts the records, which nothing else here reads.
PrintRecords(p) ==
    /\ pc[p] = "fn" /\ job[p].cmd = "report-pcie"
    /\ Learn(p, Reads(C(p), "records"))
    /\ Return(p, "success")
    /\ LocalGot /\ Private

-------------------------------------------------------------------------------
(***************************************************************************)
(* flash-upgrade                                                           *)
(***************************************************************************)
LocalFlash == UNCHANGED <<job, count, found, got, cards>>

MacroFlash(p, label, cmd, next) ==
    /\ pc[p] = label
    /\ v120_macro_write(p, cmd)
    /\ Goto(p, next)
    /\ UNCHANGED <<library, at, pages, ret, mp, buf, requester, slot, vme_acc, link, flash>>
    /\ LocalFlash

\* There is no such file.
NoFile(p) ==
    /\ pc[p] = "fn" /\ job[p].cmd = "flash-upgrade"
    /\ Return(p, "failure")
    /\ UNCHANGED <<at, pages>> /\ LocalFlash /\ Private

Unlock(p) == job[p].cmd = "flash-upgrade" /\ MacroFlash(p, "fn", "unlock", "unlocked")
Erase(p) == MacroFlash(p, "erase", "erase", "erased")

\* v120_macro_wait after unlock_flash and erase_flash.
FlashWait(p) ==
    /\ pc[p] \in {"unlocked", "erased"}
    /\ \/ /\ MacroDone(p)
          /\ Goto(p, IF pc[p] = "unlocked" THEN "erase" ELSE "fread")
          /\ UNCHANGED ret
       \/ MacroFailed(p) /\ Return(p, "failure")
    /\ UNCHANGED <<at, pages>> /\ LocalFlash /\ Private

\* fread fills the buffer from its start with what is left of the file; a page
\* has two halves, and a file may end in the middle of one.  All of the buffer
\* goes to the crate.
fread(p) ==
    LET file == job[p].file
        n == at[p] + 1
        page == CASE n > Len(file.pages) -> pages[p]
                  [] n = Len(file.pages) /\ ~file.whole -> <<file.pages[n], pages[p][2]>>
                  [] OTHER -> Both(file.pages[n])
    IN  /\ pc[p] = "fread"
        /\ pages' = [pages EXCEPT ![p] = page]
        /\ buf' = Set(buf, C(p), page)
        /\ Disturb(p, C(p))
        /\ Goto(p, "pgno")
        /\ UNCHANGED <<library, at, ret, macro, mp, requester, slot, vme_acc, link, flash>>
        /\ LocalFlash

\* Mutated form of SetPage: page numbers begin at one.
SetPageFromOne(p) ==
    /\ pc[p] = "pgno"
    /\ mp' = Set(mp, C(p), Parameter("page", at[p] + 1))
    /\ Disturb(p, C(p))
    /\ Goto(p, "reflash")
    /\ UNCHANGED <<library, at, pages, ret, macro, buf, requester, slot, vme_acc, link, flash>>
    /\ LocalFlash

SetPage(p) ==
    /\ pc[p] = "pgno"
    /\ mp' = Set(mp, C(p), Parameter("page", at[p]))
    /\ Disturb(p, C(p))
    /\ Goto(p, "reflash")
    /\ UNCHANGED <<library, at, pages, ret, macro, buf, requester, slot, vme_acc, link, flash>>
    /\ LocalFlash

Reflash(p) == MacroFlash(p, "reflash", "reflash", "written")

\* feof is known once a fread has come up short.
EndOfFile(p) ==
    LET file == job[p].file
    IN  at[p] + 1 > Len(file.pages) \/ (at[p] + 1 = Len(file.pages) /\ ~file.whole)

ReflashWait(p) ==
    /\ pc[p] = "written"
    /\ \/ MacroFailed(p) /\ Return(p, "failure") /\ UNCHANGED at
       \/ MacroDone(p) /\ EndOfFile(p) /\ Return(p, "success") /\ UNCHANGED at
       \/ /\ MacroDone(p) /\ ~EndOfFile(p)
          /\ at' = [at EXCEPT ![p] = @ + 1]
          /\ Goto(p, "fread")
          /\ UNCHANGED ret
    /\ UNCHANGED pages /\ LocalFlash /\ Private

-------------------------------------------------------------------------------
(***************************************************************************)
(* scan                                                                    *)
(***************************************************************************)
LocalScan == UNCHANGED <<job, pages, got>>

\* The address space being scanned: A24 after A16, when it was asked for.
Space(p) == IF cards[p][C(p)] = NULL THEN A16 ELSE A24

ScanMap(p) ==
    /\ pc[p] = "fn" /\ job[p].cmd = "scan"
    /\ v120_get_all_vme(p)
    /\ at' = [at EXCEPT ![p] = 0]
    /\ IF maps'[p] > maps[p] THEN Goto(p, "configure") /\ UNCHANGED ret
                             ELSE Return(p, "failure")
    /\ UNCHANGED <<count, found, cards, registers, disturbed>> /\ LocalScan

\* The result of v120_configure_page is not looked at.
Configure(p) ==
    /\ pc[p] = "configure"
    /\ v120_configure_page(p, at[p], at[p] * PageSize, Space(p))
    /\ LET last == (at[p] + 1) * PageSize = ScanTop[Space(p)]
       IN  /\ at' = [at EXCEPT ![p] = IF last THEN 0 ELSE @ + 1]
           /\ Goto(p, IF last THEN "scan" ELSE "configure")
    /\ Disturb(p, C(p))
    /\ count' = [count EXCEPT ![p] = 0]
    /\ found' = [found EXCEPT ![p] = FALSE]
    /\ UNCHANGED <<ret, cards, registers>> /\ LocalScan

\* run_scan reads one longword, here one unit of the window, ...
ScanRead(p) ==
    LET d == pd[C(p)][at[p] \div PageSize]
        hit == (d.page * PageSize) + (at[p] % PageSize) \in Answering[d.config]
    IN  /\ pc[p] = "scan" /\ at[p] < ScanTop[Space(p)]
        /\ vme_acc' = Set(vme_acc, C(p), IF hit THEN "dtack" ELSE "timeout")
        /\ Disturb(p, C(p))
        /\ Goto(p, "lastacc")
        /\ UNCHANGED <<library, at, count, found, ret, cards,
                       macro, mp, buf, requester, slot, link, flash>>
        /\ LocalScan

\* Mutated form of ScanStatus: the end of a card goes unnoticed.
ScanStatusNoEnd(p) ==
    LET lastacc == Reads(C(p), vme_acc[C(p)])
    IN  /\ pc[p] = "lastacc"
        /\ at' = [at EXCEPT ![p] = @ + 1]
        /\ count' = [count EXCEPT ![p] = IF lastacc = "dtack" /\ ~found[p] THEN @ + 1 ELSE @]
        /\ found' = [found EXCEPT ![p] = @ \/ lastacc = "dtack"]
        /\ Goto(p, "scan")
        /\ UNCHANGED <<ret, cards>> /\ LocalScan /\ Private

\* ... and then looks how the last access to the crate ended.
ScanStatus(p) ==
    LET lastacc == Reads(C(p), vme_acc[C(p)])
        acked == lastacc = "dtack"
    IN  /\ pc[p] = "lastacc"
        /\ IF lastacc = "ones"
           THEN Return(p, "failure") /\ UNCHANGED <<at, count, found>>
           ELSE /\ at' = [at EXCEPT ![p] = @ + 1]
                /\ count' = [count EXCEPT ![p] = IF acked /\ ~found[p] THEN @ + 1 ELSE @]
                /\ found' = [found EXCEPT ![p] = acked]
                /\ Goto(p, "scan")
                /\ UNCHANGED ret
        /\ UNCHANGED cards /\ LocalScan /\ Private

ScanDone(p) ==
    /\ pc[p] = "scan" /\ at[p] = ScanTop[Space(p)]
    /\ at' = [at EXCEPT ![p] = 0]
    /\ cards' = [cards EXCEPT ![p][C(p)] = count[p]]
    /\ IF job[p].a24 /\ Space(p) = A16 THEN Goto(p, "configure") /\ UNCHANGED ret
                                       ELSE Return(p, "success")
    /\ UNCHANGED <<count, found>> /\ LocalScan /\ Private

-------------------------------------------------------------------------------
Command(p) ==
    \/ Start(p) \/ Refuse(p) \/ Open(p) \/ Close(p)
    \/ OpenVme(p) \/ Allocate(p) \/ Check(p) \/ Transfer(p) \/ Malformed(p)
    \/ TransferDone(p)
    \/ Requester(p) \/ RequesterSlot(p) \/ Reset(p) \/ persist_one(p)
    \/ Report(p) \/ Answer(p) \/ PrintRegisters(p) \/ PrintRecords(p)
    \/ NoFile(p) \/ Unlock(p) \/ Erase(p) \/ FlashWait(p) \/ fread(p) \/ SetPage(p)
    \/ Reflash(p) \/ ReflashWait(p)
    \/ ScanMap(p) \/ Configure(p) \/ ScanRead(p) \/ ScanStatus(p) \/ ScanDone(p)

ToolInit ==
    /\ LibraryInit
    /\ job = [p \in Handles |-> NoJob]
    /\ pc = [p \in Handles |-> "start"]
    /\ at = [p \in Handles |-> 0] /\ count = at
    /\ found = [p \in Handles |-> FALSE]
    /\ pages = [p \in Handles |-> Junk]
    /\ ret = [p \in Handles |-> "failure"]
    /\ got = [p \in Handles |-> [c \in Crates |-> "none"]]
    /\ cards = [p \in Handles |-> [c \in Crates |-> NULL]]
    /\ macro = [c \in Crates |-> "idle"]
    /\ mp = [c \in Crates |-> Parameter("none", 0)]
    /\ buf = [c \in Crates |-> Junk]
    /\ requester = [c \in Crates |-> "BR3"]
    /\ slot = [c \in Crates |-> TRUE]
    /\ vme_acc = [c \in Crates |-> "timeout"]
    /\ link = [c \in Crates |-> TRUE]
    /\ flash = [c \in Crates |-> [unlocked |-> FALSE, pages |-> [n \in FlashPages |-> Both("old")]]]
    /\ disturbed = {}

ToolNext == (\E p \in Handles : Command(p)) \/ (\E c \in Crates : MacroUnit(c))

ToolSpec == ToolInit /\ [][ToolNext]_tool

-------------------------------------------------------------------------------
\* The type of the tool's own state.
ToolTypeOK ==
    /\ \A p \in Handles : job[p] \in Jobs[p] \cup {NoJob}
    /\ at \in [Handles -> Nat] /\ count \in [Handles -> Nat]
    /\ found \in [Handles -> BOOLEAN]
    /\ ret \in [Handles -> {"success", "failure", "fault"}]
    /\ cards \in [Handles -> [Crates -> Nat \cup {NULL}]]
    /\ \A c \in Crates : mp[c].n \in FlashPages
    /\ link \in [Crates -> BOOLEAN] /\ slot \in [Crates -> BOOLEAN]
    /\ disturbed \subseteq Handles

\* Every value of a read or a write goes to the VME address the user named, in the
\* access mode the user chose, and never past the memory that is mapped, as long as
\* no other process has taken the page.  It is not so of values from the standard input
\* that begin where a page does or end behind it, nor of several split ones.  About
\* rw_open_vme, which computes the region from the arguments, set_up_dwidth, which
\* computes the stride, and the loops.
TransfersReachTheirCard ==
    \A p \in Handles : pc[p] = "transfer" /\ at[p] < Transfers(job[p]) =>
        LET r == job[p].region
        IN  r \in relied[p] => \A i \in NextUnit(p) : InMapping(p, PageOf(r, i)) /\ Reaches(p, r, i)

\* The command cmd has returned to the loop over the crates, or to its end, with success
\* for the crate that p still has open, and nobody came between.
ReturnedWith(p, cmd) ==
    /\ job[p].cmd = cmd /\ IsOpen(p) /\ pc[p] \in {"open", "close"}
    /\ ret[p] = "success" /\ p \notin disturbed

\* A flash-upgrade that reports success, with the crate to itself, has put every
\* byte of the file in its place, also when the file ends with a page or in one.
\* About reflash: short reads, page numbers, and the macro's own pace.
FlashHoldsFile ==
    \A p \in Handles : ReturnedWith(p, "flash-upgrade") =>
        LET file == job[p].file
        IN  \A n \in 1 .. Len(file.pages) :
               LET page == flash[C(p)].pages[n - 1]
               IN  /\ page[1] = file.pages[n]
                   /\ n < Len(file.pages) \/ file.whole => page[2] = file.pages[n]

\* The runs of answering addresses: a run begins at each address that answers and
\* whose predecessor does not.
CardsIn(cfg) == {a \in Answering[cfg] : a < ScanTop[cfg] /\ a - 1 \notin Answering[cfg]}

\* What a report says of a crate the process has to itself is so, of each crate in turn
\* with -m A: the revision is the crate's, the flash report is the crate's report, and a
\* scan counts each card of the address space it was asked for once.  About
\* v120_macro_wait, and about vme_acc, which speaks of the last access whoever made it.
ReportsAreTrue ==
    \A p \in Handles :
        /\ ReturnedWith(p, "report-id") => got[p][C(p)] \in {"rev", "unavailable"}
        /\ ReturnedWith(p, "report-flash") => got[p][C(p)] = "report"
        /\ ReturnedWith(p, "scan") =>
              cards[p][C(p)] = Cardinality(CardsIn(IF job[p].a24 THEN A24 ELSE A16))
===============================================================================
