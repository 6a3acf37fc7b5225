# v120_clt in TLA+

A model of v120_clt (Highland Technology V120 VME crate controller, Linux client
software): the interrupt dispatch service, the crate access library, the command
line tool and the register browser. All of it is checked with TLC, and the safety
properties are also proved with TLAPS, and so is that the array of the interrupt
vector table implements the list of claims that the rest of the model uses.

## 1. The system

| Part | State | Operations | Interacts with |
|---|---|---|---|
| Interrupt vector table, `v120irqd/irq_vector_table.c` | a growing array of (selector, client) entries | `register_interrupt`, `release_interrupt`, `release_all_interrupts`, `free_all_interrupts`, `find_interrupt`, `list_registered_interrupts` | called by the daemon |
| Dispatch daemon, `v120irqd/v120irqd.c` | the poll list, its position in one pass of `mainloop`, the vector table, a signal flag | `process_vme`, `process_newclient`, `process_client`, signal handling | reads and writes crate registers; messages to and from clients |
| Client and server calls, `libV120irqd/interrupts.c` | a socket | `v120irqd_client`, `_request`, `_release`, `_getinterrupt`, `_ack`, `_nak`, `_interrupt`, `_status` | linked into the daemon and into each client |
| Crate registers and driver (not in the repository: submodule) | IRQEN, IRQSTATUS, IACK vectors, one notification bit per crate | register access, `read`/`poll` of the interrupt device | used by the daemon and by clients |
| Crate access library, `libV120/V120.c` | per handle: mappings, files, region list; per crate: page descriptors, shared by all handles | `v120_open`/`close`/`next`, `v120_add_vme_region`, `v120_allocate_vme`, `v120_configure_page`, `v120_get_all_vme`, `v120_dma_xfr`, `v120_irq_open` | the driver; used by every program |
| Command line tool, `v120/` | none that outlives a command | `read`, `write`, `scan`, `flash-upgrade`, `report`, `requester`, `reset`, `sysreset`, `reinit` | libV120; the macro unit and the status registers of crates that other processes use too |
| Register browser, `v120_tui/browser.c`, `rnm.c` | selection, page, data width; register names and their hash table; a cache of parsed files | cursor keys, jumps, writes, change of width, `add-rnm` | a region of libV120; the terminal's size |
| Pages and commands, `v120_tui/main.c`, `buffer.c`, `input.c`, `quit.c` | list of pages with a cursor, page shown and page shown before, stack of scripts, one handle per crate | `add-vme`, `add-dummy`, `kill`, switching, `load-file`, quitting | libV120, browser pages |
| Terminal output, `v120_tui/` | the screen | drawing | all pages |

What is hard here, and what makes each part correct:

* *Table.* Entries are matched in order, traversals stop at the first unused
  slot and removal shifts the array. Correct means: no hole, no entry hidden by
  an earlier one, an interrupt keeps its recipient whatever others do, and
  nothing of a client is left once it is gone.
* *Daemon.* One thread, but boards and clients move between any two of its
  steps. The driver reports edges only; the walk over the poll list changes that
  list; `revents` is read after other sockets were served; a handshake with one
  client blocks everyone. Correct means: no interrupt is lost, each open
  connection is polled exactly once, every claim belongs to an open connection,
  a claimed line stays enabled, and the daemon waits only for a client that has
  something to answer.
* *Client calls.* Requests, answers and interrupts share one socket without
  sequence numbers, and each call takes the next message for its answer.
* *Library.* Three computations in `v120_allocate_vme` (pages mapped, descriptors
  written, base set) must agree for every address and length; any of four system
  calls may fail on the way; descriptors belong to the crate, so that another
  handle can redirect an access already set up. Correct means: an access through
  a base pointer reaches the VME address asked for or an address somebody else
  chose later, never unmapped memory, and the kernel holds what the handles record.
* *Tool.* Nothing locks a crate: two processes share descriptors, macro unit,
  parameter and buffer registers and the status of the last access. Correct
  means: a process nobody disturbed moved the right bytes and told the truth.
* *Browser.* Selection and page move separately, by rows, pages, jumps and
  changes of width, while the terminal changes its size; names come from a file
  with a width of its own. Correct means: what is selected, shown, named and
  written is one register of the card.
* *Pages.* `kill` frees memory that list, cursor, page shown and scripts point
  to; adding a card moves the pages of all cards of the crate. Correct means: the
  list has each page once, nothing live points to a dead page, and every page
  still shows its card.

`PROJECT.json` lists the hazards one by one with the line where each bites.

## 2. Modules

| Module | Models |
|---|---|
| `Selector` | `struct v120irqd_selector`, `hashmatch`, `hasheq`, the legality test. Bit masks are sets of bit numbers, so "all bits of r are in s" is `r \subseteq s`. |
| `InterruptClaims` | The abstract specification of the table: the list of claims in the order they were granted. |
| `IrqVectorTable` | The array itself: unused slots, growth by `INTERRUPT_VECTOR_INCR`, the shift in `remove_entry`, the nested loop of `release_all_interrupts` one step at a time; and the refinement mapping to `InterruptClaims`. |
| `MCIrqVectorTable` | TLC instance of the table. |
| `IrqVectorTable_proofs` | TLAPS proofs about `IrqVectorTable`. |
| `Ascending` | The order of a walk from the lowest number up: crate numbers, array indices. |
| `Ascending_proofs` | That such an order exists for every finite set of numbers, and facts about lists with one entry less or more. |
| `LibV120irqd` | The messages and what each library call makes of the one it reads. |
| `VmeInterrupts` | Boards (RORA and ROAK), IRQEN/IRQSTATUS/IACK, the driver's edge-triggered notification. External: taken from how `process_vme` uses it and from `doc/v120irqd.txt`. |
| `V120irqd` | The daemon, the sockets and the clients, composed with the two modules above and with `InterruptClaims` in place of the array. |
| `MCV120irqd` | TLC instances of the daemon. |
| `V120irqd_proofs` | TLAPS proofs about `V120irqd`. |
| `LibV120` | The library: one operator per call, `v120_allocate_vme` one region at a time. Also what any program may rely on, as properties. |
| `V120Programs` | Programs, one handle each, that make any legal sequence of calls on the same crates. |
| `LibV120_proofs` | The inductive invariant of the library, call by call, for any program. |
| `V120Programs_proofs` | The theorems about `V120Programs`. |
| `RnmTable` | `rnm.c`: parsing of a file of register names, the hash table, the search. Pure operators. |
| `V120Browser` | One browser page, `browser.c`, over `RnmTable`. |
| `V120Browser_proofs` | TLAPS proofs about the table of names and the browser page. |
| `V120Tui` | The page list, commands, scripts, start and end of the program, over `LibV120`. |
| `V120Tui_proofs` | TLAPS proofs about `V120Tui`, over those of the library. |
| `V120Tool` | Processes of the command line tool on shared crates, over `LibV120`. |
| `V120Tool_proofs` | TLAPS proofs about `V120Tool`, over those of the library. |
| `MCV120Programs`, `MCV120Browser`, `MCV120Tui`, `MCV120Tool` | TLC instances. |

### Correspondence with the code

`IrqVectorTable`: `vector_table` is the array; a slot is unused when `data = 0`.
`foreach_vector_st` is the set of slots the C loop visits and `foreach_end` where
it leaves the pointer. `register_interrupt` is the disjunction of its five ways
out. `releasing` and `ptr` are the argument and the pointer of a running
`release_all_interrupts`. Its `pthread` mutex is compiled away by default; with
it, operations are just as atomic.

`V120irqd`: `pc` is the place the thread has reached. Each step does one thing
another party can observe or interfere with: a `ppoll`, a read of a register, a
handshake. `poll` is `ppoll`; `dispatch` is the head of the `for` loop; `vme`,
`search`, `iack`, `await`, `recheck`, `disable` are the places of `process_vme`;
`accept` is `process_newclient`; `client` and `fake` are the two reads in
`process_client`. A read that would block has no enabled step. `Handled` is the
`nevents--` and `idx++` at the end of the loop body, wherever a handler returns.
The socket numbers are the client numbers, 0 is the listening socket and
negative numbers are the interrupt devices.

Sockets are `SOCK_SEQPACKET`: whole messages, in order, not lost. A client that
closes with unread messages leaves one ECONNRESET (`sockerr`), then the messages
it had sent, then end of file. Writing to a closed connection fails and raises no signal.

Not distinguished: the contents of a status report, what is logged, the pid.

`LibV120`: a pointer into the VME window is its byte offset in the window, so
`region[r].base` is comparable with page numbers. `alloc[h]` is where the running
or last `v120_allocate_vme` of a handle stands; `v120_allocate_vme`,
`AllocateRegion` and `AllocateReturn` are its head, one turn of its loop and its
end. `files` and `maps` count what the kernel holds. `relied` is a history
variable: the regions of a handle whose descriptors nobody has written since they
were set up (`Reconfigured` takes regions out, also those of other handles).
A descriptor holds the VME page and the configuration bits (`Modes`). `v120_open`
fails at one of its calls (`FailingOpens`); what is left behind then is what it held
there (`Held`) without what the label it jumps to gives back (`GivenBack`).

`RnmTable` and `V120Browser`: a file is the sequence of its lines after
`linestrip`. `linedata` is one line of it, and a table the value that a recursive
function takes behind the last line. `Aborts` is the double `free` of the error exit of `filldata`.
Positions are registers of the current width, as in the code. `wrote` is the write
of the last step, its byte, its width and what named the register (the selection, a
name or a number), for the properties only. `write-reg` takes any number from zero on,
also one behind the end of the map.

`V120Tui`: `bufs` is the linked list, `kind[b] = "free"` memory not allocated.
`status` turns `"undefined"` where the code follows a pointer to freed memory
that may have been used again, or frees what `malloc` did not give out, and
`"fault"` where it follows a null base pointer; nothing follows either. A script
is a stack of frames because `load_file` is recursive; each remembers the page it
was loaded on, because `inpcommand` draws that page after every line. `SignBit` stands
for 2^31: `brkill` refuses cards whose address is negative in an `int`. `add_vme` may
find no memory, and its RNM file may end the program (`Aborts`).

`V120Tool`: `pc[p]` is the place of process `p`. A register access is one step, so
that another process can come between a write to the macro register, the poll of
it, and the read of its result. `CommandLine` is what a user may ask for. `disturbed`
is a history variable: the processes whose crate another one worked on while they
had it open, by writing registers or descriptors, by `sysreset`, which pulses the
bus, or by `reinit`, which brings a dead link up between two reads. Reading a register
disturbs nobody. With `-m A` a process goes from crate to crate; it starts on each undisturbed,
unless the macro unit there is still at work for somebody. `ReturnedWith` is the moment at
which the command has returned for a crate and the crate is still open: at `close` for one
crate, back at `open` for `-m A`. `Effect` and `MacroUnit` are the crate controller, external.
Values from the standard input are text or, with `-b`, binary blocks of `StdinBuffer` bytes
(`Transfers`); a value that does not parse ends the command (`Malformed`).

## 3. Runs

| Run | Question | Instance |
|---|---|---|
| `table` | Is the array dense, unshadowed, stable, and an implementation of the list? | 2 clients, 8 requests that cover one another in every way the comparison distinguishes (and one illegal request of each kind), an array growing 0, 2, 4, then ENOMEM |
| `daemon` | Do poll list, claims, enables and notifications stay consistent whatever clients do? | one crate, 2 boards on different lines (one RORA, one ROAK), 2 clients that connect, register for overlapping selectors, release, fake, refuse and hang up at any moment, and come back |
| `careful` | For clients that make calls only while nothing is registered for them, are messages ever mixed up? | two crates, the same boards, one client that registers, one that makes every other call; both may hang up |
| `live` | Do calls return, interrupts get served, SIGTERM work? | one crate, two boards, both lines claimed by one client, another client calling; no hang-ups, no NAKs |
| `library` | Do regions, descriptors, mappings and kernel counts agree, whatever is called and whatever fails? | two handles on one crate of three pages of two bytes; an aligned region of two pages, one that crosses a page boundary, one of no length; allocation from page 0, 1, 2 and 3; `v120_configure_page` on the middle page; `mmap` of pages and of registers may fail |
| `browser` | Do selection, page, names and writes stay together? | a card of 96 bytes, four or five rows, names that collide and repeat, four versions of an RNM file: of either width, one that does not parse, one without registers; `write-reg` with numbers on the map and behind its end |
| `tui` | Do list, cursor, pages and cards stay together, and does quitting release everything? | one crate attached, one not; two cards, one of them too high to be killed, four pages; a startup script, a script that kills its own page, a script that loads another; `mmap` may fail |
| `tool` | Do transfers, flash upgrades, scans and reports do what they say? | two processes, two crates of three pages of four bytes, 26 command lines, some with `-m A`, among them a region too long, an address inside a page, files that end with a page, in a page and at once; the macro unit may fail |
| `enable`, `crossing`, `blocking`, `stdin` | The first four statements of section 5 | the smallest instance that shows each |

Bounds, and why they are enough. `MaxAllocated = 4` lets the array grow twice
and fill up. `MaxAsserts` bounds how often a board asserts: with two boards, one
assertion each already puts an interrupt before, during and after every step of
the other's dispatch. Each connection makes each of its calls once (`asked`),
and a client may reconnect for ever. `MaxQueue`, at least three, is never reached (part of
`TypeOK`, and a theorem for every number of clients: a socket holds two messages at most). Every signal is sent once (`sigsent`). Two clients are enough for a
shared line, for the shift of the poll list and for a caller that waits while
another has an interrupt; three are needed for a stale `revents` after
`append_fd`, which ends in the same place as the `blocking` run does with one.

Pages are two or four bytes so that aligned, unaligned, in-page and page-crossing
regions all exist with lengths up to eight; three pages are enough for an
allocation that just fits, one that begins behind the last page and one that runs
over the end. `StdinBuffer`, 512 in the code, is two bytes, so that a full block fits a page. `MaxMaps` bounds the mappings of a handle (a handle never unmaps
before it is closed); at the bound, `mmap` fails, which the code must survive
anyway. The browser's map holds at least one full page of every width
(`BrowserAssumption`): `add-vme` gives every card 65536 bytes, 4096 rows. Four pieces of memory
for pages make `malloc` fail once and pages be reused (`TuiAssumption` asks for one
more than crates: `main` does not survive a `malloc` that fails before the buffer
list is there); `NTOKENS` is three, so scripts nest once and the second nesting is
refused. Files have at most two flash pages, and the flash memory has one page more
than the file (`ToolAssumption`): an image that ends with a page is written with one
page behind it, and the code checks no length. `Modes` has two access modes, A16 and
A24, which is one more than it takes to tell a wrong one.

`CHECK_DEADLOCK FALSE` in the daemon's runs: a daemon in `ppoll` with nothing to
do, or one that has exited, is not an error. A daemon stuck in another read is
what `NoMutualWait` and the liveness properties look at. In `browser`, `tui` and
`tool` programs end. `table` and `library` check for deadlock.

Fairness. `WF_vars(mainloop)`: the thread runs whenever its next step is not a
blocking read. `WF_vars(ClientServes(c))`: a client that has a message reads it,
and one that has an interrupt in hand answers it, which is what
`include/v120irqd.h` demands of clients ("must reply ... or the entire
interrupt system will stop working"). Nothing is assumed of boards, of
connections, calls, hang-ups or signals. In `IrqVectorTable` only the loop of
`release_all_interrupts` is fair: it is a loop in one call. `TuiSpec` has
`WF_tui` on start, scripts, a card being added, and quitting: the program has one
thread, which goes on by itself and waits only for a key, so nothing is assumed
of keys. Processes of the tool are not assumed fair; no liveness is claimed of
them, as `v120_macro_wait` has no timeout and never ends once the crate is off
the bus.

## 4. Proofs

`IrqVectorTable_proofs` proves, for every set of clients and requests, every
increment and every bound on the memory:

* `TypeCorrect`, `NoHole`, `NothingShadowed`, `OwnerAlwaysReleases` - the four
  invariants of the `table` run;
* `ReleaseAllIsComplete`, `RoutingIsStable` - its action properties;
* `TableImplementsClaims` - the refinement `ImplementsClaims`.

The inductive invariant `IInv` joins the type, `Contiguous` and `NoShadow` with what
a running `release_all_interrupts` has done so far: every slot in front of `ptr`
belongs to somebody else, and `ptr` is inside the array. Without it the end of the loop would say nothing about the entries passed
earlier. `Contiguous` is what turns a traversal that stops at the first unused
slot into one that visits all entries, and `NoShadow` is preserved by a removal
because a shift keeps the order of what remains, and by a registration because
the new entry goes behind all others and `locate_interrupt` found none that
covers it. The proofs use only `SelectorAssumption` and `TableAssumption`.

For the other two, a step of the table does one of three things to the entries
(`EntrySteps`): they stay where they are and one may come behind them, one goes and
those behind it move down, or all go. None of these puts an entry in front of the
first one that matches an interrupt, unless that one goes; and its holder has no second,
identical entry, by `NoShadow`. The refinement maps the array to its used slots, without
those a running `release_all_interrupts` will remove (`ClaimList`): the client
loses its claims when the loop starts, each turn of the loop changes nothing (a shift
moves the remaining slots without one passing another, `AscendingImage`), and
nor does its end, since nothing of the client is left. This is what allows `V120irqd`
to use `InterruptClaims` in place of the array.

`LibV120_proofs` proves, for every number of handles, crates, regions and pages,
every page size, every address and length that `LibraryAssumption` admits, and
every set of failing system calls, about any programs of `V120Programs`:

* `LibraryTypeCorrect`, `KernelBooksBalance`, `RegionsTile`, `NoFault`,
  `AllocatedRegionsWork` - the five invariants of the `library` run;
* `SuccessLeavesRegisters` - its action property.

`AllocationTiles`, which `RegionsTile` proves, says nothing of the value returned after
the last page has been used, where code and manual differ (section 5). The invariant
holds a little more (`TilesToReturn`: the regions end at the value returned, also then).

The inductive invariant `LibInv` (`LibraryInvariant`) has three parts. `Sound`
joins the type with the kernel's counts, a sane position of each running loop
and the emptiness of closed handles. `Lists` says that no region is in two lists
or twice in one, that the regions a loop has passed lie behind `pgno` and that
only those are relied on, and `TilesToReturn`. `Set` ties the base pointer of
each region relied on to its first page, its pages to a mapping of the handle and
its descriptors to its address. `Lists` is needed for `Set`: a turn of the loop
writes the descriptors from `pgno` on, and spares the regions done earlier only
because they lie behind it. Lemmas about page arithmetic (`\div`, `%`) come
first. The proofs use `LibraryAssumption` and `ProgramsAssumption`, which ask
only what the code needs: a page size and a page count, and that no region is
longer than the window. TLC checked `LibInv` on an
instance like that of the `library` run before it was proved.

`LibV120_proofs` holds the invariant and one lemma per call, so that the programs
built on the library use the same lemmas: `V120Programs_proofs`, `V120Tui_proofs` and
`V120Tool_proofs`. `PagesReach` says a little more than `RegionsReachTheirCard`: the
bytes behind the end of a region reach their addresses too, up to the end of its
last page.

`V120irqd_proofs` proves, for every number of clients, crates and boards, every set
of requests and every bound on the sockets above two:

* `TypeCorrect`, `PollListIsComplete`, `ClaimsAreConnected`, `InterruptsAreNoticed`,
  `InterruptsInHandAreClaimed` - the invariants of the `daemon` run;
* `OwnersRelease`, `ClaimedLinesStay` - its action properties;
* `DaemonWaitsForActiveClient` - an invariant of the `careful` run, for careful clients
  and all others;
* `AnswersAreRead`, `OneAtATime` - the other two of that run, from the
  hypothesis `CarefulAsks` on the constant `Asks`, which that run satisfies and
  which the `crossing` run shows to be needed.

The inductive invariant (`IInv`, theorem `Invariance`) says for each client that at
most one message is under way which someone waits for: `Conversation` ties the state
of its call, both queues, the interrupt in its hand and the place of the daemon.
`PollList` says which sockets are polled, without the order: devices first, then
the listening socket, then the open connections, none twice; `Position` ties `idx`
and `nevents` to the entries that still have `revents`, through `accept` and
removals; `Dispatched` says what `process_vme` knows about the line it serves. The
two theorems with the hypothesis add `CarefulInv`: a client with a claim has no
request under way.

`V120Browser_proofs` proves, for every length of the map, every number of rows and
whatever RNM files contain:

* `BrowserTypeCorrect`, `NamesAreRight`, `WritesAreOnMap` - the invariants of the
  `browser` run;
* `KeysStayOnPage`, `WidthKeepsRegister`, `NamesAreFound` - its action properties.

The invariant (`BrowserInvariance`) adds to the type that the data width is one the
table can be shifted to, that the page begins with a row of 16 bytes and on the map, and
that a write by the selection went to the selected register. `WritesAreOnMap` assumes
nothing of the numbers given to `write-reg` but that they are integers: a write by
selection or by name is on the map, and one by number is on it or all of it behind its
end, never across. What is needed of the table (each name
has an entry in its own bucket, whatever was renamed or collides) is proved first,
line by line: the induction over the lines of a file uses the least line for which
the claim fails, since the library's induction theorems cannot be instantiated.

`V120Tui_proofs` proves, for every number of crates, cards and pages, every script,
whatever the user types, and failing calls of the library:

* `TuiTypeCorrect`, `ListStaysSound`, `CardsStayShown` - the invariants of the `tui` run.

The invariant (`TuiInvariance`) is that of the library together with `PagesSound`
(the list holds each live page once, the buffer list in front, cursor and page shown
are on it, as long as the program has not followed a dead page) and `CardsKept`:
what the last allocation of a crate has reached is still relied on. The last part holds
because each crate has one handle and `add_vme` allocates all of its regions anew.
`QuitReleases` speaks of what happens at the end and stays with TLC.

`V120Tool_proofs` proves, for every number of processes and crates, every set of
command lines, every file, and every set of addresses that answer:

* `ToolTypeCorrect`, `FlashIsRight`, `ReportsTold`, `TransfersReach` - the four
  invariants of the `tool` run.

The invariant (`ToolInvariance`) is that of the library together with, for each
process, `Placed` (which command it runs where it stands, with which crate open) and,
unless it was disturbed, `Achieved`: the pages of the file that are in place, what
the macro unit has been told and has answered, the cards counted below the address
reached, and, once the command has returned with success for a crate that is still open
(`Over`), what it promises there. So the theorems speak of each crate of `-m A` in turn. Each action of a process is proved to keep its own part (`Stepped`); that it keeps
the parts of all others is proved once: on another crate nothing of theirs has changed, and on
the same crate they are disturbed unless nothing they look at has changed. The
macro unit has a lemma of its own. The attempt showed that `reinit` has to count as a
disturbance: with three processes, a link that comes up between two reads of a
report spoils it, and two processes never show it, since the run's second process
is the one that reinitialises and the first makes no report.

`TransfersReach` has the hypothesis that values read from the standard input, and
split accesses, fit the pages of their region (`TransfersFit`); for all other
transfers this is a lemma. The `tool` run satisfies it and the `stdin` run shows that it
is needed.

Only model-checked, and why:

* liveness (`CallsReturn`, `InterruptsServed`, `Terminates`, `QuitReleases`): out of
  the prover's reach, as is `ENABLED`.

TLC checked every inductive invariant, or its parts, on a small instance before it was proved.

## 5. Where code and documentation disagree

* `enable_interrupts` (`v120irqd.c:432`) tests `st->crate && (1 << n)`; it means
  `&`. A request for one crate enables its lines in all (`enable`).
* A call that crosses an interrupt takes the interrupt for its answer, and the
  daemon takes the call for the client's answer (`crossing`). A client that
  makes two requests can see this.
* `mainloop` can block in `process_client` on a client with nothing to say
  (`blocking`): the handshake of `process_vme` has read the message that `ppoll`
  reported. Interrupts, other clients and SIGTERM then wait for that client.
* `v120 write` with values from the standard input allocates a region of no
  length (`rw.c:113`). At an address that begins a page the library maps pages
  8190 and 8191 and writes no descriptor: the values go wherever page 8190 last
  pointed (`stdin`). Elsewhere in a page it works, for one page.

Not run, but visible while modelling and proving:

* `v120_allocate_vme` is documented to return zero when all pages are used
  (`V120.c:873`, `v120_allocate_vme.3`); it returns `V120_PAGE_COUNT`, and so does
  the model. `AllocationTiles` leaves this case out.
* `write-reg` by name multiplies the index found by the width shown (`browser.c:388`),
  not by the card's: while the other width is shown it writes to a register of another
  name. `goto-name` jumps to the wrong register in the same way. `GotoNameLands` speaks
  of the card's own width.
* `v120 write -b` from the standard input stops with success after the first full
  block of 512 bytes (`rw.c:275`); input that fills no block never ends, as the end of
  the file is one more short block. The model does the same (`Transfers`,
  `TransferDone`); no property demands that all values arrive.
* A split access allocates two bytes for each value (`rw.c:117`) and moves four
  (`rw.c:179`): when the values do not fit the rest of the last page, `v120 read` runs past
  its mapping. It is the second case that `TransfersReach` has to exclude.
* A fake interrupt is delivered as sent (`v120irqd.c:541`); `v120irqd.h:71`
  promises one that is always "concrete".
* `brcheckpos` is to "make sure highlighted selection is not off the display page
  or off the VME map" (`browser.c:160`). When the terminal shrinks above the
  selection, keys no longer keep it on the map: at the end of the map, key right
  selects the register behind it, and a write goes there. `WritesStayOnMap` says
  that this is the only way off.
* `v120_allocate_vme` with an empty list returns an uninitialised value.
* `write-reg` takes any number from zero on (`browser.c:394`): one behind the map writes
  past the region. `WritesStayOnMap` and its theorem exempt exactly these writes.
  Nor does anything compare the registers of an RNM file with the map; files are
  assumed to describe the card they are attached to (`BrowserAssumption`).
* A token that `gettok` refuses (too long, or with a character that is no letter or
  digit) ends `v120 write` as the end of the input would, with success if a value
  came before (`rw.c:246`).
* `requester` writes the slot register on a query too, and without `-S`, where
  the manual (`v120.1`) says the status "will remain unchanged"; `-S` and `-F` are
  missing from the option string (`main.c:167`).
* `report monitor` without a number prints monitors -1 to 2 (`report.c:127`), not
  "all four".
* `do_for_each_crate` keeps only the result of the last crate.
* `reflash` sends a whole buffer after a short read, and one page more when a file
  ends with a page; a read error repeats for ever.
* `scan` prints a card when it finds its end; one that extends to the top of the
  address space is not printed.
* `check_align` runs after the descriptors have been rewritten.
* `write-reg` without RNM data follows a null pointer (`browser.c:395`);
  `rnmadd2path` never fills the cache (`rnm.c:299`), so every `add-rnm` reads the
  file again; a line that does not parse ends in a double `free` (`rnm.c:399`);
  `r_len` is the highest index, so the last register's name is not shown.
* `:kill` and scripts draw a page that is freed (`input.c:293`); `load-file` in a
  script frees a pointer into its line (`input.c:214`).
* The manual of `v120_tui` swaps the keys `j` and `k`; Home and End are bound to
  nothing.

## 6. Plan

1. `IrqVectorTable`, `InterruptClaims` and proofs (done).
2. `LibV120`, `V120Programs` and proofs (done).
3. `RnmTable`, `V120Browser`, `V120Tui`, `V120Tool` (done).
4. Proofs about `V120irqd`, `V120Browser`, `V120Tui` and `V120Tool` (done).
5. Proof that `IrqVectorTable` implements `InterruptClaims` (done).
6. An abstract specification of the library, disjoint page intervals per handle,
   which `LibV120` implements between reconfigurations, and the step lemmas of that
   refinement from `LibInv`.

## 7. Not modelled

The driver (absent; what the daemon and the library see of it is external), DMA
transfers, `reset -f` (what the macro FPGA reset does to the registers is nowhere in
the repository), option parsing and the words of a command line, logging, daemonizing,
failing `realloc` and `accept` in the daemon, socket file removal, the
`USE_U64_HASH` build, the text of reports, timeouts of the VME bus, search paths
and environment of `v120_tui`, drawing and terminal control, help pages, examples
and tests. A pointer arithmetic that leaves its object ends the model where it
happens; what a particular build does then is not modelled.
