--------------------------------- MODULE V120Tui -------------------------------
(***************************************************************************)
(* v120_tui: the list of pages ("buffers"), the commands that add, show    *)
(* and kill them, the scripts that give such commands, and the crates they *)
(* stand on (main.c, buffer.c, input.c, token.c, controlreg.c, quit.c).    *)
(*                                                                         *)
(* The program has one thread.  Each crate c has its handle, g_v120[c]; a  *)
(* card added to it becomes a VME_REGION of that handle, and all regions   *)
(* of the crate are then allocated anew from page 0 on.  What happens on a *)
(* browser page itself is the subject of V120Browser.                      *)
(*                                                                         *)
(* A buffer is a piece of memory that may be used again after free.  Where *)
(* the program follows a pointer to memory it has freed, or frees memory   *)
(* that malloc did not give out, anything may happen: status becomes       *)
(* "undefined" and the model stops.                                        *)
(***************************************************************************)
EXTENDS LibV120, SequencesExt

CONSTANTS
    Buffers,        \* addresses malloc may give to buffers
    Scripts,        \* Scripts[f]: the lines of script f
    Startup,        \* ~/.v120_tui: a script, or none
    Typed,          \* commands the user may type
    SignBit,        \* the least address that is negative in an int
    BufferRows,     \* btnrows(): rows of the buffer list
    NTOKENS         \* depth of the stack of scripts

\* home, next-buffer and toggle-buffer, which are also bound to keys.
Switches == {"home", "next-buffer", "toggle-buffer"}

\* A line of a script, or what the user types after ":".
Command == {<<name>> : name \in Switches \cup {"kill", "add-dummy", "quit", "unknown"}}
              \cup ({"add-vme", "load-file"} \X Nat)

ASSUME TuiAssumption ==
    /\ Handles = Crates
    /\ \A f \in DOMAIN Scripts : Scripts[f] \in Seq(Command)
    /\ Startup \in DOMAIN Scripts \cup {NULL}
    /\ Typed \subseteq Command
    /\ SignBit \in Nat \ {0}
    /\ IsFiniteSet(Buffers) /\ IsFiniteSet(Crates)
    \* memory lasts at least until the buffer list is there: without it the program
    \* exits, or goes on with the registers of a crate in its place
    /\ Cardinality(Buffers) > Cardinality(Crates)
    /\ BufferRows \in Nat \ {0}
    /\ NTOKENS \in Nat \ {0, 1}

VARIABLES
    bufs,          \* the buffer list from g_headbuf on
    kind,          \* kind[b]: "free", or the mode of the buffer
    shows,         \* shows[b]: the region of a "vme" buffer
    cpos,          \* the cursor of the buffer list
    g_buffer, g_lastbuf,
    scripts,       \* the scripts being read, innermost first
    pc,            \* what main is doing
    adding,        \* add_vme: the crate and the region, or none
    unopened,      \* the crates openallcrates has still to try
    status         \* "running", "exited", "fault" or "undefined"

pages == <<bufs, kind, shows, cpos, g_buffer, g_lastbuf>>
control == <<scripts, pc, adding, unopened>>
tui == <<library, pages, control, status>>

-------------------------------------------------------------------------------
(***************************************************************************)
(* Buffers                                                                 *)
(***************************************************************************)
iskeyboard == scripts = <<>>

Live(b) == b \in Buffers /\ kind[b] # "free"

pos2buf == bufs[cpos + 1]
Position(b) == CHOOSE i \in DOMAIN bufs : bufs[i] = b

\* A page can be drawn unless its base pointer is null.
Drawable(b) == kind[b] = "vme" => region[shows[b]].base # NULL

\* What becomes of the program when it draws page b, and when it follows the
\* pointer b once more: freed memory may have been reused, or not yet.
Drawn(b) == IF ~Live(b) THEN "undefined" ELSE IF Drawable(b) THEN "running" ELSE "fault"
Followed(b) == IF kind'[b] = "free" THEN {"running", "undefined"} ELSE {"running"}

\* buffershuffle keeps the buffer list in front of the page just added.
buffershuffle(list) ==
    IF Len(list) < 2 THEN list
    ELSE <<list[2], list[1]>> \o SubSeq(list, 3, Len(list))

\* buffernew and browsernew of a page, in memory malloc finds or not.
NewPage(k, r) ==
    \/ \E b \in Buffers :
          /\ kind[b] = "free"
          /\ kind' = [kind EXCEPT ![b] = k]
          /\ shows' = [shows EXCEPT ![b] = r]
          /\ bufs' = buffershuffle(<<b>> \o bufs)
          /\ UNCHANGED <<cpos, g_buffer, g_lastbuf>>
    \/ UNCHANGED pages

\* buffergoto draws page b, which is g_buffer from then on.
buffergoto(b) ==
    /\ g_lastbuf' = g_buffer
    /\ g_buffer' = b
    /\ UNCHANGED <<bufs, kind, shows, cpos>>

Unlinked(b) ==
    /\ bufs' = RemoveAt(bufs, Position(b))
    /\ kind' = [kind EXCEPT ![b] = "free"]
    /\ UNCHANGED shows

\* The page in front of b is shown if b was.
ShownInstead(b) ==
    IF g_buffer = b THEN LET prev == bufs[Position(b) - 1]
                         IN  g_buffer' = prev /\ g_lastbuf' = prev
    ELSE UNCHANGED <<g_buffer, g_lastbuf>>

\* Mutated form of bufferkill: the cursor of the list stays where it is.
bufferkill_cursor(b) ==
    /\ Unlinked(b)
    /\ IF b = bufs[1] THEN UNCHANGED <<g_buffer, g_lastbuf, cpos>>
       ELSE ShownInstead(b) /\ UNCHANGED cpos

\* bufferkill.  A g_lastbuf that points to b keeps doing so; the head of the list
\* is removed without further ado.
bufferkill(b) ==
    /\ Unlinked(b)
    /\ IF b = bufs[1] THEN UNCHANGED <<g_buffer, g_lastbuf, cpos>>
       ELSE ShownInstead(b) /\ cpos' = 0

\* brkill refuses a page whose address is negative in an int: the configuration
\* registers, which it means, and any card so high.  bukill refuses the list.
Killable(b) == kind[b] = "dummy" \/ (kind[b] = "vme" /\ vme_addr[shows[b]] < SignBit)

Kill ==
    LET target == IF kind[g_buffer] = "list" THEN pos2buf ELSE g_buffer
    IN  IF Killable(target) THEN bufferkill(target) ELSE UNCHANGED pages

\* adding, when no card is being added.
NoCard == [crate |-> NULL, region |-> NULL]

-------------------------------------------------------------------------------
(***************************************************************************)
(* Commands                                                                *)
(***************************************************************************)
\* Every command ends with pbuf->b_mode->m_setto(pbuf), where pbuf is the page
\* the command was given on.  The actions below say what else a command does.

Target(name) ==
    CASE name = "home" -> bufs[1]
      [] name = "next-buffer" ->
            LET i == Position(g_buffer) IN bufs[IF i = Len(bufs) THEN 1 ELSE i + 1]
      [] name = "toggle-buffer" -> g_lastbuf

Switch(name) ==
    /\ buffergoto(Target(name))
    /\ status' = Drawn(Target(name))
    /\ UNCHANGED <<library, pc, adding>>

Done == pc' = "key" /\ UNCHANGED <<library, adding>>

\* The page that is shown after a kill is drawn.
DoKill(b) ==
    /\ Kill
    /\ Done
    /\ status' \in IF Drawn(g_buffer)' = "fault" THEN {"fault"} ELSE Followed(b)

\* add_vme up to v120_add_vme_region: the region is new memory.  Without a crate,
\* or without memory, nothing is done.
DoAddVme(c) ==
    /\ \/ /\ c \in Crates /\ IsOpen(c)
          /\ \E r \in Regions : /\ v120_add_vme_region(c, r)
                                /\ adding' = [crate |-> c, region |-> r]
          /\ pc' = "add_vme"
       \/ Done
    /\ UNCHANGED <<pages, status>>

\* Quitting is refused in a script.
DoQuit ==
    /\ pc' = IF iskeyboard THEN "bufferclean" ELSE "key"
    /\ UNCHANGED <<library, pages, adding, status>>

\* The commands of one line, given on page b.  load-file follows below; a line
\* no table knows is reported and forgotten.
Execute(cmd, b) ==
    \/ cmd[1] \in Switches /\ Switch(cmd[1])
    \/ cmd[1] = "kill" /\ DoKill(b)
    \/ cmd[1] = "add-dummy" /\ NewPage("dummy", NULL) /\ Done /\ UNCHANGED status
    \/ cmd[1] = "add-vme" /\ DoAddVme(cmd[2])
    \/ cmd[1] = "quit" /\ DoQuit
    \/ cmd[1] = "unknown" /\ Done /\ UNCHANGED <<pages, status>>

\* A script being read: the lines left, and the page it was loaded on.
Frame(f, b) == [rest |-> Scripts[f], pbuf |-> b]

-------------------------------------------------------------------------------
(***************************************************************************)
(* main                                                                    *)
(***************************************************************************)
\* Nothing has been freed yet, so which memory malloc finds does not matter.
Fresh == CHOOSE b \in Buffers : kind[b] = "free"

\* openallcrates: crate i is opened and, where memory is found, given a page for
\* its registers.
OpenCrate ==
    /\ pc = "openallcrates" /\ unopened # {}
    /\ LET i == CHOOSE c \in unopened : \A d \in unopened : c <= d
       IN  /\ v120_open(i, i)
           /\ unopened' = unopened \ {i}
           /\ \/ /\ handle'[i] # Closed
                 /\ kind' = [kind EXCEPT ![Fresh] = "config"]
                 /\ bufs' = <<Fresh>> \o bufs
                 /\ UNCHANGED <<shows, cpos, g_buffer, g_lastbuf>>
              \/ UNCHANGED pages
    /\ UNCHANGED <<scripts, pc, adding, status>>

\* bufferlist_start, the first page shown, and the startup script.
StartList ==
    /\ pc = "openallcrates" /\ unopened = {}
    /\ kind' = [kind EXCEPT ![Fresh] = "list"]
    /\ bufs' = <<Fresh>> \o bufs
    /\ g_buffer' = Fresh
    /\ g_lastbuf' = Fresh
    /\ scripts' = IF Startup = NULL THEN <<>> ELSE <<Frame(Startup, Fresh)>>
    /\ cpos' = 0
    /\ pc' = "key"
    /\ UNCHANGED <<library, shows, adding, unopened, status>>

\* The rest of add_vme: every region of the crate is allocated from page 0 on.
AddVmeStart ==
    /\ pc = "add_vme"
    /\ alloc[adding.crate].phase = "idle"
    /\ v120_allocate_vme(adding.crate, 0)
    /\ UNCHANGED <<pages, control, status>>

AddVmeLoop ==
    /\ pc = "add_vme"
    /\ AllocateRegion(adding.crate) \/ AllocateReturn(adding.crate)
    /\ UNCHANGED <<pages, control, status>>

\* A failed allocation leaves the region in the list and adds no page.  After one
\* that succeeds the RNM file is read: rnmparse frees what it read of a bad file twice.
AddVmeShow ==
    /\ pc = "add_vme"
    /\ alloc[adding.crate].phase = "done"
    /\ \/ alloc[adding.crate].pgno = NULL /\ UNCHANGED <<pages, status>>
       \/ /\ alloc[adding.crate].pgno # NULL
          /\ \/ NewPage("vme", adding.region) /\ UNCHANGED status
             \/ UNCHANGED pages /\ status' = "undefined"
    /\ adding' = NoCard
    /\ pc' = "key"
    /\ UNCHANGED <<library, scripts, unopened>>

\* The page a script was loaded on has been killed by an earlier line, and its
\* memory is found overwritten after this one.
StalePage(b) ==
    /\ kind[b] = "free"
    /\ status' = "undefined"
    /\ UNCHANGED <<library, pages, pc, adding>>

\* load_file executes the next line of a script.
Reading == pc = "key" /\ ~iskeyboard
ScriptLine ==
    /\ Reading /\ scripts[1].rest # <<>>
    /\ Head(scripts[1].rest)[1] # "load-file"
    /\ Execute(Head(scripts[1].rest), scripts[1].pbuf) \/ StalePage(scripts[1].pbuf)
    /\ scripts' = [scripts EXCEPT ![1].rest = Tail(@)]
    /\ UNCHANGED unopened

\* A script is loaded from a script.  When load_file returns, at once or at the
\* end of that script, inpfileload frees a name that lies inside the line.
ScriptInScript ==
    /\ Reading /\ scripts[1].rest # <<>>
    /\ LET cmd == Head(scripts[1].rest)
       IN  /\ cmd[1] = "load-file"
           /\ IF cmd[2] \notin DOMAIN Scripts \/ Len(scripts) = NTOKENS - 1
              THEN status' = "undefined" /\ UNCHANGED scripts
              ELSE /\ scripts' = <<Frame(cmd[2], g_buffer)>>
                                   \o [scripts EXCEPT ![1].rest = Tail(@)]
                   /\ UNCHANGED status
    /\ UNCHANGED <<library, pages, pc, adding, unopened>>

\* The end of a file is an empty command on pbuf.
ScriptEnd ==
    /\ Reading /\ scripts[1].rest = <<>>
    /\ scripts' = Tail(scripts)
    /\ UNCHANGED <<library, pages, pc, adding, unopened>>
    /\ status' \in IF Len(scripts) > 1 THEN {"undefined"} ELSE Followed(scripts[1].pbuf)

\* tty_main draws the page and waits for a key.
AtKey == pc = "key" /\ iskeyboard
Waiting == AtKey /\ Drawable(g_buffer)

RedrawFaults ==
    /\ AtKey /\ ~Drawable(g_buffer)
    /\ status' = "fault"
    /\ UNCHANGED <<library, pages, control>>

\* The keys of the buffer list that move its cursor: k, j, PgUp, PgDn.
CursorTo(n) ==
    /\ Waiting /\ kind[g_buffer] = "list"
    /\ cpos' = n
    /\ UNCHANGED <<library, bufs, kind, shows, g_buffer, g_lastbuf, control, status>>

\* Mutated form of buup: the check for the top of the list is missing.
buup_unchecked == CursorTo(cpos - 1)

buup == CursorTo(Max({0, cpos - 1}))
budn == CursorTo(IF cpos + 1 < Len(bufs) THEN cpos + 1 ELSE cpos)
bupgup == CursorTo(Max({0, cpos - BufferRows}))
bupgdn == CursorTo(Min({Len(bufs) - 1, cpos + BufferRows}))

bugoto ==
    /\ Waiting /\ kind[g_buffer] = "list"
    /\ buffergoto(pos2buf)
    /\ status' = Drawn(pos2buf)
    /\ UNCHANGED <<library, control>>

\* The keys 0, n and b.
SwitchKey == Waiting /\ (\E name \in Switches : Switch(name)) /\ UNCHANGED <<scripts, unopened>>

\* ":" and a command.
inpcommand ==
    /\ Waiting
    /\ \E cmd \in Typed : cmd[1] # "load-file" /\ Execute(cmd, g_buffer)
    /\ UNCHANGED <<scripts, unopened>>

inpfileload ==
    /\ Waiting
    /\ \E cmd \in Typed :
          /\ cmd[1] = "load-file"
          /\ scripts' = IF cmd[2] \in DOMAIN Scripts THEN <<Frame(cmd[2], g_buffer)>> ELSE <<>>
    /\ UNCHANGED <<library, pages, pc, adding, unopened, status>>

-------------------------------------------------------------------------------
(***************************************************************************)
(* quit                                                                    *)
(***************************************************************************)
\* bufferclean: one page after the other, always the head of the list.
QuitBuffer ==
    /\ pc = "bufferclean" /\ bufs # <<>>
    /\ bufferkill(bufs[1])
    /\ UNCHANGED <<library, control, status>>

QuitBuffersDone ==
    /\ pc = "bufferclean" /\ bufs = <<>>
    /\ g_buffer' = NULL /\ g_lastbuf' = NULL
    /\ pc' = "crateclean"
    /\ UNCHANGED <<library, bufs, kind, shows, cpos, scripts, adding, unopened, status>>

\* Mutated form of QuitCrate: the walk ends at the first crate that is not open.
QuitCrateToHole(c) ==
    /\ pc = "crateclean"
    /\ \A d \in Crates : d < c => IsOpen(d)
    /\ v120_close(c)
    /\ UNCHANGED <<pages, control, status>>

\* crateclean
QuitCrate(c) ==
    /\ pc = "crateclean"
    /\ v120_close(c)
    /\ UNCHANGED <<pages, control, status>>

Exit ==
    /\ pc = "crateclean"
    /\ \A c \in Crates : ~IsOpen(c)
    /\ status' = "exited"
    /\ UNCHANGED <<library, pages, control>>

-------------------------------------------------------------------------------
TuiInit ==
    /\ LibraryInit
    /\ bufs = <<>>
    /\ kind = [b \in Buffers |-> "free"]
    /\ shows = [b \in Buffers |-> NULL]
    /\ cpos = 0
    /\ g_buffer = NULL /\ g_lastbuf = NULL
    /\ scripts = <<>>
    /\ pc = "openallcrates" /\ unopened = Crates /\ adding = NoCard
    /\ status = "running"

Quitting == QuitBuffer \/ QuitBuffersDone \/ (\E c \in Crates : QuitCrate(c)) \/ Exit
Starting == OpenCrate \/ StartList
Scripted == ScriptLine \/ ScriptInScript \/ ScriptEnd
AddingVme == AddVmeStart \/ AddVmeLoop \/ AddVmeShow
Key == \/ buup \/ budn \/ bupgup \/ bupgdn \/ bugoto \/ SwitchKey
       \/ inpcommand \/ inpfileload

TuiNext ==
    /\ status = "running"
    /\ Starting \/ Scripted \/ AddingVme \/ RedrawFaults \/ Key \/ Quitting

\* The program goes on by itself; only for a key it waits.
TuiSpec ==
    /\ TuiInit /\ [][TuiNext]_tui
    /\ WF_tui(status = "running" /\ (Starting \/ Scripted \/ AddingVme \/ Quitting))

-------------------------------------------------------------------------------
\* The type of the program's state.
TuiTypeOK ==
    /\ bufs \in Seq(Buffers)
    /\ kind \in [Buffers -> {"free", "list", "config", "vme", "dummy"}]
    /\ shows \in [Buffers -> Regions \cup {NULL}]
    /\ cpos \in Nat
    /\ {g_buffer, g_lastbuf} \subseteq Buffers \cup {NULL}
    /\ Len(scripts) < NTOKENS
    /\ pc \in {"openallcrates", "key", "add_vme", "bufferclean", "crateclean"}
    /\ adding.crate \in Crates \cup {NULL}
    /\ adding.region \in Regions \cup {NULL}
    /\ unopened \subseteq Crates
    /\ status \in {"running", "exited", "fault", "undefined"}

\* While the user works, the list holds each page there is exactly once, the
\* buffer list in front, and both the cursor and the page on the screen are on
\* it.  About buffernew, buffershuffle, bufferkill and the cursor keys: a kill
\* must mend the list, the cursor and g_buffer, or the next key reads freed memory.
BuffersSound ==
    status = "running" /\ pc \in {"key", "add_vme"} =>
        /\ IsInjective(bufs)
        /\ ToSet(bufs) = {b \in Buffers : Live(b)}
        /\ kind[bufs[1]] = "list"
        /\ cpos < Len(bufs)
        /\ g_buffer \in ToSet(bufs)

\* A page of a VME card reaches, byte by byte, the card it was added for, however
\* many cards were added after it and moved its pages, as long as the crate's last
\* allocation succeeded.  About add_vme, which allocates all regions anew.
BrowsersShowTheirCard ==
    \A b \in Buffers : status = "running" /\ pc = "key" /\ kind[b] = "vme" =>
        \A c \in Crates : LET r == shows[b]
            IN  (\E k \in DOMAIN handle[c].list_head : handle[c].list_head[k] = r)
                   /\ alloc[c].phase = "done" /\ alloc[c].pgno # NULL
                => \A i \in 0 .. len[r] - 1 : InMapping(c, PageOf(r, i)) /\ Reaches(c, r, i)

\* Quitting ends, with every page, file and mapping given back, whatever is on
\* the list and whichever crates could be opened.  About quit(): bufferclean
\* walks a list that its own calls take apart, crateclean an array with holes.
QuitReleases ==
    pc = "bufferclean" ~> /\ status = "exited"
                          /\ \A b \in Buffers : ~Live(b)
                          /\ \A c \in Crates : files[c] = 0 /\ maps[c] = 0
===============================================================================
