------------------------------- MODULE V120Browser -----------------------------
(***************************************************************************)
(* v120_tui/browser.c: the page that shows the registers of one card.      *)
(*                                                                         *)
(* The card is a map of MapLen bytes, shown as registers of br_dwidth      *)
(* bytes, sixteen bytes to a row.  br_offs is the first register on the    *)
(* page and br_sel the selected one, counted from br_offs.  The terminal   *)
(* may change its height between two keys, and the user may edit RNM files *)
(* and attach another one.                                                 *)
(*                                                                         *)
(* The keys that move the cursor to the start and the end of the map       *)
(* (m_home, m_end) are bound to no key and to no command.                  *)
(***************************************************************************)
EXTENDS RnmTable

CONSTANTS
    MapLen,         \* br_region->len
    RowCounts,      \* btnrows() - ROW_TAG for the sizes the terminal may have
    Paths,          \* names of RNM files
    Versions,       \* what RNM files may contain, each a sequence of lines
    UnnamedTop,     \* br_topoffs of a card without RNM data: 128
    WriteOffsets    \* numbers the user may pass to write-reg, as an int holds them

\* A page holds what brjump leaves in br_sel, and the map holds a page.  An RNM file
\* describes the card: the map holds each of its registers, in either width.
ASSUME BrowserAssumption ==
    /\ MapLen \in Nat /\ MapLen % 16 = 0
    /\ RowCounts \subseteq Nat
    /\ \A rows \in RowCounts : rows >= 4 /\ 16 * rows <= MapLen
    /\ \A file \in Versions : file \in Seq(RnmLine) /\ 4 * (maxoffs(file) + 1) <= MapLen
    /\ UnnamedTop \in 1 .. MapLen
    /\ WriteOffsets \subseteq Int

VARIABLES
    rows,          \* rows of registers on the terminal
    disk,          \* disk[p]: the content of file p
    g_rnms,        \* the cache of parsed files, a sequence of [path, rnm]
    rnm,           \* br_mdata and b_rnms: <<>>, or <<table>>
    br_sel, br_offs, br_dwidth, br_dwshift, br_topoffs,
    wrote,         \* the last step wrote: <<>>, or <<byte, width, by>>
    running        \* FALSE once the program has ended on a fault

cursor == <<br_sel, br_offs, br_dwidth, br_dwshift>>
files == <<disk, g_rnms, rnm>>
browser == <<rows, files, cursor, br_topoffs, wrote, running>>

-------------------------------------------------------------------------------
\* What rnmparse may return for a browser to keep.
Tables == {rnmparse(file) : file \in Versions} \ {NoRnm, Aborts}

Columns(dwidth) == 16 \div dwidth

brarraylen(dwidth) == rows * Columns(dwidth)
broffmax(dwidth) == MapLen \div dwidth - brarraylen(dwidth)

At(sel, offs) == [sel |-> sel, offs |-> offs]

\* brstartpos and brendpos
Start == At(0, 0)
End(dwidth) == At(brarraylen(dwidth) - 1, broffmax(dwidth))

\* Mutated form of brcheckpos: the page is not stopped at the end of the map.
brcheckpos_open(sel, offs, dwidth) ==
    LET ncols == Columns(dwidth)
        moved == IF sel < 0 THEN At(sel + ncols, offs - ncols)
                 ELSE IF sel >= brarraylen(dwidth) THEN At(sel - ncols, offs + ncols)
                 ELSE At(sel, offs)
    IN  IF moved.offs < 0 THEN Start ELSE moved

\* Mutated form of brcheckpos: the page is not stopped at the start of the map.
brcheckpos_under(sel, offs, dwidth) ==
    LET ncols == Columns(dwidth)
        moved == IF sel < 0 THEN At(sel + ncols, offs - ncols)
                 ELSE IF sel >= brarraylen(dwidth) THEN At(sel - ncols, offs + ncols)
                 ELSE At(sel, offs)
    IN  IF moved.offs > broffmax(dwidth) THEN End(dwidth) ELSE moved

\* Mutated form of brcheckpos: a selection below the page does not scroll it.
brcheckpos_stay(sel, offs, dwidth) ==
    IF sel < 0 THEN Start
    ELSE IF offs > broffmax(dwidth) THEN End(dwidth)
    ELSE At(sel, IF offs < 0 THEN 0 ELSE offs)

\* brcheckpos scrolls by one row, and stops at either end of the map.
brcheckpos(sel, offs, dwidth) ==
    LET ncols == Columns(dwidth)
        moved == IF sel < 0 THEN At(sel + ncols, offs - ncols)
                 ELSE IF sel >= brarraylen(dwidth) THEN At(sel - ncols, offs + ncols)
                 ELSE At(sel, offs)
    IN  IF moved.offs < 0 THEN Start
        ELSE IF moved.offs > broffmax(dwidth) THEN End(dwidth)
        ELSE moved

\* idxchk: the index in the RNM data of the browser's register i.
idxchk(i) == CASE br_dwshift = 0 -> i
               [] br_dwshift > 0 -> i \div 2
               [] OTHER -> i * 2

HasNames == rnm # <<>>
Table == rnm[1]

-------------------------------------------------------------------------------
(***************************************************************************)
(* Keys                                                                    *)
(***************************************************************************)
Quiet == wrote' = <<>> /\ UNCHANGED <<rows, disk, g_rnms, running, br_topoffs>>

MoveTo(position) ==
    /\ br_sel' = position.sel
    /\ br_offs' = position.offs
    /\ UNCHANGED <<br_dwidth, br_dwshift, rnm>>
    /\ Quiet

Checked(sel, offs) == MoveTo(brcheckpos(sel, offs, br_dwidth))

brleft == Checked(br_sel - 1, br_offs)
brright == Checked(br_sel + 1, br_offs)
brup == Checked(br_sel - Columns(br_dwidth), br_offs)
brdn == Checked(br_sel + Columns(br_dwidth), br_offs)
brpgdn == Checked(br_sel, br_offs + brarraylen(br_dwidth))
brpgup == Checked(br_sel, br_offs - brarraylen(br_dwidth))

\* brjump to byte v: the page starts at a multiple of sixteen registers, or as
\* far up as keeps it on the map.
brjump(v) ==
    LET reg == v \div br_dwidth
        ncols == Columns(br_dwidth)
        page == (reg \div 16) * 16
        over == page - broffmax(br_dwidth)
        back == IF over > 0 THEN ((over + ncols - 1) \div ncols) * ncols ELSE 0
    IN  MoveTo(At(reg - page + back, page - back))

brgoto(v) == v \in 0 .. br_topoffs - 1 /\ brjump(v)

\* brgotoname takes the index of the name for a register number in the current
\* width.
brgotoname(name) ==
    /\ HasNames
    /\ LET offs == rnmsearch(Table, name)
       IN  offs >= 0 /\ brjump(offs * br_dwidth)

\* dwshift after the width or the RNM data has changed.
ShiftFor(dwidth, names) ==
    IF names = <<>> THEN 0
    ELSE LET own == names[1].r_dwidth
         IN  CASE dwidth > own -> -1 [] dwidth < own -> 1 [] OTHER -> 0

\* The selection and the page after a change of width, before brcheckpos.
OtherWidth(dwidth) == IF dwidth = 2 THEN 4 ELSE 2
Scaled(n, dwidth) == IF dwidth = 2 THEN n \div 2 ELSE n * 2

\* Mutated form of Toggled: the page is left where it was.
ToggledInPlace(p, dwidth) ==
    brcheckpos(Scaled(p.sel, dwidth), p.offs, OtherWidth(dwidth))

Toggled(p, dwidth) ==
    brcheckpos(Scaled(p.sel, dwidth), Scaled(p.offs, dwidth), OtherWidth(dwidth))

brchmod ==
    LET p == Toggled(At(br_sel, br_offs), br_dwidth)
    IN  /\ br_sel' = p.sel
        /\ br_offs' = p.offs
        /\ br_dwidth' = OtherWidth(br_dwidth)
        /\ br_dwshift' = ShiftFor(OtherWidth(br_dwidth), rnm)
        /\ UNCHANGED rnm
        /\ Quiet

-------------------------------------------------------------------------------
(***************************************************************************)
(* RNM files                                                               *)
(***************************************************************************)
\* findrnm: the cached tables with this path, of which it takes the first.
Cached(path) == {i \in DOMAIN g_rnms : g_rnms[i].path = path}
Read(path) == IF Cached(path) # {} THEN g_rnms[Min(Cached(path))].rnm ELSE rnmparse(disk[path])

\* rnmadd2path links the new table to the cache but leaves the cache's head
\* where it was.
rnmadd2path(path) == g_rnms' = g_rnms

\* Mutated form of WithNewNames: the shift for the new file is not worked out.
WithNewNamesOnly(names) ==
    /\ rnm' = names
    /\ UNCHANGED <<br_sel, br_offs, br_dwidth, br_dwshift>>

\* braddrnm after the file was read: brchmod twice brings dwshift up to date.
WithNewNames(names) ==
    LET once == Toggled(At(br_sel, br_offs), br_dwidth)
        twice == Toggled(once, OtherWidth(br_dwidth))
    IN  /\ rnm' = names
        /\ br_sel' = twice.sel
        /\ br_offs' = twice.offs
        /\ br_dwshift' = ShiftFor(br_dwidth, names)
        /\ UNCHANGED br_dwidth

braddrnm(path) ==
    LET parsed == Read(path)
    IN  /\ wrote' = <<>>
        /\ UNCHANGED <<rows, disk, br_topoffs>>
        /\ \/ /\ parsed = Aborts
              /\ running' = FALSE
              /\ UNCHANGED <<g_rnms, rnm, cursor>>
           \/ /\ parsed = NoRnm
              /\ WithNewNames(<<>>)
              /\ UNCHANGED <<g_rnms, running>>
           \/ /\ parsed \notin {Aborts, NoRnm}
              /\ WithNewNames(<<parsed>>)
              /\ rnmadd2path(path)
              /\ UNCHANGED running

-------------------------------------------------------------------------------
(***************************************************************************)
(* Writes                                                                  *)
(***************************************************************************)
\* by tells what named the register: the selection, a name or a number.
Writes(byte, width, by) ==
    /\ wrote' = <<byte, width, by>>
    /\ UNCHANGED <<rows, files, cursor, br_topoffs, running>>

\* brwrite, brditto and brzero write to the selected register.
brwrite1 == Writes((br_sel + br_offs) * br_dwidth, br_dwidth, "selection")

\* brwrite2name: the register's own width, at an address made from the width
\* shown.  Without RNM data it follows a null pointer.
NoNamesFault ==
    /\ ~HasNames
    /\ running' = FALSE
    /\ wrote' = <<>>
    /\ UNCHANGED <<rows, files, cursor, br_topoffs>>

WriteAt(offs, by) ==
    LET own == Table.r_dwidth
    IN  HasNames /\ Writes((offs \div own) * own, own, by)

\* A number is taken for a byte offset, with no bound but zero.
WriteNumber(offs) == offs >= 0 /\ WriteAt(offs, "number")

WriteNamed(name) ==
    /\ HasNames
    /\ LET offs == rnmsearch(Table, name)
       IN  offs >= 0 /\ WriteAt(offs * br_dwidth, "name")

brwrite2name ==
    \/ NoNamesFault
    \/ \E offs \in WriteOffsets : WriteNumber(offs)
    \/ \E name \in Names : WriteNamed(name)

-------------------------------------------------------------------------------
(***************************************************************************)
(* The world outside                                                       *)
(***************************************************************************)
Resize ==
    /\ rows' \in RowCounts \ {rows}
    /\ wrote' = <<>>
    /\ UNCHANGED <<files, cursor, br_topoffs, running>>

EditFile(path) ==
    /\ \E version \in Versions : version # disk[path] /\ disk' = [disk EXCEPT ![path] = version]
    /\ wrote' = <<>>
    /\ UNCHANGED <<rows, g_rnms, rnm, cursor, br_topoffs, running>>

-------------------------------------------------------------------------------
\* browsernew, for a card with the RNM data `names`, or <<>> for none.
browsernew(names) ==
    /\ rnm = names
    /\ br_sel = 0 /\ br_offs = 0 /\ br_dwshift = 0
    /\ br_dwidth = IF names = <<>> THEN 2 ELSE names[1].r_dwidth
    /\ br_topoffs = IF names = <<>> THEN UnnamedTop
                    ELSE names[1].r_len * names[1].r_dwidth

BrowserInit ==
    /\ rows \in RowCounts
    /\ disk \in [Paths -> Versions]
    /\ g_rnms = <<>>
    /\ \/ browsernew(<<>>)
       \/ \E path \in Paths : rnmparse(disk[path]) \in Tables /\ browsernew(<<rnmparse(disk[path])>>)
    /\ wrote = <<>>
    /\ running = TRUE

Key ==
    \/ brleft \/ brright \/ brup \/ brdn \/ brpgup \/ brpgdn
    \/ brchmod
    \/ brwrite1
    \/ brwrite2name
    \/ \E v \in 0 .. MapLen - 1 : brgoto(v)
    \/ \E name \in Names : brgotoname(name)
    \/ \E path \in Paths : braddrnm(path)

BrowserNext ==
    /\ running
    /\ Key \/ Resize \/ \E path \in Paths : EditFile(path)

BrowserSpec == BrowserInit /\ [][BrowserNext]_browser

-------------------------------------------------------------------------------
Selected == br_sel + br_offs

OnPage(dwidth) == /\ br_sel \in 0 .. brarraylen(dwidth) - 1
                  /\ br_offs \in 0 .. broffmax(dwidth)

\* The type of the browser's state.
BrowserTypeOK ==
    /\ rows \in RowCounts
    /\ disk \in [Paths -> Versions]
    /\ g_rnms \in Seq([path : Paths, rnm : Tables])
    /\ rnm \in {<<>>} \cup {<<table>> : table \in Tables}
    /\ br_sel \in Int /\ br_offs \in Nat
    /\ br_dwidth \in {2, 4}
    /\ br_dwshift \in {-1, 0, 1}
    /\ br_topoffs \in Nat
    /\ running \in BOOLEAN

\* The selected register lies inside the card's map.  The comment of brcheckpos:
\* "Make sure highlighted selection is not off the display page or off the VME
\* map".
SelectionOnMap == Selected \in 0 .. MapLen \div br_dwidth - 1

Visible == br_sel \in 0 .. brarraylen(br_dwidth) - 1

\* A selected register that is on the screen and on the card's map stays so: no
\* key, no jump, no change of width, no new RNM file and no larger terminal takes
\* it off either, and no write to it, or to a register its RNM file names, goes
\* outside the map.
\* Only a terminal that shrinks hides the selection, and then the keys no longer
\* keep it on the map.  A write to a register given by its number goes wherever
\* the number says: such a write is on the map, or all of it behind its end.
\* About brcheckpos, brjump and brchmod, the only bounds before the pointer
\* arithmetic of brwrite1, and about brwrite2name, which has none but zero.
WritesStayOnMap ==
    [][Visible /\ SelectionOnMap =>
         /\ SelectionOnMap'
         /\ rows' >= rows => Visible'
         /\ wrote' # <<>> =>
              \/ wrote'[1] \in 0 .. MapLen - wrote'[2]
              \/ wrote'[3] = "number" /\ wrote'[1] >= MapLen]_browser

\* No key takes the selection off the page or the page off the map; only a new
\* terminal size does.  About brcheckpos, which scrolls one row whatever the
\* distance, and about the assertion in brjump's closing comment.
NoKeyLeavesPage ==
    [][OnPage(br_dwidth) /\ rows' = rows => OnPage(br_dwidth)']_browser

\* Changing the data width keeps the selection on the register that holds the
\* byte it was on, page position and all.  About brchmod, whose scaling and
\* whose brcheckpos both move it.
ChmodKeepsRegister ==
    [][OnPage(br_dwidth) /\ br_dwidth' # br_dwidth =>
         Selected' * br_dwidth' = ((Selected * br_dwidth) \div br_dwidth') * br_dwidth']_browser

\* The name shown for the selected register is the name the attached RNM file
\* gives to the register at that byte of the card, in either data width and
\* after any add-rnm.  About brsplash, idxchk and the br_dwshift that brchmod,
\* braddrnm and browsernew maintain.
NameShownIsRight ==
    HasNames /\ idxchk(Selected) < Table.r_len =>
        Table.r_mdata[idxchk(Selected)]
          = Table.r_mdata[(Selected * br_dwidth) \div Table.r_dwidth]

\* Every name that a register carries is found, and in the card's own width
\* goto-name takes the selection to a register of that name, and write-reg
\* writes to one: whatever names share a hash bucket, and however often a file
\* names a register again.  In the other width both go to another register.
\* About add2hash, rnmsearch, brgotoname and brwrite2name.
GotoNameLands ==
    [][\A name \in Names :
         /\ HasNames => \A i \in DOMAIN Table.r_mdata :
                Table.r_mdata[i] = name => rnmsearch(Table, name) >= 0
         /\ br_dwshift = 0 /\ brgotoname(name) => Table.r_mdata[Selected'] = name
         /\ br_dwshift = 0 /\ WriteNamed(name) =>
                Table.r_mdata[wrote'[1] \div Table.r_dwidth] = name]_browser
===============================================================================
