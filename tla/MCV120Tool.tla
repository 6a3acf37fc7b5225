------------------------------- MODULE MCV120Tool ------------------------------
(***************************************************************************)
(* Two processes and two crates of three pages of four bytes.  The first   *)
(* process works with the flash memory, reads, writes and resets; the      *)
(* second scans, reports, writes, upgrades too, and reinitialises.         *)
(***************************************************************************)
EXTENDS V120Tool

Rw(cmd, crate, r, units, stdin, dwidth) ==
    [cmd |-> cmd, crate |-> crate, region |-> r, units |-> units, stdin |-> stdin,
     dwidth |-> dwidth, binary |-> FALSE]
Binary(crate, r, stdin, dwidth) ==
    [Rw("write", crate, r, 0, stdin, dwidth) EXCEPT !.binary = TRUE]
Upgrade(crate, file, whole) ==
    [cmd |-> "flash-upgrade", crate |-> crate, file |-> [pages |-> file, whole |-> whole]]
Plain(cmd, crate) == [cmd |-> cmd, crate |-> crate]
BusSet(crate, bus, slot0) == [cmd |-> "requester", crate |-> crate, bus |-> bus, slot0 |-> slot0]
Scan(crate, a24) == [cmd |-> "scan", crate |-> crate, a24 |-> a24]

MCJobs == [p \in Handles |-> IF p = 1
    THEN {Upgrade(0, <<"f1", "f2">>, TRUE), Upgrade(0, <<"f1", "f2">>, FALSE), Upgrade(0, <<>>, TRUE), Upgrade(ALL, <<"f1">>, TRUE),
          Rw("write", 0, "words", 2, 0, "w"), Rw("read", FIRST, "split", 1, 0, "s"),
          Rw("read", 0, "toolong", 2, 0, "l"), Rw("write", ALL, "words", 2, 0, "w"),
          Plain("reset", 0), Plain("sysreset", 0), BusSet(ALL, "BR1", TRUE)}
    ELSE {Scan(FIRST, TRUE), Scan(ALL, FALSE), Rw("write", 0, "stdin", 0, 2, "b"),
          Binary(0, "stdin", 3, "b"), Binary(0, "stdin", 1, "b"),
          Rw("write", 0, "bytes", 1, 0, "b"), Rw("write", 0, "stdin", 0, 0, "b"),
          Plain("report-id", ALL), Plain("report-flash", ALL), Plain("report-status", 0),
          Plain("reinit", ALL), Plain("report-pcie", ALL), Plain("report-pcie", FIRST),
          Upgrade(0, <<"g1">>, FALSE), BusSet(0, "query", FALSE)}]

\* As MCJobs, but values are written from the standard input to where a page begins.
MCStdinJobs == [p \in Handles |->
    IF p = 1 THEN {Rw("write", 0, "aligned", 0, 1, "b")} ELSE {Plain("report-flash", ALL)}]

MCAddr == [r \in Regions |-> CASE r = "words" -> 4 [] r = "split" -> 8 [] r = "toolong" -> 8
                               [] r = "stdin" -> 5 [] r = "bytes" -> 7 [] r = "aligned" -> 4]
MCLen == [r \in Regions |-> CASE r = "words" -> 4 [] r = "split" -> 2 [] r = "toolong" -> 8
                              [] r = "bytes" -> 1 [] OTHER -> 0]
MCConfig == [r \in Regions |-> IF r \in {"stdin", "split"} THEN 1 ELSE 0]
MCMaxMaps == [p \in Handles |-> 7]
MCAnswering == [cfg \in {0, 1} |-> IF cfg = 0 THEN {1, 2, 4} ELSE {0, 2, 6, 7}]
MCScanTop == [cfg \in {0, 1} |-> IF cfg = 0 THEN PageSize ELSE 2 * PageSize]
===============================================================================
