------------------------------- MODULE MCV120Tui -------------------------------
(***************************************************************************)
(* One crate attached and one not; two cards, one of them at an address    *)
(* that does not begin a page, the other at one that an int takes for      *)
(* negative; a startup script that adds a card; a script that kills the    *)
(* page it was loaded on, and one that loads another.                      *)
(***************************************************************************)
EXTENDS V120Tui

MCAddr == [r \in Regions |-> IF r = 1 THEN 5 ELSE 8]
MCLen == [r \in Regions |-> 2]
MCConfig == [r \in Regions |-> 0]
MCMaxMaps == [c \in Handles |-> 5]
MCScripts == [f \in {1, 2, 3} |->
    CASE f = 1 -> <<<<"add-vme", 1>>, <<"next-buffer">>, <<"quit">>>>
      [] f = 2 -> <<<<"kill">>, <<"unknown">>>>
      [] f = 3 -> <<<<"load-file", 2>>>>]
MCTyped == {<<"add-vme", 0>>, <<"add-vme", 1>>, <<"add-dummy">>, <<"kill">>, <<"home">>,
            <<"quit">>, <<"load-file", 2>>, <<"load-file", 3>>, <<"load-file", 4>>}
===============================================================================
