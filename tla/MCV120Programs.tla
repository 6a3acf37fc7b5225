----------------------------- MODULE MCV120Programs ----------------------------
(***************************************************************************)
(* Two handles and three regions on a crate of three pages of two bytes     *)
(* each: an aligned region, one that crosses pages, and one of no length.  *)
(***************************************************************************)
EXTENDS V120Programs

MCAddr == [r \in Regions |-> CASE r = "aligned" -> 4 [] r = "crossing" -> 9 [] OTHER -> 2]
MCLen == [r \in Regions |-> CASE r = "aligned" -> 3 [] r = "crossing" -> 2 [] OTHER -> 0]
MCConfig == [r \in Regions |-> CASE r = "aligned" -> 0 [] OTHER -> 1]
MCOwns == [h \in Handles |-> IF h = "h1" THEN {"crossing", "empty"} ELSE {"aligned"}]
MCStartPages == [h \in Handles |-> IF h = "h1" THEN {0, 2} ELSE {1, 3}]
MCMaxMaps == [h \in Handles |-> IF h = "h1" THEN 3 ELSE 2]
MCSetups == {[idx |-> 1, addr |-> 4, config |-> 0]}
===============================================================================
