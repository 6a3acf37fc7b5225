------------------------------ MODULE MCV120Browser ----------------------------
(***************************************************************************)
(* A card of 96 bytes on a terminal of four or five rows of registers, and *)
(* two RNM files.  Names A and B share a hash bucket and C has the hash of *)
(* A; one file names a register twice, one cannot be parsed, and one       *)
(* describes no register but number zero.                                  *)
(***************************************************************************)
EXTENDS V120Browser

MCHash == [n \in Names |-> CASE n = "A" -> 1 [] n = "B" -> 4 [] OTHER -> 1]

Wide == <<<<"W", 4>>, <<"reg", 0, "A">>, <<"reg", 2, "B">>, <<"reg", 11>>>>
Narrow == <<<<"reg", 7, "A">>, <<"reg", 5, "C">>, <<"reg", 7, "B">>, <<"reg", 21, "B">>>>
Broken == <<<<"reg", 3, "A">>, <<"bad">>>>
Empty == <<<<"W", 2>>, <<"reg", 0, "A">>>>
MCVersions == {Wide, Narrow, Broken, Empty}
MCOneFile == {Narrow}

\* On the map, at its end, and behind it; and a number that an int cannot hold.
MCWriteOffsets == {-1, 0, 95, 96}
===============================================================================
