--------------------------- MODULE MCIrqVectorTable ---------------------------
(***************************************************************************)
(* A table small enough for TLC: two clients, two crates, two lines, two   *)
(* vectors besides ANYVECTOR, an array that grows from 0 to 2 to 4 slots.  *)
(***************************************************************************)
EXTENDS IrqVectorTable

Sel(crate, irq, vector, payload) ==
    [crate |-> crate, irq |-> irq, vector |-> vector, payload |-> payload]

\* Specific and general selectors that cover each other in every way the
\* comparison distinguishes, and one illegal request of each kind.
MCRequests ==
    {Sel({0}, {1}, 5, 0), Sel({0}, {1}, 5, 1), Sel({0}, {1}, 9, 0), Sel({0}, {1, 2}, 9, 0),
     Sel({0, 1}, {2}, 9, 0), Sel({0, 1}, {1, 2}, 5, 0),
     Sel({}, {1}, 5, 0), Sel({0}, {}, 5, 0), Sel({0}, {0, 1}, 5, 0)}
===============================================================================
