----------------------------- MODULE VmeInterrupts -----------------------------
(***************************************************************************)
(* The world below v120irqd, as its code uses it: VME boards that assert   *)
(* interrupt lines, the V120_IRQ registers of each crate (IRQEN, IRQSTATUS *)
(* and the IACK vectors), and the driver's one-bit notification that       *)
(* poll() reports and read() clears.                                       *)
(*                                                                         *)
(* The driver notices an edge only: the notification is set when the set   *)
(* of asserted and enabled lines of a crate becomes nonempty               *)
(* (doc/v120irqd.txt: unless all lines set in IRQEN are simultaneously     *)
(* clear, future notifications will not happen).                           *)
(***************************************************************************)
EXTENDS Selector

CONSTANTS
    OpenCrates,   \* the crates whose interrupt device v120irqd opened
    Boards,       \* interrupters: [crate, irq, vector, roak]
    MaxAsserts    \* bound: how often one board asserts its line

ASSUME BoardAssumption ==
    /\ OpenCrates \subseteq Crates
    /\ Boards \subseteq [crate : OpenCrates, irq : ANYIRQ, vector : Vectors, roak : BOOLEAN]
    /\ MaxAsserts \in Nat

VARIABLES
    asserting,    \* the boards that assert their line now
    asserts,      \* how often each board has asserted it
    irqen,        \* IRQEN of each crate
    flag          \* the driver's pending notification of each crate

hardware == <<asserting, asserts, irqen, flag>>

HardwareTypeOK ==
    /\ asserting \subseteq Boards
    /\ asserts \in [Boards -> 0..MaxAsserts]
    /\ irqen \in [OpenCrates -> SUBSET ANYIRQ]
    /\ flag \in [OpenCrates -> BOOLEAN]

HardwareInit ==
    /\ asserting = {}
    /\ asserts = [b \in Boards |-> 0]
    /\ irqen = [c \in OpenCrates |-> {}]
    /\ flag = [c \in OpenCrates |-> FALSE]

irqstatus(c) == {b.irq : b \in {x \in asserting : x.crate = c}}

Active(c) == irqstatus(c) \cap irqen[c] # {}

\* Every step that changes the lines or IRQEN: the driver sees the edge.
DriverNotices ==
    flag' = [c \in OpenCrates |-> flag[c] \/ (~Active(c) /\ Active(c)')]

\* A board asserts its line, at any moment.
AssertLine(b) ==
    /\ b \notin asserting
    /\ asserts[b] < MaxAsserts
    /\ asserting' = asserting \cup {b}
    /\ asserts' = [asserts EXCEPT ![b] = @ + 1]
    /\ UNCHANGED irqen
    /\ DriverNotices

\* The boards that can answer an IACK cycle on a line; the bus idles high, so
\* a cycle nobody answers reads as ANYVECTOR.
Answering(c, i) == {b \in asserting : b.crate = c /\ b.irq = i}

\* An IACK cycle yields the vector and releases the line of a ROAK board.
Iack(c, i, vector) ==
    /\ \/ \E b \in Answering(c, i) :
            /\ vector = b.vector
            /\ asserting' = IF b.roak THEN asserting \ {b} ELSE asserting
       \/ /\ Answering(c, i) = {}
          /\ vector = ANYVECTOR
          /\ UNCHANGED asserting
    /\ UNCHANGED <<asserts, irqen>>
    /\ DriverNotices

\* The register access that makes RORA boards release their lines.
Service(sel) ==
    /\ asserting' = {b \in asserting :
                        \/ b.roak
                        \/ ~hashmatch(sel, Concrete(b.crate, b.irq, b.vector))}
    /\ UNCHANGED <<asserts, irqen>>
    /\ DriverNotices

\* The daemon writes IRQEN.
WriteIrqen(new) ==
    /\ irqen' = new
    /\ UNCHANGED <<asserting, asserts>>
    /\ DriverNotices

\* read() on the interrupt device.
ReadFlag(c) ==
    /\ flag' = [flag EXCEPT ![c] = FALSE]
    /\ UNCHANGED <<asserting, asserts, irqen>>
===============================================================================
