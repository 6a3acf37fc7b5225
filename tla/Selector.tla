------------------------------- MODULE Selector -------------------------------
(***************************************************************************)
(* struct v120irqd_selector and the comparisons the interrupt vector table *)
(* makes between two of them.  The crate and irq bit masks are sets of bit *)
(* numbers, so that "all bits of r are set in s" reads r \subseteq s.      *)
(***************************************************************************)
EXTENDS Integers, FiniteSets

CONSTANTS
    Crates,     \* crate numbers a selector can name (0..15 in the code)
    Irqs,       \* bit numbers of the irq field (0..15 in the code)
    ANYIRQ,     \* the bits of irq that are VME interrupt lines (1..7)
    Vectors,    \* values of the 32-bit vector field
    ANYVECTOR,  \* the value that matches every vector, 0xFFFFFFFF
    Payloads    \* values of the payload field, opaque to the server

ASSUME SelectorAssumption ==
    /\ Crates \subseteq Nat /\ IsFiniteSet(Crates)
    /\ Irqs \subseteq Nat /\ IsFiniteSet(Irqs)
    /\ ANYIRQ \subseteq Irqs
    /\ Vectors \subseteq Nat
    /\ Payloads \subseteq Nat
    /\ {0, ANYVECTOR} \subseteq Vectors
    /\ 0 \in Payloads

v120irqd_selector ==
    [crate : SUBSET Crates, irq : SUBSET Irqs, vector : Vectors, payload : Payloads]

\* What memset(..., 0, ...) leaves in a selector.
ZeroSelector == [crate |-> {}, irq |-> {}, vector |-> 0, payload |-> 0]

\* One crate, one line and the vector read from the backplane.
Concrete(crate, irq, vector) ==
    [crate |-> {crate}, irq |-> {irq}, vector |-> vector, payload |-> 0]

(***************************************************************************)
(* The test of locate_interrupt: hashmatch, then the comparison of vectors *)
(* (which implies the vector part of hashmatch, since ANYVECTOR has every  *)
(* bit set).                                                               *)
(***************************************************************************)
hashmatch(sel, req) ==
    /\ req.crate \subseteq sel.crate
    /\ req.irq \subseteq sel.irq
    /\ sel.vector \in {ANYVECTOR, req.vector}

\* Mutated form of hasheq: the vectors are not compared.
hasheq_lines(sel, req) ==
    /\ sel.crate = req.crate
    /\ sel.irq = req.irq

\* Identity of two requests: the payload is not compared.
hasheq(sel, req) ==
    /\ sel.crate = req.crate
    /\ sel.irq = req.irq
    /\ sel.vector = req.vector

\* The fields register_interrupt accepts.
LegalRequest(req) ==
    /\ req.crate # {}
    /\ req.irq # {}
    /\ req.irq \subseteq ANYIRQ
===============================================================================
