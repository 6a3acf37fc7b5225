------------------------------ MODULE MCV120irqd ------------------------------
(***************************************************************************)
(* The daemon with two crates and two clients, for TLC.                    *)
(***************************************************************************)
EXTENDS V120irqd

Sel(crates, i, vector) == [crate |-> crates, irq |-> i, vector |-> vector, payload |-> 7]

Board(c, i, v, roak) == [crate |-> c, irq |-> i, vector |-> v, roak |-> roak]

\* OneVector is one vector on two lines of crate 0; AnyVector is every vector on
\* them, so that it covers OneVector and shares its lines.
OneVector == Sel({0}, {1, 2}, 5)
AnyVector == Sel({0}, {1, 2}, 9)

\* Client 1 comes and goes with one claim and tries to release the claim of client
\* 2, which claims and fakes interrupts.
FreeAsks ==
    [c \in Clients |->
        IF c = 1 THEN {<<"request", OneVector>>, <<"release", OneVector>>,
                       <<"release", AnyVector>>}
                 ELSE {<<"request", AnyVector>>, <<"interrupt", OneVector>>}]

\* Two boards of crate 0 that differ in how they release their line; nobody asked
\* for the second when only OneVector is registered.
RoraBoard == Board(0, 1, 5, FALSE)
RoakBoard == Board(0, 2, 0, TRUE)
TwoLines == {RoraBoard, RoakBoard}

\* Clients that ask only while they have nothing registered: an interrupt can
\* never cross one of their calls.  Client 1 registers for sel, client 2 makes
\* other calls.
Careful(sel, calls) ==
    [c \in Clients |-> IF c = 1 THEN {<<"request", sel>>} ELSE calls \X {OneVector}]
CarefulOne == Careful(OneVector, {"status", "release", "interrupt"})
CarefulBoth == Careful(AnyVector, {"status", "interrupt"})

\* One request; two requests; a request and the fake of every line it covers.
OneRequest == [c \in Clients |-> {<<"request", OneVector>>}]
OtherLine == Sel({0}, {2}, 9)
TwoRequests == [c \in Clients |-> {<<"request", OneVector>>, <<"request", OtherLine>>}]
RequestAndFake ==
    [c \in Clients |-> {<<"request", AnyVector>>, <<"interrupt", AnyVector>>}]
===============================================================================
