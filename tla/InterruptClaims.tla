---------------------------- MODULE InterruptClaims ----------------------------
(***************************************************************************)
(* What the interrupt vector table promises, without its array: a list of  *)
(* claims in the order they were granted.  The list is what clients and    *)
(* the dispatcher observe: an interrupt goes to the first claim that       *)
(* matches it, a claim is granted unless an earlier one already matches    *)
(* everything it asks for, and only its holder can give a claim up.        *)
(***************************************************************************)
EXTENDS Selector, Ascending, Sequences, SequencesExt

CONSTANTS Clients, Requests

VARIABLE claims

Claim == [selector : v120irqd_selector, data : Clients]

Init == claims = <<>>

Matching(request) == {i \in DOMAIN claims : hashmatch(claims[i].selector, request)}

\* The recipient of an interrupt, 0 for nobody.
Recipient(request) ==
    IF Matching(request) = {} THEN 0 ELSE claims[Min(Matching(request))].data

Grant(c, request) ==
    /\ LegalRequest(request)
    /\ Matching(request) = {}
    /\ claims' = Append(claims, [selector |-> request, data |-> c])

\* Mutated form of Holding: the owner is not compared.
HoldingAnyone(c, request) ==
    {i \in DOMAIN claims : hasheq(claims[i].selector, request)}

\* The claims of c that are identical to request.
Holding(c, request) ==
    {i \in DOMAIN claims : claims[i].data = c /\ hasheq(claims[i].selector, request)}

GiveUp(c, request) ==
    \E i \in Holding(c, request) : claims' = RemoveAt(claims, i)

\* What the others hold stays, in the same order.
GiveUpAll(c) ==
    LET kept == {i \in DOMAIN claims : claims[i].data # c}
    IN  claims' = [k \in 1..Cardinality(kept) |-> claims[Ascending(kept)[k]]]

Clear == claims' = <<>>

Next ==
    \/ \E c \in Clients, r \in Requests : Grant(c, r) \/ GiveUp(c, r)
    \/ \E c \in Clients : GiveUpAll(c)
    \/ Clear

Spec == Init /\ [][Next]_claims
===============================================================================
