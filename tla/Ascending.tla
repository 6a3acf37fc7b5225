------------------------------- MODULE Ascending -------------------------------
(***************************************************************************)
(* The order in which the code meets the members of a set of numbers when  *)
(* it walks an array or the crate numbers from the lowest up: what is      *)
(* opened crate by crate, or kept entry by entry, appears in this order.   *)
(***************************************************************************)
EXTENDS Integers, FiniteSets

\* The members of the finite set S, the lowest first.
Ascending(S) ==
    CHOOSE f \in [1..Cardinality(S) -> S] :
        \A i, j \in DOMAIN f : i < j => f[i] < f[j]
===============================================================================
