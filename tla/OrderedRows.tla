------------------------------ MODULE OrderedRows ------------------------------
(***************************************************************************)
(* Rows in the order of their identifiers: ORDER BY and LIMIT.             *)
(***************************************************************************)
EXTENDS Integers, FiniteSets

\* ORDER BY: at place i stands the identifier that has i - 1 smaller ones.
Ascending(S) ==
    [i \in 1 .. Cardinality(S) |-> CHOOSE id \in S : Cardinality({x \in S : x <= id}) = i]

\* LIMIT: the rows that fewer than limit others come before.
Foremost(S, limit) == {x \in S : Cardinality({y \in S : y < x}) < limit}

Greatest(S) == CHOOSE x \in S : \A y \in S : y <= x
=============================================================================
