------------------------------- MODULE Basics -------------------------------
(***************************************************************************)
(* Python's sorted() and round(), as the analyses use them.                *)
(***************************************************************************)
EXTENDS Integers, FiniteSets

\* A set in order: x comes after those that are before it.
Sorted(S, before(_, _)) ==
    [i \in 1..Cardinality(S) |-> CHOOSE x \in S : Cardinality({y \in S : before(y, x)}) = i - 1]

\* The quotient n / m rounded, half to even; m is positive.
Round(n, m) ==
    LET q == n \div m
        twice == 2 * (n % m)
    IN IF twice > m \/ (twice = m /\ q % 2 = 1) THEN q + 1 ELSE q
=============================================================================
