---------------------------- MODULE MCEntitlements ----------------------------
(***************************************************************************)
(* Instances of Entitlements for TLC.                                      *)
(***************************************************************************)
EXTENDS Entitlements, TLC

CONSTANTS a1, k1, r1, r2, g1, s1, s2, n1, n2

Unbounded == [prepaid |-> TRUE, daily |-> NoLimit, weekly |-> NoLimit,
              lifetime |-> NoLimit, rpm |-> NoLimit, tpm |-> NoLimit,
              concurrency |-> NoLimit]
OnePolicy == {Unbounded}

OneOwner  == [k \in Keys |-> a1]
OneKey    == [r \in Reservations |-> k1]
OneHolder == [s \in Subscriptions |-> a1]

\* Cycles 1 and 2 are consecutive months of one subscription, cycle 3 belongs
\* to its replacement and ends with cycle 2.
ThreeCycles == 1 :> s1 @@ 2 :> s1 @@ 3 :> s2
Months == 1 :> [start |-> 0, end |-> 1] @@ 2 :> [start |-> 1, end |-> 2]
          @@ 3 :> [start |-> 0, end |-> 2]

\* Reservations of one key and namespaces are interchangeable.
RebateSymmetry == Permutations(Reservations) \cup Permutations(Namespaces)
=============================================================================
