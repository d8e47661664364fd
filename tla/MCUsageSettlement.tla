-------------------------- MODULE MCUsageSettlement --------------------------
(***************************************************************************)
(* Instances of UsageSettlement for TLC.                                   *)
(***************************************************************************)
EXTENDS UsageSettlement, TLC

CONSTANTS a1, k1, k2, r1, r2, r3, g1

Unbounded == [prepaid |-> TRUE, daily |-> NoLimit, weekly |-> NoLimit,
              lifetime |-> NoLimit, rpm |-> NoLimit, tpm |-> NoLimit,
              concurrency |-> NoLimit]
Unlimited == [Unbounded EXCEPT !.prepaid = FALSE]

\* Reservations of one key are interchangeable; no property of a run that uses
\* these symmetries is a liveness property.
ReservationSymmetry == Permutations(Reservations)
SecondKeySymmetry == Permutations({r2, r3})

OneKey   == [r \in Reservations |-> k1]
TwoKeys  == [r \in Reservations |-> IF r = r1 THEN k1 ELSE k2]
OneOwner == [k \in Keys |-> a1]

\* Budgets: a daily limit below the weekly one, below the lifetime one.
BudgetPolicies == {[Unbounded EXCEPT !.daily = 2, !.weekly = 3, !.lifetime = 4]}

\* Modes: an edit moves the key between a limited prepaid policy and the
\* unlimited one while it has reservations in flight.
ModePolicies == {[Unbounded EXCEPT !.rpm = 2, !.tpm = 3, !.concurrency = 2, !.lifetime = 3],
                 Unlimited}

=============================================================================
