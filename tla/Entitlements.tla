----------------------------- MODULE Entitlements -----------------------------
(***************************************************************************)
(* Subscription credit on top of UsageSettlement:                          *)
(* src/db/billing/entitlements.rs, which funds, revokes and replaces the   *)
(* billing cycles that settlements draw from, and                          *)
(* src/db/billing/settlement_adjustments/, which rebates settled charges   *)
(* and hands the rebated part back to the cycles.                          *)
(*                                                                         *)
(* Every operation is one transaction under the account's row lock, so it  *)
(* is one action beside those of UsageSettlement.  A repeated              *)
(* Idempotency-Key replays the stored answer and changes nothing: a        *)
(* stuttering step.                                                        *)
(***************************************************************************)
EXTENDS UsageSettlement

CONSTANTS
  Subscriptions,  \* rows of subscription_entitlements
  SubAccount,     \* the stable credit account of a subscription
  CycleSub,       \* the subscription of a billing-cycle identity
  Period,         \* [start, end] of a billing-cycle identity
  Desired,        \* funding a reconciliation may ask for, in micros
  Namespaces,     \* namespaces that may rebate a settlement
  Rebates,        \* rebates a namespace may ask for, in micros
  MaxVersion      \* bound on the versions events carry

ASSUME SubscriptionAssumption ==
  /\ SubAccount \in [Subscriptions -> Accounts]
  /\ CycleSub \in [Cycles -> Subscriptions]
  /\ Period \in [Cycles -> [start : Nat, end : Nat]]
  /\ \A c \in Cycles : Period[c].start < Period[c].end
  /\ Desired \subseteq Nat /\ Rebates \subseteq Nat /\ MaxVersion \in Nat
  /\ IsFiniteSet(Namespaces)

VARIABLES
  sub,       \* subscription_entitlements
  rebate,    \* settlement_adjustment_states: desired rebate and its version
  baseline   \* settlement_adjustment_baselines: original entitlement funding

allVars == << vars, sub, rebate, baseline >>
rebateVars == << rebate, baseline >>

Versions == 1 .. MaxVersion
NoBaseline == -1

NoSub == [status |-> "none", version |-> 0, cycle |-> 0]
NoRebate == [desired |-> 0, version |-> 0]

EntitlementInit ==
  /\ Init
  /\ sub = [s \in Subscriptions |-> NoSub]
  /\ rebate = [r \in Reservations |-> [n \in Namespaces |-> NoRebate]]
  /\ baseline = [r \in Reservations |-> NoBaseline]

-----------------------------------------------------------------------------
\* adjust_entitlement_cycle.

\* Mutant: consumption is not kept.
FundingUnspent(c, desired, revoke) == IF revoke THEN 0 ELSE desired

\* What a cycle is funded with: consumption is kept, the rest revoked or
\* brought to the desired amount.
Funding(c, desired, revoke) ==
  IF revoke THEN cycle[c].consumed ELSE Larger(desired, cycle[c].consumed)

Adjusted(c, desired, status, revoke) ==
  [cycle[c] EXCEPT !.desired = desired, !.status = status,
                   !.funded = Funding(c, desired, revoke)]

Delta(c, desired, revoke) == Funding(c, desired, revoke) - cycle[c].funded

\* Mutant: credit is revoked whether or not it is still there.
AffordsAlways(balance, delta) == TRUE

\* The WHERE clause of the balance update.
Affords(balance, delta) == delta < 0 => balance >= -delta

\* The balance and the ledger move together.
Credit(a, amount) ==
  /\ available' = [available EXCEPT ![a] = @ + amount]
  /\ ledger' = [ledger EXCEPT ![a] = @ + amount]

\* `changed` cycles take their new row; which of a subscription's cycles is
\* current follows the subscription row.
WriteCycles(changed) ==
  cycle' = [c \in Cycles |->
              [IF c \in DOMAIN changed THEN changed[c] ELSE cycle[c]
                 EXCEPT !.current = /\ sub'[CycleSub[c]].status = "active"
                                    /\ sub'[CycleSub[c]].cycle = c]]

\* A new cycle row starts unfunded.
Opened(c, s, desired) ==
  [Adjusted(c, desired, "active", FALSE) EXCEPT
     !.account = SubAccount[s], !.start = Period[c].start, !.end = Period[c].end]

-----------------------------------------------------------------------------
\* Subscription events.

Stale(s, c) == {x \in Cycles : CycleSub[x] = s /\ x # c /\ cycle[x].status = "active"}

\* reconcile_entitlement_snapshot: revokes what is left of the subscription's
\* other active cycles, then funds the reported one.
Snapshot(s, c, desired, v) ==
  LET a       == SubAccount[s]
      stale   == Stale(s, c)
      revoked == SumFunctionOnSet([x \in Cycles |-> Delta(x, cycle[x].desired, TRUE)],
                                  stale)
      delta   == Delta(c, desired, FALSE)
  IN
  /\ CycleSub[c] = s
  /\ sub[s].status # "replaced" /\ v > sub[s].version
  /\ Affords(available[a], revoked)
  /\ Affords(available[a] + revoked, delta)
  /\ sub' = [sub EXCEPT ![s] = [status |-> "active", version |-> v, cycle |-> c]]
  /\ WriteCycles([x \in stale \cup {c} |->
                    IF x = c THEN Opened(c, s, desired)
                             ELSE Adjusted(x, cycle[x].desired, "expired", TRUE)])
  /\ Credit(a, revoked + delta)
  /\ UNCHANGED << now, admission, held, usage, budgetVars, res, rate,
                  usageEntries, outbox, grantVars, alloc, rebateVars >>

ReconcileEntitlement(s, c, desired, v) ==
  Snapshot(s, c, desired, v) /\ UNCHANGED policy

\* apply_cloud_entitlement: the same transaction replaces the key's policy.
ApplyCloudEntitlement(s, c, desired, v, k, p) ==
  /\ AccountOf[k] = SubAccount[s]
  /\ Snapshot(s, c, desired, v)
  /\ policy' = [policy EXCEPT ![k] = p]

\* cancel_entitlement_snapshot.
CancelEntitlement(s, v) ==
  LET c     == sub[s].cycle
      delta == Delta(c, cycle[c].desired, TRUE)
  IN
  /\ sub[s].status \in {"active", "cancelled"} /\ v > sub[s].version
  /\ Affords(available[SubAccount[s]], delta)
  /\ sub' = [sub EXCEPT ![s].status = "cancelled", ![s].version = v]
  /\ WriteCycles([x \in {c} |-> Adjusted(c, cycle[c].desired, "cancelled", TRUE)])
  /\ Credit(SubAccount[s], delta)
  /\ UNCHANGED << now, policy, admission, held, usage, budgetVars, res, rate,
                  usageEntries, outbox, grantVars, alloc, rebateVars >>

\* replace_entitlement_snapshot: a new subscription on the same account.
ReplaceEntitlement(s, v, t, c, desired, w) ==
  LET a     == SubAccount[s]
      old   == sub[s].cycle
      delta == Delta(old, cycle[old].desired, TRUE)
  IN
  /\ sub[s].status \in {"active", "cancelled"} /\ v > sub[s].version
  /\ SubAccount[t] = a /\ sub[t].status = "none" /\ CycleSub[c] = t
  /\ Affords(available[a], delta)
  /\ sub' = [sub EXCEPT ![s].status = "replaced", ![s].version = v,
                        ![t] = [status |-> "active", version |-> w, cycle |-> c]]
  /\ WriteCycles([x \in {old, c} |->
                    IF x = c THEN Opened(c, t, desired)
                             ELSE Adjusted(old, cycle[old].desired, "replaced", TRUE)])
  /\ Credit(a, delta + Delta(c, desired, FALSE))
  /\ UNCHANGED << now, policy, admission, held, usage, budgetVars, res, rate,
                  usageEntries, outbox, grantVars, alloc, rebateVars >>

-----------------------------------------------------------------------------
\* Rebates.

Allocated(r) == SumFunctionOnSet(alloc[r], Cycles)
Rebated(r) ==
  SumFunctionOnSet([n \in Namespaces |-> rebate[r][n].desired], Namespaces)

\* ensure_baseline: the entitlement funding of the first adjustment stays the
\* settlement's baseline.
Baseline(r) == IF baseline[r] = NoBaseline THEN Allocated(r) ELSE baseline[r]

\* Generic funding is rebated first, the excess goes back to the cycles.
TargetRollback(r, cumulative) ==
  Larger(cumulative - (res[r].actual - Baseline(r)), 0)

\* The walk over the allocations, last drawn first.
IsRollback(r, amount, back) ==
  /\ \A c \in Cycles : back[c] <= alloc[r][c]
  /\ \A c, d \in Cycles :
       DrawnBefore(c, d) /\ back[c] > 0 => back[d] = alloc[r][d]
  /\ SumFunctionOnSet(back, Cycles) = amount

\* Mutant: a cycle whose period is over gets its credit back.
RebatedFundingRestored(c, consumed) ==
  IF cycle[c].status = "active" THEN Larger(cycle[c].desired, consumed)
                                ELSE cycle[c].funded

\* A cycle that can still be drawn from keeps its desired funding; any other
\* loses what it no longer consumes.
RebatedFunding(c, consumed) ==
  IF cycle[c].status = "active" /\ cycle[c].end > now
  THEN Larger(cycle[c].desired, consumed) ELSE consumed

\* Mutant: allocations stay as they were settled.
GiveBackKeepsAllocation(r, back) == alloc

GiveBack(r, back) ==
  [alloc EXCEPT ![r] = [c \in Cycles |-> alloc[r][c] - back[c]]]

\* Mutant: the balance keeps the funding the cycles lose.
NetRebateGross(applied, reduction) == applied

NetRebate(applied, reduction) == applied - reduction

\* publish_settlement_row keeps metered charges out of the settlement feed.
InFeed(r) == Settled(r) /\ Prepaid(r)

\* reconcile_settlement_adjustment.
ReconcileAdjustment(r, n, desired, v) ==
  LET cumulative == Rebated(r) - rebate[r][n].desired + desired
      applied    == desired - rebate[r][n].desired
      rollback   == TargetRollback(r, cumulative) - (Baseline(r) - Allocated(r))
  IN
  /\ InFeed(r)
  /\ v > rebate[r][n].version /\ applied >= 0
  /\ cumulative <= res[r].actual
  /\ rollback >= 0
  /\ \E back \in [Cycles -> 0 .. rollback] :
       LET consumed  == [c \in Cycles |-> cycle[c].consumed - back[c]]
           touched   == {c \in Cycles : back[c] > 0}
           reduction == [c \in Cycles |-> IF c \in touched
                           THEN cycle[c].funded - RebatedFunding(c, consumed[c]) ELSE 0]
       IN
       /\ IsRollback(r, rollback, back)
       /\ \A c \in touched : consumed[c] >= 0 /\ reduction[c] >= 0
       /\ cycle' = [c \in Cycles |-> [cycle[c] EXCEPT !.consumed = consumed[c],
                                                      !.funded = @ - reduction[c]]]
       /\ alloc' = GiveBack(r, back)
       /\ Credit(Account(r), NetRebate(applied, SumFunctionOnSet(reduction, Cycles)))
  /\ rebate' = [rebate EXCEPT ![r][n] = [desired |-> desired, version |-> v]]
  /\ baseline' = [baseline EXCEPT ![r] = Baseline(r)]
  /\ UNCHANGED << now, policy, admission, held, usage, budgetVars, res, rate,
                  usageEntries, outbox, grantVars, sub >>

-----------------------------------------------------------------------------
SubscriptionEvent ==
  \E s \in Subscriptions, v \in Versions :
    \/ CancelEntitlement(s, v)
    \/ \E c \in Cycles, d \in Desired :
         \/ ReconcileEntitlement(s, c, d, v)
         \/ \E k \in Keys, p \in Policies : ApplyCloudEntitlement(s, c, d, v, k, p)
         \/ \E t \in Subscriptions, w \in Versions :
              ReplaceEntitlement(s, v, t, c, d, w)

Adjustment ==
  \E r \in Reservations, n \in Namespaces, d \in Rebates, v \in Versions :
    ReconcileAdjustment(r, n, d, v)

EntitlementNext ==
  \/ Next /\ UNCHANGED << sub, rebate, baseline >>
  \/ SubscriptionEvent
  \/ Adjustment

EntitlementSpec == EntitlementInit /\ [][EntitlementNext]_allVars

-----------------------------------------------------------------------------
\* Properties.

\* Nothing but a rebate takes an account below zero, or further below: holds,
\* charges and every revocation of credit stay within what is available
\* (delta_from_row refuses what "is no longer revocable").  A rebate may: its
\* net change is a signed difference that is only checked for overflow.
OnlyRebatesOverdraw ==
  [][\A a \in Accounts : available'[a] < 0 /\ available'[a] < available[a]
                           => rebate' # rebate]_allVars

\* Subscription rows agree with their cycles: at most the current cycle of an
\* active subscription is active, and the subscription's end is its cycle's.
\* A settlement reads the two tables together (LiveCycles).
SubscriptionsMatchCycles ==
  \A s \in Subscriptions :
    /\ sub[s].status # "none" => cycle[sub[s].cycle].status = sub[s].status
    /\ \A c \in Cycles : CycleSub[c] = s /\ cycle[c].status = "active"
                           => sub[s].status = "active" /\ sub[s].cycle = c

\* A cycle never owes more than it was given, and what it was given is what it
\* consumed unless it is active, however settlements, events and rebates
\* interleave: nothing of an ended, cancelled or replaced cycle stays spendable,
\* and only the current cycle of an active subscription is active.
FundingCoversConsumption ==
  /\ SubscriptionsMatchCycles
  /\ \A c \in Cycles :
       /\ cycle[c].consumed <= cycle[c].funded
       /\ cycle[c].status # "active" => cycle[c].funded = cycle[c].consumed
       /\ cycle[c].status = "active" /\ cycle[c].end > now
            => cycle[c].funded = Larger(cycle[c].desired, cycle[c].consumed)

\* Every namespace together, a rebate returns generic funding first and only
\* the excess to the cycles: what a settlement still draws from them is what it
\* drew at first or, if less, its net cost.
RebatesReturnGenericFirst ==
  \A r \in Reservations :
    baseline[r] # NoBaseline =>
      Allocated(r) = Smaller(baseline[r], res[r].actual - Rebated(r))

\* What a cycle has consumed is what settlements hold as allocations from it,
\* no settlement holds more than it cost, and a rebate takes it back in order.
ConsumptionIsAllocated ==
  /\ \A c \in Cycles : cycle[c].consumed =
       SumFunctionOnSet([r \in Reservations |-> alloc[r][c]], Reservations)
  /\ \A r \in Reservations : Allocated(r) <= res[r].actual - Rebated(r)
  /\ RebatesReturnGenericFirst

PrepaidCharge(r) == IF InFeed(r) THEN res[r].actual ELSE 0

\* The ledger of an account is what it was granted and funded with and rebated,
\* less what it was charged: neither revoking a cycle that settlements have
\* drawn from nor a rebate that shrinks its funding creates or loses credit.
CreditConserved ==
  \A a \in Accounts : ledger[a] =
      SumFunctionOnSet([g \in Grants |-> grant[g].amount],
        {g \in Grants : grant[g].status = "granted" /\ grant[g].account = a})
    + SumFunctionOnSet([c \in Cycles |-> cycle[c].funded],
        {c \in Cycles : cycle[c].account = a})
    + SumFunctionOnSet([r \in Reservations |-> Rebated(r) - PrepaidCharge(r)],
        {r \in Reservations : Account(r) = a})

\* "Returning prior consumption must never reactivate a cancelled or expired
\* right" (rollback_entitlement_tail): without a subscription event nothing
\* makes more of a lapsed cycle spendable, and time alone never does.
LapsedRightsStayLapsed ==
  [][sub' = sub =>
       \A c \in Cycles :
         cycle[c].status # "active" \/ cycle[c].end <= now
           => Remaining(c)' <= Remaining(c)]_allVars
=============================================================================
