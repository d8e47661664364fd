---------------------- MODULE TerminalProjectionProofs ----------------------
(***************************************************************************)
(* Proofs about TerminalProjection, for any workers and usages: the        *)
(* rollups, the account and the announcements hold a request exactly once. *)
(*                                                                         *)
(* AppliedOnce needs how the two outboxes share the posting: which rows    *)
(* exist at which stage of the settlement, that an unposted charge whose   *)
(* request has a final row is held by the bridge, and that a fact without  *)
(* its row acknowledged is the empty one of an unknown outcome.            *)
(***************************************************************************)
EXTENDS TerminalProjection, TLAPS

RowType == [basis : {"none", "unknown", "final"}, usage : UsageType,
            account : BOOLEAN, projected : BOOLEAN, lease : LeaseType]
MeteredType == [state : {"none", "waiting", "posted"}, lease : LeaseType]
FactType == [exists : BOOLEAN, cost : Nat, empty : BOOLEAN]
RollupType == [requests : 0..1, cost : Nat]

\* What each stage of the settlement has left in the outboxes.
StagesAreOrderly ==
    /\ settled = "reserved" => final = Unsettled /\ metered.state = "none"
    /\ settled # "reserved" => (metered.state = "none" <=> prepaid)
    /\ settled # "finished" => row.basis # "final" /\ ~direct /\ metered.state # "posted"
    /\ direct => fact = Displayed(final) /\ row.basis = "none"

\* A row by its basis: none, provisional or final.
RowsAreOrderly ==
    /\ row.basis = "none" => /\ ~row.projected /\ row.lease.by = Nobody /\ ~row.lease.live
                             /\ fact.exists => direct
    /\ row.basis = "unknown" => /\ row.usage = Unsettled /\ row.account
                                /\ registered /\ settled = "reserved"
    /\ row.basis = "final" => row.usage = final /\ (row.account <=> metered.state # "waiting")
    /\ row.projected => row.account

\* The finish has taken an unposted charge away from the metered workers.
BridgeHolds ==
    row.basis = "final" /\ metered.state = "waiting" =>
        metered.lease.by = Bridge /\ metered.lease.live

\* The inductive invariant.
IInv == AppliedOnce /\ StagesAreOrderly /\ RowsAreOrderly /\ BridgeHolds

-----------------------------------------------------------------------------
\* The type invariant, table by table.
LEMMA TypeParts ==
    TypeOK <=>
    /\ settled \in {"reserved", "settled", "finished"}
    /\ registered \in BOOLEAN /\ prepaid \in BOOLEAN /\ direct \in BOOLEAN
    /\ final \in UsageType /\ row \in RowType /\ metered \in MeteredType
    /\ fact \in FactType /\ rollup \in RollupType
    /\ usage \in Nat /\ events \in Nat
    /\ worker \in [Workers -> {"idle", "account", "statistics", "metered"}]
BY DEF TypeOK, RowType, MeteredType, FactType, RollupType

\* The empty rows are well-typed and the names differ.
LEMMA Constants ==
    /\ NoLease \in LeaseType /\ NoLease.by = Nobody /\ ~NoLease.live
    /\ Unsettled \in UsageType /\ Unsettled.cost = 0 /\ Unsettled.shown = 0
    /\ Nobody # Bridge
    /\ \A w \in Workers : /\ Lease(w) \in LeaseType /\ Lease(w).by = w /\ Lease(w).live
                          /\ w # Nobody /\ w # Bridge
<1>1. Nobody # Bridge /\ \A w \in Workers : w # Nobody /\ w # Bridge
  BY WorkersAssumption DEF Nobody, Bridge
<1>2. NoLease \in LeaseType /\ NoLease.by = Nobody /\ ~NoLease.live
  BY DEF NoLease, LeaseType
<1>3. Unsettled \in UsageType /\ Unsettled.cost = 0 /\ Unsettled.shown = 0
  BY DEF Unsettled, UsageType
<1>4. \A w \in Workers : Lease(w) \in LeaseType /\ Lease(w).by = w /\ Lease(w).live
  BY DEF Lease, LeaseType
<1> QED
  BY <1>1, <1>2, <1>3, <1>4

\* The statistics fact a usage is shown as.
LEMMA DisplayedFacts ==
    ASSUME NEW u \in UsageType
    PROVE  /\ Displayed(u) \in FactType /\ Displayed(u).exists /\ Displayed(u).cost = u.shown
           /\ u.cost \in Nat /\ u.shown \in Nat
BY DEF Displayed, FactType, UsageType

\* The invariant holds at first.
LEMMA IInit == Init => IInv
<1> SUFFICES ASSUME Init PROVE IInv
  OBVIOUS
<1> USE Constants
<1>1. row \in RowType /\ row.basis = "none" /\ row.lease = NoLease
  BY DEF Init, NoRow, RowType
<1>2. ~row.projected
  BY DEF Init, NoRow
<1>3. metered \in MeteredType /\ metered.state = "none"
  BY DEF Init, NoMetered, MeteredType
<1>4. fact \in FactType /\ ~fact.exists
  BY DEF Init, NoFact, FactType
<1>5. /\ settled = "reserved" /\ registered \in BOOLEAN /\ prepaid \in BOOLEAN
      /\ final = Unsettled /\ direct = FALSE /\ usage = 0 /\ events = 0
      /\ rollup = [requests |-> 0, cost |-> 0] /\ rollup \in RollupType
      /\ worker \in [Workers -> {"idle", "account", "statistics", "metered"}]
  BY DEF Init, RollupType
<1>6. TypeOK
  BY <1>1, <1>3, <1>4, <1>5, TypeParts
<1>7. RollupsMatchFact /\ UsagePostedOnce /\ AnnouncedOnce /\ AcknowledgedRowsAreShown
  BY <1>2, <1>4, <1>5 DEF RollupsMatchFact, UsagePostedOnce, AnnouncedOnce,
                          AcknowledgedRowsAreShown
<1> QED
  BY <1>1, <1>2, <1>3, <1>4, <1>5, <1>6, <1>7
  DEF IInv, AppliedOnce, StagesAreOrderly, RowsAreOrderly, BridgeHolds

-----------------------------------------------------------------------------
(* One step per action.                                                    *)

\* Leases and the workers' own state carry none of the invariant, unless the
\* bridge's lease is touched.
LEMMA Frame ==
    ASSUME IInv, row' \in RowType, metered' \in MeteredType,
           worker' \in [Workers -> {"idle", "account", "statistics", "metered"}],
           row'.basis = row.basis, row'.usage = row.usage, row'.account = row.account,
           row'.projected = row.projected, metered'.state = metered.state,
           row.basis = "none" => row'.lease = row.lease,
           metered'.lease = metered.lease \/ ~(metered.lease.by = Bridge /\ metered.lease.live),
           UNCHANGED <<settlementVars, readVars, usage>>
    PROVE  IInv'
<1>1. TypeOK'
  BY TypeParts DEF IInv, AppliedOnce, TypeOK, RowType, MeteredType, settlementVars, readVars
<1>2. RollupsMatchFact' /\ UsagePostedOnce' /\ AnnouncedOnce'
  BY DEF IInv, AppliedOnce, RollupsMatchFact, UsagePostedOnce, AnnouncedOnce, settlementVars,
         readVars
<1>3. AcknowledgedRowsAreShown'
  BY DEF IInv, AppliedOnce, AcknowledgedRowsAreShown, settlementVars, readVars, Displayed
<1>4. StagesAreOrderly'
  BY DEF IInv, StagesAreOrderly, settlementVars, readVars, Displayed
<1>5. RowsAreOrderly'
  BY DEF IInv, RowsAreOrderly, settlementVars, readVars
<1>6. BridgeHolds'
  BY DEF IInv, BridgeHolds
<1> QED
  BY <1>1, <1>2, <1>3, <1>4, <1>5, <1>6 DEF IInv, AppliedOnce

\* Claims, ends of batches and lapses of leases apply nothing.
LEMMA ILeases ==
    ASSUME IInv,
           \/ LeaseExpires
           \/ \E w \in Workers : ClaimTerminal(w) \/ ClaimMetered(w) \/ BatchEnds(w)
    PROVE  IInv'
<1>t. /\ row \in RowType /\ metered \in MeteredType
      /\ worker \in [Workers -> {"idle", "account", "statistics", "metered"}]
      /\ row.lease \in LeaseType /\ metered.lease \in LeaseType
  BY TypeParts DEF IInv, AppliedOnce, RowType, MeteredType
<1> DEFINE Leased(l) == /\ row' = [row EXCEPT !.lease = l] /\ row.basis # "none"
                        /\ UNCHANGED metered
           MeteredLeased(l) == /\ metered' = [metered EXCEPT !.lease = l]
                               /\ ~(metered.lease.by = Bridge /\ metered.lease.live)
                               /\ UNCHANGED row
<1>1. ASSUME NEW l \in LeaseType, Leased(l)
      PROVE  /\ row' \in RowType /\ row'.basis = row.basis /\ row'.usage = row.usage
             /\ row'.account = row.account /\ row'.projected = row.projected
  BY <1>1, <1>t DEF RowType
<1>2. ASSUME NEW l \in LeaseType, MeteredLeased(l)
      PROVE  metered' \in MeteredType /\ metered'.state = metered.state
  BY <1>2, <1>t DEF MeteredType
<1>3. CASE LeaseExpires
  <2>1. /\ UNCHANGED <<settlementVars, readVars, usage, worker>>
        /\ \/ Leased([by |-> row.lease.by, live |-> FALSE])
           \/ MeteredLeased([by |-> metered.lease.by, live |-> FALSE])
    BY <1>3, Zenon DEF LeaseExpires, IInv, RowsAreOrderly
  <2>2. /\ [by |-> row.lease.by, live |-> FALSE] \in LeaseType
        /\ [by |-> metered.lease.by, live |-> FALSE] \in LeaseType
    BY <1>t DEF LeaseType
  <2> QED
    BY <1>1, <1>2, <1>t, <2>1, <2>2, Frame
<1>4. ASSUME NEW w \in Workers, ClaimTerminal(w)
      PROVE  IInv'
  <2>1. /\ UNCHANGED <<settlementVars, metered, readVars, usage>> /\ Leased(Lease(w))
        /\ worker' \in [Workers -> {"idle", "account", "statistics", "metered"}]
    BY <1>4, <1>t DEF ClaimTerminal
  <2> QED
    BY <1>1, <1>t, <2>1, Constants, Frame
<1>5. ASSUME NEW w \in Workers, ClaimMetered(w)
      PROVE  IInv'
  <2>1. /\ UNCHANGED <<settlementVars, row, readVars, usage>> /\ MeteredLeased(Lease(w))
        /\ worker' \in [Workers -> {"idle", "account", "statistics", "metered"}]
    BY <1>5, <1>t DEF ClaimMetered
  <2> QED
    BY <1>2, <1>t, <2>1, Constants, Frame
<1>6. ASSUME NEW w \in Workers, BatchEnds(w)
      PROVE  IInv'
  <2>1. /\ UNCHANGED <<settlementVars, row, metered, readVars, usage>>
        /\ worker' \in [Workers -> {"idle", "account", "statistics", "metered"}]
    BY <1>6, <1>t DEF BatchEnds
  <2> QED
    BY <1>t, <2>1, Frame
<1> QED
  BY <1>3, <1>4, <1>5, <1>6

\* What the types say of the fields the steps compute with.
LEMMA TypeFacts ==
    ASSUME IInv
    PROVE  /\ row \in RowType /\ metered \in MeteredType /\ fact \in FactType
           /\ rollup \in RollupType /\ final \in UsageType /\ row.usage \in UsageType
           /\ usage \in Nat /\ events \in Nat /\ row.lease \in LeaseType
           /\ settled \in {"reserved", "settled", "finished"}
           /\ registered \in BOOLEAN /\ prepaid \in BOOLEAN /\ direct \in BOOLEAN
           /\ worker \in [Workers -> {"idle", "account", "statistics", "metered"}]
BY TypeParts DEF IInv, AppliedOnce, RowType

\* An acknowledged metered row is posted.
LEMMA AcknowledgedFacts == Acknowledged \in MeteredType /\ Acknowledged.state = "posted"
BY Constants DEF Acknowledged, MeteredType

\* The account stage of a projection.
LEMMA IAccount ==
    ASSUME IInv, NEW w \in Workers, ProjectAccount(w)
    PROVE  IInv'
<1>t. /\ row \in RowType /\ metered \in MeteredType /\ final.cost \in Nat
      /\ worker' \in [Workers -> {"idle", "account", "statistics", "metered"}]
  BY TypeFacts, DisplayedFacts DEF ProjectAccount
<1>u. UNCHANGED <<settlementVars, readVars>> /\ ~row.projected /\ row.lease = Lease(w)
  BY DEF ProjectAccount, OwnsRow
<1>1. CASE row.account
  <2>1. UNCHANGED <<usage, metered, row>>
    BY <1>1 DEF ProjectAccount
  <2> QED
    BY <1>t, <1>u, <2>1, Frame
<1>2. CASE ~row.account
  <2>1. /\ metered.state = "waiting" /\ row.usage.cost = final.cost
        /\ usage' = usage + row.usage.cost /\ metered' = Acknowledged
        /\ row' = [row EXCEPT !.account = TRUE]
    BY <1>2 DEF ProjectAccount
  <2>2. row.basis = "final"
    BY <1>2, <1>u, Constants, TypeFacts DEF IInv, RowsAreOrderly, RowType
  <2>3. /\ row' \in RowType /\ row'.basis = row.basis /\ row'.usage = row.usage
        /\ row'.lease = row.lease
    BY <1>t, <2>1 DEF RowType
  <2>4. row'.account /\ ~row'.projected
    BY <1>t, <1>u, <2>1, Zenon DEF RowType
  <2>5. metered' \in MeteredType /\ metered'.state = "posted"
    BY <2>1, AcknowledgedFacts
  <2>6. settled = "finished" /\ ~prepaid /\ ~direct
    BY <2>1, <2>2, TypeFacts DEF IInv, StagesAreOrderly
  <2>7. usage = 0 /\ usage' = final.cost
    BY <1>t, <2>1, <2>6 DEF IInv, AppliedOnce, UsagePostedOnce
  <2>8. TypeOK'
    BY <1>t, <1>u, <2>3, <2>5, <2>7, TypeFacts
    DEF TypeOK, RowType, MeteredType, FactType, RollupType, settlementVars, readVars
  <2>9. RollupsMatchFact' /\ UsagePostedOnce' /\ AnnouncedOnce' /\ AcknowledgedRowsAreShown'
    BY <1>u, <2>4, <2>5, <2>6, <2>7
    DEF IInv, AppliedOnce, RollupsMatchFact, UsagePostedOnce, AnnouncedOnce,
        AcknowledgedRowsAreShown, settlementVars, readVars
  <2>10. StagesAreOrderly' /\ RowsAreOrderly' /\ BridgeHolds'
    BY <1>u, <2>2, <2>3, <2>4, <2>5, <2>6
    DEF IInv, StagesAreOrderly, RowsAreOrderly, BridgeHolds, settlementVars, readVars, Displayed
  <2> QED
    BY <2>8, <2>9, <2>10 DEF IInv, AppliedOnce
<1> QED
  BY <1>1, <1>2

\* The statistics stage of a projection.
LEMMA IStatistics ==
    ASSUME IInv, NEW w \in Workers, ProjectStatistics(w)
    PROVE  IInv'
<1>t. /\ row \in RowType /\ row.usage \in UsageType /\ row.usage.shown \in Nat
      /\ fact \in FactType /\ rollup \in RollupType
      /\ worker' \in [Workers -> {"idle", "account", "statistics", "metered"}]
  BY TypeFacts, DisplayedFacts DEF ProjectStatistics
<1>u. /\ UNCHANGED <<settlementVars, metered, usage>> /\ row.lease = Lease(w) /\ row.account
      /\ fact' = Displayed(row.usage) /\ rollup' = Replaced(row.usage) /\ events' = Announced
      /\ row' = [row EXCEPT !.projected = TRUE, !.lease = NoLease]
  BY DEF ProjectStatistics, OwnsRow
<1>1. row.basis # "none" /\ ~direct
  BY <1>u, Constants DEF IInv, RowsAreOrderly, StagesAreOrderly
<1>2. /\ row' \in RowType /\ row'.basis = row.basis /\ row'.usage = row.usage
  BY <1>t, <1>u, Constants DEF RowType
<1>3. row'.account = row.account /\ row'.projected
  BY <1>t, <1>u, Zenon DEF RowType
<1>4. fact' \in FactType /\ fact'.exists /\ fact'.cost = row.usage.shown
  BY <1>t, <1>u, DisplayedFacts
<1>5. rollup = IF fact.exists THEN [requests |-> 1, cost |-> fact.cost]
                              ELSE [requests |-> 0, cost |-> 0]
  BY <1>1 DEF IInv, AppliedOnce, RollupsMatchFact
<1>6. rollup' = [requests |-> 1, cost |-> row.usage.shown] /\ rollup' \in RollupType
  <2>1. fact.cost \in Nat
    BY <1>t DEF FactType
  <2> QED
    BY <1>t, <1>u, <1>5, <2>1 DEF Replaced, RollupType
<1>7. events' = 1
  BY <1>u DEF Announced, IInv, AppliedOnce, AnnouncedOnce
<1>8. TypeOK'
  BY <1>t, <1>u, <1>2, <1>4, <1>6, <1>7, TypeFacts
  DEF TypeOK, RowType, MeteredType, FactType, RollupType, settlementVars
<1>9. RollupsMatchFact' /\ UsagePostedOnce' /\ AnnouncedOnce'
  BY <1>1, <1>u, <1>4, <1>6, <1>7
  DEF IInv, AppliedOnce, RollupsMatchFact, UsagePostedOnce, AnnouncedOnce, settlementVars
<1>10. AcknowledgedRowsAreShown'
  <2>1. fact' = Displayed(row'.usage)
    BY <1>2, <1>u
  <2>2. ASSUME row.basis = "final" PROVE row.usage = final /\ usage = final.cost
    <3>1. row.usage = final /\ metered.state # "waiting" /\ settled = "finished"
      BY <2>2, <1>u, TypeFacts DEF IInv, RowsAreOrderly, StagesAreOrderly
    <3>2. prepaid \/ metered.state = "posted"
      BY <3>1, TypeFacts DEF IInv, StagesAreOrderly, MeteredType
    <3> QED
      BY <3>1, <3>2 DEF IInv, AppliedOnce, UsagePostedOnce
  <2> QED
    BY <1>u, <1>2, <1>3, <2>1, <2>2 DEF AcknowledgedRowsAreShown, settlementVars, Displayed
<1>11. StagesAreOrderly' /\ RowsAreOrderly' /\ BridgeHolds'
  BY <1>u, <1>1, <1>2, <1>3 DEF IInv, StagesAreOrderly, RowsAreOrderly, BridgeHolds, settlementVars
<1> QED
  BY <1>8, <1>9, <1>10, <1>11 DEF IInv, AppliedOnce

\* The projection of a metered row.
LEMMA IMetered ==
    ASSUME IInv, NEW w \in Workers, ProjectMetered(w)
    PROVE  IInv'
<1>t. /\ worker' \in [Workers -> {"idle", "account", "statistics", "metered"}]
      /\ final \in UsageType /\ final.cost \in Nat /\ final.shown \in Nat
  BY TypeFacts, DisplayedFacts DEF ProjectMetered
<1>u. /\ UNCHANGED <<settlementVars, row, fact, events>> /\ metered.state = "waiting"
      /\ metered.lease = Lease(w) /\ usage' = usage + final.cost /\ metered' = Acknowledged
  BY DEF ProjectMetered
<1>1. row.basis = "none"
  <2>1. row.basis # "final"
    BY <1>u, Constants DEF IInv, BridgeHolds
  <2>2. row.basis # "unknown"
    BY <1>u DEF IInv, RowsAreOrderly, StagesAreOrderly
  <2> QED
    BY <2>1, <2>2, TypeFacts DEF RowType
<1>2. /\ fact = Displayed(final)
      /\ rollup' = [requests |-> rollup.requests + 1, cost |-> rollup.cost + fact.cost]
  BY <1>1 DEF ProjectMetered
<1>3. fact.exists /\ fact.cost = final.shown /\ direct
  BY <1>1, <1>2, <1>t, DisplayedFacts DEF IInv, RowsAreOrderly
<1>4. settled = "finished" /\ ~prepaid /\ usage = 0
  BY <1>u, <1>3, TypeFacts DEF IInv, StagesAreOrderly, AppliedOnce, UsagePostedOnce
<1>5. rollup = [requests |-> 0, cost |-> 0]
  BY <1>u, <1>3, <1>4 DEF IInv, AppliedOnce, RollupsMatchFact
<1>6. rollup' = [requests |-> 1, cost |-> fact.cost] /\ rollup' \in RollupType
  BY <1>2, <1>3, <1>5, <1>t DEF RollupType
<1>7. metered' \in MeteredType /\ metered'.state = "posted" /\ usage' = final.cost
  BY <1>u, <1>t, <1>4, AcknowledgedFacts
<1>8. TypeOK'
  BY <1>t, <1>u, <1>6, <1>7, TypeFacts
  DEF TypeOK, RowType, MeteredType, FactType, RollupType, settlementVars
<1>9. ~row.projected
  BY <1>1 DEF IInv, RowsAreOrderly
<1>10. RollupsMatchFact' /\ UsagePostedOnce' /\ AnnouncedOnce' /\ AcknowledgedRowsAreShown'
  BY <1>u, <1>3, <1>4, <1>6, <1>7, <1>9
  DEF IInv, AppliedOnce, RollupsMatchFact, UsagePostedOnce, AnnouncedOnce,
      AcknowledgedRowsAreShown, settlementVars
<1>11. StagesAreOrderly' /\ RowsAreOrderly' /\ BridgeHolds'
  BY <1>u, <1>1, <1>4, <1>7
  DEF IInv, StagesAreOrderly, RowsAreOrderly, BridgeHolds, settlementVars, Displayed
<1> QED
  BY <1>8, <1>10, <1>11 DEF IInv, AppliedOnce

\* A terminal of unknown usage is queued.
LEMMA IUnknown == ASSUME IInv, EnqueueUnknown PROVE IInv'
<1> DEFINE new == [basis |-> "unknown", usage |-> Unsettled, account |-> TRUE,
                   projected |-> FALSE, lease |-> NoLease]
<1>1. /\ new \in RowType /\ new.basis = "unknown" /\ new.usage = Unsettled
  BY Constants DEF RowType
<1>2. new.account /\ ~new.projected
  OBVIOUS
<1>3. /\ row' = new /\ settled = "reserved" /\ registered /\ row.basis = "none"
      /\ UNCHANGED <<settlementVars, metered, readVars, usage, worker>>
  BY DEF EnqueueUnknown
<1> HIDE DEF new
<1>4. TypeOK'
  BY <1>1, <1>3, TypeFacts
  DEF TypeOK, RowType, MeteredType, FactType, RollupType, settlementVars, readVars
<1>5. RollupsMatchFact' /\ UsagePostedOnce' /\ AnnouncedOnce' /\ AcknowledgedRowsAreShown'
  BY <1>2, <1>3
  DEF IInv, AppliedOnce, RollupsMatchFact, UsagePostedOnce, AnnouncedOnce,
      AcknowledgedRowsAreShown, settlementVars, readVars
<1>6. StagesAreOrderly' /\ RowsAreOrderly' /\ BridgeHolds'
  BY <1>1, <1>2, <1>3
  DEF IInv, StagesAreOrderly, RowsAreOrderly, BridgeHolds, settlementVars, readVars
<1> QED
  BY <1>4, <1>5, <1>6 DEF IInv, AppliedOnce

\* A metered row waits when it is written.
LEMMA SettledMeteredFacts ==
    SettledMetered \in MeteredType /\ SettledMetered.state = "waiting"
BY Constants DEF SettledMetered, MeteredType

\* The settlement itself: a prepaid charge is posted with it.
LEMMA PostFacts ==
    ASSUME IInv, NEW u \in Usages, settled = "reserved", Post(u)
    PROVE  usage = 0 /\ usage' \in Nat /\ usage' = IF prepaid THEN u.cost ELSE 0
<1>1. u.cost \in Nat /\ usage = 0
  BY UsagesAssumption DEF IInv, AppliedOnce, UsagePostedOnce
<1> QED
  BY <1>1 DEF Post

\* Settlement apart from the terminal.
LEMMA ISplit == ASSUME IInv, NEW u \in Usages, SplitSettle(u) PROVE IInv'
<1>1. /\ settled = "reserved" /\ ~registered /\ settled' = "settled" /\ final' = u /\ Post(u)
      /\ metered' = IF prepaid THEN metered ELSE SettledMetered
      /\ UNCHANGED <<registered, prepaid, direct, row, readVars, worker>>
  BY DEF SplitSettle
<1>2. u \in UsageType
  BY UsagesAssumption DEF UsageType
<1>3. metered.state = "none" /\ row.basis = "none" /\ ~direct
  BY <1>1, TypeFacts DEF IInv, StagesAreOrderly, RowsAreOrderly, RowType
<1>4. /\ metered' \in MeteredType /\ (metered'.state = "none" <=> prepaid)
      /\ metered'.state # "posted"
  BY <1>1, <1>3, SettledMeteredFacts, TypeFacts
<1>5. usage' \in Nat /\ usage' = IF prepaid THEN u.cost ELSE 0
  BY <1>1, PostFacts
<1>6. TypeOK'
  BY <1>1, <1>2, <1>4, <1>5, TypeFacts
  DEF TypeOK, RowType, MeteredType, FactType, RollupType, readVars
<1>7. RollupsMatchFact' /\ UsagePostedOnce' /\ AnnouncedOnce' /\ AcknowledgedRowsAreShown'
  BY <1>1, <1>3, <1>4, <1>5
  DEF IInv, AppliedOnce, RollupsMatchFact, UsagePostedOnce, AnnouncedOnce, RowsAreOrderly,
      AcknowledgedRowsAreShown, readVars
<1>8. StagesAreOrderly' /\ RowsAreOrderly' /\ BridgeHolds'
  BY <1>1, <1>3, <1>4 DEF IInv, StagesAreOrderly, RowsAreOrderly, BridgeHolds, readVars
<1> QED
  BY <1>6, <1>7, <1>8 DEF IInv, AppliedOnce

\* What a finish knows of the outboxes before it.
LEMMA BeforeFinish ==
    ASSUME IInv, settled # "finished"
    PROVE  /\ row.basis # "final" /\ ~direct /\ metered.state # "posted"
           /\ settled = "reserved" => metered.state = "none" /\ usage = 0
           /\ settled = "settled" => /\ metered.state = "none" <=> prepaid
                                     /\ usage = IF prepaid THEN final.cost ELSE 0
           /\ settled = "reserved" \/ settled = "settled"
BY TypeFacts DEF IInv, StagesAreOrderly, AppliedOnce, UsagePostedOnce

\* Settlement and terminal in one transaction, projection later.
LEMMA IDeferred == ASSUME IInv, NEW u \in Usages, FinishDeferred(u) PROVE IInv'
<1> DEFINE m == IF settled = "reserved" /\ ~prepaid THEN SettledMetered ELSE metered
<1>1. /\ settled # "finished" /\ (settled = "settled" => u = final)
      /\ row' = FinalRow(u, m) /\ metered' = TakenOver(m)
      /\ IF settled = "reserved" THEN Post(u) ELSE usage' = usage
      /\ settled' = "finished" /\ final' = u
      /\ UNCHANGED <<registered, prepaid, direct, readVars, worker>>
  BY DEF FinishDeferred
<1>2. u \in UsageType /\ u.cost \in Nat
  BY UsagesAssumption DEF UsageType
<1>3. /\ m \in MeteredType /\ m.state # "posted" /\ (m.state = "none" <=> prepaid)
  BY <1>1, BeforeFinish, SettledMeteredFacts, TypeFacts
<1> HIDE DEF m
<1>4. /\ metered' \in MeteredType /\ metered'.state = m.state
      /\ m.state = "waiting" => metered'.lease.by = Bridge /\ metered'.lease.live
  <2>1. [by |-> Bridge, live |-> TRUE] \in LeaseType
    BY DEF LeaseType
  <2> QED
    BY <1>1, <1>3, <2>1 DEF TakenOver, MeteredType
<1>5. row' \in RowType /\ row'.basis = "final" /\ row'.usage = u
  <2>1. (prepaid \/ m.state = "posted") \in BOOLEAN
    BY TypeFacts
  <2> QED
    BY <1>1, <1>2, <2>1, Constants DEF FinalRow, RowType
<1>6. ~row'.projected /\ (row'.account <=> prepaid \/ m.state = "posted")
  BY <1>1 DEF FinalRow
<1>7. row'.account <=> metered'.state # "waiting"
  BY <1>3, <1>4, <1>6 DEF MeteredType
<1>8. usage' \in Nat /\ usage' = IF prepaid THEN u.cost ELSE 0
  BY <1>1, <1>2, BeforeFinish, PostFacts, TypeFacts
<1>9. TypeOK'
  BY <1>1, <1>2, <1>4, <1>5, <1>8, TypeFacts
  DEF TypeOK, RowType, MeteredType, FactType, RollupType, readVars
<1>10. RollupsMatchFact' /\ UsagePostedOnce' /\ AnnouncedOnce' /\ AcknowledgedRowsAreShown'
  BY <1>1, <1>3, <1>4, <1>6, <1>8, BeforeFinish
  DEF IInv, AppliedOnce, RollupsMatchFact, UsagePostedOnce, AnnouncedOnce,
      AcknowledgedRowsAreShown, readVars
<1>11. StagesAreOrderly' /\ RowsAreOrderly' /\ BridgeHolds'
  BY <1>1, <1>3, <1>4, <1>5, <1>6, <1>7, BeforeFinish
  DEF StagesAreOrderly, RowsAreOrderly, BridgeHolds
<1> QED
  BY <1>9, <1>10, <1>11 DEF IInv, AppliedOnce

\* Settlement, terminal and projection in one transaction.
LEMMA IDirect == ASSUME IInv, NEW u \in Usages, FinishDirect(u) PROVE IInv'
<1>1. /\ settled # "finished" /\ ~registered /\ (settled = "settled" => u = final)
      /\ fact' = Displayed(u) /\ rollup' = Aggregated(u) /\ events' = events + 1
      /\ metered' = IF settled = "reserved" /\ ~prepaid THEN SettledMetered ELSE metered
      /\ IF settled = "reserved" THEN Post(u) ELSE usage' = usage
      /\ settled' = "finished" /\ final' = u /\ direct' = TRUE
      /\ UNCHANGED <<registered, prepaid, row, worker>>
  BY DEF FinishDirect
<1>2. u \in UsageType /\ u.cost \in Nat /\ u.shown \in Nat
  BY UsagesAssumption DEF UsageType
<1>3. row.basis = "none" /\ ~fact.exists /\ ~row.projected
  BY <1>1, BeforeFinish, TypeFacts DEF IInv, RowsAreOrderly, RowType
<1>4. events = 0 /\ rollup = [requests |-> 0, cost |-> 0]
  BY <1>3 DEF IInv, AppliedOnce, AnnouncedOnce, RollupsMatchFact
<1>5. /\ metered' \in MeteredType /\ metered'.state # "posted"
      /\ metered'.state = "none" <=> prepaid
  BY <1>1, BeforeFinish, SettledMeteredFacts, TypeFacts
<1>6. usage' \in Nat /\ usage' = IF prepaid THEN u.cost ELSE 0
  BY <1>1, <1>2, BeforeFinish, PostFacts, TypeFacts
<1>7. fact' \in FactType /\ fact'.exists /\ fact'.cost = u.shown
  BY <1>1, <1>2, DisplayedFacts
<1>8. /\ rollup' = IF prepaid THEN [requests |-> 1, cost |-> u.shown]
                              ELSE [requests |-> 0, cost |-> 0]
      /\ rollup' \in RollupType
  BY <1>1, <1>2, <1>4 DEF Aggregated, RollupType
<1>9. TypeOK'
  BY <1>1, <1>2, <1>4, <1>5, <1>6, <1>7, <1>8, TypeFacts
  DEF TypeOK, RowType, MeteredType, FactType, RollupType
<1>10. RollupsMatchFact' /\ UsagePostedOnce' /\ AnnouncedOnce' /\ AcknowledgedRowsAreShown'
  BY <1>1, <1>3, <1>4, <1>5, <1>6, <1>7, <1>8
  DEF RollupsMatchFact, UsagePostedOnce, AnnouncedOnce, AcknowledgedRowsAreShown
<1>11. StagesAreOrderly' /\ RowsAreOrderly' /\ BridgeHolds'
  BY <1>1, <1>3, <1>5 DEF IInv, StagesAreOrderly, RowsAreOrderly, BridgeHolds, Displayed
<1> QED
  BY <1>9, <1>10, <1>11 DEF IInv, AppliedOnce

\* Every step keeps the invariant.
LEMMA INext == IInv /\ [ProjectionNext]_vars => IInv'
<1> SUFFICES ASSUME IInv, [ProjectionNext]_vars PROVE IInv'
  OBVIOUS
<1>1. CASE UNCHANGED vars
  BY <1>1, Frame, TypeFacts DEF vars
<1>2. CASE ProjectionNext
  BY <1>2, IUnknown, ISplit, IDeferred, IDirect, IAccount, IStatistics, IMetered, ILeases
  DEF ProjectionNext, WorkerStep
<1> QED
  BY <1>1, <1>2

\* For any workers and usages: rollups, account and announcements hold the
\* request exactly once and as its acknowledged row says, whichever workers
\* claim, lose and repeat its projection, through either outbox.
THEOREM ProjectedOnce == Spec => []AppliedOnce
<1>1. IInv => AppliedOnce
  BY DEF IInv
<1> QED
  BY <1>1, IInit, INext, PTL DEF Spec
=============================================================================
