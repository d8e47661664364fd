------------------------- MODULE OAuthRefreshProofs -------------------------
(***************************************************************************)
(* Proofs about OAuthRefresh, for any workers, callers, keys and bounds: a *)
(* refresh token is not sent again while the account holds it, a result    *)
(* under a key of the worker's own replaces the token it was exchanged     *)
(* for, and a staged result survives.                                      *)
(*                                                                         *)
(* TokenSpentOnce needs that a task which is sending the account's token   *)
(* is alone and has its generation marked, and that tokens which are not   *)
(* installed yet are new to the account, the server and every other task.  *)
(* RefreshReplacesItsOwn needs that a key of the worker's own is only ever *)
(* claimed for one generation.                                             *)
(***************************************************************************)
EXTENDS OAuthRefresh, TLAPS

FenceKey(g) == <<"fence", g>>
TakeoverKey(p, n) == <<"takeover", p, n>>
OwnKeys == {WorkerKey(g) : g \in Nat} \cup {TakeoverKey(p, n) : p \in Procs, n \in Nat}
TaskKeys == ManualKeys \cup OwnKeys
LeaseKeys == TaskKeys \cup {FenceKey(g) : g \in Nat}
Pcs == {"idle", "lookup", "claim", "takeover", "load", "mark", "send", "unsend", "abort",
        "stage", "finalize"}
Roles == {"none", "manual", "worker", "takeover"}
Accounts == [gen : Nat, token : Nat, status : {"active", "disabled"}, revoked : BOOLEAN]
Leases == [gen : Nat, key : LeaseKeys \cup {NoKey}, started : BOOLEAN, pending : Nat,
           expired : BOOLEAN]
Tasks == [pc : Pcs, key : TaskKeys \cup {NoKey}, gen : Nat, role : Roles, token : Nat]
Token == 1..Len(parent)

\* The shape of the state: keys are made as the code makes them.
Shape ==
    /\ account \in Accounts /\ account.gen >= 1 /\ account.token \in Token
    /\ lease \in Leases /\ lease.gen <= account.gen /\ lease.pending \in Token \cup {0}
    /\ lease.key = NoKey => lease = NoLease
    /\ lease.key \in {FenceKey(g) : g \in Nat} => lease.pending = 0 /\ lease.started
    /\ DOMAIN replays \subseteq TaskKeys
    /\ replays \in [DOMAIN replays -> {"open", "stored"}]
    /\ lease.key \in TaskKeys => Replay(lease.key) = "open"
    /\ proc \in [Procs -> Tasks]
    /\ parent \in Seq(Nat)
    /\ posted \subseteq Token /\ twice \subseteq posted
    /\ claims \in Nat /\ calls \in 0..MaxCalls /\ faults \in 0..MaxFaults
TaskShape(p) ==
    /\ proc[p].gen <= account.gen /\ proc[p].token \in Token \cup {0}
    /\ proc[p].pc \notin {"idle", "lookup"} => proc[p].key \in TaskKeys
    /\ proc[p].pc = "lookup" => proc[p].gen >= 1 /\ proc[p].role = "worker"
    /\ proc[p].pc = "claim" => \/ proc[p].role = "manual" /\ proc[p].key \in ManualKeys
                               \/ proc[p].role \in {"worker", "takeover"} /\ proc[p].gen >= 1
    /\ proc[p].pc = "takeover" => proc[p].role = "worker" /\ proc[p].gen >= 1
    /\ proc[p].pc \in {"mark", "send", "unsend", "stage", "finalize"} => proc[p].token # 0
ShapeOK == Shape /\ \A p \in Procs : TaskShape(p)

Loaded(p) == proc[p].pc \in {"mark", "send", "unsend"}
Result(p) == proc[p].pc \in {"stage", "finalize"}
Sends(p) == proc[p].pc \in {"send", "unsend"} /\ proc[p].token = account.token

\* A task works with the token of the generation it has claimed.
TasksKnow ==
    \A p \in Procs : proc[p].gen = account.gen =>
       /\ Loaded(p) => proc[p].token = account.token
       /\ Result(p) => parent[proc[p].token] = account.token

\* The generation is marked while the account's token is being sent.
SendersAreMarked ==
    \A p \in Procs : Sends(p) =>
       /\ lease.gen = account.gen /\ lease.started /\ account.token \notin posted
       /\ \A q \in Procs : Sends(q) => q = p

\* A token that no generation has had yet.
Unseen(t) == /\ t \notin posted /\ t # account.token
             /\ \A p \in Procs : Loaded(p) => proc[p].token # t
ResultsAreNew ==
    /\ lease.pending # 0 => Unseen(lease.pending)
    /\ \A p \in Procs : Result(p) =>
          /\ Replay(proc[p].key) # "stored" => Unseen(proc[p].token)
          /\ lease.pending = proc[p].token => proc[p].key = lease.key
          /\ \A q \in Procs : Result(q) /\ proc[q].token = proc[p].token => q = p

\* A task that claims, or has claimed, under a key of the worker's own.
Claims(p) == /\ proc[p].pc \notin {"idle", "lookup", "abort"}
             /\ proc[p].key \in OwnKeys
OwnKeysHaveOneGeneration ==
    /\ \A g \in Nat : lease.key = WorkerKey(g) => lease.gen = g
    /\ \A x \in Procs, n \in Nat : lease.key = TakeoverKey(x, n) => n < claims
    /\ \A p \in Procs : Claims(p) =>
          /\ lease.key = proc[p].key => lease.gen = proc[p].gen
          /\ \A g \in Nat : proc[p].key = WorkerKey(g) => proc[p].gen = g
          /\ \A x \in Procs, n \in Nat : proc[p].key = TakeoverKey(x, n) =>
                \/ n < claims
                \/ n = claims /\ x = p /\ proc[p].pc = "claim" /\ proc[p].role = "takeover"
          /\ \A q \in Procs : Claims(q) /\ proc[q].key = proc[p].key => proc[q].gen = proc[p].gen

\* What is staged for the current generation was exchanged for its token.
StagedIsOwn ==
    lease.pending # 0 /\ lease.gen = account.gen /\ lease.key \in OwnKeys
       => parent[lease.pending] = account.token

\* The inductive invariant.
IInv == /\ ShapeOK /\ TasksKnow /\ SendersAreMarked /\ ResultsAreNew
        /\ OwnKeysHaveOneGeneration /\ StagedIsOwn
        /\ account.token \notin twice
        /\ account.token \in posted => lease.gen = account.gen /\ lease.started

-----------------------------------------------------------------------------
(* Keys and tasks.                                                         *)

\* The kinds of lease keys, by their first component.
LEMMA KeyKinds ==
    /\ \A k \in ManualKeys : k[1] = "manual"
    /\ \A g, h : /\ WorkerKey(g)[1] = "worker" /\ FenceKey(g)[1] = "fence"
                 /\ WorkerKey(g) = WorkerKey(h) => g = h
    /\ \A p, q, m, n : /\ TakeoverKey(p, m)[1] = "takeover"
                       /\ TakeoverKey(p, m) = TakeoverKey(q, n) => p = q /\ m = n
    /\ NoKey[1] = "none"
<1>1. \A k \in ManualKeys : k[1] = "manual"
  BY OAuthAssumption
<1>2. \A g, h : /\ WorkerKey(g)[1] = "worker" /\ FenceKey(g)[1] = "fence"
                /\ WorkerKey(g) = WorkerKey(h) => g = h
  BY DEF WorkerKey, FenceKey
<1>3. \A p, q, m, n : /\ TakeoverKey(p, m)[1] = "takeover"
                      /\ TakeoverKey(p, m) = TakeoverKey(q, n) => p = q /\ m = n
  BY DEF TakeoverKey
<1> QED
  BY <1>1, <1>2, <1>3 DEF NoKey

\* Keys of different kinds differ.
LEMMA KeysApart ==
    /\ OwnKeys \cap ManualKeys = {} /\ NoKey \notin TaskKeys
    /\ \A g : FenceKey(g) \notin TaskKeys \cup {NoKey}
    /\ \A g \in Nat : WorkerKey(g) \in OwnKeys
    /\ \A p \in Procs, n \in Nat : TakeoverKey(p, n) \in OwnKeys
    /\ \A g, p, n : WorkerKey(g) # TakeoverKey(p, n)
BY KeyKinds DEF OwnKeys, TaskKeys

\* A key that a task may hold is not a disconnect's fence.
LEMMA FenceIsFirst ==
    ASSUME NEW k \in LeaseKeys \cup {NoKey}
    PROVE  k[1] # "fence" <=> k \in TaskKeys \cup {NoKey}
BY KeyKinds DEF LeaseKeys, TaskKeys, OwnKeys

\* The type invariant of the module.
LEMMA ShapeIsType == ShapeOK => TypeOK
<1> SUFFICES ASSUME ShapeOK PROVE TypeOK
  OBVIOUS
<1>1. DOMAIN parent = Token
  BY DEF ShapeOK, Shape, Token
<1>2. account \in [gen : Nat, token : DOMAIN parent, status : {"active", "disabled"},
                   revoked : BOOLEAN]
  BY <1>1 DEF ShapeOK, Shape, Accounts
<1>3. /\ lease.gen \in 0..account.gen /\ lease.started \in BOOLEAN
      /\ lease.pending \in {0} \cup DOMAIN parent /\ lease.expired \in BOOLEAN
  BY <1>1 DEF ShapeOK, Shape, Leases, Accounts
<1>4. \A k \in DOMAIN replays : replays[k] \in {"open", "stored"}
  BY DEF ShapeOK, Shape
<1>5. lease # NoLease /\ lease.key[1] # "fence" => Replay(lease.key) = "open"
  <2>1. lease.key \in LeaseKeys \cup {NoKey}
    BY DEF ShapeOK, Shape, Leases
  <2> QED
    BY <2>1, FenceIsFirst DEF ShapeOK, Shape
<1>6. \A p \in Procs :
        /\ proc[p].pc \in {"idle", "lookup", "claim", "takeover", "load", "mark", "send",
                           "unsend", "abort", "stage", "finalize"}
        /\ proc[p].role \in {"none", "manual", "worker", "takeover"}
        /\ proc[p].gen \in Nat /\ proc[p].token \in {0} \cup DOMAIN parent
  BY <1>1 DEF ShapeOK, Shape, TaskShape, Tasks, Pcs, Roles
<1> QED
  BY <1>1, <1>2, <1>3, <1>4, <1>5, <1>6 DEF TypeOK, ShapeOK, Shape

\* The invariant holds at first.
LEMMA IInit == Init => IInv
<1> SUFFICES ASSUME Init PROVE IInv
  OBVIOUS
<1>1. /\ parent \in Seq(Nat) /\ Len(parent) = 1 /\ Token = {1}
  BY DEF Init, Token
<1>2. account \in Accounts /\ account.gen = 1 /\ account.token = 1
  BY DEF Init, Accounts
<1>3. lease \in Leases /\ lease.gen = 0 /\ lease.pending = 0 /\ lease.key = NoKey /\ lease = NoLease
  BY DEF Init, Leases, NoLease
<1>4. DOMAIN replays = {} /\ replays \in [DOMAIN replays -> {"open", "stored"}]
  BY DEF Init
<1>5. proc \in [Procs -> Tasks] /\ \A p \in Procs : proc[p] = Idle
  BY DEF Init, Idle, Tasks, Pcs, Roles
<1>6. posted = {} /\ twice = {} /\ claims = 0 /\ calls \in 0..MaxCalls /\ faults \in 0..MaxFaults
  BY OAuthAssumption DEF Init
<1>7. Shape
  BY <1>1, <1>2, <1>3, <1>4, <1>5, <1>6, KeysApart DEF Shape
<1>8. \A p \in Procs : TaskShape(p)
  BY <1>2, <1>5 DEF TaskShape, Idle
<1>9. \A p \in Procs : proc[p].pc = "idle"
  BY <1>5 DEF Idle
<1> QED
  BY <1>2, <1>3, <1>6, <1>7, <1>8, <1>9, KeysApart
  DEF IInv, ShapeOK, TasksKnow, SendersAreMarked, ResultsAreNew, OwnKeysHaveOneGeneration,
      StagedIsOwn, Loaded, Result, Sends, Claims, TaskKeys

\* A task ends, or goes on to abort its claim.
Quits(p) == /\ proc'[p].pc \in {"idle", "abort"} /\ proc'[p] \in Tasks
            /\ proc'[p].gen = 0 /\ proc'[p].token = 0
            /\ proc'[p].pc = "abort" => proc'[p].key \in TaskKeys
Keeps(p) == proc'[p] = proc[p] \/ Quits(p)

\* A task that ends holds nothing.
LEMMA QuitFacts ==
    ASSUME ShapeOK, NEW p \in Procs, Done(p) \/ (GiveUp(p) /\ proc[p].key \in TaskKeys)
    PROVE  /\ proc' \in [Procs -> Tasks] /\ Quits(p)
           /\ \A q \in Procs \ {p} : proc'[q] = proc[q]
<1>1. proc \in [Procs -> Tasks]
  BY DEF ShapeOK, Shape
<1>2. Idle \in Tasks /\ Idle.pc = "idle" /\ Idle.gen = 0 /\ Idle.token = 0
  BY DEF Idle, Tasks, Pcs, Roles
<1>3. CASE Done(p)
  BY <1>1, <1>2, <1>3 DEF Done, Quits
<1>4. CASE GiveUp(p) /\ proc[p].key \in TaskKeys
  <2> DEFINE next == [Idle EXCEPT !.pc = "abort", !.key = proc[p].key]
  <2>1. /\ next \in Tasks /\ next.pc = "abort" /\ next.gen = 0 /\ next.token = 0
        /\ next.key = proc[p].key
    BY <1>4 DEF Idle, Tasks, Pcs, Roles
  <2>2. proc' = [proc EXCEPT ![p] = next]
    BY <1>4 DEF GiveUp
  <2> HIDE DEF next
  <2> QED
    BY <1>1, <1>4, <2>1, <2>2 DEF Quits
<1> QED
  BY <1>3, <1>4

\* A task that moves on keeps what it holds.
LEMMA ToFacts ==
    ASSUME ShapeOK, NEW p \in Procs, NEW pc \in Pcs, To(p, pc)
    PROVE  /\ proc' \in [Procs -> Tasks]
           /\ \A q \in Procs \ {p} : proc'[q] = proc[q]
           /\ proc'[p].pc = pc /\ proc'[p].key = proc[p].key /\ proc'[p].gen = proc[p].gen
           /\ proc'[p].role = proc[p].role /\ proc'[p].token = proc[p].token
<1>1. proc \in [Procs -> Tasks]
  BY DEF ShapeOK, Shape
<1> QED
  BY <1>1 DEF To, Tasks

\* Tasks that quit disturb nothing.
LEMMA Quiet ==
    ASSUME IInv, proc' \in [Procs -> Tasks], \A p \in Procs : Keeps(p),
           UNCHANGED <<account, lease, replays, posted, twice, parent, claims>>,
           calls' \in 0..MaxCalls, faults' \in 0..MaxFaults
    PROVE  IInv'
<1>1. \A p \in Procs : TaskShape(p)'
  BY DEF IInv, ShapeOK, Shape, Accounts, TaskShape, Keeps, Quits, Token
<1>2. Shape'
  BY DEF IInv, ShapeOK, Shape, Token, Replay
<1>3. \A p \in Procs : \/ proc'[p] = proc[p]
                       \/ ~Loaded(p)' /\ ~Result(p)' /\ ~Sends(p)' /\ ~Claims(p)'
  BY DEF Keeps, Quits, Loaded, Result, Sends, Claims
<1>4. TasksKnow' /\ SendersAreMarked'
  BY <1>3 DEF IInv, TasksKnow, SendersAreMarked, Loaded, Result, Sends
<1>5. ResultsAreNew'
  BY <1>3 DEF IInv, ResultsAreNew, Unseen, Loaded, Result, Replay
<1>6. OwnKeysHaveOneGeneration'
  BY <1>3 DEF IInv, OwnKeysHaveOneGeneration, Claims
<1> QED
  BY <1>1, <1>2, <1>4, <1>5, <1>6 DEF IInv, ShapeOK, StagedIsOwn

-----------------------------------------------------------------------------
(* Steps of a task alone.                                                  *)

\* A task starts, or goes on to claim or load: nothing of what the invariant
\* says about tokens is about it yet.
LEMMA Advance ==
    ASSUME IInv, NEW p \in Procs, proc' \in [Procs -> Tasks],
           \A q \in Procs \ {p} : proc'[q] = proc[q], TaskShape(p)',
           proc'[p].pc \in {"lookup", "claim", "takeover", "load"},
           UNCHANGED <<account, lease, replays, posted, twice, parent>>,
           claims' = claims, calls' \in 0..MaxCalls, faults' \in 0..MaxFaults,
           Claims(p)' =>
             /\ lease.key = proc'[p].key => lease.gen = proc'[p].gen
             /\ \A g \in Nat : proc'[p].key = WorkerKey(g) => proc'[p].gen = g
             /\ \A x \in Procs, n \in Nat : proc'[p].key = TakeoverKey(x, n) =>
                   \/ n < claims
                   \/ n = claims /\ x = p /\ proc'[p].pc = "claim" /\ proc'[p].role = "takeover"
             /\ \A q \in Procs \ {p} : Claims(q) /\ proc[q].key = proc'[p].key =>
                                          proc[q].gen = proc'[p].gen
    PROVE  IInv'
<1>1. \A q \in Procs : TaskShape(q)'
  BY DEF IInv, ShapeOK, TaskShape, Token
<1>2. Shape'
  BY DEF IInv, ShapeOK, Shape, Token, Replay
<1>3. ~Loaded(p)' /\ ~Result(p)' /\ ~Sends(p)'
  BY DEF Loaded, Result, Sends
<1>4. TasksKnow' /\ SendersAreMarked'
  BY <1>3 DEF IInv, TasksKnow, SendersAreMarked, Loaded, Result, Sends
<1>5. ResultsAreNew'
  BY <1>3 DEF IInv, ResultsAreNew, Unseen, Loaded, Result, Replay
<1>6. OwnKeysHaveOneGeneration'
  BY DEF IInv, OwnKeysHaveOneGeneration, Claims
<1> QED
  BY <1>1, <1>2, <1>4, <1>5, <1>6 DEF IInv, ShapeOK, StagedIsOwn

\* A call or a worker starts a task.
LEMMA IStarts ==
    ASSUME IInv, NEW p \in Procs,
           refresh_managed_upstream_oauth(p) \/ list_managed_oauth_refresh_candidates(p)
    PROVE  IInv'
<1>t. /\ proc \in [Procs -> Tasks] /\ account.gen \in Nat /\ account.gen >= 1
      /\ calls \in 0..MaxCalls /\ faults \in 0..MaxFaults /\ MaxCalls \in Nat
  BY OAuthAssumption DEF IInv, ShapeOK, Shape, Accounts
<1>1. CASE refresh_managed_upstream_oauth(p)
  <2>p. PICK k \in ManualKeys :
        proc' = [proc EXCEPT ![p] = [Idle EXCEPT !.pc = "claim", !.key = k, !.role = "manual"]]
    BY <1>1 DEF refresh_managed_upstream_oauth
  <2> DEFINE next == [Idle EXCEPT !.pc = "claim", !.key = k, !.role = "manual"]
  <2>1. /\ next \in Tasks /\ next.pc = "claim" /\ next.key = k /\ next.role = "manual"
        /\ next.gen = 0 /\ next.token = 0
    BY DEF Idle, Tasks, Pcs, Roles, TaskKeys
  <2> HIDE DEF next
  <2>2. /\ proc' \in [Procs -> Tasks] /\ proc'[p] = next
        /\ \A q \in Procs \ {p} : proc'[q] = proc[q]
    BY <1>t, <2>1, <2>p DEF next
  <2>u. /\ UNCHANGED <<account, lease, replays, posted, twice, parent, claims, faults>>
        /\ calls < MaxCalls /\ calls' = calls + 1
    BY <1>1, Zenon DEF refresh_managed_upstream_oauth
  <2>3. calls' \in 0..MaxCalls /\ faults' \in 0..MaxFaults
    BY <1>t, <2>u
  <2>4. k \in TaskKeys /\ k \notin OwnKeys
    BY KeysApart DEF TaskKeys
  <2>5. TaskShape(p)'
    BY <2>1, <2>2, <2>u, <1>t, <2>4 DEF TaskShape
  <2>6. ~Claims(p)'
    BY <2>1, <2>2, <2>4 DEF Claims
  <2> QED
    BY <2>1, <2>2, <2>3, <2>5, <2>6, <2>u, Advance
<1>2. CASE list_managed_oauth_refresh_candidates(p)
  <2> DEFINE next == [Idle EXCEPT !.pc = "lookup", !.gen = account.gen, !.role = "worker"]
  <2>1. /\ next \in Tasks /\ next.pc = "lookup" /\ next.role = "worker"
        /\ next.gen = account.gen /\ next.token = 0
    BY <1>t DEF Idle, Tasks, Pcs, Roles
  <2>2. /\ proc' = [proc EXCEPT ![p] = next]
        /\ UNCHANGED <<account, lease, replays, posted, twice, parent, claims, calls, faults>>
    BY <1>2 DEF list_managed_oauth_refresh_candidates
  <2> HIDE DEF next
  <2>3. /\ proc' \in [Procs -> Tasks] /\ proc'[p] = next
        /\ \A q \in Procs \ {p} : proc'[q] = proc[q]
    BY <1>t, <2>1, <2>2
  <2>4. TaskShape(p)' /\ ~Claims(p)'
    BY <2>1, <2>2, <2>3, <1>t DEF TaskShape, Claims
  <2> QED
    BY <2>1, <2>2, <2>3, <2>4, <1>t, Advance
<1> QED
  BY <1>1, <1>2

\* A task looks for a lease to recover.
LEMMA ILookup ==
    ASSUME IInv, NEW p \in Procs, upstream_oauth_refresh_recovery_key(p)
    PROVE  IInv'
<1> DEFINE own == ~(lease.gen = proc[p].gen /\ (lease.pending # 0 \/ ~lease.started))
           key == IF own THEN WorkerKey(proc[p].gen) ELSE lease.key
<1>t. /\ proc \in [Procs -> Tasks] /\ account.gen \in Nat /\ lease \in Leases
      /\ calls \in 0..MaxCalls /\ faults \in 0..MaxFaults
      /\ TaskShape(p) /\ proc[p].pc = "lookup" /\ proc[p].gen \in Nat
  BY DEF IInv, ShapeOK, Shape, Accounts, Tasks, upstream_oauth_refresh_recovery_key
<1>1. /\ proc' = [proc EXCEPT ![p].pc = "claim", ![p].key = key]
      /\ UNCHANGED <<account, lease, replays, posted, twice, parent, claims, calls, faults>>
  BY DEF upstream_oauth_refresh_recovery_key
<1>2. key \in TaskKeys
  <2>1. CASE own
    BY <2>1, <1>t, KeysApart DEF TaskKeys
  <2>2. CASE ~own
    <3>1. lease # NoLease
      BY <2>2, <1>t DEF TaskShape, NoLease
    <3>2. lease.key \in LeaseKeys
      BY <3>1 DEF IInv, ShapeOK, Shape, Leases
    <3>3. lease.key \notin {FenceKey(g) : g \in Nat}
      BY <2>2 DEF IInv, ShapeOK, Shape
    <3> QED
      BY <3>2, <3>3, <2>2 DEF LeaseKeys
  <2> QED
    BY <2>1, <2>2
<1>3. own => \A g \in Nat : key = WorkerKey(g) => g = proc[p].gen
  BY KeyKinds
<1>4. ~own => key = lease.key /\ lease.gen = proc[p].gen
  OBVIOUS
<1>5. own => key = WorkerKey(proc[p].gen)
  OBVIOUS
<1> HIDE DEF key, own
<1>6. /\ proc' \in [Procs -> Tasks] /\ proc'[p].pc = "claim" /\ proc'[p].key = key
      /\ proc'[p].gen = proc[p].gen /\ proc'[p].role = proc[p].role
      /\ proc'[p].token = proc[p].token
      /\ \A q \in Procs \ {p} : proc'[q] = proc[q]
  BY <1>t, <1>1, <1>2 DEF Tasks, Pcs
<1>7. TaskShape(p)'
  BY <1>t, <1>1, <1>2, <1>6 DEF TaskShape, Token
<1>8. CASE own
  <2>1. \A x \in Procs, n \in Nat : key # TakeoverKey(x, n)
    BY <1>5, <1>8, KeysApart
  <2>2. lease.key = key => lease.gen = proc[p].gen
    BY <1>5, <1>8, <1>t DEF IInv, OwnKeysHaveOneGeneration
  <2>3. \A q \in Procs \ {p} : Claims(q) /\ proc[q].key = key => proc[q].gen = proc[p].gen
    BY <1>5, <1>8, <1>t DEF IInv, OwnKeysHaveOneGeneration
  <2> QED
    BY <1>1, <1>3, <1>6, <1>7, <1>8, <1>t, <2>1, <2>2, <2>3, Advance
<1>9. CASE ~own
  <2>1. \A g \in Nat : key = WorkerKey(g) => proc[p].gen = g
    BY <1>4, <1>9 DEF IInv, OwnKeysHaveOneGeneration
  <2>2. \A x \in Procs, n \in Nat : key = TakeoverKey(x, n) => n < claims
    BY <1>4, <1>9 DEF IInv, OwnKeysHaveOneGeneration
  <2>3. \A q \in Procs \ {p} : Claims(q) /\ proc[q].key = key => proc[q].gen = proc[p].gen
    BY <1>4, <1>9 DEF IInv, OwnKeysHaveOneGeneration
  <2> QED
    BY <1>1, <1>4, <1>6, <1>7, <1>9, <1>t, <2>1, <2>2, <2>3, Advance
<1> QED
  BY <1>8, <1>9

\* A task reads the account and its token.
LEMMA ILoad ==
    ASSUME IInv, NEW p \in Procs, upstream_account_with_credential(p)
    PROVE  IInv'
<1>t. /\ proc \in [Procs -> Tasks] /\ account.token \in Nat /\ account.token \in Token
      /\ calls \in 0..MaxCalls /\ faults \in 0..MaxFaults
      /\ TaskShape(p) /\ proc[p].pc = "load"
  BY DEF IInv, ShapeOK, Shape, Accounts, upstream_account_with_credential
<1>u. UNCHANGED <<account, lease, replays, posted, twice, parent, claims, calls, faults>>
  BY DEF upstream_account_with_credential
<1>1. CASE GiveUp(p)
  <2>1. proc[p].key \in TaskKeys
    BY <1>t DEF TaskShape
  <2> QED
    BY <1>1, <1>t, <1>u, <2>1, QuitFacts, Quiet DEF IInv, Keeps
<1>2. CASE proc' = [proc EXCEPT ![p].pc = "mark", ![p].token = account.token]
  <2>1. /\ proc' \in [Procs -> Tasks] /\ proc'[p].pc = "mark" /\ proc'[p].key = proc[p].key
        /\ proc'[p].gen = proc[p].gen /\ proc'[p].role = proc[p].role
        /\ proc'[p].token = account.token
        /\ \A q \in Procs \ {p} : proc'[q] = proc[q]
    BY <1>t, <1>2 DEF Tasks, Pcs
  <2>2. Shape'
    BY <1>u, <2>1 DEF IInv, ShapeOK, Shape, Token, Replay
  <2>3. \A q \in Procs : TaskShape(q)'
    BY <1>t, <1>u, <2>1 DEF IInv, ShapeOK, TaskShape, Token
  <2>4. TasksKnow' /\ SendersAreMarked'
    BY <1>u, <2>1 DEF IInv, TasksKnow, SendersAreMarked, Loaded, Result, Sends
  <2>5. ResultsAreNew'
    BY <1>u, <2>1 DEF IInv, ResultsAreNew, Unseen, Loaded, Result, Replay
  <2>6. OwnKeysHaveOneGeneration'
    BY <1>t, <1>u, <2>1 DEF IInv, OwnKeysHaveOneGeneration, Claims
  <2> QED
    BY <1>u, <2>2, <2>3, <2>4, <2>5, <2>6 DEF IInv, ShapeOK, StagedIsOwn
<1> QED
  BY <1>1, <1>2 DEF upstream_account_with_credential

\* The process of a task dies.
LEMMA ICrash ==
    ASSUME IInv, NEW p \in Procs, Crash(p)
    PROVE  IInv'
<1>1. /\ Done(p) /\ UNCHANGED <<account, lease, replays, posted, twice, parent, claims, calls>>
      /\ faults' \in 0..MaxFaults /\ calls' \in 0..MaxCalls /\ ShapeOK
  BY OAuthAssumption DEF Crash, Fault, IInv, ShapeOK, Shape
<1> QED
  BY <1>1, QuitFacts, Quiet DEF Keeps

-----------------------------------------------------------------------------
(* Transactions.                                                           *)

\* Writing one replay row.
LEMMA ReplaySetFacts ==
    ASSUME ShapeOK, NEW k \in TaskKeys, NEW v \in {"open", "stored"}, ReplaySet(k, v)
    PROVE  /\ DOMAIN replays' \subseteq TaskKeys
           /\ replays' \in [DOMAIN replays' -> {"open", "stored"}]
           /\ Replay(k)' = v /\ \A j : j # k => Replay(j)' = Replay(j)
<1>1. /\ DOMAIN replays \subseteq TaskKeys
      /\ \A j \in DOMAIN replays : replays[j] \in {"open", "stored"}
  BY DEF ShapeOK, Shape
<1>2. /\ DOMAIN replays' = DOMAIN replays \cup {k}
      /\ \A j \in DOMAIN replays' : replays'[j] = IF j = k THEN v ELSE replays[j]
      /\ replays' = [j \in DOMAIN replays' |-> replays'[j]]
  BY DEF ReplaySet
<1> QED
  BY <1>1, <1>2 DEF Replay

\* What an abort removes.
LEMMA AbortedFacts ==
    ASSUME ShapeOK, NEW k \in TaskKeys, NEW d, Aborted(k, d)
    PROVE  /\ DOMAIN replays' \subseteq TaskKeys
           /\ replays' \in [DOMAIN replays' -> {"open", "stored"}]
           /\ \A j : Replay(j)' = Replay(j) \/ (Replay(j) = "open" /\ Replay(j)' = "none")
           /\ lease' = lease \/ (lease' = NoLease /\ Undispatched)
           /\ lease' = lease /\ lease.key \in TaskKeys => Replay(lease.key)' = "open"
<1>1. /\ DOMAIN replays \subseteq TaskKeys
      /\ \A j \in DOMAIN replays : replays[j] \in {"open", "stored"}
      /\ replays = [j \in DOMAIN replays |-> replays[j]]
      /\ lease.key \in TaskKeys => Replay(lease.key) = "open" /\ lease # NoLease
  BY KeysApart DEF ShapeOK, Shape, NoLease
<1> DEFINE gone == Leased(k) /\ Undispatched /\ d
<1>2. CASE Replay(k) = "open" /\ (gone \/ ~Leased(k))
  <2>1. replays' = [j \in DOMAIN replays \ {k} |-> replays[j]]
    BY <1>2 DEF Aborted
  <2>2. /\ DOMAIN replays' = DOMAIN replays \ {k}
        /\ \A j \in DOMAIN replays' : replays'[j] = replays[j]
        /\ replays' = [j \in DOMAIN replays' |-> replays'[j]]
    BY <2>1
  <2>3. /\ \A j : j # k => Replay(j)' = Replay(j)
        /\ Replay(k)' = "none"
    BY <2>2 DEF Replay
  <2>4. lease' = lease \/ (lease' = NoLease /\ Undispatched)
    BY DEF Aborted
  <2>5. lease' = lease /\ lease.key \in TaskKeys => lease.key # k
    BY <1>1, <1>2, KeysApart DEF Aborted, Leased, NoLease
  <2> QED
    BY <1>1, <1>2, <2>2, <2>3, <2>4, <2>5
<1>3. CASE ~(Replay(k) = "open" /\ (gone \/ ~Leased(k)))
  <2>1. replays' = replays
    BY <1>3 DEF Aborted
  <2>2. lease' = lease \/ (lease' = NoLease /\ Undispatched)
    BY DEF Aborted
  <2> QED
    BY <1>1, <2>1, <2>2 DEF Replay
<1> QED
  BY <1>2, <1>3

\* An account without a lease.
LEMMA NoLeaseFacts ==
    /\ NoLease \in Leases /\ NoLease.gen = 0 /\ NoLease.key = NoKey /\ ~NoLease.started
    /\ NoLease.pending = 0 /\ NoLease.expired
BY DEF NoLease, Leases

\* An undispatched claim is dropped: no token depends on it.
LEMMA Freed ==
    ASSUME IInv, NEW p \in Procs, NEW k \in TaskKeys, NEW d, Aborted(k, d),
           proc' \in [Procs -> Tasks], \A q \in Procs \ {p} : proc'[q] = proc[q],
           UNCHANGED <<account, posted, twice, parent, claims>>,
           calls' \in 0..MaxCalls, faults' \in 0..MaxFaults,
           \/ Quits(p)
           \/ /\ proc'[p].pc = "claim" /\ proc'[p].role = "takeover"
              /\ proc'[p].key = TakeoverKey(p, claims)
              /\ proc'[p].gen >= 1 /\ proc'[p].gen <= account.gen
              /\ proc'[p].token = proc[p].token
    PROVE  IInv'
<1> USE NoLeaseFacts
<1>a. /\ DOMAIN replays' \subseteq TaskKeys
      /\ replays' \in [DOMAIN replays' -> {"open", "stored"}]
      /\ \A j : Replay(j)' = Replay(j) \/ (Replay(j) = "open" /\ Replay(j)' = "none")
      /\ lease' = lease \/ (lease' = NoLease /\ Undispatched)
      /\ lease' = lease /\ lease.key \in TaskKeys => Replay(lease.key)' = "open"
  BY AbortedFacts DEF IInv
<1>b. /\ lease'.pending = lease.pending
      /\ \/ lease'.key = lease.key /\ lease'.gen = lease.gen /\ lease'.started = lease.started
         \/ lease'.key = NoKey /\ Undispatched /\ ~lease'.started /\ lease'.gen = 0
  BY <1>a DEF Undispatched
<1>k. NoKey \notin TaskKeys /\ NoKey \notin OwnKeys /\ OwnKeys \subseteq TaskKeys
  BY KeysApart DEF TaskKeys
<1>o. claims \in Nat /\ TakeoverKey(p, claims) \in OwnKeys
  BY KeysApart DEF IInv, ShapeOK, Shape
<1>t. TaskShape(p)'
  BY <1>k, <1>o DEF IInv, ShapeOK, Shape, Accounts, TaskShape, Quits, Token
<1>1. \A q \in Procs : TaskShape(q)'
  BY <1>t DEF IInv, ShapeOK, TaskShape, Token
<1>2. Shape'
  <2>1. CASE lease' = lease
    BY <1>a, <2>1 DEF IInv, ShapeOK, Shape, Token
  <2>2. CASE lease' = NoLease
    <3>1. NoKey \notin {FenceKey(g) : g \in Nat}
      BY KeysApart
    <3> QED
      BY <1>a, <2>2, <3>1, <1>k DEF IInv, ShapeOK, Shape, Accounts, Token
  <2> QED
    BY <1>a, <2>1, <2>2
<1>3. ~Loaded(p)' /\ ~Result(p)' /\ ~Sends(p)'
  BY DEF Loaded, Result, Sends, Quits
<1>4. TasksKnow'
  BY <1>3 DEF IInv, TasksKnow, Loaded, Result
<1>5. SendersAreMarked'
  BY <1>3, <1>b DEF IInv, SendersAreMarked, Sends, Undispatched
<1>6. ResultsAreNew'
  <2>1. lease'.pending # 0 => lease'.key = lease.key
    BY <1>b DEF Undispatched
  <2>2. \A q \in Procs : Result(q)' => Result(q) /\ proc'[q] = proc[q] /\ proc[q].token # 0
    BY <1>3 DEF Result, IInv, ShapeOK, TaskShape
  <2>3. \A t : Unseen(t) => Unseen(t)'
    BY <1>3 DEF Unseen, Loaded
  <2> QED
    BY <1>a, <1>b, <2>1, <2>2, <2>3 DEF IInv, ResultsAreNew
<1>7. OwnKeysHaveOneGeneration'
  <2>1. \A q \in Procs : Claims(q)' => (Claims(q) /\ proc'[q] = proc[q]) \/ q = p
    BY DEF Claims
  <2>2. lease'.key \in OwnKeys => lease'.key = lease.key /\ lease'.gen = lease.gen
    BY <1>b, <1>k
  <2>3. Claims(p)' => /\ proc'[p].key = TakeoverKey(p, claims) /\ proc'[p].pc = "claim"
                      /\ proc'[p].role = "takeover" /\ lease'.key # proc'[p].key
    BY <2>2, <1>o DEF Claims, Quits, IInv, OwnKeysHaveOneGeneration
  <2>4. Claims(p)' => \A q \in Procs \ {p} : Claims(q) => proc[q].key # proc'[p].key
    BY <2>3, <1>o DEF IInv, OwnKeysHaveOneGeneration
  <2>5. \A g \in Nat : lease'.key = WorkerKey(g) => lease'.gen = g
    BY <2>2, KeysApart DEF IInv, OwnKeysHaveOneGeneration
  <2>6. \A x \in Procs, n \in Nat : lease'.key = TakeoverKey(x, n) => n < claims
    BY <2>2, KeysApart DEF IInv, OwnKeysHaveOneGeneration
  <2>7. Claims(p)' => /\ \A g \in Nat : proc'[p].key # WorkerKey(g)
                      /\ \A x \in Procs, n \in Nat : proc'[p].key = TakeoverKey(x, n) =>
                            n = claims /\ x = p
    BY <2>3, KeysApart, KeyKinds
  <2>8. \A q \in Procs : Claims(q)' => (lease'.key = proc'[q].key => lease'.gen = proc'[q].gen)
    <3> TAKE q \in Procs
    <3> HAVE Claims(q)'
    <3>1. CASE q = p
      BY <3>1, <2>3
    <3>2. CASE q # p
      BY <3>2, <2>1, <2>2 DEF IInv, OwnKeysHaveOneGeneration, Claims
    <3> QED
      BY <3>1, <3>2
  <2> QED
    BY <2>1, <2>3, <2>4, <2>5, <2>6, <2>7, <2>8 DEF IInv, OwnKeysHaveOneGeneration
<1>8. StagedIsOwn'
  BY <1>b, <1>k DEF IInv, StagedIsOwn, Undispatched
<1> QED
  BY <1>b, <1>1, <1>2, <1>4, <1>5, <1>6, <1>7, <1>8 DEF IInv, ShapeOK, Undispatched

\* Faults are counted within their bound.
LEMMA FaultFacts == ASSUME ShapeOK, Fault \/ UNCHANGED faults PROVE faults' \in 0..MaxFaults
BY OAuthAssumption DEF ShapeOK, Shape, Fault

\* A task gives its lease up before anything was sent.
LEMMA IAbort ==
    ASSUME IInv, NEW p \in Procs, abort_upstream_oauth_refresh(p)
    PROVE  IInv'
<1>1. /\ ShapeOK /\ proc[p].key \in TaskKeys /\ Done(p)
      /\ UNCHANGED <<account, posted, twice, parent, claims>>
      /\ calls' \in 0..MaxCalls /\ faults' \in 0..MaxFaults
  BY FaultFacts DEF IInv, ShapeOK, Shape, TaskShape, abort_upstream_oauth_refresh, Commits
<1>2. proc' \in [Procs -> Tasks] /\ Quits(p) /\ \A q \in Procs \ {p} : proc'[q] = proc[q]
  BY <1>1, QuitFacts
<1>3. CASE Aborted(proc[p].key, TRUE)
  BY <1>1, <1>2, <1>3, Freed
<1>4. CASE UNCHANGED <<lease, replays>>
  BY <1>1, <1>2, <1>4, Quiet DEF Keeps
<1> QED
  BY <1>3, <1>4 DEF abort_upstream_oauth_refresh, Commits

\* A worker aborts an expired lease of which nothing was sent.
LEMMA IAbortExpired ==
    ASSUME IInv, NEW p \in Procs, abort_expired_undispatched_upstream_oauth_refresh(p)
    PROVE  IInv'
<1> DEFINE moves == proc' = [proc EXCEPT ![p].pc = "claim", ![p].role = "takeover",
                                         ![p].key = <<"takeover", p, claims>>]
<1>1. /\ ShapeOK /\ proc[p].key \in TaskKeys /\ proc[p].pc = "takeover"
      /\ UNCHANGED <<account, posted, twice, parent, claims>>
      /\ calls' \in 0..MaxCalls /\ faults' \in 0..MaxFaults
  BY FaultFacts DEF IInv, ShapeOK, Shape, TaskShape, Commits,
                    abort_expired_undispatched_upstream_oauth_refresh
<1>2. \/ Aborted(proc[p].key, lease.expired) /\ moves
      \/ Aborted(proc[p].key, lease.expired) /\ Done(p)
      \/ UNCHANGED <<lease, replays>> /\ Done(p)
  BY DEF abort_expired_undispatched_upstream_oauth_refresh, Commits
<1>3. CASE Aborted(proc[p].key, lease.expired) /\ moves
  <2>1. TakeoverKey(p, claims) = <<"takeover", p, claims>> /\ TakeoverKey(p, claims) \in TaskKeys
    BY <1>1, KeysApart DEF TakeoverKey, TaskKeys, ShapeOK, Shape
  <2>2. /\ proc \in [Procs -> Tasks] /\ proc[p].gen >= 1 /\ proc[p].gen <= account.gen
    BY <1>1 DEF ShapeOK, Shape, TaskShape
  <2>3. proc' = [proc EXCEPT ![p].pc = "claim", ![p].role = "takeover",
                             ![p].key = TakeoverKey(p, claims)]
    BY <1>3, <2>1
  <2>4. /\ proc' \in [Procs -> Tasks] /\ \A q \in Procs \ {p} : proc'[q] = proc[q]
        /\ proc'[p].pc = "claim" /\ proc'[p].role = "takeover"
        /\ proc'[p].key = TakeoverKey(p, claims) /\ proc'[p].gen = proc[p].gen
        /\ proc'[p].token = proc[p].token
    BY <2>1, <2>2, <2>3 DEF Tasks, Pcs, Roles
  <2> QED
    BY <1>1, <1>3, <2>2, <2>4, Freed
<1>4. CASE Done(p)
  <2>1. proc' \in [Procs -> Tasks] /\ Quits(p) /\ \A q \in Procs \ {p} : proc'[q] = proc[q]
    BY <1>1, <1>4, QuitFacts
  <2>2. CASE Aborted(proc[p].key, lease.expired)
    BY <1>1, <2>1, <2>2, Freed
  <2>3. CASE UNCHANGED <<lease, replays>>
    BY <1>1, <2>1, <2>3, Quiet DEF Keeps
  <2> QED
    BY <1>2, <2>2, <2>3
<1> QED
  BY <1>2, <1>3, <1>4

-----------------------------------------------------------------------------
(* The claim and the result.                                               *)

\* A staged result becomes the next generation: it was new to everyone.
LEMMA Installs ==
    ASSUME IInv, NEW p \in Procs, NEW k \in TaskKeys, Leased(k), lease.pending # 0,
           Finalize(k), proc' \in [Procs -> Tasks], \A q \in Procs \ {p} : proc'[q] = proc[q],
           UNCHANGED <<posted, twice, parent, claims>>,
           calls' \in 0..MaxCalls, faults' \in 0..MaxFaults,
           \/ Quits(p)
           \/ /\ proc[p].pc = "finalize" /\ proc'[p].pc = "stage" /\ proc'[p].key = proc[p].key
              /\ proc'[p].gen = proc[p].gen /\ proc'[p].token = proc[p].token
    PROVE  IInv'
<1> USE NoLeaseFacts
<1>r. /\ DOMAIN replays' \subseteq TaskKeys
      /\ replays' \in [DOMAIN replays' -> {"open", "stored"}]
      /\ Replay(k)' = "stored" /\ \A j : j # k => Replay(j)' = Replay(j)
  BY ReplaySetFacts DEF IInv, Finalize
<1>a. /\ account' \in Accounts /\ account'.gen = account.gen + 1 /\ account.gen \in Nat
      /\ account'.token = lease.pending /\ lease' = NoLease /\ lease.key = k
      /\ lease.pending \in Token /\ Token' = Token
  <2>1. account \in Accounts /\ lease.pending \in Token /\ lease.pending \in Nat
    BY DEF IInv, ShapeOK, Shape, Leases, Token
  <2>2. account' = [account EXCEPT !.gen = @ + 1, !.token = lease.pending, !.revoked = FALSE]
    BY DEF Finalize, Installed
  <2>3. /\ account' \in Accounts /\ account'.gen = account.gen + 1 /\ account.gen \in Nat
        /\ account'.token = lease.pending
    <3>1. account' = [gen |-> account.gen + 1, token |-> lease.pending,
                      status |-> account.status, revoked |-> FALSE]
      BY <2>1, <2>2 DEF Accounts
    <3>2. account.gen + 1 \in Nat /\ account.status \in {"active", "disabled"}
      BY <2>1 DEF Accounts
    <3>3. account' \in Accounts
      BY <2>1, <3>1, <3>2 DEF Accounts
    <3> QED
      BY <2>1, <3>1, <3>3 DEF Accounts
  <2> QED
    BY <2>1, <2>3 DEF Finalize, Leased, Token
<1>g. \A q \in Procs : proc[q].gen \in Nat /\ proc[q].gen <= account.gen /\ TaskShape(q)
  BY DEF IInv, ShapeOK, Shape, Tasks, TaskShape
<1>u. Unseen(lease.pending)
  BY DEF IInv, ResultsAreNew
<1>k. NoKey \notin TaskKeys /\ NoKey \notin OwnKeys /\ OwnKeys \subseteq TaskKeys
      /\ NoKey \notin {FenceKey(g) : g \in Nat}
  BY KeysApart DEF TaskKeys
<1>t. TaskShape(p)'
  BY <1>a, <1>g DEF TaskShape, Quits
<1>1. \A q \in Procs : TaskShape(q)'
  <2>1. ASSUME NEW q \in Procs, q # p PROVE TaskShape(q)'
    BY <1>a, <1>g, <2>1 DEF TaskShape
  <2> QED
    BY <2>1, <1>t
<1>2. Shape'
  BY <1>a, <1>r, <1>k DEF IInv, ShapeOK, Shape
<1>3. \A q \in Procs : proc'[q].gen # account'.gen
  BY <1>a, <1>g DEF Quits
<1>4. TasksKnow'
  BY <1>3 DEF TasksKnow
<1>5. \A q \in Procs : /\ Result(q)' => Result(q) /\ proc'[q].token = proc[q].token
                                        /\ proc'[q].key = proc[q].key
                       /\ Loaded(q)' => Loaded(q) /\ proc'[q] = proc[q]
                       /\ Claims(q)' => Claims(q) /\ proc'[q].key = proc[q].key
                                        /\ proc'[q].gen = proc[q].gen
  BY DEF Result, Loaded, Claims, Quits
<1>6. SendersAreMarked'
  <2>1. \A q \in Procs : ~Sends(q)'
    BY <1>5, <1>a, <1>u DEF Sends, Loaded, Unseen
  <2> QED
    BY <2>1 DEF SendersAreMarked
<1>7. ResultsAreNew'
  <2>1. \A t : Unseen(t) /\ t # lease.pending => Unseen(t)'
    BY <1>5, <1>a DEF Unseen
  <2>2. \A q \in Procs : Result(q) => proc[q].token # 0
    BY DEF IInv, ShapeOK, TaskShape, Result
  <2>3. ASSUME NEW q \in Procs, Result(q)', Replay(proc[q].key)' # "stored"
        PROVE  Unseen(proc[q].token)'
    <3>1. proc'[q].key # k
      BY <1>r, <2>3
    <3>2. proc[q].key # k /\ Replay(proc[q].key) # "stored"
      BY <3>1, <1>5, <1>r, <2>3
    <3>3. Unseen(proc[q].token) /\ proc[q].token # lease.pending
      BY <3>2, <1>5, <1>a, <2>3 DEF IInv, ResultsAreNew
    <3> QED
      BY <3>3, <2>1, <1>5, <2>3
  <2> QED
    BY <1>a, <1>5, <2>2, <2>3 DEF IInv, ResultsAreNew
<1>8. OwnKeysHaveOneGeneration'
  <2>1. \A q \in Procs : Claims(q)' => lease'.key # proc'[q].key
    BY <1>a, <1>k DEF Claims
  <2>2. \A g \in Nat : lease'.key # WorkerKey(g)
    BY <1>a, <1>k, KeysApart
  <2>3. \A x \in Procs, n \in Nat : lease'.key # TakeoverKey(x, n)
    BY <1>a, <1>k, KeysApart
  <2>4. \A q \in Procs : Claims(q)' /\ proc[q].pc = "claim" =>
              proc'[q].pc = proc[q].pc /\ proc'[q].role = proc[q].role
    BY DEF Claims, Quits
  <2> QED
    BY <1>5, <2>1, <2>2, <2>3, <2>4 DEF IInv, OwnKeysHaveOneGeneration
<1>9. StagedIsOwn'
  BY <1>a DEF StagedIsOwn
<1> QED
  BY <1>a, <1>u, <1>1, <1>2, <1>4, <1>6, <1>7, <1>8, <1>9 DEF IInv, ShapeOK, Shape, Unseen

\* A vacant generation is claimed: nobody is sending its token.
LEMMA Takes ==
    ASSUME IInv, NEW p \in Procs, NEW k, proc[p].pc = "claim", proc[p].key = k,
           Replay(k) = "none", Vacant,
           proc[p].role \in {"worker", "takeover"} => proc[p].gen = account.gen,
           lease' \in Leases, lease'.gen = account.gen, lease'.key = k,
           lease'.pending = 0, ReplaySet(k, "open"),
           claims' = IF proc[p].role = "takeover" THEN claims + 1 ELSE claims,
           proc' \in [Procs -> Tasks], \A q \in Procs \ {p} : proc'[q] = proc[q],
           UNCHANGED <<account, posted, twice, parent>>,
           calls' \in 0..MaxCalls, faults' \in 0..MaxFaults,
           \/ Quits(p)
           \/ /\ proc'[p].pc = "load" /\ proc'[p].key = k
              /\ proc'[p].gen = account.gen /\ proc'[p].token = proc[p].token
    PROVE  IInv'
<1>k. /\ k \in TaskKeys /\ TaskShape(p) /\ claims \in Nat /\ account.gen \in Nat
      /\ account.gen >= 1 /\ NoKey \notin TaskKeys /\ OwnKeys \subseteq TaskKeys
      /\ k \notin {FenceKey(g) : g \in Nat}
  BY KeysApart DEF IInv, ShapeOK, Shape, TaskShape, Accounts, TaskKeys
<1>r. /\ DOMAIN replays' \subseteq TaskKeys
      /\ replays' \in [DOMAIN replays' -> {"open", "stored"}]
      /\ Replay(k)' = "open" /\ \A j : j # k => Replay(j)' = Replay(j)
  BY <1>k, ReplaySetFacts DEF IInv
<1>a. lease'.gen = account.gen /\ lease'.key = k /\ lease'.pending = 0 /\ lease' \in Leases
  OBVIOUS
<1>c. claims' \in Nat /\ claims' >= claims
  BY <1>k
<1>v. account.token \notin posted /\ \A q \in Procs : ~Sends(q)
  <2>1. ~(lease.gen = account.gen /\ lease.started)
    BY NoLeaseFacts DEF Vacant, Undispatched
  <2> QED
    BY <2>1 DEF IInv, SendersAreMarked
<1>t. TaskShape(p)'
  BY <1>k DEF TaskShape, Quits, Token
<1>1. \A q \in Procs : TaskShape(q)'
  BY <1>t DEF IInv, ShapeOK, TaskShape, Token
<1>2. Shape'
  <2>1. Replay(lease.key)' = "open"
    BY <1>a, <1>r
  <2> QED
    BY <1>a, <1>c, <1>k, <1>r, <2>1 DEF IInv, ShapeOK, Shape, Token
<1>3. ~Loaded(p)' /\ ~Result(p)' /\ ~Sends(p)'
  BY DEF Loaded, Result, Sends, Quits
<1>4. TasksKnow'
  BY <1>3 DEF IInv, TasksKnow, Loaded, Result
<1>5. SendersAreMarked'
  BY <1>3, <1>v DEF SendersAreMarked, Sends
<1>6. ResultsAreNew'
  <2>1. \A q \in Procs : Result(q)' => Result(q) /\ proc'[q] = proc[q] /\ proc[q].token # 0
    BY <1>3 DEF Result, IInv, ShapeOK, TaskShape
  <2>2. \A t : Unseen(t) => Unseen(t)'
    BY <1>3 DEF Unseen, Loaded
  <2>3. \A j : Replay(j)' # "stored" => Replay(j) # "stored"
    BY <1>r
  <2> QED
    BY <1>a, <2>1, <2>2, <2>3 DEF IInv, ResultsAreNew
<1>7. OwnKeysHaveOneGeneration'
  <2>1. k \in OwnKeys => /\ Claims(p) /\ proc[p].gen = account.gen
                         /\ proc[p].role \in {"worker", "takeover"}
    BY <1>k, KeysApart DEF Claims, TaskShape
  <2>2. \A q \in Procs : Claims(q)' => /\ Claims(q) /\ proc'[q].key = proc[q].key
                                       /\ proc'[q].gen = proc[q].gen
    BY <2>1 DEF Claims, Quits
  <2>3. \A g \in Nat : lease'.key = WorkerKey(g) => lease'.gen = g
    BY <1>a, <2>1, KeysApart DEF IInv, OwnKeysHaveOneGeneration
  <2>4. \A x \in Procs, n \in Nat : k = TakeoverKey(x, n) => n < claims'
    BY <1>k, <1>c, <2>1, KeysApart DEF IInv, OwnKeysHaveOneGeneration
  <2>5. \A q \in Procs : Claims(q)' => (lease'.key = proc'[q].key => lease'.gen = proc'[q].gen)
    <3> TAKE q \in Procs
    <3> HAVE Claims(q)'
    <3> SUFFICES ASSUME lease'.key = proc'[q].key PROVE lease'.gen = proc'[q].gen
      OBVIOUS
    <3>1. Claims(q) /\ proc[q].key = k /\ k \in OwnKeys
      BY <1>a, <2>2 DEF Claims
    <3> QED
      BY <1>a, <2>1, <2>2, <3>1 DEF IInv, OwnKeysHaveOneGeneration
  <2>6. ASSUME NEW q \in Procs, Claims(q)', NEW x \in Procs, NEW n \in Nat,
               proc'[q].key = TakeoverKey(x, n)
        PROVE  \/ n < claims'
               \/ n = claims' /\ x = q /\ proc'[q].pc = "claim" /\ proc'[q].role = "takeover"
    <3>1. CASE q = p
      BY <2>2, <2>4, <2>6, <3>1
    <3>2. CASE q # p
      BY <2>2, <2>6, <3>2, <1>c, <1>k DEF IInv, OwnKeysHaveOneGeneration
    <3> QED
      BY <3>1, <3>2
  <2> QED
    BY <1>a, <2>2, <2>3, <2>4, <2>5, <2>6 DEF IInv, OwnKeysHaveOneGeneration
<1>8. StagedIsOwn'
  BY <1>a DEF StagedIsOwn
<1> QED
  BY <1>v, <1>1, <1>2, <1>4, <1>5, <1>6, <1>7, <1>8 DEF IInv, ShapeOK

\* A task claims the lease for the generation it selected.
LEMMA IClaim ==
    ASSUME IInv, NEW p \in Procs, claim_upstream_oauth_refresh_for_generation(p)
    PROVE  IInv'
<1> DEFINE k == proc[p].key
           row == [gen |-> account.gen, key |-> k, started |-> FALSE, pending |-> 0,
                   expired |-> FALSE]
           count == claims' = IF proc[p].role = "takeover" THEN claims + 1 ELSE claims
           loads == proc' = [proc EXCEPT ![p].pc = "load", ![p].gen = account.gen,
                                         ![p].role = "none"]
           frees == proc[p].role \in {"worker", "takeover"} => proc[p].gen = account.gen
<1>t. /\ ShapeOK /\ proc[p].pc = "claim" /\ TaskShape(p) /\ k \in TaskKeys
      /\ proc \in [Procs -> Tasks] /\ account.gen \in Nat /\ calls \in 0..MaxCalls
      /\ faults \in 0..MaxFaults
  BY DEF IInv, ShapeOK, Shape, TaskShape, Accounts, claim_upstream_oauth_refresh_for_generation
<1>u. UNCHANGED <<posted, twice, parent, calls>>
  BY DEF claim_upstream_oauth_refresh_for_generation
<1>q. Done(p) => /\ proc' \in [Procs -> Tasks] /\ Quits(p)
                 /\ \A q \in Procs \ {p} : proc'[q] = proc[q]
  BY <1>t, QuitFacts
<1>1. \/ /\ Leased(k) /\ lease.pending # 0 /\ Done(p) /\ UNCHANGED claims
         /\ Finalize(k) \/ UNCHANGED <<account, lease, replays>>
         /\ Fault \/ UNCHANGED faults
      \/ /\ Replay(k) = "none" /\ Vacant /\ frees /\ UNCHANGED account
         /\ \/ lease' = row /\ ReplaySet(k, "open") /\ count /\ (loads \/ Done(p))
            \/ UNCHANGED <<lease, replays, claims>> /\ Done(p)
         /\ Fault \/ UNCHANGED faults
      \/ /\ (proc[p].role = "worker" /\ To(p, "takeover")) \/ Done(p)
         /\ UNCHANGED <<account, lease, replays, claims, faults>>
  BY Zenon DEF claim_upstream_oauth_refresh_for_generation, Commits, InProgress
<1>2. CASE /\ Leased(k) /\ lease.pending # 0 /\ Done(p) /\ UNCHANGED claims
           /\ Finalize(k) \/ UNCHANGED <<account, lease, replays>>
           /\ Fault \/ UNCHANGED faults
  <2>1. faults' \in 0..MaxFaults
    BY <1>2, <1>t, FaultFacts
  <2>2. CASE Finalize(k)
    BY <1>2, <1>t, <1>u, <1>q, <2>1, <2>2, Installs
  <2>3. CASE UNCHANGED <<account, lease, replays>>
    BY <1>2, <1>t, <1>u, <1>q, <2>1, <2>3, Quiet DEF Keeps
  <2> QED
    BY <1>2, <2>2, <2>3
<1>3. CASE /\ Replay(k) = "none" /\ Vacant /\ frees /\ UNCHANGED account
           /\ \/ lease' = row /\ ReplaySet(k, "open") /\ count /\ (loads \/ Done(p))
              \/ UNCHANGED <<lease, replays, claims>> /\ Done(p)
           /\ Fault \/ UNCHANGED faults
  <2>1. faults' \in 0..MaxFaults
    BY <1>3, <1>t, FaultFacts
  <2>2. CASE UNCHANGED <<lease, replays, claims>> /\ Done(p)
    BY <1>3, <1>t, <1>u, <1>q, <2>1, <2>2, Quiet DEF Keeps
  <2>3. CASE lease' = row /\ ReplaySet(k, "open") /\ count /\ (loads \/ Done(p))
    <3>1. /\ row \in Leases /\ row.gen = account.gen /\ row.key = k /\ row.pending = 0
      <4>1. k \in LeaseKeys /\ account.gen \in Nat /\ 0 \in Nat
        BY <1>t DEF LeaseKeys
      <4> QED
        BY <4>1 DEF Leases
    <3>2. ASSUME loads
          PROVE  /\ proc' \in [Procs -> Tasks] /\ \A q \in Procs \ {p} : proc'[q] = proc[q]
                 /\ proc'[p].pc = "load" /\ proc'[p].key = proc[p].key
                 /\ proc'[p].gen = account.gen /\ proc'[p].token = proc[p].token
      <4>1. proc \in [Procs -> Tasks] /\ account.gen \in Nat
        BY <1>t
      <4> HIDE DEF row, k, count, frees
      <4> QED
        BY <3>2, <4>1 DEF Tasks, Pcs, Roles
    <3> HIDE DEF row, k, loads
    <3>3. /\ proc[p].key = k /\ lease' \in Leases /\ lease'.gen = account.gen /\ lease'.key = k
          /\ lease'.pending = 0
      BY <2>3, <3>1 DEF k
    <3>4. Replay(k) = "none" /\ Vacant /\ frees /\ ReplaySet(k, "open") /\ count
      BY <1>3, <2>3
    <3>5. UNCHANGED <<account, posted, twice, parent, calls>> /\ calls' \in 0..MaxCalls
      BY <1>3, <1>t, <1>u
    <3>6. CASE loads
      BY <1>t, <2>1, <3>2, <3>3, <3>4, <3>5, <3>6, Takes
    <3>7. CASE Done(p)
      BY <1>t, <1>q, <2>1, <3>3, <3>4, <3>5, <3>7, Takes
    <3> QED
      BY <2>3, <3>6, <3>7
  <2> QED
    BY <1>3, <2>2, <2>3
<1>4. CASE /\ (proc[p].role = "worker" /\ To(p, "takeover")) \/ Done(p)
           /\ UNCHANGED <<account, lease, replays, claims, faults>>
  <2>1. CASE Done(p)
    BY <1>4, <1>t, <1>u, <1>q, <2>1, Quiet DEF Keeps
  <2>2. CASE proc[p].role = "worker" /\ To(p, "takeover")
    <3>1. /\ proc' \in [Procs -> Tasks] /\ \A q \in Procs \ {p} : proc'[q] = proc[q]
          /\ proc'[p].pc = "takeover" /\ proc'[p].key = k /\ proc'[p].gen = proc[p].gen
          /\ proc'[p].role = proc[p].role /\ proc'[p].token = proc[p].token
      BY <1>t, <2>2, ToFacts DEF Pcs
    <3>2. TaskShape(p)'
      BY <1>t, <1>u, <1>4, <2>2, <3>1 DEF TaskShape, Token
    <3>3. Claims(p)' => Claims(p)
      BY <1>t, <3>1 DEF Claims
    <3>4. Claims(p) =>
             /\ lease.key = k => lease.gen = proc[p].gen
             /\ \A g \in Nat : k = WorkerKey(g) => proc[p].gen = g
             /\ \A x \in Procs, n \in Nat : k = TakeoverKey(x, n) => n < claims
             /\ \A q \in Procs \ {p} : Claims(q) /\ proc[q].key = k => proc[q].gen = proc[p].gen
      BY <2>2 DEF IInv, OwnKeysHaveOneGeneration
    <3> QED
      BY <1>4, <1>t, <1>u, <3>1, <3>2, <3>3, <3>4, Advance
  <2> QED
    BY <1>4, <2>1, <2>2
<1> QED
  BY <1>1, <1>2, <1>3, <1>4

-----------------------------------------------------------------------------
(* The request.                                                            *)

\* Steps that leave lease and claims alone keep the generations of the keys
\* that tasks make themselves.
LEMMA OwnKeysStay ==
    ASSUME OwnKeysHaveOneGeneration, lease'.key = lease.key, lease'.gen = lease.gen,
           claims' = claims,
           \A q \in Procs : Claims(q)' =>
              /\ Claims(q) /\ proc'[q].key = proc[q].key /\ proc'[q].gen = proc[q].gen
              /\ proc[q].pc = "claim" => proc'[q] = proc[q]
    PROVE  OwnKeysHaveOneGeneration'
BY DEF OwnKeysHaveOneGeneration

\* The request is marked before it leaves: nobody else is sending.
LEMMA Marks ==
    ASSUME IInv, NEW p \in Procs, proc[p].pc = "mark", Undispatched, lease.gen = account.gen,
           lease.key \in TaskKeys, lease' \in Leases, lease'.gen = lease.gen,
           lease'.key = lease.key, lease'.pending = lease.pending, lease'.started,
           proc' \in [Procs -> Tasks], \A q \in Procs \ {p} : proc'[q] = proc[q],
           UNCHANGED <<account, replays, posted, twice, parent, claims>>,
           calls' \in 0..MaxCalls, faults' \in 0..MaxFaults,
           \/ Quits(p)
           \/ /\ proc'[p].pc = "send" /\ proc'[p].key = proc[p].key
              /\ proc'[p].gen = proc[p].gen /\ proc'[p].token = proc[p].token
    PROVE  IInv'
<1>v. account.token \notin posted /\ \A q \in Procs : ~Sends(q)
  BY DEF IInv, SendersAreMarked, Undispatched
<1>k. lease.key # NoKey
  BY KeysApart
<1>g. account.gen \in Nat /\ TaskShape(p)
  BY DEF IInv, ShapeOK, Shape, Accounts
<1>t. TaskShape(p)'
  BY <1>g DEF TaskShape, Quits, Token
<1>1. \A q \in Procs : TaskShape(q)'
  BY <1>t DEF IInv, ShapeOK, TaskShape, Token
<1>2. Shape'
  <2>1. lease.key \notin {FenceKey(g) : g \in Nat} /\ Replay(lease.key)' = "open"
    BY KeysApart DEF IInv, ShapeOK, Shape, Replay
  <2> QED
    BY <1>k, <2>1 DEF IInv, ShapeOK, Shape, Token
<1>3. \A q \in Procs : /\ q # p => (Sends(q)' <=> Sends(q))
                       /\ Loaded(q)' => Loaded(q) /\ proc'[q].token = proc[q].token
                                        /\ proc'[q].gen = proc[q].gen
                       /\ Result(q)' => Result(q) /\ proc'[q] = proc[q]
  BY DEF Sends, Loaded, Result, Quits
<1>4. TasksKnow'
  BY <1>3 DEF IInv, TasksKnow
<1>5. SendersAreMarked'
  BY <1>3, <1>v DEF SendersAreMarked
<1>6. ResultsAreNew'
  <2>1. \A t : Unseen(t) => Unseen(t)'
    BY <1>3 DEF Unseen
  <2>2. \A j : Replay(j)' = Replay(j)
    BY DEF Replay
  <2> QED
    BY <1>3, <2>1, <2>2 DEF IInv, ResultsAreNew
<1>7. OwnKeysHaveOneGeneration'
  <2>1. \A q \in Procs : Claims(q)' =>
              /\ Claims(q) /\ proc'[q].key = proc[q].key /\ proc'[q].gen = proc[q].gen
              /\ proc[q].pc = "claim" => proc'[q] = proc[q]
    BY DEF Claims, Quits
  <2> QED
    BY <2>1, OwnKeysStay DEF IInv
<1>8. StagedIsOwn'
  BY DEF IInv, StagedIsOwn
<1> QED
  BY <1>v, <1>1, <1>2, <1>4, <1>5, <1>6, <1>7, <1>8 DEF IInv, ShapeOK

\* A task marks its lease before it sends.
LEMMA IMark ==
    ASSUME IInv, NEW p \in Procs, mark_upstream_oauth_refresh_request_started(p)
    PROVE  IInv'
<1> DEFINE marks == lease' = [lease EXCEPT !.started = TRUE]
<1>t. /\ ShapeOK /\ proc[p].pc = "mark" /\ proc[p].key \in TaskKeys /\ lease \in Leases
      /\ calls \in 0..MaxCalls /\ faults \in 0..MaxFaults
  BY DEF IInv, ShapeOK, Shape, TaskShape, mark_upstream_oauth_refresh_request_started
<1>u. UNCHANGED <<account, replays, posted, twice, parent, claims, calls>>
  BY DEF mark_upstream_oauth_refresh_request_started
<1>1. /\ \/ /\ Leased(proc[p].key) /\ Undispatched /\ lease.gen = account.gen
            /\ marks /\ (To(p, "send") \/ GiveUp(p))
         \/ UNCHANGED lease /\ GiveUp(p)
      /\ Fault \/ UNCHANGED faults
  BY Zenon DEF mark_upstream_oauth_refresh_request_started, Commits
<1>2. faults' \in 0..MaxFaults
  BY <1>t, <1>1, FaultFacts
<1>q. GiveUp(p) => /\ proc' \in [Procs -> Tasks] /\ Quits(p)
                   /\ \A q \in Procs \ {p} : proc'[q] = proc[q]
  BY <1>t, QuitFacts
<1>3. CASE UNCHANGED lease /\ GiveUp(p)
  BY <1>3, <1>t, <1>u, <1>2, <1>q, Quiet DEF Keeps
<1>4. CASE /\ Leased(proc[p].key) /\ Undispatched /\ lease.gen = account.gen
           /\ marks /\ (To(p, "send") \/ GiveUp(p))
  <2>1. /\ lease' \in Leases /\ lease'.gen = lease.gen /\ lease'.key = lease.key
        /\ lease'.pending = lease.pending /\ lease'.started
    BY <1>4, <1>t DEF Leases
  <2>2. lease.key \in TaskKeys
    BY <1>4, <1>t DEF Leased
  <2>3. To(p, "send") => /\ proc' \in [Procs -> Tasks] /\ \A q \in Procs \ {p} : proc'[q] = proc[q]
                         /\ proc'[p].pc = "send" /\ proc'[p].key = proc[p].key
                         /\ proc'[p].gen = proc[p].gen /\ proc'[p].token = proc[p].token
    BY <1>t, ToFacts DEF Pcs
  <2> HIDE DEF marks
  <2> QED
    BY <1>4, <1>t, <1>u, <1>2, <1>q, <2>1, <2>2, <2>3, Marks
<1> QED
  BY <1>1, <1>3, <1>4

\* A request that never left is unmarked: it was the account's own token, and
\* only this task was sending it.
LEMMA Unmarks ==
    ASSUME IInv, NEW p \in Procs, proc[p].pc = "unsend", lease.pending = 0,
           proc[p].gen = account.gen, lease.key \in TaskKeys, lease' \in Leases,
           lease'.gen = lease.gen, lease'.key = lease.key, lease'.pending = 0,
           proc' \in [Procs -> Tasks], \A q \in Procs \ {p} : proc'[q] = proc[q], Quits(p),
           UNCHANGED <<account, replays, posted, twice, parent, claims>>,
           calls' \in 0..MaxCalls, faults' \in 0..MaxFaults
    PROVE  IInv'
<1>s. Sends(p)
  BY DEF IInv, TasksKnow, Loaded, Sends
<1>v. account.token \notin posted /\ \A q \in Procs \ {p} : ~Sends(q)
  BY <1>s DEF IInv, SendersAreMarked
<1>k. lease.key # NoKey
  BY KeysApart
<1>g. account.gen \in Nat /\ TaskShape(p)
  BY DEF IInv, ShapeOK, Shape, Accounts
<1>t. TaskShape(p)'
  BY <1>g DEF TaskShape, Quits, Token
<1>1. \A q \in Procs : TaskShape(q)'
  BY <1>t DEF IInv, ShapeOK, TaskShape, Token
<1>2. Shape'
  <2>1. lease.key \notin {FenceKey(g) : g \in Nat} /\ Replay(lease.key)' = "open"
    BY KeysApart DEF IInv, ShapeOK, Shape, Replay
  <2> QED
    BY <1>k, <2>1 DEF IInv, ShapeOK, Shape, Token
<1>3. \A q \in Procs : /\ ~Sends(q)'
                       /\ Loaded(q)' => Loaded(q) /\ proc'[q] = proc[q]
                       /\ Result(q)' => Result(q) /\ proc'[q] = proc[q]
  BY <1>v DEF Sends, Loaded, Result, Quits
<1>4. TasksKnow' /\ SendersAreMarked'
  BY <1>3 DEF IInv, TasksKnow, SendersAreMarked
<1>6. ResultsAreNew'
  <2>1. \A t : Unseen(t) => Unseen(t)'
    BY <1>3 DEF Unseen
  <2>2. \A j : Replay(j)' = Replay(j)
    BY DEF Replay
  <2> QED
    BY <1>3, <2>1, <2>2 DEF IInv, ResultsAreNew
<1>7. OwnKeysHaveOneGeneration'
  <2>1. \A q \in Procs : Claims(q)' =>
              /\ Claims(q) /\ proc'[q].key = proc[q].key /\ proc'[q].gen = proc[q].gen
              /\ proc[q].pc = "claim" => proc'[q] = proc[q]
    BY DEF Claims, Quits
  <2> QED
    BY <2>1, OwnKeysStay DEF IInv
<1>8. StagedIsOwn'
  BY DEF StagedIsOwn
<1> QED
  BY <1>v, <1>1, <1>2, <1>4, <1>6, <1>7, <1>8 DEF IInv, ShapeOK

\* A task that could not send clears the mark.
LEMMA IUnsend ==
    ASSUME IInv, NEW p \in Procs, mark_upstream_oauth_refresh_request_not_sent(p)
    PROVE  IInv'
<1> DEFINE unmarks == lease' = [lease EXCEPT !.started = FALSE]
<1>t. /\ ShapeOK /\ proc[p].pc = "unsend" /\ proc[p].key \in TaskKeys /\ lease \in Leases
      /\ calls \in 0..MaxCalls /\ faults \in 0..MaxFaults
  BY DEF IInv, ShapeOK, Shape, TaskShape, mark_upstream_oauth_refresh_request_not_sent
<1>u. UNCHANGED <<account, replays, posted, twice, parent, claims, calls>>
  BY DEF mark_upstream_oauth_refresh_request_not_sent
<1>1. /\ \/ /\ Leased(proc[p].key) /\ lease.pending = 0 /\ account.gen = proc[p].gen
            /\ unmarks
         \/ UNCHANGED lease
      /\ GiveUp(p) /\ (Fault \/ UNCHANGED faults)
  BY Zenon DEF mark_upstream_oauth_refresh_request_not_sent, Commits
<1>2. faults' \in 0..MaxFaults
  BY <1>t, <1>1, FaultFacts
<1>q. /\ proc' \in [Procs -> Tasks] /\ Quits(p)
      /\ \A q \in Procs \ {p} : proc'[q] = proc[q]
  BY <1>t, <1>1, QuitFacts
<1>3. CASE UNCHANGED lease
  BY <1>3, <1>t, <1>u, <1>2, <1>q, Quiet DEF Keeps
<1>4. CASE Leased(proc[p].key) /\ lease.pending = 0 /\ account.gen = proc[p].gen /\ unmarks
  <2>1. /\ lease' \in Leases /\ lease'.gen = lease.gen /\ lease'.key = lease.key
        /\ lease'.pending = 0
    BY <1>4, <1>t DEF Leases
  <2>2. lease.key \in TaskKeys
    BY <1>4, <1>t DEF Leased
  <2> HIDE DEF unmarks
  <2> QED
    BY <1>4, <1>t, <1>u, <1>2, <1>q, <2>1, <2>2, Unmarks
<1> QED
  BY <1>1, <1>3, <1>4

\* The provider issues a new token.
LEMMA AppendFacts ==
    ASSUME Shape, NEW t \in Nat, parent' = Append(parent, t)
    PROVE  /\ parent' \in Seq(Nat) /\ Len(parent') = Len(parent) + 1 /\ Len(parent) \in Nat
           /\ parent'[NewToken] = t /\ NewToken \notin Token /\ NewToken \in Nat /\ NewToken # 0
           /\ NewToken \in Token'
           /\ Token \subseteq Token' /\ \A x \in Token : parent'[x] = parent[x]
BY DEF Shape, NewToken, Token

\* The token reaches the server, which may hand out a new one.
LEMMA Posts ==
    ASSUME IInv, NEW p \in Procs, NEW t, NEW n, n = NewToken, proc[p].pc = "send",
           proc[p].token = t,
           posted' = posted \cup {t}, twice' = IF t \in posted THEN twice \cup {t} ELSE twice,
           proc' \in [Procs -> Tasks], \A q \in Procs \ {p} : proc'[q] = proc[q],
           UNCHANGED <<account, lease, replays, claims>>,
           calls' \in 0..MaxCalls, faults' \in 0..MaxFaults,
           \/ Quits(p) /\ UNCHANGED parent
           \/ Quits(p) /\ parent' = Append(parent, t)
           \/ /\ parent' = Append(parent, t)
              /\ proc'[p].pc = "stage" /\ proc'[p].key = proc[p].key
              /\ proc'[p].gen = proc[p].gen /\ proc'[p].token = n
    PROVE  IInv'
<1>g. /\ account.gen \in Nat /\ TaskShape(p) /\ t \in Token /\ t \in Nat /\ Loaded(p)
      /\ account.token \in Token
  <2>1. account.gen \in Nat /\ TaskShape(p) /\ account.token \in Token
    BY DEF IInv, ShapeOK, Shape, Accounts
  <2>2. t \in Token
    BY <2>1 DEF TaskShape
  <2> QED
    BY <2>1, <2>2 DEF Token, Loaded
<1>p. /\ parent' \in Seq(Nat) /\ Token \subseteq Token'
      /\ \A x \in Token : parent'[x] = parent[x]
      /\ n \notin Token /\ n # 0
  <2>1. CASE UNCHANGED parent
    BY <2>1 DEF IInv, ShapeOK, Shape, Token, NewToken
  <2>2. CASE parent' = Append(parent, t)
    BY <1>g, <2>2, AppendFacts DEF IInv, ShapeOK
  <2> QED
    BY <2>1, <2>2
<1>n. ~Quits(p) => n \in Token' /\ parent'[n] = t
  BY <1>g, AppendFacts DEF IInv, ShapeOK
<1>t. TaskShape(p)'
  BY <1>g, <1>p, <1>n DEF TaskShape, Quits
<1>1. \A q \in Procs : TaskShape(q)'
  <2>1. ASSUME NEW q \in Procs, q # p PROVE TaskShape(q)'
    BY <1>p, <2>1 DEF IInv, ShapeOK, TaskShape
  <2> QED
    BY <1>t, <2>1
<1>2. Shape'
  <2>1. posted' \subseteq Token' /\ twice' \subseteq posted'
    BY <1>g, <1>p DEF IInv, ShapeOK, Shape
  <2>2. Replay(lease.key)' = Replay(lease.key)
    BY DEF Replay
  <2> QED
    BY <1>g, <1>p, <2>1, <2>2 DEF IInv, ShapeOK, Shape
<1>3. \A q \in Procs : /\ Loaded(q)' => Loaded(q) /\ proc'[q] = proc[q] /\ q # p
                       /\ Result(q)' => q = p \/ (Result(q) /\ proc'[q] = proc[q])
                       /\ Sends(q)' => Sends(q) /\ q # p
  BY DEF Sends, Loaded, Result, Quits
<1>4. TasksKnow'
  <2>1. ASSUME NEW q \in Procs, Result(q)', proc'[q].gen = account'.gen
        PROVE  parent'[proc'[q].token] = account'.token
    <3>1. CASE q = p
      BY <2>1, <3>1, <1>n, <1>g DEF IInv, TasksKnow, Result, Quits
    <3>2. CASE q # p
      <4>1. Result(q) /\ proc'[q] = proc[q] /\ proc[q].token \in Token
        BY <1>3, <2>1, <3>2 DEF IInv, ShapeOK, TaskShape, Result
      <4> QED
        BY <1>p, <2>1, <4>1 DEF IInv, TasksKnow
    <3> QED
      BY <3>1, <3>2
  <2> QED
    BY <1>3, <2>1 DEF IInv, TasksKnow
<1>5. SendersAreMarked'
  <2>1. \A q \in Procs : Sends(q)' => t # account.token
    BY <1>3 DEF IInv, SendersAreMarked, Sends
  <2> QED
    BY <1>3, <2>1 DEF IInv, SendersAreMarked
<1>6. ResultsAreNew'
  <2>1. \A x : Unseen(x) => Unseen(x)'
    BY <1>3, <1>g DEF Unseen
  <2>2. \A j : Replay(j)' = Replay(j)
    BY DEF Replay
  <2>3. ~Quits(p) => Unseen(n)'
    <3>1. \A q \in Procs : proc[q].token \in Token \cup {0}
      BY DEF IInv, ShapeOK, TaskShape
    <3> QED
      BY <1>3, <1>g, <1>p, <3>1 DEF IInv, ShapeOK, Shape, Unseen
  <2> QED
    <3>1. \A q \in Procs : Result(q)' => proc'[q].token # n \/ q = p
      BY <1>3, <1>p DEF IInv, ShapeOK, TaskShape
    <3>2. lease.pending # n
      BY <1>p DEF IInv, ShapeOK, Shape
    <3>3. Result(p)' => ~Quits(p) /\ proc'[p].token = n
      BY DEF Result, Quits
    <3> QED
      BY <1>3, <2>1, <2>2, <2>3, <1>p, <3>1, <3>2, <3>3 DEF IInv, ResultsAreNew
<1>7. OwnKeysHaveOneGeneration'
  <2>1. \A q \in Procs : Claims(q)' =>
              /\ Claims(q) /\ proc'[q].key = proc[q].key /\ proc'[q].gen = proc[q].gen
              /\ proc[q].pc = "claim" => proc'[q] = proc[q]
    BY DEF Claims, Quits
  <2> QED
    BY <2>1, OwnKeysStay DEF IInv
<1>8. StagedIsOwn'
  BY <1>p DEF IInv, ShapeOK, Shape, StagedIsOwn
<1>9. account'.token \notin twice' /\ (account'.token \in posted' =>
                                         lease'.gen = account'.gen /\ lease'.started)
  <2>1. t = account.token => Sends(p)
    BY DEF Sends
  <2> QED
    BY <2>1 DEF IInv, SendersAreMarked
<1> QED
  BY <1>1, <1>2, <1>4, <1>5, <1>6, <1>7, <1>8, <1>9 DEF IInv, ShapeOK

\* A connection that was refused changes nothing outside the task.
LEMMA Refused ==
    ASSUME IInv, NEW p \in Procs, proc[p].pc = "send", To(p, "unsend"),
           UNCHANGED <<account, lease, replays, posted, twice, parent, claims>>,
           calls' \in 0..MaxCalls, faults' \in 0..MaxFaults
    PROVE  IInv'
<1>p. /\ proc' \in [Procs -> Tasks] /\ \A q \in Procs \ {p} : proc'[q] = proc[q]
      /\ proc'[p].pc = "unsend" /\ proc'[p].key = proc[p].key /\ proc'[p].gen = proc[p].gen
      /\ proc'[p].role = proc[p].role /\ proc'[p].token = proc[p].token
  BY ToFacts DEF IInv, Pcs
<1>1. \A q \in Procs : TaskShape(q)'
  BY <1>p DEF IInv, ShapeOK, TaskShape, Token
<1>2. Shape'
  BY <1>p DEF IInv, ShapeOK, Shape, Token, Replay
<1>3. TasksKnow' /\ SendersAreMarked'
  BY <1>p DEF IInv, TasksKnow, SendersAreMarked, Loaded, Result, Sends
<1>4. ResultsAreNew'
  BY <1>p DEF IInv, ResultsAreNew, Unseen, Loaded, Result, Replay
<1>5. OwnKeysHaveOneGeneration'
  BY <1>p, OwnKeysStay DEF IInv, Claims
<1> QED
  BY <1>1, <1>2, <1>3, <1>4, <1>5 DEF IInv, ShapeOK, StagedIsOwn

\* A token is spent at the provider.
LEMMA ISend ==
    ASSUME IInv, NEW p \in Procs, Send(p)
    PROVE  IInv'
<1> DEFINE t == proc[p].token
           stages == proc' = [proc EXCEPT ![p].pc = "stage", ![p].token = NewToken]
           posts == /\ posted' = posted \cup {t}
                    /\ twice' = IF t \in posted THEN twice \cup {t} ELSE twice
<1>t. /\ ShapeOK /\ proc[p].pc = "send" /\ proc[p].key \in TaskKeys /\ NewToken \in Nat
      /\ calls \in 0..MaxCalls /\ faults \in 0..MaxFaults /\ proc \in [Procs -> Tasks]
  BY DEF IInv, ShapeOK, Shape, TaskShape, Send, NewToken
<1>u. UNCHANGED <<account, lease, replays, claims, calls>>
  BY DEF Send
<1>1. /\ \/ (To(p, "unsend") \/ GiveUp(p)) /\ UNCHANGED <<posted, twice, parent>>
         \/ /\ posts
            /\ \/ GiveUp(p) /\ UNCHANGED parent
               \/ GiveUp(p) /\ parent' = Append(parent, t)
               \/ stages /\ parent' = Append(parent, t)
      /\ Fault \/ UNCHANGED faults
  BY Zenon DEF Send
<1>2. faults' \in 0..MaxFaults
  BY <1>t, <1>1, FaultFacts
<1>q. GiveUp(p) => /\ proc' \in [Procs -> Tasks] /\ Quits(p)
                   /\ \A q \in Procs \ {p} : proc'[q] = proc[q]
  BY <1>t, QuitFacts
<1>s. ASSUME stages
      PROVE  /\ proc' \in [Procs -> Tasks] /\ \A q \in Procs \ {p} : proc'[q] = proc[q]
             /\ proc'[p].pc = "stage" /\ proc'[p].key = proc[p].key
             /\ proc'[p].gen = proc[p].gen /\ proc'[p].token = NewToken
  <2>1. proc \in [Procs -> Tasks] /\ NewToken \in Nat
    BY <1>t
  <2> HIDE DEF t, posts
  <2> QED
    BY <1>s, <2>1 DEF Tasks, Pcs
<1>3. CASE To(p, "unsend") /\ UNCHANGED <<posted, twice, parent>>
  BY <1>3, <1>t, <1>u, <1>2, Refused
<1>4. CASE GiveUp(p) /\ UNCHANGED <<posted, twice, parent>>
  BY <1>4, <1>t, <1>u, <1>2, <1>q, Quiet DEF Keeps
<1> HIDE DEF stages, t
<1>5. CASE posts /\ GiveUp(p) /\ (UNCHANGED parent \/ parent' = Append(parent, t))
  BY <1>5, <1>t, <1>u, <1>2, <1>q, Posts DEF t
<1>6. CASE posts /\ stages /\ parent' = Append(parent, t)
  BY <1>6, <1>t, <1>u, <1>2, <1>s, Posts DEF t
<1> QED
  BY <1>1, <1>3, <1>4, <1>5, <1>6

-----------------------------------------------------------------------------
(* The result.                                                             *)

\* A result is staged under the key that was claimed for it.
LEMMA Stages ==
    ASSUME IInv, NEW p \in Procs, proc[p].pc = "stage", Replay(proc[p].key) = "open",
           lease.key = proc[p].key, lease.pending \in {0, proc[p].token},
           lease' \in Leases, lease'.gen = lease.gen, lease'.key = lease.key,
           lease'.started = lease.started, lease'.pending = proc[p].token,
           proc' \in [Procs -> Tasks], \A q \in Procs \ {p} : proc'[q] = proc[q],
           UNCHANGED <<account, replays, posted, twice, parent, claims>>,
           calls' \in 0..MaxCalls, faults' \in 0..MaxFaults,
           \/ Quits(p)
           \/ /\ proc'[p].pc \in {"stage", "finalize"} /\ proc'[p].key = proc[p].key
              /\ proc'[p].gen = proc[p].gen /\ proc'[p].token = proc[p].token
    PROVE  IInv'
<1>g. /\ account.gen \in Nat /\ TaskShape(p) /\ lease.key \in TaskKeys /\ Result(p)
      /\ proc[p].token \in Token
  BY DEF IInv, ShapeOK, Shape, Accounts, TaskShape, Result
<1>k. lease.key # NoKey /\ lease.key \notin {FenceKey(g) : g \in Nat}
  BY <1>g, KeysApart
<1>t. TaskShape(p)'
  BY <1>g DEF TaskShape, Quits, Token
<1>1. \A q \in Procs : TaskShape(q)'
  BY <1>t DEF IInv, ShapeOK, TaskShape, Token
<1>2. Shape'
  <2>1. Replay(lease.key)' = "open"
    BY DEF Replay
  <2> QED
    BY <1>g, <1>k, <2>1 DEF IInv, ShapeOK, Shape, Token
<1>3. \A q \in Procs : /\ Loaded(q)' <=> Loaded(q) /\ proc'[q] = proc[q]
                       /\ Sends(q)' <=> Sends(q)
                       /\ Result(q)' => Result(q) /\ proc'[q].token = proc[q].token
                                        /\ proc'[q].key = proc[q].key
                                        /\ proc'[q].gen = proc[q].gen
  BY DEF Sends, Loaded, Result, Quits
<1>4. TasksKnow' /\ SendersAreMarked'
  BY <1>3 DEF IInv, TasksKnow, SendersAreMarked
<1>6. ResultsAreNew'
  <2>1. \A x : Unseen(x) => Unseen(x)'
    BY <1>3 DEF Unseen
  <2>2. \A j : Replay(j)' = Replay(j)
    BY DEF Replay
  <2>3. Unseen(proc[p].token)
    BY <1>g DEF IInv, ResultsAreNew
  <2>4. Unseen(lease.pending)'
    <3>1. PICK x : x = proc[p].token
      OBVIOUS
    <3> QED
      BY <2>1, <2>3, <3>1 DEF Unseen
  <2>5. \A q \in Procs : Result(q) /\ proc[q].token = proc[p].token => q = p
    BY <1>g DEF IInv, ResultsAreNew
  <2> QED
    BY <1>3, <1>g, <2>1, <2>2, <2>4, <2>5 DEF IInv, ResultsAreNew
<1>7. OwnKeysHaveOneGeneration'
  <2>1. \A q \in Procs : Claims(q)' =>
              /\ Claims(q) /\ proc'[q].key = proc[q].key /\ proc'[q].gen = proc[q].gen
              /\ proc[q].pc = "claim" => proc'[q] = proc[q]
    BY DEF Claims, Quits
  <2> QED
    BY <2>1, OwnKeysStay DEF IInv
<1>8. StagedIsOwn'
  <2>1. lease.key \in OwnKeys => lease.gen = proc[p].gen
    BY DEF IInv, OwnKeysHaveOneGeneration, Claims
  <2> QED
    BY <1>g, <2>1 DEF IInv, TasksKnow, StagedIsOwn
<1> QED
  BY <1>1, <1>2, <1>4, <1>6, <1>7, <1>8 DEF IInv, ShapeOK

\* The result is staged in the lease row.
LEMMA IStage ==
    ASSUME IInv, NEW p \in Procs, stage_upstream_oauth_refresh_pending(p)
    PROVE  IInv'
<1> DEFINE saves == lease' = [lease EXCEPT !.pending = proc[p].token]
<1>t. /\ ShapeOK /\ proc[p].pc = "stage" /\ lease \in Leases /\ proc[p].token \in Nat
      /\ calls \in 0..MaxCalls /\ faults \in 0..MaxFaults
  BY DEF IInv, ShapeOK, Shape, TaskShape, Tasks, stage_upstream_oauth_refresh_pending
<1>u. UNCHANGED <<account, replays, posted, twice, parent, claims, calls>>
  BY DEF stage_upstream_oauth_refresh_pending
<1>1. /\ \/ /\ Replay(proc[p].key) = "open" /\ Leased(proc[p].key)
            /\ lease.pending \in {0, proc[p].token}
            /\ saves /\ (To(p, "finalize") \/ Again(p))
         \/ UNCHANGED lease /\ (Again(p) \/ Done(p))
      /\ Fault \/ UNCHANGED faults
  BY Zenon DEF stage_upstream_oauth_refresh_pending, Commits
<1>2. faults' \in 0..MaxFaults
  BY <1>t, <1>1, FaultFacts
<1>q. Done(p) => /\ proc' \in [Procs -> Tasks] /\ Quits(p)
                 /\ \A q \in Procs \ {p} : proc'[q] = proc[q]
  BY <1>t, QuitFacts
<1>r. To(p, "stage") \/ To(p, "finalize") =>
        /\ proc' \in [Procs -> Tasks] /\ \A q \in Procs \ {p} : proc'[q] = proc[q]
        /\ proc'[p].pc \in {"stage", "finalize"} /\ proc'[p].key = proc[p].key
        /\ proc'[p].gen = proc[p].gen /\ proc'[p].token = proc[p].token
  BY <1>t, ToFacts DEF Pcs
<1>3. CASE UNCHANGED lease /\ Done(p)
  BY <1>3, <1>t, <1>u, <1>2, <1>q, Quiet DEF Keeps
<1>4. CASE UNCHANGED lease /\ To(p, "stage")
  <2>1. UNCHANGED proc
    BY <1>4, <1>t DEF To, ShapeOK, Shape, Tasks
  <2> QED
    BY <1>4, <1>t, <1>u, <1>2, <2>1, Quiet DEF Keeps, ShapeOK, Shape
<1>5. CASE /\ Replay(proc[p].key) = "open" /\ Leased(proc[p].key)
           /\ lease.pending \in {0, proc[p].token}
           /\ saves /\ (To(p, "finalize") \/ Again(p))
  <2>1. /\ lease' \in Leases /\ lease'.gen = lease.gen /\ lease'.key = lease.key
        /\ lease'.pending = proc[p].token
    BY <1>5, <1>t DEF Leases
  <2>2. lease'.started = lease.started
    BY <1>5, <1>t, Zenon DEF Leases
  <2>3. lease.key = proc[p].key
    BY <1>5 DEF Leased
  <2>4. To(p, "stage") \/ To(p, "finalize") \/ Done(p)
    BY <1>5 DEF Again
  <2> HIDE DEF saves
  <2> QED
    BY <1>5, <1>t, <1>u, <1>2, <1>q, <1>r, <2>1, <2>2, <2>3, <2>4, Stages
<1> QED
  BY <1>1, <1>3, <1>4, <1>5 DEF Again

\* A task that repeats the last step from the start.
LEMMA Repeats ==
    ASSUME IInv, NEW p \in Procs, proc[p].pc = "finalize", To(p, "stage"),
           UNCHANGED <<account, lease, replays, posted, twice, parent, claims>>,
           calls' \in 0..MaxCalls, faults' \in 0..MaxFaults
    PROVE  IInv'
<1>p. /\ proc' \in [Procs -> Tasks] /\ \A q \in Procs \ {p} : proc'[q] = proc[q]
      /\ proc'[p].pc = "stage" /\ proc'[p].key = proc[p].key /\ proc'[p].gen = proc[p].gen
      /\ proc'[p].role = proc[p].role /\ proc'[p].token = proc[p].token
  BY ToFacts DEF IInv, Pcs
<1>1. \A q \in Procs : TaskShape(q)'
  BY <1>p DEF IInv, ShapeOK, TaskShape, Token
<1>2. Shape'
  BY <1>p DEF IInv, ShapeOK, Shape, Token, Replay
<1>3. TasksKnow' /\ SendersAreMarked'
  BY <1>p DEF IInv, TasksKnow, SendersAreMarked, Loaded, Result, Sends
<1>4. ResultsAreNew'
  BY <1>p DEF IInv, ResultsAreNew, Unseen, Loaded, Result, Replay
<1>5. OwnKeysHaveOneGeneration'
  BY <1>p, OwnKeysStay DEF IInv, Claims
<1> QED
  BY <1>1, <1>2, <1>3, <1>4, <1>5 DEF IInv, ShapeOK, StagedIsOwn

\* The staged result is installed.
LEMMA IFinish ==
    ASSUME IInv, NEW p \in Procs, finish_upstream_oauth_refresh_attempt(p)
    PROVE  IInv'
<1> DEFINE k == proc[p].key
<1>t. /\ ShapeOK /\ proc[p].pc = "finalize" /\ k \in TaskKeys /\ proc[p].token # 0
      /\ calls \in 0..MaxCalls /\ faults \in 0..MaxFaults
  BY DEF IInv, ShapeOK, Shape, TaskShape, finish_upstream_oauth_refresh_attempt
<1>u. UNCHANGED <<posted, twice, parent, claims, calls>>
  BY DEF finish_upstream_oauth_refresh_attempt
<1>1. /\ \/ /\ Leased(k) /\ lease.pending = proc[p].token
            /\ Finalize(k)
         \/ UNCHANGED <<account, lease, replays>>
      /\ Done(p) \/ Again(p)
      /\ Fault \/ UNCHANGED faults
  BY Zenon DEF finish_upstream_oauth_refresh_attempt, Commits
<1>2. faults' \in 0..MaxFaults
  BY <1>t, <1>1, FaultFacts
<1>q. Done(p) => /\ proc' \in [Procs -> Tasks] /\ Quits(p)
                 /\ \A q \in Procs \ {p} : proc'[q] = proc[q]
  BY <1>t, QuitFacts
<1>r. To(p, "stage") =>
        /\ proc' \in [Procs -> Tasks] /\ \A q \in Procs \ {p} : proc'[q] = proc[q]
        /\ proc'[p].pc = "stage" /\ proc'[p].key = proc[p].key
        /\ proc'[p].gen = proc[p].gen /\ proc'[p].token = proc[p].token
  BY <1>t, ToFacts DEF Pcs
<1>d. Done(p) \/ To(p, "stage")
  BY <1>1 DEF Again
<1>3. CASE Leased(k) /\ lease.pending = proc[p].token /\ Finalize(k)
  BY <1>3, <1>t, <1>u, <1>2, <1>q, <1>r, <1>d, Installs
<1>4. CASE UNCHANGED <<account, lease, replays>>
  <2>1. CASE Done(p)
    BY <1>4, <1>t, <1>u, <1>2, <1>q, <2>1, Quiet DEF Keeps
  <2>2. CASE To(p, "stage")
    BY <1>4, <1>t, <1>u, <1>2, <2>2, Repeats
  <2> QED
    BY <1>d, <2>1, <2>2
<1> QED
  BY <1>1, <1>3, <1>4

-----------------------------------------------------------------------------
(* Operators and time.                                                     *)

\* Neither the tokens, the generations nor the marks change.
LEMMA Same ==
    ASSUME IInv, account' \in Accounts, account'.gen = account.gen,
           account'.token = account.token,
           lease' \in Leases, lease'.gen = lease.gen, lease'.key = lease.key,
           lease'.started = lease.started, lease'.pending = lease.pending,
           lease'.key = NoKey => lease' = NoLease, faults' \in 0..MaxFaults,
           UNCHANGED <<replays, proc, posted, twice, parent, claims, calls>>
    PROVE  IInv'
<1>1. \A q \in Procs : TaskShape(q)'
  BY DEF IInv, ShapeOK, TaskShape, Token
<1>2. Shape'
  BY DEF IInv, ShapeOK, Shape, Token, Replay
<1>3. TasksKnow' /\ SendersAreMarked'
  BY DEF IInv, TasksKnow, SendersAreMarked, Loaded, Result, Sends
<1>4. ResultsAreNew'
  BY DEF IInv, ResultsAreNew, Unseen, Loaded, Result, Replay
<1>5. OwnKeysHaveOneGeneration'
  BY OwnKeysStay DEF IInv, Claims
<1> QED
  BY <1>1, <1>2, <1>3, <1>4, <1>5 DEF IInv, ShapeOK, StagedIsOwn

\* An operator disconnects the account.
LEMMA IDisconnect == ASSUME IInv, disconnect_upstream_oauth PROVE IInv'
<1>1. account \in Accounts /\ lease \in Leases /\ (lease.key = NoKey => lease = NoLease)
      /\ faults \in 0..MaxFaults
  BY DEF IInv, ShapeOK, Shape
<1>2. /\ account' = [account EXCEPT !.revoked = TRUE, !.status = "disabled"]
      /\ UNCHANGED <<lease, parent, replays, proc, posted, twice, claims, calls, faults>>
  BY DEF disconnect_upstream_oauth, Operator
<1>3. account' = [gen |-> account.gen, token |-> account.token, status |-> "disabled",
                  revoked |-> TRUE]
  BY <1>1, <1>2 DEF Accounts
<1>4. account' \in Accounts /\ account'.gen = account.gen /\ account'.token = account.token
  BY <1>1, <1>3 DEF Accounts
<1> QED
  BY <1>1, <1>2, <1>4, Same

\* A lease runs out.
LEMMA IExpires == ASSUME IInv, LeaseExpires PROVE IInv'
<1>1. /\ account \in Accounts /\ lease \in Leases /\ (lease.key = NoKey => lease = NoLease)
      /\ ShapeOK
  BY DEF IInv, ShapeOK, Shape
<1>2. /\ lease' = [lease EXCEPT !.expired = TRUE] /\ ~lease.expired
      /\ UNCHANGED <<account, parent, replays, proc, posted, twice, claims, calls>>
      /\ Fault \/ UNCHANGED faults
  BY Zenon DEF LeaseExpires
<1>3. /\ lease' \in Leases /\ lease'.gen = lease.gen /\ lease'.key = lease.key
      /\ lease'.pending = lease.pending
  BY <1>1, <1>2 DEF Leases
<1>4. lease'.started = lease.started
  BY <1>1, <1>2, Zenon DEF Leases
<1>5. lease.key # NoKey
  BY <1>1, <1>2, NoLeaseFacts
<1>6. faults' \in 0..MaxFaults
  BY <1>1, <1>2, FaultFacts
<1> QED
  BY <1>1, <1>2, <1>3, <1>4, <1>5, <1>6, Same

\* A new authorization: its token is new, and every task is behind.
LEMMA Authorizes ==
    ASSUME IInv, NEW n, n = NewToken, account' \in Accounts, account'.gen = account.gen + 1,
           account'.token = n, parent' = Append(parent, 0),
           UNCHANGED <<lease, replays, proc, posted, twice, claims, calls, faults>>
    PROVE  IInv'
<1>g. /\ account.gen \in Nat /\ account.gen >= 1 /\ lease.gen \in Nat /\ lease.gen <= account.gen
      /\ \A q \in Procs : proc[q].gen \in Nat /\ TaskShape(q)
  BY DEF IInv, ShapeOK, Shape, Accounts, Leases, Tasks
<1>p. /\ parent' \in Seq(Nat) /\ Token \subseteq Token' /\ n \in Token' /\ n \notin Token /\ n # 0
  BY AppendFacts DEF IInv, ShapeOK
<1>1. \A q \in Procs : TaskShape(q)'
  <2> TAKE q \in Procs
  <2>1. proc[q].gen <= account'.gen /\ proc[q].token \in Token' \cup {0}
    BY <1>g, <1>p DEF TaskShape
  <2> QED
    BY <1>g, <2>1 DEF TaskShape
<1>2. Shape'
  <2>1. /\ account'.gen >= 1 /\ lease.gen <= account'.gen /\ lease.pending \in Token' \cup {0}
        /\ posted \subseteq Token'
    BY <1>g, <1>p DEF IInv, ShapeOK, Shape
  <2> QED
    BY <1>p, <2>1 DEF IInv, ShapeOK, Shape, Replay
<1>3. \A q \in Procs : proc[q].gen # account'.gen /\ proc[q].token # n
  BY <1>g, <1>p DEF TaskShape
<1>4. lease.gen # account'.gen /\ lease.pending # n /\ n \notin posted
  BY <1>g, <1>p DEF IInv, ShapeOK, Shape
<1>5. TasksKnow' /\ SendersAreMarked'
  BY <1>3 DEF TasksKnow, SendersAreMarked, Sends
<1>6. ResultsAreNew'
  <2>1. \A x : Unseen(x) /\ x # n => Unseen(x)'
    BY DEF Unseen, Loaded
  <2> QED
    BY <1>3, <1>4, <2>1 DEF IInv, ResultsAreNew, Result, Replay
<1>7. OwnKeysHaveOneGeneration'
  BY OwnKeysStay DEF IInv, Claims
<1>8. StagedIsOwn'
  BY <1>4 DEF StagedIsOwn
<1> QED
  BY <1>1, <1>2, <1>4, <1>5, <1>6, <1>7, <1>8 DEF IInv, ShapeOK, Shape

\* An operator installs a new authorization.
LEMMA IAuthorize ==
    ASSUME IInv,
           \/ reauthorize_upstream_account_with_transport
           \/ rotate_upstream_credential_with_outcome
    PROVE  IInv'
<1> DEFINE n == NewToken
<1>1. account \in Accounts /\ n \in Nat
  BY DEF IInv, ShapeOK, Shape, NewToken
<1>2. /\ parent' = Append(parent, 0)
      /\ UNCHANGED <<lease, replays, proc, posted, twice, claims, calls, faults>>
  BY DEF reauthorize_upstream_account_with_transport, rotate_upstream_credential_with_outcome,
         Operator
<1>3. \E s \in {"active", "disabled"} :
         account' = [gen |-> account.gen + 1, token |-> n, status |-> s, revoked |-> FALSE]
  <2>1. CASE rotate_upstream_credential_with_outcome
    <3>1. account' = [account EXCEPT !.gen = @ + 1, !.token = n, !.revoked = FALSE]
      BY <2>1 DEF rotate_upstream_credential_with_outcome
    <3> HIDE DEF n
    <3>2. account' = [gen |-> account.gen + 1, token |-> n, status |-> account.status,
                      revoked |-> FALSE]
      BY <1>1, <3>1 DEF Accounts
    <3> QED
      BY <1>1, <3>2 DEF Accounts
  <2>2. CASE reauthorize_upstream_account_with_transport
    <3> DEFINE s == IF driver # "generic" /\ account.revoked THEN "active" ELSE account.status
    <3>1. account' = [account EXCEPT !.gen = @ + 1, !.token = n, !.revoked = FALSE, !.status = s]
      BY <2>2 DEF reauthorize_upstream_account_with_transport
    <3>2. s \in {"active", "disabled"}
      BY <1>1 DEF Accounts
    <3> HIDE DEF n, s
    <3>3. account' = [gen |-> account.gen + 1, token |-> n, status |-> s, revoked |-> FALSE]
      BY <1>1, <3>1 DEF Accounts
    <3> QED
      BY <3>2, <3>3
  <2> QED
    BY <2>1, <2>2
<1> HIDE DEF n
<1>4. account' \in Accounts /\ account'.gen = account.gen + 1 /\ account'.token = n
  <2>1. PICK s \in {"active", "disabled"} :
           account' = [gen |-> account.gen + 1, token |-> n, status |-> s, revoked |-> FALSE]
    BY <1>3
  <2>2. account.gen + 1 \in Nat
    BY <1>1 DEF Accounts
  <2> QED
    BY <1>1, <2>1, <2>2 DEF Accounts
<1> QED
  BY <1>2, <1>4, Authorizes DEF n

\* The same token under a new generation, which is marked if the last was.
LEMMA Reseals ==
    ASSUME IInv, account' \in Accounts, account'.gen = account.gen + 1,
           account'.token = account.token,
           UNCHANGED <<replays, proc, posted, twice, parent, claims, calls, faults>>,
           \/ UNCHANGED lease /\ ~(lease.gen = account.gen /\ lease.started)
           \/ /\ lease' \in Leases /\ lease'.gen = account.gen + 1 /\ lease'.started
              /\ lease'.key = FenceKey(account.gen + 1) /\ lease'.pending = 0
    PROVE  IInv'
<1>g. /\ account.gen \in Nat /\ account.gen >= 1 /\ lease.gen \in Nat /\ lease.gen <= account.gen
      /\ lease \in Leases /\ \A q \in Procs : proc[q].gen \in Nat /\ TaskShape(q)
  BY DEF IInv, ShapeOK, Shape, Accounts, Leases, Tasks
<1>f. FenceKey(account.gen + 1) \notin TaskKeys \cup {NoKey} /\ OwnKeys \subseteq TaskKeys
  BY KeysApart DEF TaskKeys
<1>1. \A q \in Procs : TaskShape(q)'
  <2> TAKE q \in Procs
  <2>1. proc[q].gen <= account'.gen
    BY <1>g DEF TaskShape
  <2> QED
    BY <1>g, <2>1 DEF TaskShape, Token
<1>2. Shape'
  <2>1. /\ account'.gen >= 1 /\ lease'.gen <= account'.gen /\ lease' \in Leases
        /\ lease'.pending \in Token \cup {0} /\ (lease'.key = NoKey => lease' = NoLease)
    BY <1>g, <1>f DEF IInv, ShapeOK, Shape
  <2>2. lease.key' \in TaskKeys => Replay(lease.key)' = "open"
    BY <1>f DEF IInv, ShapeOK, Shape, Replay
  <2> QED
    BY <2>1, <2>2 DEF IInv, ShapeOK, Shape, Token
<1>3. \A q \in Procs : proc[q].gen # account'.gen
  BY <1>g DEF TaskShape
<1>4. TasksKnow'
  BY <1>3 DEF TasksKnow
<1>5. SendersAreMarked'
  BY DEF IInv, SendersAreMarked, Sends
<1>6. ResultsAreNew'
  <2>1. \A x : Unseen(x) => Unseen(x)'
    BY DEF Unseen, Loaded
  <2>2. lease'.pending = 0 \/ UNCHANGED lease
    OBVIOUS
  <2>3. \A q \in Procs : Result(q) => proc[q].token # 0
    BY <1>g DEF Result, TaskShape
  <2> QED
    BY <2>1, <2>2, <2>3 DEF IInv, ResultsAreNew, Result, Replay
<1>7. OwnKeysHaveOneGeneration'
  <2>1. CASE UNCHANGED lease
    BY <2>1, OwnKeysStay DEF IInv, Claims
  <2>2. CASE lease'.key \notin OwnKeys
    <3>1. /\ \A g \in Nat : lease'.key # WorkerKey(g)
          /\ \A x \in Procs, n \in Nat : lease'.key # TakeoverKey(x, n)
          /\ \A q \in Procs : Claims(q) => lease'.key # proc[q].key
      BY <2>2, KeysApart DEF Claims
    <3> QED
      BY <3>1 DEF IInv, OwnKeysHaveOneGeneration, Claims
  <2> QED
    BY <1>f, <2>1, <2>2
<1>8. StagedIsOwn'
  BY <1>g DEF StagedIsOwn
<1> QED
  BY <1>1, <1>2, <1>4, <1>5, <1>6, <1>7, <1>8 DEF IInv, ShapeOK

\* The credential is sealed again without a new authorization.
LEMMA IReseal ==
    ASSUME IInv, rotate_codex_transport_proxy \/ ResealCredential
    PROVE  IInv'
<1>1. account \in Accounts /\ lease \in Leases /\ account.gen \in Nat
  BY DEF IInv, ShapeOK, Shape, Accounts
<1>2. /\ account' = [account EXCEPT !.gen = @ + 1]
      /\ UNCHANGED <<parent, replays, proc, posted, twice, claims, calls, faults>>
  BY DEF rotate_codex_transport_proxy, ResealCredential, Operator
<1>3. account' \in Accounts /\ account'.gen = account.gen + 1 /\ account'.token = account.token
  BY <1>1, <1>2 DEF Accounts
<1>4. CASE UNCHANGED lease /\ ~(lease.gen = account.gen /\ lease.started)
  BY <1>2, <1>3, <1>4, Reseals
<1>5. CASE /\ lease.gen = account.gen /\ lease.started /\ lease.pending = 0
           /\ lease' = [lease EXCEPT !.gen = @ + 1, !.key = FenceKey(account.gen + 1)]
  <2>1. /\ lease' \in Leases /\ lease'.gen = account.gen + 1 /\ lease'.started
        /\ lease'.key = FenceKey(account.gen + 1) /\ lease'.pending = 0
    <3> DEFINE f == FenceKey(account.gen + 1)
    <3>1. f \in LeaseKeys \cup {NoKey} /\ account.gen + 1 \in Nat
      BY <1>1 DEF LeaseKeys
    <3>2. lease' = [lease EXCEPT !.gen = @ + 1, !.key = f]
      BY <1>5
    <3> HIDE DEF f
    <3>3. lease' \in Leases /\ lease'.gen = account.gen + 1 /\ lease'.key = f /\ lease'.pending = 0
      BY <1>1, <1>5, <3>1, <3>2 DEF Leases
    <3>4. lease'.started
      BY <1>1, <1>5, <3>2, Zenon DEF Leases
    <3> QED
      BY <3>3, <3>4 DEF f
  <2> QED
    BY <1>2, <1>3, <2>1, Reseals
<1>6. CASE ResealCredential
  BY <1>4, <1>6 DEF ResealCredential, Undispatched
<1>7. CASE rotate_codex_transport_proxy
  <2>1. CASE lease.gen = account.gen /\ lease.started
    BY <1>5, <1>7, <2>1, Zenon DEF rotate_codex_transport_proxy, FenceKey
  <2>2. CASE ~(lease.gen = account.gen /\ lease.started)
    BY <1>4, <1>7, <2>2, Zenon DEF rotate_codex_transport_proxy
  <2> QED
    BY <2>1, <2>2
<1> QED
  BY <1>6, <1>7

-----------------------------------------------------------------------------
(* The theorems.                                                           *)

\* Every step keeps the invariant.
LEMMA INext == IInv /\ [Next]_vars => IInv'
<1> SUFFICES ASSUME IInv, [Next]_vars PROVE IInv'
  OBVIOUS
<1>1. CASE UNCHANGED vars
  BY <1>1, Quiet DEF vars, Keeps, IInv, ShapeOK, Shape
<1>2. ASSUME NEW p \in Procs, refresh_managed_upstream_oauth(p) \/ RefreshStep(p) \/ Crash(p)
      PROVE  IInv'
  BY <1>2, IStarts, ILookup, IClaim, IAbortExpired, IAbort, ILoad, IMark, ISend, IUnsend, IStage,
     IFinish, ICrash
  DEF RefreshStep
<1> QED
  BY <1>1, <1>2, IAuthorize, IDisconnect, IReseal, IExpires DEF Next

\* For any tasks and keys: no refresh token reaches the authorization server
\* again while the account holds it, and as long as it may have been spent the
\* current generation is marked as dispatched (the mark, the abort, the claim
\* and the operators' generation changes together).
THEOREM SpentOnce == Spec => []TokenSpentOnce
<1>1. IInv => TokenSpentOnce
  BY ShapeIsType DEF IInv, TokenSpentOnce
<1> QED
  BY <1>1, IInit, INext, PTL DEF Spec

\* What a step does to the account and to what is staged for it.
Stays == /\ account'.token = account.token
         /\ lease.pending # 0 /\ lease.gen = account.gen =>
               lease'.pending = lease.pending /\ lease'.gen = account'.gen
Installation == /\ account'.token = lease.pending /\ lease.pending # 0
                /\ lease.gen = account.gen /\ lease.key \in TaskKeys /\ UNCHANGED parent
Authorization == parent'[account'.token] = 0 /\ account'.gen # account.gen

\* A task changes the credential only by installing its staged result.
LEMMA TaskMoves ==
    ASSUME IInv, NEW p \in Procs, refresh_managed_upstream_oauth(p) \/ RefreshStep(p) \/ Crash(p)
    PROVE  Stays \/ Installation
<1>t. /\ account \in Accounts /\ lease \in Leases /\ TaskShape(p) /\ ShapeOK
  BY DEF IInv, ShapeOK, Shape
<1>f. UNCHANGED <<account, lease>> => Stays
  BY DEF Stays
<1>i. ASSUME NEW k, Finalize(k) PROVE account'.token = lease.pending
  BY <1>t, <1>i DEF Finalize, Installed, Accounts
<1>1. CASE claim_upstream_oauth_refresh_for_generation(p)
  <2>1. proc[p].key \in TaskKeys
    BY <1>1, <1>t DEF TaskShape, claim_upstream_oauth_refresh_for_generation
  <2>2. \/ /\ Finalize(proc[p].key) /\ Leased(proc[p].key) /\ lease.pending # 0 /\ Installable
           /\ UNCHANGED parent
        \/ UNCHANGED account /\ Vacant
        \/ UNCHANGED <<account, lease>>
    BY <1>1, Zenon DEF claim_upstream_oauth_refresh_for_generation, Commits
  <2>3. Vacant /\ lease.gen = account.gen => lease.pending = 0
    BY NoLeaseFacts DEF Vacant, Undispatched
  <2> QED
    BY <1>f, <1>i, <2>1, <2>2, <2>3 DEF Installation, Stays, Leased, Installable
<1>2. CASE finish_upstream_oauth_refresh_attempt(p)
  <2>1. proc[p].key \in TaskKeys /\ proc[p].token # 0
    BY <1>2, <1>t DEF TaskShape, finish_upstream_oauth_refresh_attempt
  <2>2. \/ /\ Finalize(proc[p].key) /\ Leased(proc[p].key) /\ lease.pending = proc[p].token
           /\ Installable /\ UNCHANGED parent
        \/ UNCHANGED <<account, lease>>
    BY <1>2, Zenon DEF finish_upstream_oauth_refresh_attempt, Commits
  <2> QED
    BY <1>f, <1>i, <2>1, <2>2 DEF Installation, Leased, Installable
<1>3. CASE abort_expired_undispatched_upstream_oauth_refresh(p) \/ abort_upstream_oauth_refresh(p)
  <2>1. /\ UNCHANGED account
        /\ UNCHANGED lease \/ Undispatched
    BY <1>3, Zenon DEF abort_expired_undispatched_upstream_oauth_refresh,
                       abort_upstream_oauth_refresh, Commits, Aborted
  <2> QED
    BY <2>1 DEF Stays, Undispatched
<1>4. CASE mark_upstream_oauth_refresh_request_started(p)
  <2>1. UNCHANGED account /\ (UNCHANGED lease \/ Undispatched)
    BY <1>4, Zenon DEF mark_upstream_oauth_refresh_request_started, Commits
  <2> QED
    BY <2>1 DEF Stays, Undispatched
<1>5. CASE mark_upstream_oauth_refresh_request_not_sent(p)
  <2>1. UNCHANGED account /\ (UNCHANGED lease \/ lease.pending = 0)
    BY <1>5, Zenon DEF mark_upstream_oauth_refresh_request_not_sent, Commits
  <2> QED
    BY <2>1 DEF Stays
<1>6. CASE stage_upstream_oauth_refresh_pending(p)
  <2>1. /\ UNCHANGED account
        /\ \/ UNCHANGED lease
           \/ /\ lease' = [lease EXCEPT !.pending = proc[p].token]
              /\ lease.pending \in {0, proc[p].token}
    BY <1>6, Zenon DEF stage_upstream_oauth_refresh_pending, Commits
  <2> QED
    BY <1>t, <2>1 DEF Stays, Leases
<1>7. CASE \/ refresh_managed_upstream_oauth(p) \/ list_managed_oauth_refresh_candidates(p)
           \/ upstream_oauth_refresh_recovery_key(p) \/ upstream_account_with_credential(p)
           \/ Send(p) \/ Crash(p)
  BY <1>7, <1>f, Zenon
  DEF refresh_managed_upstream_oauth, list_managed_oauth_refresh_candidates,
      upstream_oauth_refresh_recovery_key, upstream_account_with_credential, Send, Crash
<1> QED
  BY <1>1, <1>2, <1>3, <1>4, <1>5, <1>6, <1>7 DEF RefreshStep

\* What operators and the clock do to credential and lease.
LEMMA OperatorMoves ==
    ASSUME IInv,
           \/ reauthorize_upstream_account_with_transport
           \/ rotate_upstream_credential_with_outcome \/ disconnect_upstream_oauth
           \/ rotate_codex_transport_proxy \/ ResealCredential \/ LeaseExpires
    PROVE  Stays \/ Authorization
<1>t. account \in Accounts /\ lease \in Leases /\ account.gen \in Nat /\ Shape
  BY DEF IInv, ShapeOK, Shape, Accounts
<1>1. CASE reauthorize_upstream_account_with_transport \/ rotate_upstream_credential_with_outcome
  <2>1. parent' = Append(parent, 0)
    BY <1>1 DEF reauthorize_upstream_account_with_transport, rotate_upstream_credential_with_outcome
  <2>2. parent'[NewToken] = 0
    BY <1>t, <2>1, AppendFacts
  <2>3. account'.gen = account.gen + 1 /\ account'.token = NewToken
    BY <1>1, <1>t DEF reauthorize_upstream_account_with_transport, Accounts,
                      rotate_upstream_credential_with_outcome
  <2> QED
    BY <1>t, <2>2, <2>3 DEF Authorization
<1>2. CASE disconnect_upstream_oauth
  <2>1. account'.gen = account.gen /\ account'.token = account.token /\ UNCHANGED lease
    BY <1>2, <1>t DEF disconnect_upstream_oauth, Accounts
  <2> QED
    BY <2>1 DEF Stays
<1>3. CASE rotate_codex_transport_proxy \/ ResealCredential
  <2>1. account'.token = account.token
    BY <1>3, <1>t DEF rotate_codex_transport_proxy, ResealCredential, Accounts
  <2>2. ~(lease.pending # 0 /\ lease.gen = account.gen)
    BY <1>3, Zenon DEF rotate_codex_transport_proxy, ResealCredential, Undispatched
  <2> QED
    BY <2>1, <2>2 DEF Stays
<1>4. CASE LeaseExpires
  <2>1. lease'.pending = lease.pending /\ lease'.gen = lease.gen /\ UNCHANGED account
    BY <1>4, <1>t DEF LeaseExpires, Leases
  <2> QED
    BY <2>1 DEF Stays
<1> QED
  BY <1>1, <1>2, <1>3, <1>4

\* Every step leaves the credential, installs a staged result or authorizes
\* anew.
LEMMA Moves == IInv /\ [Next]_vars => Stays \/ Installation \/ Authorization
<1> SUFFICES ASSUME IInv, [Next]_vars PROVE Stays \/ Installation \/ Authorization
  OBVIOUS
<1>1. UNCHANGED vars => Stays
  BY DEF Stays, vars
<1> QED
  BY <1>1, TaskMoves, OperatorMoves DEF Next

\* For any tasks and keys: a refresh under a key of the worker's own replaces
\* the very token that it spent, so that a late result never takes the place of
\* an authorization installed in the meantime (the claim and the recovery key
\* against reauthorization and rotation).
THEOREM ReplacesItsOwn == Spec => RefreshReplacesItsOwn
<1>1. IInv /\ [Next]_vars =>
        [account'.token # account.token /\ lease.key \notin ManualKeys =>
            parent'[account'.token] \in {0, account.token}]_vars
  BY Moves DEF Stays, Installation, Authorization, IInv, StagedIsOwn, TaskKeys
<1> QED
  BY <1>1, IInit, INext, PTL DEF Spec, RefreshReplacesItsOwn

\* For any tasks and keys: a staged result stays until it is installed or the
\* account has been given another authorization (the aborts, the claims, the
\* reseal and the proxy rotation all leave it).
THEOREM StagedSurvives == Spec => StagedResultSurvives
<1>1. IInv /\ [Next]_vars =>
        [lease.pending # 0 /\ lease.gen = account.gen =>
            \/ lease'.pending = lease.pending /\ lease'.gen = account'.gen
            \/ account'.token = lease.pending
            \/ parent'[account'.token] = 0 /\ account'.gen # account.gen]_vars
  BY Moves, Zenon DEF Stays, Installation, Authorization
<1> QED
  BY <1>1, IInit, INext, PTL DEF Spec, StagedResultSurvives
=============================================================================
