---------------------------- MODULE OAuthRefresh ----------------------------
(***************************************************************************)
(* The refresh of a managed OAuth credential.  A refresh token can be      *)
(* spent once, so a refresh is claimed under an idempotency key, marked as *)
(* started before the request leaves, staged when the answer arrives and   *)
(* installed as the next credential generation.  Workers and callers of    *)
(* the control API refresh the same account; operators authorize it again, *)
(* disconnect it, replace its credential or reseal it under a new          *)
(* generation.                                                             *)
(*                                                                         *)
(* One account is modelled.  Refresh tokens are numbered in the order in   *)
(* which they come into being; a lease has expired or not.                 *)
(***************************************************************************)
EXTENDS Integers, Sequences

CONSTANTS Workers,        \* tasks that run the periodic refresh
          Callers,        \* tasks that serve the control API
          ManualKeys,     \* Idempotency-Keys of the control API's callers, none
                          \* of them one that the worker makes up
          Drivers,        \* OAuth lifecycles of the account: "kimi", "generic"
          MaxCalls,       \* bound: refreshes that callers ask for
          MaxGeneration,  \* bound: nothing new starts at this generation
          MaxFaults       \* bound: crashes, stalls, failed and unacknowledged
                          \* operations, broken connections

ASSUME OAuthAssumption ==
    /\ Drivers \subseteq {"kimi", "generic"}
    /\ ManualKeys \subseteq {"manual"} \X Nat
    /\ MaxCalls \in Nat /\ MaxGeneration \in Nat /\ MaxFaults \in Nat

VARIABLES
    driver,    \* upstream_accounts.oauth_driver
    account,   \* upstream_accounts joined with its current upstream_credentials
    lease,     \* the account's row of upstream_oauth_refresh_leases
    replays,   \* credential_rotation_replays: key -> "open" or "stored"
    proc,      \* the refresh each task is engaged in
    posted,    \* refresh tokens that have reached the authorization server
    twice,     \* refresh tokens that have reached it more than once
    parent,    \* token -> the token it was exchanged for, 0 for a login
    claims,    \* takeover keys used so far
    calls,     \* calls of the control API so far
    faults

Procs == Workers \cup Callers

vars == <<driver, account, lease, replays, proc, posted, twice, parent, claims, calls, faults>>

WorkerKey(g) == <<"worker", g>>
NoKey == <<"none", 0>>

\* No row, or one: pending is the staged refresh token, 0 when none is.
NoLease == [gen |-> 0, key |-> NoKey, started |-> FALSE, pending |-> 0, expired |-> TRUE]
Idle == [pc |-> "idle", key |-> NoKey, gen |-> 0, role |-> "none", token |-> 0]

Init ==
    /\ driver \in Drivers
    /\ account = [gen |-> 1, token |-> 1, status |-> "active", revoked |-> FALSE]
    /\ lease = NoLease
    /\ replays = [k \in {} |-> "open"]
    /\ proc = [p \in Procs |-> Idle]
    /\ posted = {} /\ twice = {}
    /\ parent = <<0>>
    /\ claims = 0 /\ calls = 0 /\ faults = 0

Fault == faults < MaxFaults /\ faults' = faults + 1
NewToken == Len(parent) + 1
Replay(k) == IF k \in DOMAIN replays THEN replays[k] ELSE "none"
ReplaySet(k, v) == replays' = [j \in DOMAIN replays \cup {k} |->
                                  IF j = k THEN v ELSE replays[j]]
To(p, pc) == proc' = [proc EXCEPT ![p].pc = pc]
Done(p) == proc' = [proc EXCEPT ![p] = Idle]
GiveUp(p) == proc' = [proc EXCEPT ![p] = [Idle EXCEPT !.pc = "abort", !.key = proc[p].key]]
Leased(k) == lease # NoLease /\ lease.key = k
Undispatched == ~lease.started /\ lease.pending = 0

\* A transaction commits, or commits unacknowledged, or fails.
Commits(change, same, next, failed) ==
    \/ change /\ next /\ UNCHANGED faults
    \/ change /\ failed /\ Fault
    \/ same /\ failed /\ Fault

-----------------------------------------------------------------------------
(* Who starts a refresh.                                                   *)

refresh_managed_upstream_oauth(p) ==
    /\ p \in Callers /\ proc[p].pc = "idle"
    /\ account.gen < MaxGeneration /\ calls < MaxCalls
    /\ calls' = calls + 1
    /\ \E k \in ManualKeys :
          proc' = [proc EXCEPT ![p] = [Idle EXCEPT !.pc = "claim", !.key = k,
                                                   !.role = "manual"]]
    /\ UNCHANGED <<driver, account, lease, replays, posted, twice, parent, claims, faults>>

\* Every access token comes to expire; the time of the listing is when.
Expiring == account.gen < MaxGeneration

\* A started request without a saved result keeps its generation out.
list_managed_oauth_refresh_candidates(p) ==
    /\ p \in Workers /\ proc[p].pc = "idle"
    /\ account.status = "active" /\ ~account.revoked /\ Expiring
    /\ ~(lease.gen = account.gen /\ lease.started /\ lease.pending = 0)
    /\ proc' = [proc EXCEPT ![p] = [Idle EXCEPT !.pc = "lookup", !.gen = account.gen,
                                                !.role = "worker"]]
    /\ UNCHANGED <<driver, account, lease, replays, posted, twice, parent, claims, calls, faults>>

\* Mutant: the worker only tries the key of its own.
OwnKeyOnly(p) ==
    /\ proc[p].pc = "lookup"
    /\ proc' = [proc EXCEPT ![p].pc = "claim", ![p].key = WorkerKey(proc[p].gen)]
    /\ UNCHANGED <<driver, account, lease, replays, posted, twice, parent, claims, calls, faults>>

upstream_oauth_refresh_recovery_key(p) ==
    /\ proc[p].pc = "lookup"
    /\ proc' = [proc EXCEPT ![p].pc = "claim", ![p].key =
          IF lease.gen = proc[p].gen /\ (lease.pending # 0 \/ ~lease.started)
          THEN lease.key ELSE WorkerKey(proc[p].gen)]
    /\ UNCHANGED <<driver, account, lease, replays, posted, twice, parent, claims, calls, faults>>

-----------------------------------------------------------------------------
(* The claim.                                                              *)

\* rotate_upstream_credential_claimed with a staged refresh token: the new
\* credential row is not revoked, the account's status stays what it is.
Installed(token) ==
    account' = [account EXCEPT !.gen = @ + 1, !.token = token, !.revoked = FALSE]

\* Mutant: the result is installed whatever generation the account has.
InstallAlways == TRUE

\* The generation that the lease was taken for is still the current one.
Installable == lease.gen = account.gen

Finalize(k) == /\ Installed(lease.pending)
               /\ lease' = NoLease
               /\ ReplaySet(k, "stored")

\* Mutant: an expired lease is free, dispatched or not.
VacantWhenExpired == lease = NoLease \/ lease.expired \/ lease.gen # account.gen

\* The upsert of the lease takes a missing row, an expired undispatched one
\* or one of another generation.
Vacant == \/ lease = NoLease
          \/ Undispatched /\ lease.expired
          \/ lease.gen # account.gen

InProgress(p) ==
    IF proc[p].role = "worker" THEN To(p, "takeover") ELSE Done(p)

claim_upstream_oauth_refresh_for_generation(p) ==
    LET k == proc[p].key
        open == Replay(k) = "open"
        recover == open /\ Leased(k) /\ lease.pending # 0 /\ Installable
        fresh == /\ Replay(k) = "none" /\ Vacant
                 /\ proc[p].role \in {"worker", "takeover"} => proc[p].gen = account.gen
        unknown == Leased(k) /\ (lease.started \/ lease.pending # 0)
    IN /\ proc[p].pc = "claim"
       /\ \/ /\ recover
             /\ Commits(Finalize(k), UNCHANGED <<account, lease, replays>>, Done(p), Done(p))
             /\ UNCHANGED claims
          \/ /\ fresh
             /\ Commits(/\ lease' = [gen |-> account.gen, key |-> k, started |-> FALSE,
                                     pending |-> 0, expired |-> FALSE]
                        /\ ReplaySet(k, "open")
                        /\ claims' = IF proc[p].role = "takeover" THEN claims + 1 ELSE claims,
                        UNCHANGED <<lease, replays, claims>>,
                        proc' = [proc EXCEPT ![p].pc = "load", ![p].gen = account.gen,
                                             ![p].role = "none"],
                        Done(p))
             /\ UNCHANGED account
          \/ /\ ~recover /\ ~fresh
             /\ IF open /\ ~unknown THEN InProgress(p) ELSE Done(p)
             /\ UNCHANGED <<account, lease, replays, claims, calls, faults>>
       /\ UNCHANGED <<driver, posted, twice, parent, calls>>

\* The rows of key k: both aborts keep a dispatched or staged refresh.
Aborted(k, deletable) ==
    LET gone == Leased(k) /\ Undispatched /\ deletable IN
    /\ lease' = IF gone THEN NoLease ELSE lease
    /\ replays' = IF Replay(k) = "open" /\ (gone \/ ~Leased(k))
                  THEN [j \in DOMAIN replays \ {k} |-> replays[j]] ELSE replays

\* refresh_expiring_oauth goes on with a key of its own.
abort_expired_undispatched_upstream_oauth_refresh(p) ==
    /\ proc[p].pc = "takeover"
    /\ Commits(Aborted(proc[p].key, lease.expired), UNCHANGED <<lease, replays>>,
               proc' = [proc EXCEPT ![p].pc = "claim", ![p].role = "takeover",
                                    ![p].key = <<"takeover", p, claims>>],
               Done(p))
    /\ UNCHANGED <<driver, account, posted, twice, parent, claims, calls>>

abort_upstream_oauth_refresh(p) ==
    /\ proc[p].pc = "abort"
    /\ Commits(Aborted(proc[p].key, TRUE), UNCHANGED <<lease, replays>>, Done(p), Done(p))
    /\ UNCHANGED <<driver, account, posted, twice, parent, claims, calls>>

-----------------------------------------------------------------------------
(* The request to the authorization server.                                *)

upstream_account_with_credential(p) ==
    /\ proc[p].pc = "load"
    /\ IF account.revoked \/ account.gen # proc[p].gen
       THEN GiveUp(p)
       ELSE proc' = [proc EXCEPT ![p].pc = "mark", ![p].token = account.token]
    /\ UNCHANGED <<driver, account, lease, replays, posted, twice, parent, claims, calls, faults>>

mark_upstream_oauth_refresh_request_started(p) ==
    /\ proc[p].pc = "mark"
    /\ IF Leased(proc[p].key) /\ Undispatched /\ lease.gen = account.gen
       THEN Commits(lease' = [lease EXCEPT !.started = TRUE], UNCHANGED lease,
                    To(p, "send"), GiveUp(p))
       ELSE GiveUp(p) /\ UNCHANGED <<lease, faults>>
    /\ UNCHANGED <<driver, account, replays, posted, twice, parent, claims, calls>>

\* The connection is refused, or the request arrives: an unspent token is
\* exchanged for a new one unless the server refuses, and the answer may be
\* lost.  Only one client proves that a failed connection carried nothing.
Send(p) ==
    LET t == proc[p].token IN
    /\ proc[p].pc = "send"
    /\ \/ /\ Fault /\ (IF driver = "kimi" THEN To(p, "unsend") ELSE GiveUp(p))
          /\ UNCHANGED <<posted, twice, parent>>
       \/ /\ posted' = posted \cup {t}
          /\ twice' = IF t \in posted THEN twice \cup {t} ELSE twice
          /\ \/ /\ t \notin posted
                /\ parent' = Append(parent, t)
                /\ \/ /\ proc' = [proc EXCEPT ![p].pc = "stage", ![p].token = NewToken]
                      /\ UNCHANGED faults
                   \/ GiveUp(p) /\ Fault
             \/ t \in posted /\ GiveUp(p) /\ UNCHANGED <<parent, faults>>
             \/ t \notin posted /\ GiveUp(p) /\ Fault /\ UNCHANGED parent
    /\ UNCHANGED <<driver, account, lease, replays, claims, calls>>

mark_upstream_oauth_refresh_request_not_sent(p) ==
    /\ proc[p].pc = "unsend"
    /\ IF /\ Leased(proc[p].key) /\ lease.started /\ lease.pending = 0
          /\ account.gen = proc[p].gen /\ lease.gen = proc[p].gen
       THEN Commits(lease' = [lease EXCEPT !.started = FALSE], UNCHANGED lease,
                    GiveUp(p), GiveUp(p))
       ELSE GiveUp(p) /\ UNCHANGED <<lease, faults>>
    /\ UNCHANGED <<driver, account, replays, posted, twice, parent, claims, calls>>

-----------------------------------------------------------------------------
(* The result: a failed attempt is repeated from the start, some time.     *)

Again(p) == To(p, "stage") \/ Done(p)

stage_upstream_oauth_refresh_pending(p) ==
    /\ proc[p].pc = "stage"
    /\ IF Replay(proc[p].key) = "open" /\ Leased(proc[p].key)
          /\ lease.pending \in {0, proc[p].token}
       THEN Commits(lease' = [lease EXCEPT !.pending = proc[p].token], UNCHANGED lease,
                    To(p, "finalize"), Again(p))
       ELSE Done(p) /\ UNCHANGED <<lease, faults>>
    /\ UNCHANGED <<driver, account, replays, posted, twice, parent, claims, calls>>

finish_upstream_oauth_refresh_attempt(p) ==
    LET k == proc[p].key IN
    /\ proc[p].pc = "finalize"
    /\ IF Replay(k) = "open" /\ Leased(k) /\ lease.pending = proc[p].token /\ Installable
       THEN Commits(Finalize(k), UNCHANGED <<account, lease, replays>>, Done(p), Again(p))
       ELSE Done(p) /\ UNCHANGED <<account, lease, replays, faults>>
    /\ UNCHANGED <<driver, posted, twice, parent, claims, calls>>

Crash(p) ==
    /\ proc[p].pc # "idle" /\ Fault /\ Done(p)
    /\ UNCHANGED <<driver, account, lease, replays, posted, twice, parent, claims, calls>>

-----------------------------------------------------------------------------
(* Operators.  Each is one transaction that compares the generation it was *)
(* shown with the current one.                                             *)

Operator ==
    /\ account.gen < MaxGeneration
    /\ UNCHANGED <<driver, replays, proc, posted, twice, claims, calls, faults>>

\* A login that an operator completes, or a credential handed in.
reauthorize_upstream_account_with_transport ==
    /\ Operator
    /\ driver = "generic" => ~(lease.gen = account.gen /\ ~lease.expired)
    /\ parent' = Append(parent, 0)
    /\ account' = [account EXCEPT !.gen = @ + 1, !.token = NewToken, !.revoked = FALSE,
          !.status = IF driver # "generic" /\ account.revoked
                                        THEN "active" ELSE @]
    /\ UNCHANGED lease

rotate_upstream_credential_with_outcome ==
    /\ Operator
    /\ parent' = Append(parent, 0)
    /\ account' = [account EXCEPT !.gen = @ + 1, !.token = NewToken, !.revoked = FALSE]
    /\ UNCHANGED lease

disconnect_upstream_oauth ==
    /\ Operator /\ ~account.revoked
    /\ account' = [account EXCEPT !.revoked = TRUE, !.status = "disabled"]
    /\ UNCHANGED <<lease, parent>>

\* The same refresh token under a new generation; an outcome that is unknown
\* stays unknown there.
rotate_codex_transport_proxy ==
    LET current == lease.gen = account.gen IN
    /\ Operator /\ ~account.revoked
    /\ ~(current /\ (lease.pending # 0 \/ (lease.started /\ ~lease.expired)))
    /\ lease' = IF current /\ lease.started
                THEN [lease EXCEPT !.gen = @ + 1, !.key = <<"fence", account.gen + 1>>]
                ELSE lease
    /\ account' = [account EXCEPT !.gen = @ + 1]
    /\ UNCHANGED parent

\* Mutant: a reseal that does not look at the refresh lease.
ResealUnguarded ==
    /\ Operator /\ ~account.revoked
    /\ account' = [account EXCEPT !.gen = @ + 1]
    /\ UNCHANGED <<lease, parent>>

\* update_upstream_account with secrets in the provider's configuration.
ResealCredential ==
    /\ Operator /\ ~account.revoked
    /\ ~(lease.gen = account.gen /\ ~Undispatched)
    /\ account' = [account EXCEPT !.gen = @ + 1]
    /\ UNCHANGED <<lease, parent>>

-----------------------------------------------------------------------------
(* Time.                                                                   *)

Holding(p) == /\ Leased(proc[p].key)
              /\ proc[p].pc \notin {"idle", "lookup", "claim", "takeover"}

\* A lease outlasts the refresh it was taken for, unless that stalls.
LeaseExpires ==
    /\ ~lease.expired
    /\ IF \E p \in Procs : Holding(p) THEN Fault ELSE UNCHANGED faults
    /\ lease' = [lease EXCEPT !.expired = TRUE]
    /\ UNCHANGED <<driver, account, replays, proc, posted, twice, parent, claims, calls>>

RefreshStep(p) ==
    \/ list_managed_oauth_refresh_candidates(p)
    \/ upstream_oauth_refresh_recovery_key(p)
    \/ claim_upstream_oauth_refresh_for_generation(p)
    \/ abort_expired_undispatched_upstream_oauth_refresh(p)
    \/ abort_upstream_oauth_refresh(p)
    \/ upstream_account_with_credential(p)
    \/ mark_upstream_oauth_refresh_request_started(p)
    \/ Send(p)
    \/ mark_upstream_oauth_refresh_request_not_sent(p)
    \/ stage_upstream_oauth_refresh_pending(p)
    \/ finish_upstream_oauth_refresh_attempt(p)

Next ==
    \/ \E p \in Procs : \/ refresh_managed_upstream_oauth(p)
                        \/ RefreshStep(p) \/ Crash(p)
    \/ reauthorize_upstream_account_with_transport
    \/ rotate_upstream_credential_with_outcome
    \/ disconnect_upstream_oauth
    \/ rotate_codex_transport_proxy
    \/ ResealCredential
    \/ LeaseExpires

Spec == Init /\ [][Next]_vars

\* The periodic task and what it started run on; leases run out.
FairSpec == /\ Spec
            /\ \A p \in Procs : WF_vars(RefreshStep(p))
            /\ WF_vars(LeaseExpires)

-----------------------------------------------------------------------------
(* Properties.                                                             *)

\* Every variable stays in its domain; a lease is absent or has a key that
\* the replay table knows, unless a proxy rotation has sealed it.
TypeOK ==
    /\ account \in [gen : Nat, token : DOMAIN parent, status : {"active", "disabled"},
                    revoked : BOOLEAN]
    /\ lease.gen \in 0..account.gen /\ lease.started \in BOOLEAN
    /\ lease.pending \in {0} \cup DOMAIN parent /\ lease.expired \in BOOLEAN
    /\ \A k \in DOMAIN replays : replays[k] \in {"open", "stored"}
    /\ lease # NoLease /\ lease.key[1] # "fence" => Replay(lease.key) = "open"
    /\ \A p \in Procs :
          /\ proc[p].pc \in {"idle", "lookup", "claim", "takeover", "load", "mark", "send",
                             "unsend", "abort", "stage", "finalize"}
          /\ proc[p].role \in {"none", "manual", "worker", "takeover"}
          /\ proc[p].gen \in Nat /\ proc[p].token \in {0} \cup DOMAIN parent
    /\ posted \subseteq DOMAIN parent /\ twice \subseteq posted
    /\ claims \in Nat /\ calls \in 0..MaxCalls /\ faults \in 0..MaxFaults

\* No refresh token reaches the authorization server again while the account
\* holds it, whichever tasks share a key, take a claim over or come back late,
\* and whatever operators do to the generation meanwhile: as long as the
\* account holds a token that may have been spent, its current generation is
\* marked as dispatched, also when the credential was only resealed under a new
\* generation.
TokenSpentOnce ==
    /\ TypeOK
    /\ account.token \notin twice
    /\ account.token \in posted => lease.gen = account.gen /\ lease.started

\* A refresh under a key of the worker's own replaces the very token that it
\* spent: such a key belongs to one generation, so that a late result never
\* takes the place of an authorization that was installed in the meantime.
\* (A key that callers of the control API repeat can be claimed again for a
\* later generation while the first call with it is stalled.)
RefreshReplacesItsOwn ==
    [][account'.token # account.token /\ lease.key \notin ManualKeys =>
          parent'[account'.token] \in {0, account.token}]_vars

\* A staged result is not dropped: it stays until it is installed or the
\* account has been given another authorization.
StagedResultSurvives ==
    [][lease.pending # 0 /\ lease.gen = account.gen =>
          \/ lease'.pending = lease.pending /\ lease'.gen = account'.gen
          \/ account'.token = lease.pending
          \/ parent'[account'.token] = 0 /\ account'.gen # account.gen]_vars

\* An active account does not stay with an access token that is about to
\* expire, unless the outcome of its refresh is unknown.
ExpiringIsRefreshed ==
    []<>(Expiring /\ account.status = "active" /\ ~account.revoked =>
            lease.gen = account.gen /\ lease.started /\ lease.pending = 0)

=============================================================================
