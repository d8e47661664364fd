----------------------------- MODULE QuotaReset -----------------------------
(***************************************************************************)
(* The consumption of supplier reset credits.  A credit costs money and the *)
(* supplier's request id is "correlation only: supplier idempotency is      *)
(* unproven", so a reset is an operation that is prepared from a fresh read *)
(* of the credits, claimed in the database, sent once and recorded as       *)
(* accepted or unknown.  Operators prepare, confirm, reconcile and release  *)
(* operations; workers run ticks of a plugin that resets on its own.        *)
(*                                                                         *)
(* One account and one plugin with a grant for it are modelled: grants and  *)
(* the keys of operations are per plugin, the index one_active is not.      *)
(* The code compares copies of the account's revision                       *)
(* (credential_generation and updated_at) with the stored one: "current"    *)
(* says whether a copy still equals it, and an edit of the account ends     *)
(* that for every copy.  The supplier is free to report any number of       *)
(* credits at any read, since credits are granted, expire and are spent     *)
(* elsewhere; the available and the applicable count are one number.  An    *)
(* operation is the row of its actor and Idempotency-Key (unique index      *)
(* prepare_replay); the key of a plugin's operation is the credit that it   *)
(* wants to spend.                                                          *)
(***************************************************************************)
EXTENDS Integers, FiniteSets

CONSTANTS Operators,     \* tasks that serve confirmations
          Workers,       \* tasks that run the plugin's ticks
          Nobody,
          OperatorKeys,  \* Idempotency-Keys that operators prepare with
          Credits,       \* credits that the plugin picks
          MaxCredits     \* bound: credits the supplier reports

ASSUME QuotaResetAssumption ==
    /\ Operators \cap Workers = {} /\ Nobody \notin Workers
    /\ OperatorKeys \cap Credits = {} /\ OperatorKeys \cup Credits # {}
    /\ MaxCredits \in Nat \ {0}

VARIABLES
    active,  \* the account and its tenant are active
    op,      \* upstream_quota_reset_operations
    grant,   \* the plugin's row of plugin_background_action_grants
    task,    \* what each task carries
    loops,   \* completions that are retried in the background
    posts,   \* POSTs sent for an operation
    success  \* operations that the supplier answered with a 2xx status

Keys == OperatorKeys \cup Credits
Tasks == Operators \cup Workers
vars == <<active, op, grant, task, loops, posts, success>>

\* over: expires_at has passed; lost: no process is left that will record
\* the outcome (history).
NoOp == [state |-> "none", current |-> FALSE, count |-> 0, over |-> FALSE,
         settled |-> FALSE, lost |-> FALSE]
Idle == [pc |-> "idle", key |-> CHOOSE k \in Keys : TRUE, current |-> TRUE,
         plan |-> 0, accepted |-> FALSE]
NoLease(g) == [g EXCEPT !.owner = Nobody, !.live = FALSE]

Init ==
    /\ active = TRUE
    /\ op = [k \in Keys |-> NoOp]
    /\ grant = [enabled |-> FALSE, owner |-> Nobody, live |-> FALSE]
    /\ task = [t \in Tasks |-> Idle]
    /\ loops = {} /\ posts = [k \in Keys |-> 0] /\ success = {}

Key(t) == task[t].key
Background(t) == t \in Workers
Go(t, pc) == task' = [task EXCEPT ![t].pc = pc] /\ UNCHANGED grant
\* The task ends; a tick gives its lease back if it still has it
\* (finish_background_action_tick), unless that update fails.
Done(t) == /\ task' = [task EXCEPT ![t] = Idle]
           /\ \/ grant' = IF grant.owner = t THEN NoLease(grant) ELSE grant
              \/ Background(t) /\ UNCHANGED grant

\* The unique index one_active admits one open operation per account.
Open(o) == o.state \in {"prepared", "submitted", "accepted", "unknown"} /\ ~o.settled
Expired(o) == IF o.state = "prepared" /\ o.over
              THEN [o EXCEPT !.state = "expired", !.over = FALSE] ELSE o
\* The UPDATE at the head of quota_reset_operation.
ReadOp(k) == [op EXCEPT ![k] = Expired(@)]

-----------------------------------------------------------------------------
\* Preparation.

\* prepare_quota_reset: the rows after it, for a copy of the account and the
\* credits that were read.  A key that has its row is a replay; a conflict
\* with an open row rolls everything back.
Prepared(k, current, count) ==
    LET rows == [j \in Keys |-> Expired(op[j])] IN
    CASE op[k].state # "none"                                     -> rows
      [] op[k].state = "none" /\ \A j \in Keys : ~Open(rows[j])   ->
            [rows EXCEPT ![k] = [NoOp EXCEPT !.state = "prepared", !.current = current,
                                             !.count = count]]
      [] OTHER                                                    -> op

\* prepare for an operator, whose copy of the account may be outdated by the
\* time of the INSERT.
OperatorPrepares(k) ==
    /\ k \in OperatorKeys
    /\ \E current \in BOOLEAN, count \in 1..MaxCredits : op' = Prepared(k, current, count)
    /\ UNCHANGED <<active, grant, task, loops, posts, success>>

\* put_background_action_grant
put_background_action_grant ==
    /\ \E enabled \in BOOLEAN :
          (enabled => active) /\ grant' = NoLease([grant EXCEPT !.enabled = enabled])
    /\ UNCHANGED <<active, op, task, loops, posts, success>>

\* claim_background_action_tick; execute_tick loads the account and lets the
\* plugin choose a credit of the inventory it has read.
ClaimTick(t, credit) ==
    /\ task[t].pc = "idle"
    /\ grant.enabled /\ ~grant.live /\ active
    /\ grant' = [grant EXCEPT !.owner = t, !.live = TRUE]
    /\ \E plan \in 1..MaxCredits :
          task' = [task EXCEPT ![t] = [Idle EXCEPT !.pc = "prepare", !.key = credit, !.plan = plan]]
    /\ UNCHANGED <<active, op, loops, posts, success>>

\* prepare for a tick: the credits are read again.
TickPrepares(t) ==
    /\ task[t].pc = "prepare"
    /\ \E count \in 1..MaxCredits : op' = Prepared(Key(t), task[t].current, count)
    /\ CASE op'[Key(t)].state = "none"                    -> Done(t)
         [] op'[Key(t)].state \in {"prepared", "expired"} -> Go(t, "refresh")
         [] OTHER                                         -> Go(t, "confirm")
    /\ UNCHANGED <<active, loops, posts, success>>

\* require_grant
Granted(t) == grant.enabled /\ grant.owner = t /\ grant.live

\* Rows that were never claimed, beside no open row.
refreshable(k) ==
    /\ op[k].state \in {"prepared", "expired"}
    /\ \A j \in Keys \ {k} : ~Open(op[j])

\* refresh_background_quota_reset_prepare: the row is prepared again, from
\* the copy and the evidence of this tick.
refresh_background_quota_reset_prepare(t) ==
    LET k == Key(t) IN
    /\ task[t].pc = "refresh" /\ Granted(t)
    /\ op' = IF refreshable(k)
             THEN [op EXCEPT ![k] = [NoOp EXCEPT !.state = "prepared", !.count = task[t].plan,
                                                 !.current = task[t].current]]
             ELSE op
    /\ Go(t, "confirm")
    /\ UNCHANGED <<active, loops, posts, success>>

-----------------------------------------------------------------------------
\* Confirmation: confirm_guarded.

\* The confirmation of an operator starts with a copy of the account.
OperatorConfirms(t, k) ==
    /\ task[t].pc = "idle" /\ k \in OperatorKeys
    /\ op[k].state # "none"
    /\ task' = [task EXCEPT ![t] = [Idle EXCEPT !.pc = "confirm", !.key = k]]
    /\ UNCHANGED <<active, op, grant, loops, posts, success>>

\* The row is read, and the credits once more: as many as the row says, and
\* for a tick the inventory that its plugin has seen.
ReadOriginal(t) ==
    LET o == Expired(op[Key(t)]) IN
    /\ task[t].pc = "confirm"
    /\ op' = ReadOp(Key(t))
    /\ IF o.state # "prepared" THEN Go(t, "replay")
       ELSE IF o.count > 0 /\ (Background(t) => task[t].plan = o.count) THEN Go(t, "claim")
       ELSE Done(t)
    /\ UNCHANGED <<active, loops, posts, success>>

\* MUTANT of Claimable: the state that was read before the claim counts.
ClaimableAsRead(t) ==
    LET o == op[Key(t)] IN
    ~o.over /\ o.current /\ task[t].current /\ active

\* The row that the compare-and-swap of claim_quota_reset_owned takes.
Claimable(t) ==
    LET o == op[Key(t)] IN
    o.state = "prepared" /\ ~o.over /\ o.current /\ task[t].current /\ active

Submitted(k) == op' = [op EXCEPT ![k].state = "submitted"]

\* owns: the claim's audit row carries the nonce of this completion.
Completion(t) == [key |-> Key(t), owns |-> task[t].pc \in {"send", "waiting", "finish"},
                  accepted |-> task[t].accepted]
\* DispatchCompletion::drop
Drop(t, completion) == loops' = loops \cup {completion} /\ Done(t)

\* MUTANT of ClaimOwned: the completion guard is armed after the claim.
ClaimUnarmed(t) ==
    /\ task[t].pc = "claim"
    /\ \/ /\ Claimable(t) /\ (Background(t) => Granted(t)) /\ Submitted(Key(t))
          /\ Go(t, "send") \/ Done(t)
       \/ UNCHANGED op /\ Done(t)
    /\ UNCHANGED <<active, loops, posts, success>>

\* claim_quota_reset_owned in the task that holds the completion: claimed,
\* claimed without an acknowledgement (or after the tick has timed out),
\* refused or failed, or replayed.
ClaimOwned(t) ==
    /\ task[t].pc = "claim"
    /\ \/ /\ Claimable(t) /\ (Background(t) => Granted(t)) /\ Submitted(Key(t))
          /\ \/ Go(t, "send") /\ UNCHANGED loops
             \/ Drop(t, [Completion(t) EXCEPT !.owns = TRUE])
       \/ UNCHANGED op /\ Drop(t, Completion(t))
       \/ /\ op[Key(t)].state \in {"submitted", "accepted", "unknown"}
          /\ UNCHANGED <<op, loops>> /\ Done(t)
    /\ UNCHANGED <<active, posts, success>>

\* claim_quota_reset for a row that was not prepared when it was read: a
\* replay, unless the row has been prepared again meanwhile, when it becomes
\* a claim without a completion (reset_confirm_1).
ClaimReplay(t) ==
    /\ task[t].pc = "replay"
    /\ op' = IF Claimable(t)
             THEN [op EXCEPT ![Key(t)] = [@ EXCEPT !.state = "submitted", !.lost = TRUE]]
             ELSE op
    /\ Done(t)
    /\ UNCHANGED <<active, loops, posts, success>>

\* dispatch_once, unless the deadline of the tick has passed.
Dispatch(t) ==
    /\ task[t].pc = "send"
    /\ \/ posts' = [posts EXCEPT ![Key(t)] = @ + 1] /\ Go(t, "waiting")
       \/ Background(t) /\ Go(t, "finish") /\ UNCHANGED posts
    /\ UNCHANGED <<active, op, loops, success>>

\* A 2xx answer is acceptance, everything else leaves the outcome unknown.
Answered(t) ==
    /\ task[t].pc = "waiting"
    /\ \E accepted \in BOOLEAN :
          /\ task' = [task EXCEPT ![t].pc = "finish", ![t].accepted = accepted]
          /\ success' = IF accepted THEN success \cup {Key(t)} ELSE success
    /\ UNCHANGED <<active, op, grant, loops, posts>>

\* The worker's timeout drops the future of a tick.
TickTimeout(t) ==
    /\ Background(t) /\ task[t].pc \in {"send", "waiting", "finish"}
    /\ Drop(t, Completion(t))
    /\ UNCHANGED <<active, op, posts, success>>

\* MUTANT of Finished: any completion finishes the operation.
FinishedByAnyone(c) ==
    IF op[c.key].state = "submitted"
    THEN [op EXCEPT ![c.key].state = IF c.accepted THEN "accepted" ELSE "unknown"] ELSE op

\* finish_quota_reset_owned
Finished(c) ==
    IF op[c.key].state = "submitted" /\ c.owns
    THEN [op EXCEPT ![c.key].state = IF c.accepted THEN "accepted" ELSE "unknown"] ELSE op

\* The outcome is stored, or the transaction fails or is not acknowledged
\* and the completion is dropped.  An accepted reset is read back, which is
\* an observation like any other.
Finish(t) ==
    /\ task[t].pc = "finish"
    /\ \/ op' = Finished(Completion(t)) /\ Done(t) /\ UNCHANGED loops
       \/ op' \in {op, Finished(Completion(t))} /\ Drop(t, Completion(t))
    /\ UNCHANGED <<active, posts, success>>

\* The retry loop of a dropped completion.
RetryLoop(c) ==
    /\ c \in loops
    /\ op' = Finished(c) /\ loops' = loops \ {c}
    /\ UNCHANGED <<active, grant, task, posts, success>>

-----------------------------------------------------------------------------
\* Reads of the credits that settle operations.  Each loads the account, asks
\* the supplier and updates the row if the account has not changed since, so
\* the update is the step and an outdated call changes nothing.

Decreased(o, count) == o.state = "accepted" /\ ~o.settled /\ count < o.count
Settled(k) == op' = [op EXCEPT ![k].settled = TRUE]

\* settle_accepted_quota_reset_from_observation; newer: observed_at is later
\* than the one of the preparation.
settle_accepted_quota_reset_from_observation(k) ==
    /\ \E count \in 0..MaxCredits, newer \in BOOLEAN : Decreased(op[k], count) /\ newer
    /\ Settled(k)
    /\ UNCHANGED <<active, grant, task, loops, posts, success>>

\* reconcile_quota_reset: in the scope of the dispatch any read will do.
reconcile_quota_reset(k) ==
    /\ \E count \in 0..MaxCredits, newer \in BOOLEAN :
          Decreased(op[k], count) /\ (newer \/ op[k].current)
    /\ Settled(k)
    /\ UNCHANGED <<active, grant, task, loops, posts, success>>

\* recover and release_unknown_quota_reset
release_unknown_quota_reset(k) ==
    /\ op[k].state = "unknown" /\ ~op[k].settled
    /\ Settled(k)
    /\ UNCHANGED <<active, grant, task, loops, posts, success>>

\* current_quota_reset_operation
current_quota_reset_operation ==
    /\ op' = [k \in Keys |-> Expired(op[k])] /\ op' # op
    /\ UNCHANGED <<active, grant, task, loops, posts, success>>

-----------------------------------------------------------------------------
\* Failures, the clock and the rest of the gateway.

\* Before the claim is attempted an error, a refusal, a missing permit or the
\* timeout of a tick just ends the call.
GiveUp(t) ==
    /\ task[t].pc \in {"prepare", "refresh", "confirm", "claim", "replay"}
    /\ Done(t)
    /\ UNCHANGED <<active, op, loops, posts, success>>

Bereaved(c) == IF c.owns THEN [op EXCEPT ![c.key].lost = (@ \/ op[c.key].state = "submitted")]
               ELSE op

\* A process dies with what it was doing; a tick's lease stays until it expires.
Death ==
    /\ \/ \E t \in Tasks : /\ task[t].pc # "idle"
                           /\ task' = [task EXCEPT ![t] = Idle]
                           /\ op' = Bereaved(Completion(t)) /\ UNCHANGED loops
       \/ \E c \in loops : /\ loops' = loops \ {c}
                           /\ op' = Bereaved(c) /\ UNCHANGED task
    /\ UNCHANGED <<active, grant, posts, success>>

LeaseExpires == /\ grant.live /\ grant' = [grant EXCEPT !.live = FALSE]
                /\ UNCHANGED <<active, op, task, loops, posts, success>>

\* expires_at of a prepared operation passes.
PrepareLapses(k) == /\ op[k].state = "prepared" /\ ~op[k].over
                    /\ op' = [op EXCEPT ![k].over = TRUE]
                    /\ UNCHANGED <<active, grant, task, loops, posts, success>>

\* set_upstream_account_status, and in the same way a token refresh or a change
\* of proxy: a new revision, so that all copies are outdated.
EditAccount ==
    /\ active' \in BOOLEAN
    /\ op' = [k \in Keys |-> [op[k] EXCEPT !.current = FALSE]]
    /\ task' = [t \in Tasks |-> IF task[t].pc = "idle" THEN Idle
                                ELSE [task[t] EXCEPT !.current = FALSE]]
    /\ UNCHANGED <<grant, loops, posts, success>>

-----------------------------------------------------------------------------
Step(t) ==
    \/ TickPrepares(t) \/ refresh_background_quota_reset_prepare(t)
    \/ ReadOriginal(t) \/ ClaimOwned(t) \/ ClaimReplay(t)
    \/ Dispatch(t) \/ Answered(t) \/ TickTimeout(t) \/ Finish(t) \/ GiveUp(t)

Next ==
    \/ \E t \in Tasks : Step(t)
    \/ \E t \in Operators, k \in Keys : OperatorConfirms(t, k)
    \/ \E t \in Workers, x \in Credits : ClaimTick(t, x)
    \/ \E c \in loops : RetryLoop(c)
    \/ \E k \in Keys : \/ OperatorPrepares(k) \/ PrepareLapses(k)
                       \/ settle_accepted_quota_reset_from_observation(k)
                       \/ reconcile_quota_reset(k) \/ release_unknown_quota_reset(k)
    \/ put_background_action_grant \/ current_quota_reset_operation
    \/ Death \/ LeaseExpires \/ EditAccount

Spec == Init /\ [][Next]_vars

-----------------------------------------------------------------------------
\* Properties.

\* Every variable stays in its domain.
TypeOK ==
    /\ active \in BOOLEAN
    /\ op \in [Keys -> [state : {"none", "prepared", "submitted", "accepted", "unknown", "expired"},
                        current : BOOLEAN, count : 0..MaxCredits, over : BOOLEAN,
                        settled : BOOLEAN, lost : BOOLEAN]]
    /\ grant \in [enabled : BOOLEAN, owner : Workers \cup {Nobody}, live : BOOLEAN]
    /\ loops \subseteq [key : Keys, owns : BOOLEAN, accepted : BOOLEAN]
    /\ task \in [Tasks -> [pc : {"idle", "prepare", "refresh", "confirm", "claim", "replay",
                                 "send", "waiting", "finish"},
                           key : Keys, current : BOOLEAN, plan : 0..MaxCredits,
                           accepted : BOOLEAN]]
    /\ posts \in [Keys -> Nat] /\ success \subseteq Keys

\* "At-most-one locally dispatched supplier reset per durable operation": no
\* operation, and so no credit for the plugin that chose it, is ever posted twice, one that
\* was posted never becomes prepared or expired again, and it is accepted only
\* if the supplier said so - across replays, timeouts, refreshed preparations
\* and completions that are retried after their task has ended.
DispatchedOnce ==
    /\ TypeOK
    /\ \A k \in Keys :
          /\ posts[k] <= 1
          /\ posts[k] = 1 => op[k].state \in {"submitted", "accepted", "unknown"}
          /\ op[k].state = "accepted" => k \in success

\* While a task is about to send or waits for the answer, its operation is
\* submitted and the only open one of the account: the completion of another
\* confirmation cannot end it and no operator can release it, so no second
\* reset starts beside it ("an old submitted row or an expired lease is not
\* evidence that its HTTP owner has ended").
DispatcherHoldsTheSlot ==
    \A t \in Tasks : task[t].pc \in {"send", "waiting"} =>
        /\ op[Key(t)].state = "submitted" /\ ~op[Key(t)].settled
        /\ \A k \in Keys \ {Key(t)} : ~Open(op[k])

\* "Do not strand an operation in submitted after its owning future has
\* actually ended" (DispatchCompletion): through timeouts, failures and lost
\* acknowledgements a task or a retry loop is left that owns a submitted
\* operation and will record its outcome, unless the owner's process died or
\* the operation was claimed by a replay.
SubmittedHasOwner ==
    \A k \in Keys : op[k].state = "submitted" /\ ~op[k].lost =>
        \E c \in loops \cup {Completion(t) : t \in Tasks} : c.key = k /\ c.owns
=============================================================================
