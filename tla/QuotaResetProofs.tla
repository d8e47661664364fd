-------------------------- MODULE QuotaResetProofs --------------------------
(***************************************************************************)
(* Proofs about QuotaReset, for any operators, workers, keys and credits:  *)
(* an operation is posted at most once, a task that is sending keeps its   *)
(* operation submitted and alone, and a submitted operation keeps an owner.*)
(*                                                                         *)
(* The three properties are not inductive by themselves.  That nobody ends *)
(* an operation under a task that is sending needs that a completion which *)
(* owns an operation is unlike every task that holds it, and that follows  *)
(* because a claimed row never becomes claimable again.                    *)
(***************************************************************************)
EXTENDS QuotaReset, TLAPS

Pcs == {"idle", "prepare", "refresh", "confirm", "claim", "replay",
        "send", "waiting", "finish"}
States == {"none", "prepared", "submitted", "accepted", "unknown", "expired"}
OpRows == [state : States, current : BOOLEAN, count : 0..MaxCredits, over : BOOLEAN,
           settled : BOOLEAN, lost : BOOLEAN]
TaskRows == [pc : Pcs, key : Keys, current : BOOLEAN, plan : 0..MaxCredits,
             accepted : BOOLEAN]
Grants == [enabled : BOOLEAN, owner : Workers \cup {Nobody}, live : BOOLEAN]
Completions == [key : Keys, owns : BOOLEAN, accepted : BOOLEAN]

\* A row that was claimed once.
Spent(o) == o.state \in {"submitted", "accepted", "unknown"}
Holds(t) == task[t].pc \in {"send", "waiting", "finish"}

\* The unique index one_active, and what only claimed rows can be.
RowsAreOrderly ==
    /\ \A j, k \in Keys : Open(op[j]) /\ Open(op[k]) => j = k
    /\ \A k \in Keys : op[k].settled => op[k].state \in {"accepted", "unknown"}
    /\ \A k \in Keys : posts[k] <= 1 /\ (posts[k] # 0 => Spent(op[k]))
    /\ \A k \in Keys : op[k].state = "accepted" => k \in success

\* What a task knows about the operation that it has claimed.
HoldersKnow ==
    \A t \in Tasks :
       /\ Holds(t) => op[Key(t)].state = "submitted"
       /\ task[t].pc = "send" => posts[Key(t)] = 0
       /\ task[t].accepted => task[t].pc = "finish" /\ Key(t) \in success
       /\ \A u \in Tasks : Holds(t) /\ Holds(u) /\ Key(t) = Key(u) => t = u

\* A completion that is retried owns a claimed operation that no task holds.
LoopsKnow ==
    \A c \in loops : c.owns =>
       /\ Spent(op[c.key])
       /\ c.accepted => c.key \in success
       /\ \A t \in Tasks : Holds(t) => Key(t) # c.key

\* SubmittedHasOwner, without the set of the tasks' completions.
SubmittedIsHeld ==
    \A k \in Keys : op[k].state = "submitted" /\ ~op[k].lost =>
       \/ \E c \in loops : c.key = k /\ c.owns
       \/ \E t \in Tasks : Key(t) = k /\ Holds(t)

\* The inductive invariant.
IInv == TypeOK /\ SubmittedIsHeld /\ RowsAreOrderly /\ HoldersKnow /\ LoopsKnow

-----------------------------------------------------------------------------
(* Types.                                                                  *)

\* There is an operation key at all.
LEMMA KeysInhabited == Idle.key \in Keys
BY QuotaResetAssumption DEF Idle, Keys

\* The type invariant over the tables as functions.
LEMMA TypeRows ==
    TypeOK <=> /\ active \in BOOLEAN /\ op \in [Keys -> OpRows] /\ grant \in Grants
               /\ loops \subseteq Completions /\ task \in [Tasks -> TaskRows]
               /\ posts \in [Keys -> Nat] /\ success \subseteq Keys
BY DEF TypeOK, OpRows, States, Grants, Completions, TaskRows, Pcs

\* An idle task is well-typed.
LEMMA IdleType == Idle \in TaskRows
BY KeysInhabited, QuotaResetAssumption DEF Idle, TaskRows, Pcs

\* The tables start well-typed.
LEMMA TypeInit == Init => TypeOK
<1> SUFFICES ASSUME Init PROVE TypeOK
  OBVIOUS
<1>1. NoOp \in OpRows
  BY QuotaResetAssumption DEF NoOp, OpRows, States
<1>2. grant \in Grants
  BY DEF Init, Grants
<1> QED
  BY <1>1, <1>2, IdleType, TypeRows DEF Init

\* The outdated rows of a read.
LEMMA ExpiredType == ASSUME NEW o \in OpRows PROVE Expired(o) \in OpRows
BY DEF Expired, OpRows, States

\* A task that ends is well-typed.
LEMMA DoneTypes ==
    ASSUME TypeOK, NEW t \in Tasks, Done(t)
    PROVE  task' \in [Tasks -> TaskRows] /\ grant' \in Grants
<1>1. task' \in [Tasks -> TaskRows]
  BY IdleType, TypeRows DEF Done
<1>2. grant' \in Grants
  BY TypeRows DEF Done, NoLease, Grants
<1> QED
  BY <1>1, <1>2

\* A task that moves on is well-typed.
LEMMA GoTypes ==
    ASSUME TypeOK, NEW t \in Tasks, NEW pc \in Pcs, Go(t, pc)
    PROVE  task' \in [Tasks -> TaskRows] /\ grant' \in Grants
BY TypeRows DEF Go, TaskRows

\* The completion of a task is well-typed.
LEMMA CompletionType ==
    ASSUME TypeOK, NEW t \in Tasks
    PROVE  /\ Completion(t) \in Completions
           /\ [Completion(t) EXCEPT !.owns = TRUE] \in Completions
<1>1. task[t] \in TaskRows
  BY TypeRows
<1>2. Key(t) \in Keys /\ task[t].accepted \in BOOLEAN
  BY <1>1 DEF Key, TaskRows
<1> DEFINE owns == task[t].pc \in {"send", "waiting", "finish"}
<1>3. owns \in BOOLEAN
  OBVIOUS
<1>4. Completion(t) = [key |-> Key(t), owns |-> owns, accepted |-> task[t].accepted]
  BY DEF Completion
<1> HIDE DEF owns
<1>5. Completion(t) \in Completions
  BY <1>2, <1>3, <1>4 DEF Completions
<1>6. [Completion(t) EXCEPT !.owns = TRUE] \in Completions
  BY <1>5 DEF Completions
<1> QED
  BY <1>5, <1>6

\* What prepare_quota_reset leaves of each row.
Fresh(current, count) == [NoOp EXCEPT !.state = "prepared", !.current = current, !.count = count]

\* A prepared row is well-typed.
LEMMA FreshType ==
    ASSUME NEW current \in BOOLEAN, NEW count \in 0..MaxCredits
    PROVE  Fresh(current, count) \in OpRows
BY QuotaResetAssumption DEF Fresh, NoOp, OpRows, States

\* What preparing a key makes of the rows.
LEMMA PreparedRows ==
    ASSUME TypeOK, NEW k \in Keys, NEW current \in BOOLEAN, NEW count \in 1..MaxCredits
    PROVE  \/ Prepared(k, current, count) = op
           \/ Prepared(k, current, count) = [j \in Keys |-> Expired(op[j])]
           \/ /\ op[k].state = "none" /\ \A j \in Keys : ~Open(Expired(op[j]))
              /\ Prepared(k, current, count)
                   = [j \in Keys |-> IF j = k THEN Fresh(current, count) ELSE Expired(op[j])]
<1> DEFINE rows == [j \in Keys |-> Expired(op[j])]
<1>1. CASE op[k].state # "none"
  BY <1>1 DEF Prepared
<1>2. CASE op[k].state = "none" /\ \A j \in Keys : ~Open(rows[j])
  BY <1>2 DEF Prepared, Fresh
<1>3. CASE op[k].state = "none" /\ ~(\A j \in Keys : ~Open(rows[j]))
  BY <1>3 DEF Prepared
<1> QED
  BY <1>1, <1>2, <1>3

\* Preparing keeps the rows well-typed.
LEMMA PreparedType ==
    ASSUME TypeOK, NEW k \in Keys, NEW current \in BOOLEAN, NEW count \in 1..MaxCredits
    PROVE  Prepared(k, current, count) \in [Keys -> OpRows]
<1>1. count \in 0..MaxCredits
  BY QuotaResetAssumption
<1> QED
  BY <1>1, PreparedRows, FreshType, ExpiredType, TypeRows

\* Ending an operation keeps the rows well-typed.
LEMMA FinishedType ==
    ASSUME TypeOK, NEW c \in Completions
    PROVE  Finished(c) \in [Keys -> OpRows] /\ Bereaved(c) \in [Keys -> OpRows]
BY TypeRows DEF Finished, Bereaved, Completions, OpRows, States

\* Preparations keep the types.
LEMMA TypePrepares ==
    ASSUME TypeOK,
           \/ \E k \in Keys : OperatorPrepares(k)
           \/ put_background_action_grant
           \/ \E t \in Workers, x \in Credits : ClaimTick(t, x)
           \/ \E t \in Tasks : TickPrepares(t) \/ refresh_background_quota_reset_prepare(t)
    PROVE  TypeOK'
<1>1. CASE \E k \in Keys : OperatorPrepares(k)
  <2>1. op' \in [Keys -> OpRows]
    BY <1>1, PreparedType DEF OperatorPrepares
  <2> QED
    BY <1>1, <2>1 DEF OperatorPrepares, TypeOK, OpRows, States
<1>2. CASE put_background_action_grant
  <2>1. grant' \in Grants
    BY <1>2, TypeRows DEF put_background_action_grant, NoLease, Grants
  <2> QED
    BY <1>2, <2>1 DEF put_background_action_grant, TypeOK, Grants
<1>3. CASE \E t \in Workers, x \in Credits : ClaimTick(t, x)
  <2> PICK t \in Workers, x \in Credits : ClaimTick(t, x)
    BY <1>3
  <2>1. grant' \in Grants
    BY TypeRows DEF ClaimTick, Grants
  <2>2. PICK plan \in 1..MaxCredits :
          task' = [task EXCEPT ![t] = [Idle EXCEPT !.pc = "prepare", !.key = x, !.plan = plan]]
    BY DEF ClaimTick
  <2>3. [Idle EXCEPT !.pc = "prepare", !.key = x, !.plan = plan] \in TaskRows
    <3>1. x \in Keys /\ plan \in 0..MaxCredits
      BY QuotaResetAssumption DEF Keys
    <3> QED
      BY <3>1, IdleType DEF TaskRows, Pcs
  <2>4. task' \in [Tasks -> TaskRows]
    BY <2>2, <2>3, TypeRows
  <2>5. (active \in BOOLEAN /\ op \in [Keys -> OpRows]
          /\ loops \subseteq Completions /\ posts \in [Keys -> Nat] /\ success \subseteq Keys)'
    BY TypeRows DEF ClaimTick
  <2> QED
    BY <2>1, <2>4, <2>5 DEF TypeOK, OpRows, States, Grants, Completions, TaskRows, Pcs
<1>4. CASE \E t \in Tasks : TickPrepares(t)
  <2> PICK t \in Tasks : TickPrepares(t)
    BY <1>4
  <2>1. op' \in [Keys -> OpRows]
    BY PreparedType, TypeRows DEF TickPrepares, Key, TaskRows
  <2>2. Done(t) \/ Go(t, "refresh") \/ Go(t, "confirm")
    BY DEF TickPrepares
  <2>3. task' \in [Tasks -> TaskRows] /\ grant' \in Grants
    BY <2>2, DoneTypes, GoTypes DEF Pcs
  <2> QED
    BY <2>1, <2>3 DEF TickPrepares, TypeOK, OpRows, States, Grants, TaskRows, Pcs
<1>5. CASE \E t \in Tasks : refresh_background_quota_reset_prepare(t)
  <2> PICK t \in Tasks : refresh_background_quota_reset_prepare(t)
    BY <1>5
  <2>1. Fresh(task[t].current, task[t].plan) \in OpRows
    BY FreshType, TypeRows DEF TaskRows
  <2>2. op' \in [Keys -> OpRows]
    BY <2>1, TypeRows DEF refresh_background_quota_reset_prepare, Fresh, Key
  <2>3. task' \in [Tasks -> TaskRows] /\ grant' \in Grants
    BY GoTypes DEF Pcs, refresh_background_quota_reset_prepare
  <2> QED
    BY <2>2, <2>3 DEF refresh_background_quota_reset_prepare, TypeOK, OpRows, States, Grants,
                      TaskRows, Pcs
<1> QED
  BY <1>1, <1>2, <1>3, <1>4, <1>5

\* Confirmations keep the types.
LEMMA TypeConfirm ==
    ASSUME TypeOK, NEW t \in Tasks,
           \/ t \in Operators /\ \E k \in Keys : OperatorConfirms(t, k)
           \/ ReadOriginal(t) \/ ClaimOwned(t) \/ ClaimReplay(t)
    PROVE  TypeOK'
<1>k. Key(t) \in Keys
  BY TypeRows DEF Key, TaskRows
<1>1. CASE \E k \in Keys : OperatorConfirms(t, k)
  <2> PICK k \in Keys : OperatorConfirms(t, k)
    BY <1>1
  <2>1. [Idle EXCEPT !.pc = "confirm", !.key = k] \in TaskRows
    BY IdleType DEF TaskRows, Pcs
  <2>2. task' \in [Tasks -> TaskRows]
    BY <2>1, TypeRows DEF OperatorConfirms
  <2> QED
    BY <2>2 DEF OperatorConfirms, TypeOK, TaskRows, Pcs
<1>2. CASE ReadOriginal(t)
  <2>1. op' \in [Keys -> OpRows]
    BY <1>2, <1>k, ExpiredType, TypeRows DEF ReadOriginal, ReadOp
  <2>2. Done(t) \/ Go(t, "replay") \/ Go(t, "claim")
    BY <1>2 DEF ReadOriginal
  <2>3. task' \in [Tasks -> TaskRows] /\ grant' \in Grants
    BY <2>2, DoneTypes, GoTypes DEF Pcs
  <2> QED
    BY <1>2, <2>1, <2>3 DEF ReadOriginal, TypeOK, OpRows, States, Grants, TaskRows, Pcs
<1>3. CASE ClaimOwned(t)
  <2>1. op' \in [Keys -> OpRows]
    BY <1>3, <1>k, TypeRows DEF ClaimOwned, Submitted, OpRows, States
  <2>2. Done(t) \/ Go(t, "send")
    BY <1>3 DEF ClaimOwned, Drop
  <2>3. task' \in [Tasks -> TaskRows] /\ grant' \in Grants
    BY <2>2, DoneTypes, GoTypes DEF Pcs
  <2>4. loops' \subseteq Completions
    <3>1. \/ loops' = loops \/ loops' = loops \cup {Completion(t)}
          \/ loops' = loops \cup {[Completion(t) EXCEPT !.owns = TRUE]}
      BY <1>3 DEF ClaimOwned, Drop
    <3>2. Completion(t) \in Completions /\ [Completion(t) EXCEPT !.owns = TRUE] \in Completions
      BY CompletionType
    <3>3. loops \subseteq Completions
      BY TypeRows
    <3> QED
      BY <3>1, <3>2, <3>3, Zenon
  <2>5. active' \in BOOLEAN /\ posts' \in [Keys -> Nat] /\ success' \subseteq Keys
    BY <1>3 DEF ClaimOwned, TypeOK
  <2> QED
    BY <2>1, <2>3, <2>4, <2>5 DEF TypeOK, OpRows, States, Grants, TaskRows, Pcs, Completions
<1>4. CASE ClaimReplay(t)
  <2>1. op' \in [Keys -> OpRows]
    BY <1>4, <1>k, TypeRows DEF ClaimReplay, OpRows, States
  <2>2. task' \in [Tasks -> TaskRows] /\ grant' \in Grants
    BY <1>4, DoneTypes DEF ClaimReplay
  <2> QED
    BY <1>4, <2>1, <2>2 DEF ClaimReplay, TypeOK, OpRows, States, Grants, TaskRows, Pcs
<1> QED
  BY <1>1, <1>2, <1>3, <1>4

\* Dispatch and its answers keep the types.
LEMMA TypeDispatch ==
    ASSUME TypeOK, NEW t \in Tasks,
           Dispatch(t) \/ Answered(t) \/ TickTimeout(t) \/ Finish(t) \/ GiveUp(t)
    PROVE  TypeOK'
<1>k. Key(t) \in Keys
  BY TypeRows DEF Key, TaskRows
<1>c. Finished(Completion(t)) \in [Keys -> OpRows]
  BY CompletionType, FinishedType
<1>1. CASE Dispatch(t)
  <2>1. Go(t, "waiting") \/ Go(t, "finish")
    BY <1>1 DEF Dispatch
  <2>2. task' \in [Tasks -> TaskRows] /\ grant' \in Grants
    BY <2>1, GoTypes DEF Pcs
  <2>3. posts' \in [Keys -> Nat]
    BY <1>1, <1>k DEF Dispatch, TypeOK
  <2> QED
    BY <1>1, <2>2, <2>3 DEF Dispatch, TypeOK, Grants, TaskRows, Pcs
<1>2. CASE Answered(t)
  <2>1. task' \in [Tasks -> TaskRows]
    <3>1. PICK accepted \in BOOLEAN :
            task' = [task EXCEPT ![t].pc = "finish", ![t].accepted = accepted]
      BY <1>2 DEF Answered
    <3>2. task \in [Tasks -> TaskRows]
      BY TypeRows
    <3> QED
      BY <3>1, <3>2 DEF TaskRows, Pcs
  <2>2. success' \subseteq Keys
    BY <1>2, <1>k DEF Answered, TypeOK
  <2> QED
    BY <1>2, <2>1, <2>2 DEF Answered, TypeOK, TaskRows, Pcs
<1>3. CASE TickTimeout(t)
  <2>1. loops' \subseteq Completions
    BY <1>3, CompletionType, TypeRows DEF TickTimeout, Drop
  <2>2. task' \in [Tasks -> TaskRows] /\ grant' \in Grants
    BY <1>3, DoneTypes DEF TickTimeout, Drop
  <2> QED
    BY <1>3, <2>1, <2>2 DEF TickTimeout, TypeOK, Grants, TaskRows, Pcs, Completions
<1>4. CASE Finish(t)
  <2>1. op' \in [Keys -> OpRows]
    BY <1>4, <1>c, TypeRows DEF Finish
  <2>2. loops' \subseteq Completions
    <3>1. loops' = loops \/ loops' = loops \cup {Completion(t)}
      BY <1>4 DEF Finish, Drop
    <3>2. Completion(t) \in Completions /\ loops \subseteq Completions
      BY CompletionType, TypeRows
    <3> QED
      BY <3>1, <3>2
  <2>3. task' \in [Tasks -> TaskRows] /\ grant' \in Grants
    BY <1>4, DoneTypes DEF Finish, Drop
  <2>4. active' \in BOOLEAN /\ posts' \in [Keys -> Nat] /\ success' \subseteq Keys
    BY <1>4 DEF Finish, TypeOK
  <2> QED
    BY <2>1, <2>2, <2>3, <2>4 DEF TypeOK, OpRows, States, Grants, TaskRows, Pcs, Completions
<1>5. CASE GiveUp(t)
  <2>1. task' \in [Tasks -> TaskRows] /\ grant' \in Grants
    BY <1>5, DoneTypes DEF GiveUp
  <2> QED
    BY <1>5, <2>1 DEF GiveUp, TypeOK, Grants, TaskRows, Pcs
<1> QED
  BY <1>1, <1>2, <1>3, <1>4, <1>5

\* Retry loops, observations and operators keep the types.
LEMMA TypeRest ==
    ASSUME TypeOK,
           \/ \E c \in loops : RetryLoop(c)
           \/ \E k \in Keys : \/ PrepareLapses(k)
                              \/ settle_accepted_quota_reset_from_observation(k)
                              \/ reconcile_quota_reset(k) \/ release_unknown_quota_reset(k)
           \/ current_quota_reset_operation \/ Death \/ LeaseExpires \/ EditAccount
    PROVE  TypeOK'
<1>1. CASE \E c \in loops : RetryLoop(c)
  <2>1. op' \in [Keys -> OpRows]
    BY <1>1, FinishedType, TypeRows DEF RetryLoop
  <2> QED
    BY <1>1, <2>1 DEF RetryLoop, TypeOK, OpRows, States
<1>2. CASE \E k \in Keys : \/ PrepareLapses(k)
                           \/ settle_accepted_quota_reset_from_observation(k)
                           \/ reconcile_quota_reset(k) \/ release_unknown_quota_reset(k)
  <2>1. PICK k \in Keys : op' = [op EXCEPT ![k].over = TRUE] \/ op' = [op EXCEPT ![k].settled = TRUE]
    BY <1>2 DEF PrepareLapses, settle_accepted_quota_reset_from_observation,
                reconcile_quota_reset, release_unknown_quota_reset, Settled
  <2>2. op' \in [Keys -> OpRows]
    <3>1. op \in [Keys -> OpRows]
      BY TypeRows
    <3> QED
      BY <2>1, <3>1 DEF OpRows
  <2>3. UNCHANGED <<active, grant, task, loops, posts, success>>
    BY <1>2 DEF PrepareLapses, settle_accepted_quota_reset_from_observation,
                reconcile_quota_reset, release_unknown_quota_reset
  <2> QED
    BY <2>2, <2>3 DEF TypeOK, OpRows, States
<1>3. CASE current_quota_reset_operation
  <2>1. op' \in [Keys -> OpRows]
    BY <1>3, ExpiredType, TypeRows DEF current_quota_reset_operation
  <2> QED
    BY <1>3, <2>1 DEF current_quota_reset_operation, TypeOK, OpRows, States
<1>4. CASE Death
  <2>1. op' \in [Keys -> OpRows]
    BY <1>4, CompletionType, FinishedType, TypeRows DEF Death
  <2>2. task' \in [Tasks -> TaskRows]
    BY <1>4, IdleType, TypeRows DEF Death
  <2>3. loops' \subseteq Completions
    BY <1>4, TypeRows DEF Death
  <2>4. UNCHANGED <<active, grant, posts, success>>
    BY <1>4 DEF Death
  <2> QED
    BY <2>1, <2>2, <2>3, <2>4 DEF TypeOK, OpRows, States, TaskRows, Pcs, Completions
<1>5. CASE LeaseExpires
  <2>1. grant' \in Grants
    BY <1>5, TypeRows DEF LeaseExpires, Grants
  <2> QED
    BY <1>5, <2>1 DEF LeaseExpires, TypeOK, Grants
<1>6. CASE EditAccount
  <2>1. op' \in [Keys -> OpRows]
    BY <1>6, TypeRows DEF EditAccount, OpRows
  <2>2. \A t \in Tasks : [task[t] EXCEPT !.current = FALSE] \in TaskRows
    BY TypeRows DEF TaskRows
  <2>3. task' \in [Tasks -> TaskRows]
    BY <1>6, <2>2, IdleType DEF EditAccount
  <2> QED
    BY <1>6, <2>1, <2>3 DEF EditAccount, TypeOK, OpRows, States, TaskRows, Pcs
<1> QED
  BY <1>1, <1>2, <1>3, <1>4, <1>5, <1>6

\* Every step keeps the tables well-typed.
LEMMA TypeNext == TypeOK /\ [Next]_vars => TypeOK'
<1> SUFFICES ASSUME TypeOK, [Next]_vars PROVE TypeOK'
  OBVIOUS
<1>1. CASE UNCHANGED vars
  BY <1>1 DEF vars, TypeOK
<1>2. CASE Next
  BY <1>2, TypePrepares, TypeConfirm, TypeDispatch, TypeRest DEF Next, Step, Tasks
<1> QED
  BY <1>1, <1>2
-----------------------------------------------------------------------------
(* The inductive invariant.                                                *)

\* The owner of a submitted row is a task or a retry loop that still holds it.
LEMMA OwnersAreHolders == SubmittedIsHeld <=> SubmittedHasOwner
<1>1. ASSUME NEW k PROVE (\E c \in loops \cup {Completion(t) : t \in Tasks} : c.key = k /\ c.owns)
                         <=> \/ \E c \in loops : c.key = k /\ c.owns
                             \/ \E t \in Tasks : Key(t) = k /\ Holds(t)
  <2>1. \A t \in Tasks : Completion(t).key = Key(t) /\ (Completion(t).owns <=> Holds(t))
    BY DEF Completion, Holds
  <2> QED
    BY <2>1
<1> QED
  BY <1>1 DEF SubmittedIsHeld, SubmittedHasOwner

\* A task that moves on keeps its key.
LEMMA GoFacts ==
    ASSUME TypeOK, NEW t \in Tasks, NEW pc, Go(t, pc)
    PROVE  /\ \A u \in Tasks \ {t} : task'[u] = task[u]
           /\ task'[t].pc = pc /\ task'[t].key = task[t].key
           /\ task'[t].accepted = task[t].accepted
BY TypeRows DEF Go, TaskRows

\* A task that ends is idle.
LEMMA DoneFacts ==
    ASSUME TypeOK, NEW t \in Tasks, Done(t)
    PROVE  /\ \A u \in Tasks \ {t} : task'[u] = task[u]
           /\ task'[t].pc = "idle" /\ ~task'[t].accepted
BY TypeRows DEF Done, Idle

\* Steps that leave every claim alone: a task that holds nothing moves on or
\* ends, rows that were never claimed are prepared or expire, claimed ones may
\* be settled, and completions that own nothing come and go.
QuietTask(t) ==
    \/ /\ task'[t].pc = task[t].pc /\ task'[t].key = task[t].key
       /\ task'[t].accepted = task[t].accepted
    \/ ~Holds(t) /\ ~Holds(t)' /\ ~task'[t].accepted
QuietTasks == \A t \in Tasks : QuietTask(t)
QuietLoops == \A c \in Completions : c.owns => (c \in loops' <=> c \in loops)
QuietRows ==
    /\ \A k \in Keys : Spent(op[k]) \/ Spent(op'[k]) =>
          op'[k].state = op[k].state /\ op'[k].lost = op[k].lost
    /\ \A k \in Keys : op'[k].settled => op'[k].state \in {"accepted", "unknown"}
    /\ \A j, k \in Keys : Open(op'[j]) /\ Open(op'[k]) => j = k

\* A step that neither submits, ends nor posts anything.
LEMMA Quiet ==
    ASSUME IInv, TypeOK', QuietTasks, QuietLoops, QuietRows, UNCHANGED <<posts, success>>
    PROVE  IInv'
<1>t. /\ \A t \in Tasks : Key(t) \in Keys /\ Key(t)' \in Keys
      /\ \A c \in loops : c \in Completions /\ c.key \in Keys
      /\ \A c \in loops' : c \in Completions /\ c.key \in Keys
  BY DEF IInv, TypeOK, Key, Completions
<1>h. \A t \in Tasks : /\ Holds(t)' <=> Holds(t)
                       /\ Holds(t) => Key(t)' = Key(t) /\ task'[t].pc = task[t].pc
                       /\ task'[t].accepted => /\ task[t].accepted
                                               /\ Key(t)' = Key(t) /\ task'[t].pc = task[t].pc
  BY DEF QuietTasks, QuietTask, Holds, Key
<1>1. RowsAreOrderly'
  BY DEF IInv, QuietRows, RowsAreOrderly, Spent
<1>2. HoldersKnow'
  <2> SUFFICES ASSUME NEW t \in Tasks
               PROVE  (/\ Holds(t) => op[Key(t)].state = "submitted"
                       /\ task[t].pc = "send" => posts[Key(t)] = 0
                       /\ task[t].accepted => task[t].pc = "finish" /\ Key(t) \in success
                       /\ \A u \in Tasks : Holds(t) /\ Holds(u) /\ Key(t) = Key(u) => t = u)'
    BY DEF HoldersKnow
  <2>1. (Holds(t) => op[Key(t)].state = "submitted")'
    BY <1>t, <1>h DEF IInv, HoldersKnow, QuietRows, Spent
  <2>2. (task[t].pc = "send" => posts[Key(t)] = 0)'
    BY <1>t, <1>h DEF IInv, HoldersKnow, Holds
  <2>3. (task[t].accepted => task[t].pc = "finish" /\ Key(t) \in success)'
    BY <1>t, <1>h DEF IInv, HoldersKnow
  <2>4. (\A u \in Tasks : Holds(t) /\ Holds(u) /\ Key(t) = Key(u) => t = u)'
    BY <1>h DEF IInv, HoldersKnow
  <2> QED
    BY <2>1, <2>2, <2>3, <2>4
<1>3. LoopsKnow'
  BY <1>t, <1>h DEF IInv, LoopsKnow, QuietLoops, QuietRows, Spent
<1>4. SubmittedIsHeld'
  BY <1>t, <1>h DEF IInv, SubmittedIsHeld, QuietLoops, QuietRows, Spent
<1> QED
  BY <1>1, <1>2, <1>3, <1>4 DEF IInv

\* The invariant holds at first.
LEMMA IInit == Init => IInv
<1> SUFFICES ASSUME Init PROVE IInv
  OBVIOUS
<1>1. TypeOK
  BY TypeInit
<1>2. /\ \A k \in Keys : op[k].state = "none" /\ ~op[k].settled /\ posts[k] = 0
      /\ \A t \in Tasks : task[t].pc = "idle" /\ ~task[t].accepted
      /\ loops = {}
  BY DEF Init, NoOp, Idle
<1> QED
  BY <1>1, <1>2 DEF IInv, SubmittedIsHeld, RowsAreOrderly, HoldersKnow, LoopsKnow, Holds, Open, Spent
-----------------------------------------------------------------------------
(* The quiet steps.                                                        *)

\* A task that holds nothing moves on.
LEMMA QuietGo ==
    ASSUME TypeOK, NEW t \in Tasks, NEW pc \in Pcs \ {"send", "waiting", "finish"}, Go(t, pc),
           ~Holds(t), ~task[t].accepted
    PROVE  QuietTasks
BY GoFacts DEF QuietTasks, QuietTask, Holds

\* A task that holds nothing ends.
LEMMA QuietDone ==
    ASSUME TypeOK, NEW t \in Tasks, Done(t), ~Holds(t)
    PROVE  QuietTasks
BY DoneFacts DEF QuietTasks, QuietTask, Holds

\* Tables that do not move.
LEMMA QuietSame ==
    /\ UNCHANGED task => QuietTasks
    /\ UNCHANGED loops => QuietLoops
    /\ IInv /\ UNCHANGED op => QuietRows
BY DEF QuietTasks, QuietTask, QuietLoops, QuietRows, IInv, RowsAreOrderly

\* A row that expires was not claimed; one that is prepared anew neither.
LEMMA QuietExpiry ==
    ASSUME IInv, op' \in [Keys -> OpRows],
           \A k \in Keys : op'[k] = op[k] \/ op'[k] = Expired(op[k])
    PROVE  QuietRows
<1>1. \A k \in Keys : op[k] \in OpRows
  BY TypeRows DEF IInv
<1>2. \A k \in Keys : /\ op'[k].settled = op[k].settled /\ op'[k].lost = op[k].lost
                      /\ \/ op'[k].state = op[k].state
                         \/ op[k].state = "prepared" /\ op'[k].state = "expired"
  BY <1>1 DEF Expired, OpRows
<1> QED
  BY <1>2 DEF QuietRows, IInv, RowsAreOrderly, Open, Spent

\* Preparing a key submits nothing.
LEMMA QuietPrepared ==
    ASSUME IInv, NEW k \in Keys, NEW current \in BOOLEAN, NEW count \in 1..MaxCredits,
           op' = Prepared(k, current, count)
    PROVE  QuietRows
<1>t. TypeOK /\ op' \in [Keys -> OpRows] /\ \A j \in Keys : op[j] \in OpRows
  BY PreparedType, TypeRows DEF IInv
<1>1. CASE op' = op \/ op' = [j \in Keys |-> Expired(op[j])]
  <2>1. \A j \in Keys : op'[j] = op[j] \/ op'[j] = Expired(op[j])
    BY <1>1
  <2> QED
    BY <2>1, <1>t, QuietExpiry
<1>2. CASE /\ op[k].state = "none" /\ \A j \in Keys : ~Open(Expired(op[j]))
           /\ op' = [j \in Keys |-> IF j = k THEN Fresh(current, count) ELSE Expired(op[j])]
  <2>1. \A j \in Keys : /\ Expired(op[j]).settled = op[j].settled
                        /\ Expired(op[j]).lost = op[j].lost
                        /\ \/ Expired(op[j]).state = op[j].state
                           \/ op[j].state = "prepared" /\ Expired(op[j]).state = "expired"
    BY <1>t DEF Expired, OpRows
  <2>2. op'[k].state = "prepared" /\ ~op'[k].settled
    BY <1>2 DEF Fresh, NoOp
  <2>3. \A j \in Keys \ {k} : op'[j] = Expired(op[j]) /\ ~Open(op'[j])
    BY <1>2
  <2> HIDE <1>2
  <2>4. op[k].state = "none"
    BY <1>2
  <2> QED
    BY <2>1, <2>2, <2>3, <2>4 DEF QuietRows, IInv, RowsAreOrderly, Open, Spent
<1> QED
  BY <1>1, <1>2, <1>t, PreparedRows

\* A task that has not claimed yet carries no answer.
LEMMA Unclaimed ==
    ASSUME IInv, NEW t \in Tasks, task[t].pc \notin {"send", "waiting", "finish"}
    PROVE  TypeOK /\ Key(t) \in Keys /\ task[t] \in TaskRows /\ ~Holds(t) /\ ~task[t].accepted
BY TypeRows DEF IInv, HoldersKnow, Holds, Key, TaskRows

\* Preparations keep the invariant.
LEMMA IPrepares ==
    ASSUME IInv, TypeOK',
           \/ \E k \in Keys : OperatorPrepares(k)
           \/ put_background_action_grant
           \/ \E t \in Workers, x \in Credits : ClaimTick(t, x)
           \/ \E t \in Tasks : TickPrepares(t) \/ refresh_background_quota_reset_prepare(t)
    PROVE  IInv'
<1>1. CASE \E k \in Keys : OperatorPrepares(k)
  <2>1. QuietRows
    BY <1>1, QuietPrepared DEF OperatorPrepares
  <2>2. UNCHANGED <<task, loops, posts, success>>
    BY <1>1 DEF OperatorPrepares
  <2> QED
    BY <2>1, <2>2, QuietSame, Quiet
<1>2. CASE put_background_action_grant
  BY <1>2, QuietSame, Quiet DEF put_background_action_grant
<1>3. CASE \E t \in Workers, x \in Credits : ClaimTick(t, x)
  <2> PICK t \in Workers, x \in Credits : ClaimTick(t, x)
    BY <1>3
  <2>1. task \in [Tasks -> TaskRows] /\ t \in Tasks
    BY TypeRows DEF IInv, Tasks
  <2>2. /\ \A u \in Tasks \ {t} : task'[u] = task[u]
        /\ task[t].pc = "idle" /\ task'[t].pc = "prepare" /\ ~task'[t].accepted
    BY <2>1 DEF ClaimTick, Idle
  <2>3. QuietTasks
    BY <2>2 DEF QuietTasks, QuietTask, Holds
  <2>4. UNCHANGED <<op, loops, posts, success>>
    BY DEF ClaimTick
  <2> QED
    BY <2>3, <2>4, QuietSame, Quiet
<1>4. CASE \E t \in Tasks : TickPrepares(t)
  <2> PICK t \in Tasks : TickPrepares(t)
    BY <1>4
  <2>1. task[t].pc = "prepare"
    BY DEF TickPrepares
  <2>2. TypeOK /\ Key(t) \in Keys /\ task[t] \in TaskRows /\ ~Holds(t) /\ ~task[t].accepted
    BY <2>1, Unclaimed
  <2>3. task[t].current \in BOOLEAN
    BY <2>2 DEF TaskRows
  <2>4. QuietRows
    BY <2>2, <2>3, QuietPrepared DEF TickPrepares
  <2>5. Done(t) \/ Go(t, "refresh") \/ Go(t, "confirm")
    BY DEF TickPrepares
  <2>6. QuietTasks
    BY <2>2, <2>5, QuietDone, QuietGo DEF Pcs
  <2>7. UNCHANGED <<loops, posts, success>>
    BY DEF TickPrepares
  <2> QED
    BY <2>4, <2>6, <2>7, QuietSame, Quiet
<1>5. CASE \E t \in Tasks : refresh_background_quota_reset_prepare(t)
  <2> PICK t \in Tasks : refresh_background_quota_reset_prepare(t)
    BY <1>5
  <2>1. task[t].pc = "refresh"
    BY DEF refresh_background_quota_reset_prepare
  <2>2. TypeOK /\ Key(t) \in Keys /\ task[t] \in TaskRows /\ ~Holds(t) /\ ~task[t].accepted
    BY <2>1, Unclaimed
  <2>3. op \in [Keys -> OpRows]
    BY <2>2, TypeRows
  <2>4. QuietRows
    <3>1. CASE ~refreshable(Key(t))
      BY <3>1, QuietSame DEF refresh_background_quota_reset_prepare
    <3>2. CASE refreshable(Key(t))
      <4>1. /\ \A j \in Keys \ {Key(t)} : op'[j] = op[j] /\ ~Open(op[j])
            /\ op'[Key(t)].state = "prepared" /\ ~op'[Key(t)].settled
            /\ op[Key(t)].state \in {"prepared", "expired"}
        BY <2>2, <2>3, <3>2 DEF refresh_background_quota_reset_prepare, refreshable, NoOp
      <4> QED
        BY <4>1, <2>2 DEF QuietRows, IInv, RowsAreOrderly, Open, Spent
    <3> QED
      BY <3>1, <3>2
  <2>5. QuietTasks
    BY <2>2, QuietGo DEF Pcs, refresh_background_quota_reset_prepare
  <2>6. UNCHANGED <<loops, posts, success>>
    BY DEF refresh_background_quota_reset_prepare
  <2> QED
    BY <2>4, <2>5, <2>6, QuietSame, Quiet
<1> QED
  BY <1>1, <1>2, <1>3, <1>4, <1>5

-----------------------------------------------------------------------------
(* Claims.                                                                 *)

\* A prepared row is nobody's, and it is the open one.
LEMMA PreparedIsFree ==
    ASSUME IInv, NEW k \in Keys, op[k].state = "prepared"
    PROVE  /\ ~op[k].settled /\ posts[k] = 0
           /\ \A t \in Tasks : Holds(t) => Key(t) # k
           /\ \A c \in loops : c.owns => c.key # k
           /\ \A j \in Keys \ {k} : ~Open(op[j])
BY DEF IInv, TypeOK, RowsAreOrderly, HoldersKnow, LoopsKnow, Spent, Open

\* The effect of a claim on the rows.
ClaimedRow(k) ==
    /\ \A j \in Keys \ {k} : op'[j] = op[j]
    /\ op[k].state = "prepared" /\ op'[k].state = "submitted"
    /\ op'[k].settled = op[k].settled

\* Submitting one prepared row.
LEMMA ClaimedRows ==
    ASSUME IInv, NEW k \in Keys, ClaimedRow(k), UNCHANGED <<posts, success>>
    PROVE  RowsAreOrderly'
BY PreparedIsFree DEF IInv, ClaimedRow, RowsAreOrderly, Open, Spent

\* The claim that makes a task the owner of the submission.
LEMMA IClaimOwned ==
    ASSUME IInv, TypeOK', NEW t \in Tasks, ClaimOwned(t)
    PROVE  IInv'
<1>p. task[t].pc = "claim" /\ UNCHANGED <<posts, success>>
  BY DEF ClaimOwned
<1>t. TypeOK /\ Key(t) \in Keys /\ task[t] \in TaskRows /\ ~Holds(t) /\ ~task[t].accepted
  BY <1>p, Unclaimed
<1>u. op \in [Keys -> OpRows] /\ \A u \in Tasks : Key(u) \in Keys
  BY <1>t, TypeRows DEF Key, TaskRows
<1>l. /\ \A c \in loops : c \in Completions /\ c.key \in Keys
      /\ \A c \in loops' : c \in Completions /\ c.key \in Keys
  BY <1>t DEF TypeOK, Completions
<1>1. CASE Claimable(t) /\ Submitted(Key(t)) /\ Go(t, "send") /\ UNCHANGED loops
  <2>1. ClaimedRow(Key(t))
    BY <1>1, <1>t, <1>u DEF ClaimedRow, Claimable, Submitted, OpRows
  <2>2. RowsAreOrderly'
    BY <2>1, <1>p, <1>t, ClaimedRows
  <2>3. /\ \A u \in Tasks \ {t} : task'[u] = task[u]
        /\ task'[t].pc = "send" /\ task'[t].key = task[t].key /\ ~task'[t].accepted
    BY <1>1, <1>t, GoFacts
  <2>4. /\ posts[Key(t)] = 0
        /\ \A u \in Tasks : Holds(u) => Key(u) # Key(t)
        /\ \A c \in loops : c.owns => c.key # Key(t)
    BY <2>1, <1>t, PreparedIsFree DEF ClaimedRow
  <2>5. HoldersKnow'
    BY <2>1, <2>3, <2>4, <1>p, <1>u DEF IInv, HoldersKnow, ClaimedRow, Holds, Key
  <2>6. LoopsKnow'
    BY <2>1, <2>3, <2>4, <1>1, <1>p, <1>l DEF IInv, LoopsKnow, ClaimedRow, Holds, Key, Spent
  <2>7. SubmittedIsHeld'
    BY <2>1, <2>3, <1>1, <1>t DEF IInv, SubmittedIsHeld, ClaimedRow, Holds, Key
  <2> QED
    BY <2>2, <2>5, <2>6, <2>7 DEF IInv
<1>2. CASE /\ Claimable(t) /\ Submitted(Key(t))
           /\ Drop(t, [Completion(t) EXCEPT !.owns = TRUE])
  <2>1. ClaimedRow(Key(t))
    BY <1>2, <1>t, <1>u DEF ClaimedRow, Claimable, Submitted, OpRows
  <2>2. RowsAreOrderly'
    BY <2>1, <1>p, <1>t, ClaimedRows
  <2>3. /\ \A u \in Tasks \ {t} : task'[u] = task[u]
        /\ task'[t].pc = "idle" /\ ~task'[t].accepted
    BY <1>2, <1>t, DoneFacts DEF Drop
  <2>4. /\ \A u \in Tasks : Holds(u) => Key(u) # Key(t)
        /\ \A c \in loops : c.owns => c.key # Key(t)
    BY <2>1, <1>t, PreparedIsFree DEF ClaimedRow
  <2>5. PICK c \in Completions : /\ loops' = loops \cup {c}
                                 /\ c.key = Key(t) /\ c.owns /\ ~c.accepted
    <3>1. [Completion(t) EXCEPT !.owns = TRUE] \in Completions
      BY <1>t, CompletionType
    <3>2. /\ [Completion(t) EXCEPT !.owns = TRUE].key = Key(t)
          /\ [Completion(t) EXCEPT !.owns = TRUE].owns
          /\ [Completion(t) EXCEPT !.owns = TRUE].accepted = task[t].accepted
      BY DEF Completion
    <3>3. loops' = loops \cup {[Completion(t) EXCEPT !.owns = TRUE]}
      BY <1>2 DEF Drop
    <3> QED
      BY <3>1, <3>2, <3>3, <1>t, Zenon
  <2>6. HoldersKnow'
    BY <2>1, <2>3, <2>4, <1>p, <1>u DEF IInv, HoldersKnow, ClaimedRow, Holds, Key
  <2>7. LoopsKnow'
    BY <2>1, <2>3, <2>4, <2>5, <1>p, <1>l DEF IInv, LoopsKnow, ClaimedRow, Holds, Key, Spent
  <2>8. SubmittedIsHeld'
    BY <2>1, <2>3, <2>5, <1>t DEF IInv, SubmittedIsHeld, ClaimedRow, Holds, Key
  <2> QED
    BY <2>2, <2>6, <2>7, <2>8 DEF IInv
<1>3. CASE UNCHANGED op /\ Drop(t, Completion(t))
  <2>1. QuietLoops
    <3>1. ~Completion(t).owns /\ loops' = loops \cup {Completion(t)}
      BY <1>3, <1>t DEF Completion, Holds, Drop
    <3> QED
      BY <3>1 DEF QuietLoops
  <2>2. QuietTasks
    BY <1>3, <1>t, QuietDone DEF Drop
  <2> QED
    BY <1>3, <1>p, <2>1, <2>2, QuietSame, Quiet
<1>4. CASE UNCHANGED <<op, loops>> /\ Done(t)
  BY <1>4, <1>p, <1>t, QuietDone, QuietSame, Quiet
<1> QED
  BY <1>1, <1>2, <1>3, <1>4 DEF ClaimOwned

\* The other steps of a confirmation.
LEMMA IConfirm ==
    ASSUME IInv, TypeOK', NEW t \in Tasks,
           \/ t \in Operators /\ \E k \in Keys : OperatorConfirms(t, k)
           \/ ReadOriginal(t) \/ ClaimReplay(t)
    PROVE  IInv'
<1>1. CASE \E k \in Keys : OperatorConfirms(t, k)
  <2>1. task \in [Tasks -> TaskRows]
    BY TypeRows DEF IInv
  <2>2. /\ \A u \in Tasks \ {t} : task'[u] = task[u]
        /\ task[t].pc = "idle" /\ task'[t].pc = "confirm" /\ ~task'[t].accepted
    BY <1>1, <2>1 DEF OperatorConfirms, Idle
  <2>3. QuietTasks
    BY <2>2 DEF QuietTasks, QuietTask, Holds
  <2>4. UNCHANGED <<op, loops, posts, success>>
    BY <1>1 DEF OperatorConfirms
  <2> QED
    BY <2>3, <2>4, QuietSame, Quiet
<1>2. CASE ReadOriginal(t)
  <2>1. TypeOK /\ Key(t) \in Keys /\ task[t] \in TaskRows /\ ~Holds(t) /\ ~task[t].accepted
    BY <1>2, Unclaimed DEF ReadOriginal
  <2>2. op \in [Keys -> OpRows]
    BY <2>1, TypeRows
  <2>3. /\ op' \in [Keys -> OpRows]
        /\ \A k \in Keys : op'[k] = op[k] \/ op'[k] = Expired(op[k])
    BY <1>2, <2>1, <2>2, ExpiredType DEF ReadOriginal, ReadOp
  <2>4. Done(t) \/ Go(t, "replay") \/ Go(t, "claim")
    BY <1>2 DEF ReadOriginal
  <2>5. QuietTasks
    BY <2>1, <2>4, QuietDone, QuietGo DEF Pcs
  <2>6. UNCHANGED <<loops, posts, success>>
    BY <1>2 DEF ReadOriginal
  <2> QED
    BY <2>3, <2>5, <2>6, QuietExpiry, QuietSame, Quiet
<1>3. CASE ClaimReplay(t)
  <2>1. TypeOK /\ Key(t) \in Keys /\ task[t] \in TaskRows /\ ~Holds(t) /\ ~task[t].accepted
    BY <1>3, Unclaimed DEF ClaimReplay
  <2>2. op \in [Keys -> OpRows] /\ \A u \in Tasks : Key(u) \in Keys
    BY <2>1, TypeRows DEF Key, TaskRows
  <2>3. UNCHANGED <<loops, posts, success>>
    BY <1>3 DEF ClaimReplay
  <2>4. CASE ~Claimable(t)
    BY <1>3, <2>1, <2>3, <2>4, QuietDone, QuietSame, Quiet DEF ClaimReplay
  <2>5. CASE Claimable(t)
    <3>1. ClaimedRow(Key(t)) /\ op'[Key(t)].lost
      BY <1>3, <2>1, <2>2, <2>5 DEF ClaimedRow, ClaimReplay, Claimable, OpRows
    <3>2. RowsAreOrderly'
      BY <3>1, <2>1, <2>3, ClaimedRows
    <3>3. /\ \A u \in Tasks \ {t} : task'[u] = task[u]
          /\ task'[t].pc = "idle" /\ ~task'[t].accepted
      BY <1>3, <2>1, DoneFacts DEF ClaimReplay
    <3>4. \A u \in Tasks : Holds(u) => Key(u) # Key(t)
      BY <3>1, <2>1, PreparedIsFree DEF ClaimedRow
    <3>5. HoldersKnow'
      BY <3>1, <3>3, <3>4, <2>2, <2>3 DEF IInv, HoldersKnow, ClaimedRow, Holds, Key
    <3>6. \A c \in loops : c.key \in Keys
      BY <2>1 DEF TypeOK
    <3>7. LoopsKnow'
      BY <3>1, <3>3, <3>4, <3>6, <2>1, <2>3 DEF IInv, LoopsKnow, ClaimedRow, Holds, Key, Spent
    <3>8. SubmittedIsHeld'
      BY <3>1, <3>3, <2>1, <2>3 DEF IInv, SubmittedIsHeld, ClaimedRow, Holds, Key
    <3> QED
      BY <3>2, <3>5, <3>7, <3>8 DEF IInv
  <2> QED
    BY <2>4, <2>5
<1> QED
  BY <1>1, <1>2, <1>3

-----------------------------------------------------------------------------
(* The task or the completion that owns a claim.                           *)

\* The row of a claim ends, or is bereaved; the others stay.
EndedRow(k, accepted) ==
    /\ \A j \in Keys \ {k} : op'[j] = op[j]
    /\ op'[k].settled = op[k].settled
    /\ \/ op'[k].state = op[k].state
       \/ op[k].state = "submitted" /\ op'[k].state = IF accepted THEN "accepted" ELSE "unknown"

\* finish_quota_reset_owned and Death, for a completion.
LEMMA FinishedRows ==
    ASSUME TypeOK, NEW c \in Completions
    PROVE  /\ op' = Finished(c) =>
                /\ EndedRow(c.key, c.accepted)
                /\ ~c.owns => op' = op
                /\ c.owns => op'[c.key].state # "submitted"
           /\ op' = Bereaved(c) =>
                /\ EndedRow(c.key, c.accepted)
                /\ ~c.owns => op' = op
                /\ c.owns => (op'[c.key].state = "submitted" => op'[c.key].lost)
           /\ op' = op => EndedRow(c.key, c.accepted)
<1>1. c.key \in Keys /\ c.owns \in BOOLEAN /\ c.accepted \in BOOLEAN
  BY DEF Completions
<1>2. op \in [Keys -> OpRows]
  BY TypeRows
<1> QED
  BY <1>1, <1>2 DEF Finished, Bereaved, EndedRow, OpRows

\* Ending one submission.
LEMMA EndedRows ==
    ASSUME IInv, NEW k \in Keys, NEW accepted \in BOOLEAN, EndedRow(k, accepted),
           accepted => k \in success, UNCHANGED <<posts, success>>
    PROVE  RowsAreOrderly' /\ \A j \in Keys : Spent(op[j]) => Spent(op'[j])
BY DEF IInv, EndedRow, RowsAreOrderly, Open, Spent

\* The completion of a task that holds its operation.
LEMMA HeldCompletion ==
    ASSUME IInv, NEW t \in Tasks
    PROVE  /\ Completion(t) \in Completions
           /\ Completion(t).key = Key(t) /\ Completion(t).accepted = task[t].accepted
           /\ Completion(t).owns <=> Holds(t)
           /\ Key(t) \in Keys /\ task[t].accepted \in BOOLEAN
           /\ task[t].accepted => Key(t) \in success
<1>1. TypeOK /\ task[t] \in TaskRows
  BY TypeRows DEF IInv
<1>2. Completion(t) \in Completions
  BY <1>1, CompletionType
<1> QED
  BY <1>1, <1>2 DEF IInv, HoldersKnow, Completion, Holds, Key, TaskRows

\* A task that holds its operation ends, and its completion with it or not.
LEMMA HolderEnds ==
    ASSUME IInv, TypeOK', NEW t \in Tasks, Holds(t),
           \A u \in Tasks \ {t} : task'[u] = task[u],
           task'[t].pc = "idle", ~task'[t].accepted,
           EndedRow(Key(t), task[t].accepted), UNCHANGED <<posts, success>>,
           \/ /\ loops' = loops
              /\ op'[Key(t)].state = "submitted" => op'[Key(t)].lost
           \/ loops' = loops \cup {Completion(t)}
    PROVE  IInv'
<1>c. /\ Completion(t) \in Completions
      /\ Completion(t).key = Key(t) /\ Completion(t).accepted = task[t].accepted
      /\ Completion(t).owns <=> Holds(t)
      /\ Key(t) \in Keys /\ task[t].accepted \in BOOLEAN
      /\ task[t].accepted => Key(t) \in success
  BY HeldCompletion
<1>u. \A u \in Tasks : Key(u) \in Keys
  BY HeldCompletion
<1>1. RowsAreOrderly' /\ \A j \in Keys : Spent(op[j]) => Spent(op'[j])
  BY <1>c, EndedRows
<1>2. \A u \in Tasks \ {t} : Holds(u) => Key(u) # Key(t)
  BY DEF IInv, HoldersKnow
<1>3. HoldersKnow'
  BY <1>2, <1>u DEF IInv, HoldersKnow, EndedRow, Holds, Key
<1>4. \A c \in loops : c.key \in Keys
  BY DEF IInv, TypeOK
<1>5. Spent(op[Key(t)])
  BY DEF IInv, HoldersKnow, Spent
<1>6. LoopsKnow'
  BY <1>1, <1>2, <1>4, <1>5, <1>c DEF IInv, LoopsKnow, Holds, Key
<1>7. SubmittedIsHeld'
  <2> SUFFICES ASSUME NEW k \in Keys, op'[k].state = "submitted", ~op'[k].lost
               PROVE  \/ \E c \in loops' : c.key = k /\ c.owns
                      \/ \E u \in Tasks : Key(u)' = k /\ Holds(u)'
    BY DEF SubmittedIsHeld
  <2>1. CASE k = Key(t)
    BY <2>1, <1>c
  <2>2. CASE k # Key(t)
    <3>1. op[k].state = "submitted" /\ ~op[k].lost
      BY <2>2 DEF EndedRow
    <3>2. CASE \E c \in loops : c.key = k /\ c.owns
      BY <3>2
    <3>3. CASE \E u \in Tasks : Key(u) = k /\ Holds(u)
      <4> PICK u \in Tasks : Key(u) = k /\ Holds(u)
        BY <3>3
      <4>1. task'[u] = task[u]
        BY <2>2
      <4>2. Key(u)' = k /\ Holds(u)'
        BY <4>1 DEF Key, Holds
      <4> QED
        BY <4>2
    <3> QED
      BY <3>1, <3>2, <3>3 DEF IInv, SubmittedIsHeld
  <2> QED
    BY <2>1, <2>2
<1> QED
  BY <1>1, <1>3, <1>6, <1>7 DEF IInv

\* A completion leaves the loops, with its operation ended or bereaved.
LEMMA LoopEnds ==
    ASSUME IInv, TypeOK', NEW c \in loops, loops' = loops \ {c},
           EndedRow(c.key, c.accepted), ~c.owns => op' = op,
           c.owns => (op'[c.key].state = "submitted" => op'[c.key].lost),
           UNCHANGED <<task, posts, success>>
    PROVE  IInv'
<1>1. CASE ~c.owns
  BY <1>1, QuietSame, Quiet DEF QuietLoops
<1>2. CASE c.owns
  <2>1. c.key \in Keys /\ c.accepted \in BOOLEAN /\ (c.accepted => c.key \in success)
    BY <1>2 DEF IInv, TypeOK, LoopsKnow
  <2>2. RowsAreOrderly' /\ \A j \in Keys : Spent(op[j]) => Spent(op'[j])
    BY <2>1, EndedRows
  <2>3. \A u \in Tasks : Key(u) \in Keys /\ (Holds(u) => Key(u) # c.key)
    BY <1>2, HeldCompletion DEF IInv, LoopsKnow
  <2>4. HoldersKnow'
    BY <2>3 DEF IInv, HoldersKnow, EndedRow, Holds, Key
  <2>5. \A d \in loops : d.key \in Keys
    BY DEF IInv, TypeOK
  <2>6. LoopsKnow'
    BY <2>2, <2>5 DEF IInv, LoopsKnow, Holds, Key
  <2>7. SubmittedIsHeld'
    <3> SUFFICES ASSUME NEW k \in Keys, op'[k].state = "submitted", ~op'[k].lost
                 PROVE  \/ \E d \in loops' : d.key = k /\ d.owns
                        \/ \E u \in Tasks : Key(u)' = k /\ Holds(u)'
      BY DEF SubmittedIsHeld
    <3>1. k # c.key
      BY <1>2
    <3>2. op[k].state = "submitted" /\ ~op[k].lost
      BY <3>1 DEF EndedRow
    <3>3. \/ \E d \in loops : d.key = k /\ d.owns
          \/ \E u \in Tasks : Key(u) = k /\ Holds(u)
      BY <3>2 DEF IInv, SubmittedIsHeld
    <3> QED
      BY <3>1, <3>3 DEF Key, Holds
  <2> QED
    BY <2>2, <2>4, <2>6, <2>7 DEF IInv
<1> QED
  BY <1>1, <1>2

\* The owner posts to the supplier and hears the answer.
LEMMA IDispatch ==
    ASSUME IInv, TypeOK', NEW t \in Tasks, Dispatch(t) \/ Answered(t)
    PROVE  IInv'
<1>t. TypeOK /\ task \in [Tasks -> TaskRows] /\ \A u \in Tasks : Key(u) \in Keys
  BY TypeRows, HeldCompletion DEF IInv
<1>o. posts \in [Keys -> Nat]
  BY <1>t DEF TypeOK
<1>h. /\ Holds(t) /\ op[Key(t)].state = "submitted"
      /\ \A u \in Tasks \ {t} : Holds(u) => Key(u) # Key(t)
      /\ ~task[t].accepted
  BY DEF Dispatch, Answered, IInv, HoldersKnow, Holds
<1>1. CASE Dispatch(t)
  <2>1. UNCHANGED <<op, loops, success>>
    BY <1>1 DEF Dispatch
  <2>2. PICK pc \in {"waiting", "finish"} : Go(t, pc)
    BY <1>1 DEF Dispatch
  <2>3. /\ \A u \in Tasks \ {t} : task'[u] = task[u]
        /\ task'[t].pc = pc /\ task'[t].key = task[t].key
        /\ task'[t].accepted = task[t].accepted
    BY <2>2, <1>t, GoFacts
  <2>4. posts[Key(t)] = 0
    BY <1>1 DEF Dispatch, IInv, HoldersKnow
  <2>5. posts'[Key(t)] \in {0, 1} /\ \A k \in Keys \ {Key(t)} : posts'[k] = posts[k]
    BY <1>1, <1>t, <1>o, <2>4 DEF Dispatch
  <2>6. RowsAreOrderly'
    BY <2>1, <2>5, <1>h, <1>t DEF IInv, RowsAreOrderly, Spent, Open
  <2>7. HoldersKnow'
    BY <2>1, <2>3, <2>5, <1>h, <1>t DEF IInv, HoldersKnow, Holds, Key
  <2>8. LoopsKnow' /\ SubmittedIsHeld'
    BY <2>1, <2>3, <1>h DEF IInv, LoopsKnow, SubmittedIsHeld, Holds, Key, Spent
  <2> QED
    BY <2>6, <2>7, <2>8 DEF IInv
<1>2. CASE Answered(t)
  <2>1. UNCHANGED <<op, loops, posts>>
    BY <1>2 DEF Answered
  <2>2. PICK accepted \in BOOLEAN :
          /\ task' = [task EXCEPT ![t].pc = "finish", ![t].accepted = accepted]
          /\ success' = IF accepted THEN success \cup {Key(t)} ELSE success
    BY <1>2 DEF Answered
  <2>3. /\ \A u \in Tasks \ {t} : task'[u] = task[u]
        /\ task'[t].pc = "finish" /\ task'[t].key = task[t].key
        /\ task'[t].accepted = accepted
    BY <2>2, <1>t DEF TaskRows
  <2>4. success \subseteq success' /\ (accepted => Key(t) \in success')
    BY <2>2
  <2>5. RowsAreOrderly'
    BY <2>1, <2>4 DEF IInv, RowsAreOrderly, Spent, Open
  <2>6. HoldersKnow'
    BY <2>1, <2>3, <2>4, <1>h, <1>t DEF IInv, HoldersKnow, Holds, Key
  <2>7. LoopsKnow' /\ SubmittedIsHeld'
    BY <2>1, <2>3, <2>4, <1>h DEF IInv, LoopsKnow, SubmittedIsHeld, Holds, Key, Spent
  <2> QED
    BY <2>5, <2>6, <2>7 DEF IInv
<1> QED
  BY <1>1, <1>2

\* The owner times out, finishes or gives up.
LEMMA IEnds ==
    ASSUME IInv, TypeOK', NEW t \in Tasks, TickTimeout(t) \/ Finish(t) \/ GiveUp(t)
    PROVE  IInv'
<1>c. /\ Completion(t) \in Completions
      /\ Completion(t).key = Key(t) /\ Completion(t).accepted = task[t].accepted
      /\ Completion(t).owns <=> Holds(t)
  BY HeldCompletion
<1>t. TypeOK
  BY DEF IInv
<1>1. CASE TickTimeout(t)
  <2>1. Holds(t) /\ Done(t) /\ loops' = loops \cup {Completion(t)} /\ op' = op
        /\ UNCHANGED <<posts, success>>
    BY <1>1 DEF TickTimeout, Drop, Holds
  <2>2. EndedRow(Key(t), task[t].accepted)
    BY <2>1, <1>c, <1>t, FinishedRows
  <2> QED
    BY <2>1, <2>2, <1>t, DoneFacts, HolderEnds
<1>2. CASE Finish(t)
  <2>1. /\ Holds(t) /\ Done(t) /\ UNCHANGED <<posts, success>>
        /\ \/ op' = Finished(Completion(t)) /\ loops' = loops
           \/ op' \in {op, Finished(Completion(t))} /\ loops' = loops \cup {Completion(t)}
    BY <1>2 DEF Finish, Drop, Holds
  <2>2. EndedRow(Key(t), task[t].accepted)
    BY <2>1, <1>c, <1>t, FinishedRows
  <2>3. op' = Finished(Completion(t)) => op'[Key(t)].state # "submitted"
    BY <2>1, <1>c, <1>t, FinishedRows
  <2> QED
    BY <2>1, <2>2, <2>3, <1>t, DoneFacts, HolderEnds
<1>3. CASE GiveUp(t)
  <2>1. ~Holds(t) /\ Done(t) /\ UNCHANGED <<op, loops, posts, success>>
    BY <1>3 DEF GiveUp, Holds
  <2> QED
    BY <2>1, <1>t, QuietDone, QuietSame, Quiet
<1> QED
  BY <1>1, <1>2, <1>3

\* Retry loops, observations and operators keep the invariant.
LEMMA IRest ==
    ASSUME IInv, TypeOK',
           \/ \E c \in loops : RetryLoop(c)
           \/ \E k \in Keys : \/ PrepareLapses(k)
                              \/ settle_accepted_quota_reset_from_observation(k)
                              \/ reconcile_quota_reset(k) \/ release_unknown_quota_reset(k)
           \/ current_quota_reset_operation \/ Death \/ LeaseExpires \/ EditAccount
    PROVE  IInv'
<1>t. /\ TypeOK /\ op \in [Keys -> OpRows] /\ task \in [Tasks -> TaskRows]
      /\ loops \subseteq Completions
  BY TypeRows DEF IInv
<1>1. CASE \E c \in loops : RetryLoop(c)
  <2> PICK c \in loops : RetryLoop(c)
    BY <1>1
  <2>1. op' = Finished(c) /\ loops' = loops \ {c} /\ UNCHANGED <<task, posts, success>>
    BY DEF RetryLoop
  <2> QED
    BY <2>1, <1>t, FinishedRows, LoopEnds
<1>2. CASE \E k \in Keys : \/ PrepareLapses(k)
                           \/ settle_accepted_quota_reset_from_observation(k)
                           \/ reconcile_quota_reset(k) \/ release_unknown_quota_reset(k)
  <2>1. PICK k \in Keys : \/ op' = [op EXCEPT ![k].over = TRUE]
                          \/ /\ op' = [op EXCEPT ![k].settled = TRUE]
                             /\ op[k].state \in {"accepted", "unknown"}
    BY <1>2 DEF PrepareLapses, settle_accepted_quota_reset_from_observation,
                reconcile_quota_reset, release_unknown_quota_reset, Settled, Decreased
  <2>2. UNCHANGED <<task, loops, posts, success>>
    BY <1>2 DEF PrepareLapses, settle_accepted_quota_reset_from_observation,
                reconcile_quota_reset, release_unknown_quota_reset
  <2>3. \A j \in Keys : /\ op'[j].state = op[j].state /\ op'[j].lost = op[j].lost
                        /\ \/ op'[j].settled = op[j].settled
                           \/ op'[j].settled /\ op[j].state \in {"accepted", "unknown"}
    BY <2>1, <1>t DEF OpRows
  <2>4. QuietRows
    BY <2>3 DEF QuietRows, IInv, RowsAreOrderly, Open, Spent
  <2> QED
    BY <2>2, <2>4, QuietSame, Quiet
<1>3. CASE current_quota_reset_operation
  <2>1. /\ op' \in [Keys -> OpRows] /\ UNCHANGED <<task, loops, posts, success>>
        /\ \A k \in Keys : op'[k] = Expired(op[k])
    BY <1>3, <1>t, ExpiredType DEF current_quota_reset_operation
  <2> QED
    BY <2>1, QuietExpiry, QuietSame, Quiet
<1>4. CASE Death
  <2>1. CASE \E t \in Tasks : /\ task[t].pc # "idle" /\ task' = [task EXCEPT ![t] = Idle]
                              /\ op' = Bereaved(Completion(t)) /\ UNCHANGED loops
    <3> PICK t \in Tasks : /\ task[t].pc # "idle" /\ task' = [task EXCEPT ![t] = Idle]
                           /\ op' = Bereaved(Completion(t)) /\ UNCHANGED loops
      BY <2>1
    <3>1. /\ \A u \in Tasks \ {t} : task'[u] = task[u]
          /\ task'[t].pc = "idle" /\ ~task'[t].accepted
      BY <1>t DEF Idle
    <3>2. UNCHANGED <<posts, success>>
      BY <1>4 DEF Death
    <3>3. /\ Completion(t) \in Completions
          /\ Completion(t).key = Key(t) /\ Completion(t).accepted = task[t].accepted
          /\ Completion(t).owns <=> Holds(t)
      BY HeldCompletion
    <3>4. CASE Holds(t)
      <4>1. /\ EndedRow(Key(t), task[t].accepted)
            /\ op'[Key(t)].state = "submitted" => op'[Key(t)].lost
        BY <3>3, <3>4, <1>t, FinishedRows
      <4> QED
        BY <3>1, <3>2, <3>4, <4>1, HolderEnds
    <3>5. CASE ~Holds(t)
      <4>1. op' = op
        BY <3>3, <3>5, <1>t, FinishedRows
      <4>2. QuietTasks
        BY <3>1, <3>5 DEF QuietTasks, QuietTask, Holds
      <4> QED
        BY <3>2, <4>1, <4>2, QuietSame, Quiet
    <3> QED
      BY <3>4, <3>5
  <2>2. CASE \E c \in loops : loops' = loops \ {c} /\ op' = Bereaved(c) /\ UNCHANGED task
    BY <2>2, <1>4, <1>t, FinishedRows, LoopEnds DEF Death
  <2> QED
    BY <1>4, <2>1, <2>2 DEF Death
<1>5. CASE LeaseExpires
  BY <1>5, QuietSame, Quiet DEF LeaseExpires
<1>6. CASE EditAccount
  <2>1. \A k \in Keys : /\ op'[k].state = op[k].state /\ op'[k].lost = op[k].lost
                        /\ op'[k].settled = op[k].settled
    BY <1>6, <1>t DEF EditAccount, OpRows
  <2>2. QuietRows
    BY <2>1 DEF QuietRows, IInv, RowsAreOrderly, Open, Spent
  <2>3. \A t \in Tasks : IF task[t].pc = "idle" THEN task'[t] = Idle
                         ELSE /\ task'[t].pc = task[t].pc /\ task'[t].key = task[t].key
                              /\ task'[t].accepted = task[t].accepted
    BY <1>6, <1>t DEF EditAccount, TaskRows
  <2>4. QuietTasks
    <3>1. Idle.pc = "idle" /\ ~Idle.accepted
      BY DEF Idle
    <3>2. ASSUME NEW t \in Tasks PROVE QuietTask(t)
      <4>1. CASE task[t].pc = "idle"
        BY <4>1, <3>1, <2>3 DEF QuietTask, Holds
      <4>2. CASE task[t].pc # "idle"
        BY <4>2, <2>3 DEF QuietTask
      <4> QED
        BY <4>1, <4>2
    <3> QED
      BY <3>2 DEF QuietTasks
  <2>5. UNCHANGED <<loops, posts, success>>
    BY <1>6 DEF EditAccount
  <2> QED
    BY <2>2, <2>4, <2>5, QuietSame, Quiet
<1> QED
  BY <1>1, <1>2, <1>3, <1>4, <1>5, <1>6

-----------------------------------------------------------------------------
(* The theorems.                                                           *)

\* Every step keeps the invariant.
LEMMA INext == IInv /\ [Next]_vars => IInv'
<1> SUFFICES ASSUME IInv, [Next]_vars PROVE IInv'
  OBVIOUS
<1>t. TypeOK'
  BY TypeNext DEF IInv
<1>1. CASE UNCHANGED vars
  BY <1>1, <1>t, QuietSame, Quiet DEF vars
<1>2. CASE Next
  BY <1>2, <1>t, IPrepares, IConfirm, IClaimOwned, IDispatch, IEnds, IRest DEF Next, Step, Tasks
<1> QED
  BY <1>1, <1>2

\* The invariant always holds.
LEMMA Invariance == Spec => []IInv
BY IInit, INext, PTL DEF Spec

\* No operation is ever posted twice, a posted one stays claimed, and it is
\* accepted only if the supplier answered so (dispatch_once,
\* claim_quota_reset_owned and finish_quota_reset_owned).
THEOREM PostedOnce == Spec => []DispatchedOnce
<1>1. IInv => DispatchedOnce
  <2> SUFFICES ASSUME IInv PROVE DispatchedOnce
    OBVIOUS
  <2>1. \A k \in Keys : posts[k] \in Nat
    BY DEF IInv, TypeOK
  <2> QED
    BY <2>1 DEF IInv, DispatchedOnce, RowsAreOrderly, Spent
<1> QED
  BY <1>1, Invariance, PTL

\* While a task sends or waits for the supplier, its operation is submitted
\* and the only open one of the account (confirm_guarded and the unique index
\* one_active).
THEOREM SlotIsHeld == Spec => []DispatcherHoldsTheSlot
<1>1. IInv => DispatcherHoldsTheSlot
  <2> SUFFICES ASSUME IInv, NEW t \in Tasks, task[t].pc \in {"send", "waiting"}
               PROVE  /\ op[Key(t)].state = "submitted" /\ ~op[Key(t)].settled
                      /\ \A k \in Keys \ {Key(t)} : ~Open(op[k])
    BY DEF DispatcherHoldsTheSlot
  <2>1. Key(t) \in Keys
    BY HeldCompletion
  <2> QED
    BY <2>1 DEF IInv, HoldersKnow, RowsAreOrderly, Holds, Open
<1> QED
  BY <1>1, Invariance, PTL

\* A submitted operation is owned by a task or by a retried completion, unless
\* the owner's process died or a replay claimed it (DispatchCompletion).
THEOREM SubmittedIsOwned == Spec => []SubmittedHasOwner
<1>1. IInv => SubmittedHasOwner
  BY OwnersAreHolders DEF IInv
<1> QED
  BY <1>1, Invariance, PTL
=============================================================================
