----------------------------- MODULE JobsProofs -----------------------------
(* Theorems about the job queue of module Jobs, for every set of jobs and    *)
(* workers and every value of the limits.                                   *)
EXTENDS Jobs, TLAPS

\* The initial rows, attempts and claims are typed.
LEMMA InitTypeOK == Init => TypeOK
BY BoundsAssumption
DEF Init, TypeOK, NewRow, NoClaim, Row, ClaimRecord, Status, Lease,
    AttemptStatus, ClaimStep, Fence

\* The backoff of a retry is a duration.
LEMMA RetryDelayType == ASSUME NEW n \in Nat PROVE RetryDelay(n) \in Int
<1>1. 2^n \in Int
  BY SMT
<1> QED BY <1>1, DurationAssumption DEF RetryDelay

\* A worker that is through with a claim leaves a typed claim behind.
LEMMA DoneType ==
  ASSUME TypeOK, NEW j \in Job, NEW f \in Fence, Done(j, f)
  PROVE  claim' \in [Job -> [Fence -> ClaimRecord]]
<1>1. [NoClaim EXCEPT !.sent = claim[j][f].sent] \in ClaimRecord
  BY DEF TypeOK, NoClaim, ClaimRecord, ClaimStep
<1> QED BY <1>1 DEF TypeOK, Done

\* A terminal transaction writes a typed row and a typed attempt.
LEMMA SettleType ==
  ASSUME TypeOK, NEW j \in Job, NEW f \in Fence, NEW row \in Row,
         NEW outcome \in AttemptStatus, Settle(j, f, row, outcome)
  PROVE  /\ job' \in [Job -> Row]
         /\ attempt' \in [Job -> [Fence -> AttemptStatus]]
<1>1. CASE Fenced(j, f) /\ attempt[j][f] = "running"
  <2>1. job' = [job EXCEPT ![j] = row] /\ attempt' = [attempt EXCEPT ![j][f] = outcome]
    BY <1>1 DEF Settle
  <2> QED BY <2>1 DEF TypeOK
<1>2. CASE ~(Fenced(j, f) /\ attempt[j][f] = "running")
  <2>1. UNCHANGED <<job, attempt>>
    BY <1>2 DEF Settle
  <2> QED BY <2>1 DEF TypeOK
<1> QED BY <1>1, <1>2

\* A grant writes a typed row and typed attempts.
LEMMA GrantRowsType ==
  ASSUME TypeOK, NEW w \in Worker, NEW j \in Job, job[j].fence < MaxFence,
         GrantRows(w, j)
  PROVE  /\ job' \in [Job -> Row]
         /\ attempt' \in [Job -> [Fence -> AttemptStatus]]
<1>1. job[j] \in Row
  BY DEF TypeOK
<1>2. Granted(w, j) \in Row
  <2>1. job[j].fence + 1 \in 0..MaxFence
    BY <1>1, BoundsAssumption DEF Row
  <2>2. LeaseTTL \in Lease
    BY DurationAssumption DEF Lease
  <2> QED BY <1>1, <2>1, <2>2 DEF Granted, Row, Status
<1>3. [f \in Fence |-> IF f = job[j].fence + 1 THEN "running"
                       ELSE IF attempt[j][f] = "running" THEN "unknown"
                       ELSE attempt[j][f]] \in [Fence -> AttemptStatus]
  BY DEF TypeOK, AttemptStatus
<1> QED BY <1>2, <1>3 DEF TypeOK, GrantRows

\* The steps of the submitter keep the types.
LEMMA SubmitterType ==
  ASSUME TypeOK, NEW j \in Job, Submitter(j)
  PROVE  TypeOK'
<1>1. job[j] \in Row
  BY DEF TypeOK
<1>2. CASE Enqueue(j)
  <2>1. [job[j] EXCEPT !.status = "queued"] \in Row
    BY <1>1 DEF Row, Status
  <2> QED BY <1>2, <2>1 DEF TypeOK, Enqueue
<1>3. CASE Cancel(j)
  <2>1. [job[j] EXCEPT !.cancel = TRUE,
                       !.status = IF @ = "queued" THEN "cancelled" ELSE @] \in Row
    BY <1>1 DEF Row, Status
  <2> QED BY <1>3, <2>1 DEF TypeOK, Cancel
<1>4. CASE Delete(j)
  <2>1. [job[j] EXCEPT !.status = "deleted"] \in Row
    BY <1>1 DEF Row, Status
  <2> QED BY <1>4, <2>1 DEF TypeOK, Delete
<1> QED BY <1>2, <1>3, <1>4 DEF Submitter

\* The steps of the Run loop and of the processes keep the types.
LEMMA LoopType ==
  ASSUME TypeOK, NEW w \in Worker, Loop(w)
  PROVE  TypeOK'
<1>1. CASE Sweep(w)
  <2> DEFINE lost == {j \in Job : Expired(j) /\ OpenDispatch(j)}
  <2>1. ASSUME NEW j \in Job PROVE Swept(j) \in Row
    <3>1. job[j] \in Row
      BY DEF TypeOK
    <3>2. None \in Lease
      BY DEF Lease
    <3> QED BY <3>1, <3>2 DEF Swept, Row, Status
  <2>2. job' \in [Job -> Row]
    BY <1>1, <2>1 DEF TypeOK, Sweep
  <2>3. ASSUME NEW j \in Job
        PROVE  [attempt[j] EXCEPT ![job[j].dispatched] = "unknown"]
                 \in [Fence -> AttemptStatus]
    BY DEF TypeOK, AttemptStatus
  <2>4. attempt' \in [Job -> [Fence -> AttemptStatus]]
    BY <1>1, <2>3 DEF TypeOK, Sweep
  <2> QED BY <1>1, <2>2, <2>4 DEF TypeOK, Sweep
<1>2. CASE \E j \in Job : Grant(w, j)
  <2>1. PICK j \in Job : Grant(w, j)
    BY <1>2
  <2>2. job[j].fence + 1 \in Fence
    BY <2>1, BoundsAssumption DEF TypeOK, Row, Grant, Fence
  <2>3. [NoClaim EXCEPT !.pc = "waiting", !.by = w] \in ClaimRecord
    BY DEF NoClaim, ClaimRecord, ClaimStep
  <2> QED BY <2>1, <2>2, <2>3, GrantRowsType DEF TypeOK, Grant
<1>3. CASE \E j \in Job : GrantLost(w, j)
  BY <1>3, GrantRowsType, BoundsAssumption DEF TypeOK, GrantLost, Fault
<1>4. CASE NothingRunnable(w)
  BY <1>4 DEF TypeOK, NothingRunnable
<1>5. CASE Drain(w)
  <2>1. ASSUME NEW j \in Job, NEW f \in Fence
        PROVE  [claim[j][f] EXCEPT !.cancelled = TRUE] \in ClaimRecord
    <3>1. claim[j][f] \in ClaimRecord
      BY DEF TypeOK
    <3> QED BY <3>1 DEF ClaimRecord
  <2>2. claim' \in [Job -> [Fence -> ClaimRecord]]
    BY <1>5, <2>1 DEF TypeOK, Drain
  <2> QED BY <1>5, <2>2, BoundsAssumption DEF TypeOK, Drain, Fault
<1>6. CASE Restart(w)
  BY <1>6 DEF TypeOK, Restart
<1>7. CASE Crash(w)
  <2>1. ASSUME NEW j \in Job, NEW f \in Fence
        PROVE  [NoClaim EXCEPT !.sent = claim[j][f].sent] \in ClaimRecord
    BY DEF TypeOK, NoClaim, ClaimRecord, ClaimStep
  <2>2. claim' \in [Job -> [Fence -> ClaimRecord]]
    BY <1>7, <2>1 DEF TypeOK, Crash
  <2> QED BY <1>7, <2>2, BoundsAssumption DEF TypeOK, Crash, Fault
<1> QED BY <1>1, <1>2, <1>3, <1>4, <1>5, <1>6, <1>7 DEF Loop

\* The steps of a claim's execution keep the types.
LEMMA ExecutionType ==
  ASSUME TypeOK, NEW j \in Job, NEW f \in Fence, Execution(j, f)
  PROVE  TypeOK'
<1>1. /\ job[j] \in Row
      /\ claim[j][f] \in ClaimRecord
  BY DEF TypeOK
<1>2. /\ f \in Nat
      /\ f \in 0..MaxFence
  BY BoundsAssumption DEF Fence
<1>3. Unleased(j) \in Row
  <2>1. None \in Lease
    BY DEF Lease
  <2> QED BY <1>1, <2>1 DEF Unleased, Row
<1>4. [claim[j][f] EXCEPT !.cancelled = TRUE] \in ClaimRecord
  BY <1>1 DEF ClaimRecord
<1>5. CASE StartHandler(j, f)
  <2>1. ASSUME NEW b \in BOOLEAN
        PROVE  [claim[j][f] EXCEPT !.pc = "handling", !.cancelled = b] \in ClaimRecord
    BY <1>1 DEF ClaimRecord, ClaimStep
  <2>2. (runner[claim[j][f].by] = "draining") \in BOOLEAN
    OBVIOUS
  <2>3. claim' = [claim EXCEPT ![j][f] =
          [claim[j][f] EXCEPT !.pc = "handling",
                              !.cancelled = (runner[claim[j][f].by] = "draining")]]
    BY <1>5 DEF TypeOK, StartHandler
  <2>4. claim' \in [Job -> [Fence -> ClaimRecord]]
    BY <2>1, <2>2, <2>3 DEF TypeOK
  <2> QED BY <1>5, <2>4 DEF TypeOK, StartHandler
<1>6. CASE Heartbeat(j, f)
  <2>1. [job[j] EXCEPT !.lease = LeaseTTL] \in Row
    BY <1>1, DurationAssumption DEF Row, Lease
  <2>2. CASE Fenced(j, f)
    <3>1. /\ job' = [job EXCEPT ![j] = [job[j] EXCEPT !.lease = LeaseTTL]]
          /\ UNCHANGED <<attempt, claim, runner, faults>>
      BY <1>6, <2>2 DEF Heartbeat
    <3> QED BY <2>1, <3>1 DEF TypeOK
  <2>3. CASE ~Fenced(j, f)
    <3>1. /\ claim' = [claim EXCEPT ![j][f] =
                       [claim[j][f] EXCEPT !.cancelled = TRUE]]
          /\ UNCHANGED <<job, attempt, runner, faults>>
      BY <1>6, <2>3 DEF Heartbeat, TypeOK
    <3> QED BY <1>4, <3>1 DEF TypeOK
  <2> QED BY <2>2, <2>3
<1>7. CASE WatchCancel(j, f)
  BY <1>4, <1>7 DEF TypeOK, WatchCancel
<1>8. CASE WatchError(j, f)
  BY <1>4, <1>8, BoundsAssumption DEF TypeOK, WatchError, Fault
<1>9. CASE Progress(j, f)
  <2>1. [job[j] EXCEPT !.progress = f] \in Row
    BY <1>1, <1>2 DEF Row
  <2> QED BY <1>9, <2>1 DEF TypeOK, Progress
<1>10. [job[j] EXCEPT !.dispatched = f] \in Row
  BY <1>1 DEF Row
<1>11. CASE MarkDispatched(j, f)
  <2>1. [claim[j][f] EXCEPT !.dispatched = TRUE] \in ClaimRecord
    BY <1>1 DEF ClaimRecord
  <2> QED BY <1>10, <1>11, <2>1 DEF TypeOK, MarkDispatched
<1>12. CASE MarkDispatchedLost(j, f)
  BY <1>10, <1>12, BoundsAssumption DEF TypeOK, MarkDispatchedLost, Fault
<1>13. CASE Send(j, f)
  <2>1. [claim[j][f] EXCEPT !.sent = TRUE] \in ClaimRecord
    BY <1>1 DEF ClaimRecord
  <2> QED BY <1>13, <2>1 DEF TypeOK, Send
<1>14. ASSUME Translate(j, f)
       PROVE  claim' \in [Job -> [Fence -> ClaimRecord]]
  <2>1. ASSUME NEW p \in ClaimStep
        PROVE  [claim[j][f] EXCEPT !.pc = p] \in ClaimRecord
    BY <1>1 DEF ClaimRecord
  <2>2. {"flip", "abandon", "release"} \subseteq ClaimStep
    BY DEF ClaimStep
  <2> QED BY <1>14, <2>1, <2>2 DEF TypeOK, Translate
<1>15. CASE ContextDone(j, f)
  BY <1>14, <1>15 DEF TypeOK, ContextDone
<1>16. CASE HandlerTimeout(j, f) \/ ProbeFails(j, f)
  <2>1. CASE HandlerTimeout(j, f)
    BY <1>14, <2>1, BoundsAssumption DEF TypeOK, HandlerTimeout, Fault
  <2>2. CASE ProbeFails(j, f)
    <3>1. ASSUME NEW p \in {"abandon", "release"}
          PROVE  [claim[j][f] EXCEPT !.pc = p] \in ClaimRecord
      BY <1>1 DEF ClaimRecord, ClaimStep
    <3>2. claim' \in [Job -> [Fence -> ClaimRecord]]
      BY <2>2, <3>1 DEF TypeOK, ProbeFails
    <3> QED BY <2>2, <3>2, BoundsAssumption DEF TypeOK, ProbeFails, Fault
  <2> QED BY <1>16, <2>1, <2>2
<1>17. CASE Complete(j, f)
  <2>1. [Unleased(j) EXCEPT
           !.status = IF job[j].cancel THEN "cancelled" ELSE "succeeded",
           !.dispatched = None, !.result = f] \in Row
    BY <1>2, <1>3 DEF Row, Status
  <2>2. "succeeded" \in AttemptStatus
    BY DEF AttemptStatus
  <2> QED BY <1>17, <2>1, <2>2, SettleType, DoneType DEF TypeOK, Complete
<1>18. ASSUME NEW class \in {"retryable", "fatal"}, Fail(j, f, class)
       PROVE  TypeOK'
  <2>1. [Unleased(j) EXCEPT
           !.status = IF Retries(f, class) THEN "queued" ELSE "failed",
           !.lease = IF Retries(f, class) THEN RetryDelay(f) ELSE None,
           !.dispatched = None, !.error = class] \in Row
    <3>1. (IF Retries(f, class) THEN RetryDelay(f) ELSE None) \in Lease
      BY <1>2, RetryDelayType DEF Lease
    <3> QED BY <1>3, <3>1 DEF Row, Status
  <2>2. "failed" \in AttemptStatus
    BY DEF AttemptStatus
  <2> QED BY <1>18, <2>1, <2>2, SettleType, DoneType DEF TypeOK, Fail
<1>19. CASE MarkUnknown(j, f)
  <2>1. [Unleased(j) EXCEPT !.status = "unknown", !.error = "unobserved"] \in Row
    BY <1>3 DEF Row, Status
  <2>2. "unknown" \in AttemptStatus
    BY DEF AttemptStatus
  <2> QED BY <1>19, <2>1, <2>2, SettleType, DoneType DEF TypeOK, MarkUnknown
<1>20. CASE Release(j, f)
  <2>1. [Unleased(j) EXCEPT !.status = "queued", !.dispatched = None] \in Row
    BY <1>3 DEF Row, Status
  <2>2. job' \in [Job -> Row]
    BY <1>20, <2>1 DEF TypeOK, Release
  <2>3. attempt' \in [Job -> [Fence -> AttemptStatus]]
    <3>1. ASSUME NEW s \in AttemptStatus
          PROVE  (IF s = "running" THEN "unknown" ELSE s) \in AttemptStatus
      BY DEF AttemptStatus
    <3>2. CASE Fenced(j, f)
      <4>1. attempt' = [attempt EXCEPT ![j][f] =
              IF @ = "running" THEN "unknown" ELSE @]
        BY <1>20, <3>2 DEF Release
      <4> QED BY <3>1, <4>1 DEF TypeOK
    <3>3. CASE ~Fenced(j, f)
      BY <1>20, <3>3 DEF TypeOK, Release
    <3> QED BY <3>2, <3>3
  <2> QED BY <1>20, <2>2, <2>3, DoneType DEF TypeOK, Release
<1>21. CASE LoseClaim(j, f)
  BY <1>21, DoneType, BoundsAssumption DEF TypeOK, LoseClaim, Fault
<1> QED BY <1>5, <1>6, <1>7, <1>8, <1>9, <1>11, <1>12, <1>13, <1>15, <1>16,
           <1>17, <1>18, <1>19, <1>20, <1>21 DEF Execution, Settles

\* Time keeps the types.
LEMMA ElapseType == ASSUME TypeOK, Elapse PROVE job' \in [Job -> Row]
<1>1. ASSUME NEW j \in Job PROVE [job[j] EXCEPT !.lease = Later(@)] \in Row
  <2>1. job[j] \in Row
    BY DEF TypeOK
  <2>2. Later(job[j].lease) \in Lease
    BY <2>1 DEF Row, Later, Lease
  <2> QED BY <2>1, <2>2 DEF Row
<1> QED BY <1>1 DEF Elapse

\* Rows, attempts and claims are typed in every reachable state: every statement
\* of jobs_repo.go and every worker step writes what the tables can hold.
THEOREM TypeCorrect == Spec => []TypeOK
<1>1. TypeOK /\ [Next]_vars => TypeOK'
  <2> SUFFICES ASSUME TypeOK, [Next]_vars PROVE TypeOK'
    OBVIOUS
  <2>1. CASE \E j \in Job : Submitter(j)
    BY <2>1, SubmitterType
  <2>2. CASE \E w \in Worker : Loop(w)
    BY <2>2, LoopType
  <2>3. CASE \E j \in Job, f \in Fence : Execution(j, f)
    BY <2>3, ExecutionType
  <2>4. CASE Tick
    BY <2>4, ElapseType DEF Tick, TypeOK
  <2>5. CASE TickLate
    BY <2>5, ElapseType, BoundsAssumption DEF TickLate, TypeOK, Fault
  <2>6. CASE UNCHANGED vars
    BY <2>6 DEF vars, TypeOK
  <2> QED BY <2>1, <2>2, <2>3, <2>4, <2>5, <2>6 DEF Next
<1> QED BY <1>1, InitTypeOK, PTL DEF Spec

-----------------------------------------------------------------------------
(* The ledger of attempts. *)

\* A step that leaves a job's status, fence, owner, dispatch and attempts alone
\* leaves its ledger in order.
LEMMA LedgerFrame ==
  ASSUME NEW j \in Job, LedgerOf(j), attempt'[j] = attempt[j],
         job'[j].status = job[j].status, job'[j].fence = job[j].fence,
         job'[j].owner = job[j].owner, job'[j].dispatched = job[j].dispatched
  PROVE  LedgerOf(j)'
BY DEF LedgerOf

\* The first lease of an empty table is in order: no attempts, no fences.
LEMMA InitLedger == Init => AttemptLedger
BY BoundsAssumption DEF Init, AttemptLedger, LedgerOf, NewRow, Fence

\* A submitter's step keeps every ledger in order.
LEMMA SubmitterLedger ==
  ASSUME TypeOK, AttemptLedger, NEW j \in Job, Submitter(j), NEW k \in Job
  PROVE  LedgerOf(k)'
<1>1. attempt' = attempt
  BY DEF Submitter, Enqueue, Cancel, Delete
<1>2. /\ job'[k].fence = job[k].fence
      /\ job'[k].owner = job[k].owner
      /\ job'[k].dispatched = job[k].dispatched
      /\ \/ job'[k].status = job[k].status
         \/ /\ job[k].status \in {"absent", "queued"}
            /\ job'[k].status \notin {"running", "absent"}
         \/ job'[k].status = "deleted"
  <2>1. job[k] \in Row
    BY DEF TypeOK
  <2>2. CASE Enqueue(j)
    BY <2>1, <2>2 DEF TypeOK, Row, Enqueue
  <2>3. CASE Cancel(j)
    <3>1. CASE k = j
      BY <2>1, <2>3, <3>1 DEF TypeOK, Row, Cancel
    <3>2. CASE k # j
      BY <2>3, <3>2 DEF TypeOK, Cancel
    <3> QED BY <3>1, <3>2
  <2>4. CASE Delete(j)
    BY <2>1, <2>4 DEF TypeOK, Row, Delete
  <2> QED BY <2>2, <2>3, <2>4 DEF Submitter
<1> QED BY <1>1, <1>2 DEF AttemptLedger, LedgerOf

\* The rows and attempts of a grant are in order: older attempts are closed, the
\* new one is the only open one.
LEMMA GrantLedger ==
  ASSUME TypeOK, AttemptLedger, NEW w \in Worker, NEW j \in Job,
         job[j].fence < MaxFence, GrantRows(w, j), NEW k \in Job
  PROVE  LedgerOf(k)'
<1>1. CASE k # j
  <2>1. job'[k] = job[k] /\ attempt'[k] = attempt[k]
    BY <1>1 DEF TypeOK, GrantRows
  <2> QED BY <2>1, LedgerFrame DEF AttemptLedger
<1>2. CASE k = j
  <2>1. /\ job[j].fence \in Nat
        /\ job[j].fence + 1 \in Fence
        /\ w # None
    BY BoundsAssumption, NullAssumption DEF TypeOK, Row, Fence
  <2>2. /\ job'[j].status = "running"
        /\ job'[j].fence = job[j].fence + 1
        /\ job'[j].owner = w
        /\ job'[j].dispatched = None
    BY DEF TypeOK, Row, GrantRows, Granted
  <2>3. attempt'[j] = [f \in Fence |->
          IF f = job[j].fence + 1 THEN "running"
          ELSE IF attempt[j][f] = "running" THEN "unknown"
          ELSE attempt[j][f]]
    BY DEF TypeOK, GrantRows
  <2>4. ASSUME NEW f \in Fence
        PROVE  /\ attempt'[j][f] = "none" <=> f > job'[j].fence
               /\ attempt'[j][f] = "running" => f = job'[j].fence
    BY <2>1, <2>2, <2>3, BoundsAssumption DEF AttemptLedger, LedgerOf, Fence
  <2>5. attempt'[j][job'[j].fence] = "running"
    BY <2>1, <2>2, <2>3
  <2> QED BY <1>2, <2>1, <2>2, <2>4, <2>5 DEF LedgerOf
<1> QED BY <1>1, <1>2

\* A terminal transaction closes the attempt it settles.
LEMMA SettleLedger ==
  ASSUME TypeOK, AttemptLedger, NEW j \in Job, NEW f \in Fence,
         NEW row \in Row, row.status \notin {"running", "absent"}, row.fence = job[j].fence,
         NEW outcome \in AttemptStatus \ {"none", "running"},
         Settle(j, f, row, outcome), NEW k \in Job
  PROVE  LedgerOf(k)'
<1>1. CASE k # j \/ ~(Fenced(j, f) /\ attempt[j][f] = "running")
  <2>1. job'[k] = job[k] /\ attempt'[k] = attempt[k]
    BY <1>1 DEF TypeOK, Settle
  <2> QED BY <2>1, LedgerFrame DEF AttemptLedger
<1>2. CASE k = j /\ Fenced(j, f) /\ attempt[j][f] = "running"
  <2>1. job' = [job EXCEPT ![j] = row] /\ attempt' = [attempt EXCEPT ![j][f] = outcome]
    BY <1>2 DEF Settle
  <2>2. job'[j] = row /\ attempt'[j] = [attempt[j] EXCEPT ![f] = outcome]
    BY <2>1 DEF TypeOK
  <2>3. f = job[j].fence
    BY <1>2 DEF Fenced
  <2>4. ASSUME NEW g \in Fence
        PROVE  /\ attempt'[j][g] = "none" <=> g > row.fence
               /\ attempt'[j][g] # "running"
    BY <2>2, <2>3, <1>2 DEF TypeOK, AttemptLedger, LedgerOf
  <2> QED BY <1>2, <2>2, <2>4 DEF LedgerOf
<1> QED BY <1>1, <1>2

\* The sweep closes exactly the attempt that is open: a dispatch on the row of a
\* running job is its last lease's.
LEMMA SweepLedger ==
  ASSUME TypeOK, AttemptLedger, NEW w \in Worker, Sweep(w), NEW k \in Job
  PROVE  LedgerOf(k)'
<1>1. CASE ~(Expired(k) /\ OpenDispatch(k))
  <2>1. job'[k] = job[k] /\ attempt'[k] = attempt[k]
    BY <1>1 DEF Sweep
  <2> QED BY <2>1, LedgerFrame DEF AttemptLedger
<1>2. CASE Expired(k) /\ OpenDispatch(k)
  <2>1. /\ job'[k] = Swept(k)
        /\ attempt'[k] = [attempt[k] EXCEPT ![job[k].dispatched] = "unknown"]
    BY <1>2 DEF Sweep
  <2>2. /\ job'[k].status = "unknown"
        /\ job'[k].fence = job[k].fence
    BY <2>1 DEF TypeOK, Row, Swept
  <2>3. job[k].dispatched = job[k].fence /\ job[k].fence > 0
    BY <1>2 DEF AttemptLedger, LedgerOf, Expired, OpenDispatch
  <2>4. ASSUME NEW g \in Fence
        PROVE  /\ attempt'[k][g] = "none" <=> g > job[k].fence
               /\ attempt'[k][g] # "running"
    <3>1. attempt[k] \in [Fence -> AttemptStatus]
      BY DEF TypeOK
    <3>2. LedgerOf(k)
      BY DEF AttemptLedger
    <3>3. attempt'[k][g] = IF g = job[k].fence THEN "unknown" ELSE attempt[k][g]
      BY <2>1, <2>3, <3>1
    <3>4. job[k].fence \in Nat /\ g \in Nat
      BY BoundsAssumption DEF TypeOK, Row, Fence
    <3>5. CASE g = job[k].fence
      BY <3>3, <3>4, <3>5
    <3>6. CASE g # job[k].fence
      BY <3>2, <3>3, <3>6 DEF LedgerOf
    <3> QED BY <3>5, <3>6
  <2> QED BY <2>2, <2>4 DEF LedgerOf
<1> QED BY <1>1, <1>2

\* The Run loop and the processes keep every ledger in order.
LEMMA LoopLedger ==
  ASSUME TypeOK, AttemptLedger, NEW w \in Worker, Loop(w), NEW k \in Job
  PROVE  LedgerOf(k)'
<1>1. CASE Sweep(w)
  BY <1>1, SweepLedger
<1>2. CASE \E j \in Job : Grant(w, j) \/ GrantLost(w, j)
  BY <1>2, GrantLedger DEF Grant, GrantLost
<1>3. CASE NothingRunnable(w) \/ Drain(w) \/ Restart(w) \/ Crash(w)
  <2>1. UNCHANGED <<job, attempt>>
    BY <1>3 DEF NothingRunnable, Drain, Restart, Crash
  <2> QED BY <2>1, LedgerFrame DEF AttemptLedger
<1> QED BY <1>1, <1>2, <1>3 DEF Loop

\* The open attempt that Release does not ask for is there all the same, so it
\* writes what a terminal transaction would.
LEMMA ReleaseSettles ==
  ASSUME TypeOK, AttemptLedger, NEW j \in Job, NEW f \in Fence, Release(j, f)
  PROVE  Settle(j, f, [Unleased(j) EXCEPT !.status = "queued", !.dispatched = None],
                "unknown")
<1>1. CASE Fenced(j, f)
  <2>1. attempt[j][f] = "running"
    BY <1>1 DEF AttemptLedger, LedgerOf, Fenced
  <2> QED BY <1>1, <2>1 DEF Release, Settle, TypeOK
<1>2. CASE ~Fenced(j, f)
  BY <1>2 DEF Release, Settle
<1> QED BY <1>1, <1>2

\* Executing a claim keeps every ledger in order.
LEMMA ExecutionLedger ==
  ASSUME TypeOK, AttemptLedger, NEW j \in Job, NEW f \in Fence, Execution(j, f),
         NEW k \in Job
  PROVE  LedgerOf(k)'
<1>1. /\ job[j] \in Row
      /\ f \in 0..MaxFence
  BY BoundsAssumption DEF TypeOK, Fence
<1>2. Unleased(j) \in Row /\ Unleased(j).fence = job[j].fence
  <2>1. None \in Lease
    BY DEF Lease
  <2> QED BY <1>1, <2>1 DEF Unleased, Row
<1>3. CASE \/ StartHandler(j, f) \/ WatchCancel(j, f) \/ WatchError(j, f)
           \/ Send(j, f) \/ ContextDone(j, f) \/ HandlerTimeout(j, f)
           \/ ProbeFails(j, f) \/ LoseClaim(j, f)
  <2>1. UNCHANGED <<job, attempt>>
    BY <1>3 DEF StartHandler, WatchCancel, WatchError, Send, ContextDone,
                HandlerTimeout, ProbeFails, LoseClaim
  <2> QED BY <2>1, LedgerFrame DEF AttemptLedger
<1>4. CASE Heartbeat(j, f) \/ Progress(j, f)
  <2>1. /\ attempt' = attempt
        /\ job'[k].status = job[k].status
        /\ job'[k].fence = job[k].fence
        /\ job'[k].owner = job[k].owner
        /\ job'[k].dispatched = job[k].dispatched
    <3>1. job[k] \in Row
      BY DEF TypeOK
    <3>2. CASE Heartbeat(j, f)
      <4>1. /\ attempt' = attempt
            /\ job' = job \/ job' = [job EXCEPT ![j].lease = LeaseTTL]
        BY <3>2 DEF Heartbeat
      <4>2. CASE job' = [job EXCEPT ![j].lease = LeaseTTL]
        BY <3>1, <4>1, <4>2 DEF TypeOK, Row
      <4> QED BY <4>1, <4>2
    <3>3. CASE Progress(j, f)
      BY <3>1, <3>3 DEF TypeOK, Row, Progress
    <3> QED BY <1>4, <3>2, <3>3
  <2> QED BY <2>1, LedgerFrame DEF AttemptLedger
<1>5. CASE MarkDispatched(j, f) \/ MarkDispatchedLost(j, f)
  <2>1. /\ attempt' = attempt
        /\ job' = [job EXCEPT ![j].dispatched = f]
        /\ f = job[j].fence
    BY <1>5 DEF MarkDispatched, MarkDispatchedLost, Fenced
  <2>2. /\ job'[k].status = job[k].status
        /\ job'[k].fence = job[k].fence
        /\ job'[k].owner = job[k].owner
        /\ job'[k].dispatched \in {job[k].dispatched, job[k].fence}
    BY <2>1 DEF TypeOK, Row
  <2> QED BY <2>1, <2>2 DEF AttemptLedger, LedgerOf
<1>6. CASE Complete(j, f)
  <2> DEFINE row == [Unleased(j) EXCEPT
           !.status = IF job[j].cancel THEN "cancelled" ELSE "succeeded",
           !.dispatched = None, !.result = f]
  <2>1. row \in Row /\ row.status \notin {"running", "absent"} /\ row.fence = job[j].fence
    BY <1>1, <1>2 DEF Row, Status
  <2>2. Settle(j, f, row, "succeeded")
    BY <1>6 DEF Complete
  <2>3. "succeeded" \in AttemptStatus \ {"none", "running"}
    BY DEF AttemptStatus
  <2> HIDE DEF row
  <2> QED BY <2>1, <2>2, <2>3, SettleLedger
<1>7. ASSUME NEW class \in {"retryable", "fatal"}, Fail(j, f, class)
      PROVE  LedgerOf(k)'
  <2> DEFINE row == [Unleased(j) EXCEPT
           !.status = IF Retries(f, class) THEN "queued" ELSE "failed",
           !.lease = IF Retries(f, class) THEN RetryDelay(f) ELSE None,
           !.dispatched = None, !.error = class]
  <2>1. row \in Row /\ row.status \notin {"running", "absent"} /\ row.fence = job[j].fence
    <3>1. (IF Retries(f, class) THEN RetryDelay(f) ELSE None) \in Lease
      BY <1>1, RetryDelayType DEF Lease
    <3> QED BY <1>2, <3>1 DEF Row, Status
  <2>2. Settle(j, f, row, "failed")
    BY <1>7 DEF Fail
  <2>3. "failed" \in AttemptStatus \ {"none", "running"}
    BY DEF AttemptStatus
  <2> HIDE DEF row
  <2> QED BY <2>1, <2>2, <2>3, SettleLedger
<1>8. CASE MarkUnknown(j, f)
  <2> DEFINE row == [Unleased(j) EXCEPT !.status = "unknown", !.error = "unobserved"]
  <2>1. row \in Row /\ row.status \notin {"running", "absent"} /\ row.fence = job[j].fence
    BY <1>2 DEF Row, Status
  <2>2. Settle(j, f, row, "unknown")
    BY <1>8 DEF MarkUnknown
  <2>3. "unknown" \in AttemptStatus \ {"none", "running"}
    BY DEF AttemptStatus
  <2> HIDE DEF row
  <2> QED BY <2>1, <2>2, <2>3, SettleLedger
<1>9. CASE Release(j, f)
  <2> DEFINE row == [Unleased(j) EXCEPT !.status = "queued", !.dispatched = None]
  <2>1. row \in Row /\ row.status \notin {"running", "absent"} /\ row.fence = job[j].fence
    BY <1>2 DEF Row, Status
  <2>2. Settle(j, f, row, "unknown")
    BY <1>9, ReleaseSettles
  <2>3. "unknown" \in AttemptStatus \ {"none", "running"}
    BY DEF AttemptStatus
  <2> HIDE DEF row
  <2> QED BY <2>1, <2>2, <2>3, SettleLedger
<1> QED BY <1>3, <1>4, <1>5, <1>6, <1>7, <1>8, <1>9 DEF Execution, Settles

\* Time keeps every ledger in order.
LEMMA ElapseLedger ==
  ASSUME TypeOK, AttemptLedger, Elapse, attempt' = attempt, NEW k \in Job
  PROVE  LedgerOf(k)'
<1>1. /\ job'[k].status = job[k].status
      /\ job'[k].fence = job[k].fence
      /\ job'[k].owner = job[k].owner
      /\ job'[k].dispatched = job[k].dispatched
  BY DEF TypeOK, Row, Elapse
<1> QED BY <1>1, LedgerFrame DEF AttemptLedger

\* Row and attempts agree in every reachable state: one open attempt while the
\* job runs, its last lease's, and none once it settled.
THEOREM LedgerCorrect == Spec => []AttemptLedger
<1>1. TypeOK /\ AttemptLedger /\ [Next]_vars => AttemptLedger'
  <2> SUFFICES ASSUME TypeOK, AttemptLedger, [Next]_vars, NEW k \in Job
               PROVE  LedgerOf(k)'
    BY DEF AttemptLedger
  <2>1. CASE \E j \in Job : Submitter(j)
    BY <2>1, SubmitterLedger
  <2>2. CASE \E w \in Worker : Loop(w)
    BY <2>2, LoopLedger
  <2>3. CASE \E j \in Job, f \in Fence : Execution(j, f)
    BY <2>3, ExecutionLedger
  <2>4. CASE Tick \/ TickLate
    BY <2>4, ElapseLedger DEF Tick, TickLate
  <2>5. CASE UNCHANGED vars
    BY <2>5, LedgerFrame DEF vars, AttemptLedger
  <2> QED BY <2>1, <2>2, <2>3, <2>4, <2>5 DEF Next
<1> QED BY <1>1, InitLedger, TypeCorrect, PTL DEF Spec

-----------------------------------------------------------------------------
(* What workers know of their dispatches. *)

\* The part of the inductive invariant that concerns one lease of one job:
\* DispatchKnown, and NoSilentRedispatch for that lease.
Known(j, f) ==
  /\ DispatchKnown(j, f)
  /\ claim[j][f].sent /\ f < job[j].fence => attempt[j][f] = "failed"

KnownEverywhere == \A j \in Job, f \in Fence : Known(j, f)

\* A step that moves none of what Known speaks of keeps it; renewing a lease, its
\* expiry and the end of a handler's context are such steps.
LEMMA KnownFrame ==
  ASSUME NEW k \in Job, NEW g \in Fence, Known(k, g),
         claim'[k][g] = claim[k][g] \/ /\ g <= job[k].fence
                                       /\ claim'[k][g].pc = claim[k][g].pc
                                       /\ claim'[k][g].dispatched = claim[k][g].dispatched
                                       /\ claim'[k][g].sent = claim[k][g].sent,
         attempt'[k][g] = attempt[k][g],
         job'[k].status = job[k].status, job'[k].fence = job[k].fence,
         job'[k].dispatched = job[k].dispatched, job[k].fence \in Nat
  PROVE  Known(k, g)'
<1>1. g \in Nat
  BY BoundsAssumption DEF Fence
<1> QED BY <1>1 DEF Known, DispatchKnown, NoClaim

\* A worker that is through with a lease forgets its dispatch and nothing else
\* is lost, whatever became of the row in the meantime.
LEMMA KnownDone ==
  ASSUME NEW k \in Job, NEW g \in Fence, Known(k, g), g <= job[k].fence,
         claim'[k][g].pc = "idle", ~claim'[k][g].dispatched,
         claim'[k][g].sent = claim[k][g].sent,
         attempt'[k] = attempt[k], job'[k] = job[k], job[k].fence \in Nat
  PROVE  Known(k, g)'
<1>1. g \in Nat
  BY BoundsAssumption DEF Fence
<1> QED BY <1>1 DEF Known, DispatchKnown

\* A lease that a worker still holds was granted.
LEMMA HeldIsGranted ==
  ASSUME TypeOK, NEW k \in Job, NEW g \in Fence, Known(k, g),
         claim[k][g].pc # "idle"
  PROVE  g <= job[k].fence
<1>1. g \in Nat /\ job[k].fence \in Nat
  BY BoundsAssumption DEF Fence, TypeOK, Row
<1> QED BY <1>1 DEF Known, DispatchKnown, NoClaim

\* Before the first lease nothing was dispatched.
LEMMA InitKnown == Init => KnownEverywhere
BY BoundsAssumption
DEF Init, KnownEverywhere, Known, DispatchKnown, NoClaim, NewRow, Fence

\* No step of the submitter makes a worker's memory wrong.
LEMMA SubmitterKnown ==
  ASSUME TypeOK, AttemptLedger, KnownEverywhere, NEW j \in Job, Submitter(j),
         NEW k \in Job, NEW g \in Fence
  PROVE  Known(k, g)'
<1>1. attempt' = attempt /\ claim' = claim
  BY DEF Submitter, Enqueue, Cancel, Delete
<1>2. job[k] \in Row /\ g \in Nat /\ g > 0 /\ job[k].fence \in Nat
  BY BoundsAssumption DEF TypeOK, Row, Fence
<1>3. /\ job'[k].fence = job[k].fence
      /\ job'[k].dispatched = job[k].dispatched
      /\ \/ job'[k].status = job[k].status
         \/ job[k].status = "absent"
         \/ job'[k].status \notin {"queued", "running"}
  <2>2. CASE Enqueue(j)
    BY <1>2, <2>2 DEF TypeOK, Row, Enqueue
  <2>3. CASE Cancel(j)
    <3>1. CASE k = j
      BY <1>2, <2>3, <3>1 DEF TypeOK, Row, Cancel
    <3>2. CASE k # j
      BY <2>3, <3>2 DEF TypeOK, Cancel
    <3> QED BY <3>1, <3>2
  <2>4. CASE Delete(j)
    BY <1>2, <2>4 DEF TypeOK, Row, Delete
  <2> QED BY <2>2, <2>3, <2>4 DEF Submitter
<1>4. Known(k, g) /\ LedgerOf(k)
  BY DEF KnownEverywhere, AttemptLedger
<1>5. CASE job'[k].status = job[k].status
  BY <1>1, <1>2, <1>3, <1>4, <1>5, KnownFrame
<1>6. CASE job[k].status = "absent"
  <2>1. claim[k][g] = NoClaim
    BY <1>2, <1>4, <1>6 DEF LedgerOf, Known, DispatchKnown
  <2> QED BY <1>1, <1>2, <1>3, <2>1 DEF Known, DispatchKnown, NoClaim
<1>7. CASE job'[k].status \notin {"queued", "running"}
  BY <1>1, <1>2, <1>3, <1>4, <1>7 DEF Known, DispatchKnown
<1> QED BY <1>3, <1>5, <1>6, <1>7

\* The sweep takes jobs away from workers; what they know stays true.
LEMMA SweepKnown ==
  ASSUME TypeOK, AttemptLedger, KnownEverywhere, NEW w \in Worker, Sweep(w),
         NEW k \in Job, NEW g \in Fence
  PROVE  Known(k, g)'
<1>1. claim' = claim
  BY DEF Sweep
<1>2. job[k] \in Row /\ g \in Nat /\ job[k].fence \in Nat
  BY BoundsAssumption DEF TypeOK, Row, Fence
<1>3. Known(k, g)
  BY DEF KnownEverywhere
<1>4. CASE ~(Expired(k) /\ OpenDispatch(k))
  <2>1. job'[k] = job[k] /\ attempt'[k] = attempt[k]
    BY <1>4 DEF Sweep
  <2> QED BY <1>1, <1>2, <1>3, <2>1, KnownFrame
<1>5. CASE Expired(k) /\ OpenDispatch(k)
  <2>1. /\ job'[k] = Swept(k)
        /\ attempt'[k] = [attempt[k] EXCEPT ![job[k].dispatched] = "unknown"]
    BY <1>5 DEF Sweep
  <2>2. /\ job'[k].status = "unknown"
        /\ job'[k].fence = job[k].fence
    BY <1>2, <2>1 DEF Row, Swept
  <2>3. job[k].dispatched = job[k].fence
    BY <1>5 DEF AttemptLedger, LedgerOf, Expired, OpenDispatch
  <2>4. g < job[k].fence => attempt'[k][g] = attempt[k][g]
    BY <1>2, <2>1, <2>3 DEF TypeOK
  <2> QED BY <1>1, <1>2, <1>3, <2>2, <2>4 DEF Known, DispatchKnown
<1> QED BY <1>4, <1>5

\* A runnable job has no lease whose worker acted upstream, unless that worker
\* reported the failure: this is the heart of NoSilentRedispatch.
LEMMA RunnableUndispatched ==
  ASSUME TypeOK, AttemptLedger, NEW k \in Job, NEW g \in Fence, Known(k, g),
         Runnable(k)
  PROVE  /\ ~claim[k][g].dispatched
         /\ claim[k][g].sent => attempt[k][g] = "failed"
<1>1. job[k] \in Row /\ g \in Nat /\ job[k].fence \in Nat
  BY BoundsAssumption DEF TypeOK, Row, Fence
<1>2. g # None
  BY <1>1, NullAssumption
<1>3. job[k].status = "running" => job[k].dispatched # g \/ g # job[k].fence
  BY <1>2 DEF Runnable, Expired, OpenDispatch, AttemptLedger, LedgerOf
<1>4. job[k].status \in {"queued", "running"}
  BY DEF Runnable, Expired
<1>5. g > job[k].fence => ~claim[k][g].sent
  BY DEF Known, DispatchKnown, NoClaim
<1> QED BY <1>1, <1>3, <1>4, <1>5 DEF Known, DispatchKnown

\* A grant finds no dispatch that it would repeat.
LEMMA GrantKnown ==
  ASSUME TypeOK, AttemptLedger, KnownEverywhere, NEW w \in Worker, NEW j \in Job,
         Grant(w, j) \/ GrantLost(w, j), NEW k \in Job, NEW g \in Fence
  PROVE  Known(k, g)'
<1>1. job[k] \in Row /\ g \in Nat /\ job[k].fence \in Nat
  BY BoundsAssumption DEF TypeOK, Row, Fence
<1>2. Known(k, g)
  BY DEF KnownEverywhere
<1>3. /\ GrantRows(w, j)
      /\ Runnable(j)
      /\ \/ claim' = claim
         \/ claim' = [claim EXCEPT ![j][job[j].fence + 1] =
                        [NoClaim EXCEPT !.pc = "waiting", !.by = w]]
  BY DEF Grant, GrantLost
<1>4. CASE k # j
  <2>1. job'[k] = job[k] /\ attempt'[k] = attempt[k] /\ claim'[k] = claim[k]
    BY <1>3, <1>4 DEF TypeOK, GrantRows
  <2> QED BY <1>1, <1>2, <2>1, KnownFrame
<1>5. CASE k = j
  <2>1. /\ job'[j].status = "running"
        /\ job'[j].fence = job[j].fence + 1
    BY <1>1, <1>3, <1>5 DEF TypeOK, Row, GrantRows, Granted
  <2>2. attempt'[j][g] = IF g = job[j].fence + 1 THEN "running"
                         ELSE IF attempt[j][g] = "running" THEN "unknown"
                         ELSE attempt[j][g]
    BY <1>3 DEF TypeOK, GrantRows
  <2>3. CASE g = job[j].fence + 1
    <3>1. claim[j][g] = NoClaim
      BY <1>1, <1>2, <1>5, <2>3 DEF Known, DispatchKnown
    <3>2. /\ claim'[j][g].pc \in {"idle", "waiting"}
          /\ ~claim'[j][g].dispatched
          /\ ~claim'[j][g].sent
      <4>1. CASE claim' = claim
        BY <3>1, <4>1 DEF NoClaim
      <4>2. CASE claim' = [claim EXCEPT ![j][job[j].fence + 1] =
                             [NoClaim EXCEPT !.pc = "waiting", !.by = w]]
        <5>1. claim'[j][g] = [NoClaim EXCEPT !.pc = "waiting", !.by = w]
          BY <2>3, <4>2 DEF TypeOK
        <5> QED BY <5>1 DEF NoClaim
      <4> QED BY <1>3, <4>1, <4>2
    <3> QED BY <1>1, <1>5, <2>1, <2>3, <3>2 DEF Known, DispatchKnown
  <2>4. CASE g # job[j].fence + 1
    <3>1. claim'[j][g] = claim[j][g]
      BY <1>3, <2>4 DEF TypeOK
    <3>2. /\ ~claim[j][g].dispatched
          /\ claim[j][g].sent => attempt[j][g] = "failed"
      BY <1>2, <1>3, <1>5, RunnableUndispatched
    <3> QED BY <1>1, <1>2, <1>5, <2>1, <2>2, <2>4, <3>1, <3>2
            DEF Known, DispatchKnown
  <2> QED BY <2>3, <2>4
<1> QED BY <1>4, <1>5

\* The Run loop and the processes keep what is known true; a crash only forgets.
LEMMA LoopKnown ==
  ASSUME TypeOK, AttemptLedger, KnownEverywhere, NEW w \in Worker, Loop(w),
         NEW k \in Job, NEW g \in Fence
  PROVE  Known(k, g)'
<1>1. Known(k, g) /\ job[k].fence \in Nat
  BY BoundsAssumption DEF KnownEverywhere, TypeOK, Row
<1>2. CASE Sweep(w)
  BY <1>2, SweepKnown
<1>3. CASE \E j \in Job : Grant(w, j) \/ GrantLost(w, j)
  BY <1>3, GrantKnown
<1>4. CASE NothingRunnable(w) \/ Restart(w)
  <2>1. UNCHANGED <<job, attempt, claim>>
    BY <1>4 DEF NothingRunnable, Restart
  <2> QED BY <1>1, <2>1, KnownFrame
<1>5. CASE Drain(w)
  <2>1. UNCHANGED <<job, attempt>>
    BY <1>5 DEF Drain
  <2>2. CASE Holds(w, k, g) /\ claim[k][g].pc # "waiting"
    <3>1. claim'[k][g] = [claim[k][g] EXCEPT !.cancelled = TRUE]
      BY <1>5, <2>2 DEF Drain
    <3>2. /\ claim'[k][g].pc = claim[k][g].pc
          /\ claim'[k][g].dispatched = claim[k][g].dispatched
          /\ claim'[k][g].sent = claim[k][g].sent
      BY <3>1 DEF TypeOK, ClaimRecord
    <3>3. g <= job[k].fence
      BY <1>1, <2>2, HeldIsGranted DEF Holds
    <3> QED BY <1>1, <2>1, <3>2, <3>3, KnownFrame
  <2>3. CASE ~(Holds(w, k, g) /\ claim[k][g].pc # "waiting")
    <3>1. claim'[k][g] = claim[k][g]
      BY <1>5, <2>3 DEF Drain
    <3> QED BY <1>1, <2>1, <3>1, KnownFrame
  <2> QED BY <2>2, <2>3
<1>6. CASE Crash(w)
  <2>1. UNCHANGED <<job, attempt>>
    BY <1>6 DEF Crash
  <2>2. CASE Holds(w, k, g)
    <3>1. claim'[k][g] = [NoClaim EXCEPT !.sent = claim[k][g].sent]
      BY <1>6, <2>2 DEF Crash
    <3>2. /\ claim'[k][g].pc = "idle"
          /\ ~claim'[k][g].dispatched
          /\ claim'[k][g].sent = claim[k][g].sent
      BY <3>1 DEF NoClaim
    <3>3. g <= job[k].fence
      BY <1>1, <2>2, HeldIsGranted DEF Holds
    <3> QED BY <1>1, <2>1, <3>2, <3>3, KnownDone
  <2>3. CASE ~Holds(w, k, g)
    <3>1. claim'[k][g] = claim[k][g]
      BY <1>6, <2>3 DEF Crash
    <3> QED BY <1>1, <2>1, <3>1, KnownFrame
  <2> QED BY <2>2, <2>3
<1> QED BY <1>2, <1>3, <1>4, <1>5, <1>6 DEF Loop

\* Leases other than the last are not touched by what happens to the row.
LEMMA KnownOther ==
  ASSUME NEW k \in Job, NEW g \in Fence, Known(k, g), g # job[k].fence,
         job'[k].fence = job[k].fence, claim'[k][g] = claim[k][g],
         attempt'[k][g] = attempt[k][g]
  PROVE  Known(k, g)'
BY DEF Known, DispatchKnown

\* A terminal transaction, committed or refused, keeps what is known true: it
\* settles the job, or it hands back a job whose worker reported a failure or
\* never acted upstream.
LEMMA SettleKnown ==
  ASSUME TypeOK, KnownEverywhere, NEW j \in Job, NEW f \in Fence,
         claim[j][f].pc # "idle", NEW row \in Row, row.fence = job[j].fence,
         row.status # "running", NEW outcome \in AttemptStatus,
         row.status = "queued" => outcome = "failed" \/ ~claim[j][f].sent,
         Settle(j, f, row, outcome), Done(j, f),
         NEW k \in Job, NEW g \in Fence
  PROVE  Known(k, g)'
<1>1. Known(k, g) /\ job[k].fence \in Nat /\ g \in Nat
  BY BoundsAssumption DEF KnownEverywhere, TypeOK, Row, Fence
<1>2. <<k, g>> # <<j, f>> => claim'[k][g] = claim[k][g]
  BY DEF TypeOK, Done
<1>3. /\ claim'[j][f].pc = "idle"
      /\ ~claim'[j][f].dispatched
      /\ claim'[j][f].sent = claim[j][f].sent
  <2>1. claim'[j][f] = [NoClaim EXCEPT !.sent = claim[j][f].sent]
    BY DEF TypeOK, Done
  <2> QED BY <2>1 DEF NoClaim
<1>4. f <= job[j].fence
  BY HeldIsGranted DEF KnownEverywhere
<1>5. CASE Fenced(j, f) /\ attempt[j][f] = "running"
  <2>1. job' = [job EXCEPT ![j] = row] /\ attempt' = [attempt EXCEPT ![j][f] = outcome]
    BY <1>5 DEF Settle
  <2>2. f = job[j].fence
    BY <1>5 DEF Fenced
  <2>3. CASE k # j
    <3>1. job'[k] = job[k] /\ attempt'[k] = attempt[k]
      BY <2>1, <2>3 DEF TypeOK
    <3> QED BY <1>1, <1>2, <2>3, <3>1, KnownFrame
  <2>4. CASE k = j /\ g # f
    <3>1. job'[k].fence = job[k].fence /\ attempt'[k][g] = attempt[k][g]
      BY <2>1, <2>4 DEF TypeOK
    <3> QED BY <1>1, <1>2, <2>2, <2>4, <3>1, KnownOther
  <2>5. CASE k = j /\ g = f
    <3>1. job'[k] = row /\ attempt'[k][g] = outcome
      BY <2>1, <2>5 DEF TypeOK
    <3> QED BY <1>1, <1>3, <2>2, <2>5, <3>1 DEF Known, DispatchKnown
  <2> QED BY <2>3, <2>4, <2>5
<1>6. CASE ~(Fenced(j, f) /\ attempt[j][f] = "running")
  <2>1. UNCHANGED <<job, attempt>>
    BY <1>6 DEF Settle
  <2>2. CASE k = j /\ g = f
    BY <1>1, <1>3, <1>4, <2>1, <2>2, KnownDone
  <2>3. CASE ~(k = j /\ g = f)
    BY <1>1, <1>2, <2>1, <2>3, KnownFrame
  <2> QED BY <2>2, <2>3
<1> QED BY <1>5, <1>6

\* The watchdog and the handler keep what is known true; MarkDispatched is what
\* makes it so before Send relies on it.
LEMMA HandlerKnown ==
  ASSUME TypeOK, KnownEverywhere, NEW j \in Job, NEW f \in Fence,
         \/ StartHandler(j, f) \/ Heartbeat(j, f) \/ WatchCancel(j, f)
         \/ WatchError(j, f) \/ Progress(j, f) \/ MarkDispatched(j, f)
         \/ MarkDispatchedLost(j, f) \/ Send(j, f) \/ ContextDone(j, f)
         \/ HandlerTimeout(j, f) \/ ProbeFails(j, f),
         NEW k \in Job, NEW g \in Fence
  PROVE  Known(k, g)'
<1>1. /\ Known(k, g) /\ Known(j, f)
      /\ job[k].fence \in Nat /\ job[j].fence \in Nat
      /\ f \in Nat /\ g \in Nat
  BY BoundsAssumption DEF KnownEverywhere, TypeOK, Row, Fence
<1>2. claim[j][f].pc # "idle"
  BY DEF StartHandler, Heartbeat, WatchCancel, WatchError, Progress, MarkDispatched,
         MarkDispatchedLost, Send, ContextDone, HandlerTimeout, ProbeFails, Live
<1>3. f <= job[j].fence
  BY <1>1, <1>2, HeldIsGranted
<1>4. attempt' = attempt
  BY DEF StartHandler, Heartbeat, WatchCancel, WatchError, Progress, MarkDispatched,
         MarkDispatchedLost, Send, ContextDone, HandlerTimeout, ProbeFails
<1>5. ASSUME job' = job, NEW r, claim' = [claim EXCEPT ![j][f] = r],
             r.sent = claim[j][f].sent, r.dispatched = claim[j][f].dispatched,
             \/ r.pc = claim[j][f].pc
             \/ r.pc \in {"handling", "flip"}
             \/ r.pc = "abandon" /\ claim[j][f].dispatched
             \/ r.pc = "release" /\ ~claim[j][f].dispatched
      PROVE  Known(k, g)'
  <2>1. CASE k = j /\ g = f
    <3>1. claim'[j][f] = r
      BY <1>5 DEF TypeOK
    <3> QED BY <1>1, <1>2, <1>3, <1>4, <1>5, <2>1, <3>1 DEF Known, DispatchKnown
  <2>2. CASE ~(k = j /\ g = f)
    <3>1. claim'[k][g] = claim[k][g]
      BY <1>5, <2>2 DEF TypeOK
    <3> QED BY <1>1, <1>4, <1>5, <3>1, KnownFrame
  <2> QED BY <2>1, <2>2
<1>6. ASSUME claim' = claim, job'[k].status = job[k].status,
             job'[k].fence = job[k].fence, job'[k].dispatched = job[k].dispatched
      PROVE  Known(k, g)'
  BY <1>1, <1>4, <1>6, KnownFrame
<1>7. claim[j][f] \in ClaimRecord /\ job[j] \in Row
  BY DEF TypeOK
<1>8. ASSUME job' = job, claim' = [claim EXCEPT ![j][f].cancelled = TRUE]
      PROVE  Known(k, g)'
  <2> DEFINE r == [claim[j][f] EXCEPT !.cancelled = TRUE]
  <2>1. /\ r.sent = claim[j][f].sent /\ r.dispatched = claim[j][f].dispatched
        /\ r.pc = claim[j][f].pc
    BY <1>7 DEF ClaimRecord
  <2>2. claim' = [claim EXCEPT ![j][f] = r]
    BY <1>8 DEF TypeOK
  <2> HIDE DEF r
  <2> QED BY <1>5, <1>8, <2>1, <2>2
<1>9. CASE WatchCancel(j, f) \/ WatchError(j, f)
  BY <1>8, <1>9 DEF WatchCancel, WatchError
<1>10. CASE StartHandler(j, f)
  <2> DEFINE r == [claim[j][f] EXCEPT !.pc = "handling",
                      !.cancelled = (runner[claim[j][f].by] = "draining")]
  <2>1. /\ r.sent = claim[j][f].sent /\ r.dispatched = claim[j][f].dispatched
        /\ r.pc = "handling"
    BY <1>7 DEF ClaimRecord
  <2>2. claim' = [claim EXCEPT ![j][f] = r] /\ job' = job
    BY <1>10 DEF TypeOK, StartHandler
  <2> HIDE DEF r
  <2> QED BY <1>5, <2>1, <2>2
<1>11. CASE Heartbeat(j, f)
  <2>1. CASE Fenced(j, f)
    <3>1. job' = [job EXCEPT ![j].lease = LeaseTTL] /\ claim' = claim
      BY <1>11, <2>1 DEF Heartbeat
    <3>2. /\ job'[k].status = job[k].status
          /\ job'[k].fence = job[k].fence
          /\ job'[k].dispatched = job[k].dispatched
      BY <3>1 DEF TypeOK, Row
    <3> QED BY <1>6, <3>1, <3>2
  <2>2. CASE ~Fenced(j, f)
    BY <1>8, <1>11, <2>2 DEF Heartbeat
  <2> QED BY <2>1, <2>2
<1>12. CASE Progress(j, f)
  <2>1. /\ job'[k].status = job[k].status
        /\ job'[k].fence = job[k].fence
        /\ job'[k].dispatched = job[k].dispatched
    BY <1>12 DEF TypeOK, Row, Progress
  <2> QED BY <1>6, <1>12, <2>1 DEF Progress
<1>13. CASE MarkDispatched(j, f) \/ MarkDispatchedLost(j, f)
  <2>1. /\ job' = [job EXCEPT ![j].dispatched = f]
        /\ f = job[j].fence
        /\ job[j].status = "running"
        /\ claim[j][f].pc = "handling"
        /\ \/ claim' = claim
           \/ claim' = [claim EXCEPT ![j][f].dispatched = TRUE]
    BY <1>13 DEF MarkDispatched, MarkDispatchedLost, Fenced
  <2>2. /\ job'[k].status = job[k].status
        /\ job'[k].fence = job[k].fence
        /\ job'[k].dispatched = IF k = j THEN f ELSE job[k].dispatched
    BY <2>1 DEF TypeOK, Row
  <2>3. CASE k = j /\ g = f
    <3>1. /\ claim'[k][g].pc = "handling"
          /\ claim'[k][g].sent = claim[k][g].sent
          /\ claim'[k][g].sent => claim'[k][g].dispatched
      <4>1. claim[k][g].sent => claim[k][g].dispatched
        BY <1>1, <2>1, <2>3 DEF Known, DispatchKnown
      <4>2. CASE claim' = claim
        BY <2>1, <2>3, <4>1, <4>2
      <4>3. CASE claim' = [claim EXCEPT ![j][f].dispatched = TRUE]
        <5>1. claim'[j][f] = [claim[j][f] EXCEPT !.dispatched = TRUE]
          BY <4>3 DEF TypeOK
        <5> QED BY <1>7, <2>1, <2>3, <5>1 DEF ClaimRecord
      <4> QED BY <2>1, <4>2, <4>3
    <3> QED BY <1>1, <1>4, <2>1, <2>2, <2>3, <3>1 DEF Known, DispatchKnown
  <2>4. CASE ~(k = j /\ g = f)
    <3>1. claim'[k][g] = claim[k][g]
      BY <2>1, <2>4 DEF TypeOK
    <3>2. CASE k = j
      BY <1>1, <1>4, <2>1, <2>2, <2>4, <3>1, <3>2, KnownOther
    <3>3. CASE k # j
      BY <1>1, <1>4, <2>2, <3>1, <3>3, KnownFrame
    <3> QED BY <3>2, <3>3
  <2> QED BY <2>3, <2>4
<1>14. CASE Send(j, f)
  <2>1. /\ job' = job
        /\ claim[j][f].dispatched
        /\ claim[j][f].pc = "handling"
        /\ claim' = [claim EXCEPT ![j][f].sent = TRUE]
    BY <1>14 DEF Send
  <2>2. CASE k = j /\ g = f
    <3>1. /\ claim'[j][f].pc = "handling"
          /\ claim'[j][f].dispatched
      BY <1>7, <2>1 DEF TypeOK, ClaimRecord
    <3> QED BY <1>1, <1>4, <2>1, <2>2, <3>1 DEF Known, DispatchKnown, NoClaim
  <2>3. CASE ~(k = j /\ g = f)
    <3>1. claim'[k][g] = claim[k][g]
      BY <2>1, <2>3 DEF TypeOK
    <3> QED BY <1>1, <1>4, <2>1, <3>1, KnownFrame
  <2> QED BY <2>2, <2>3
<1>15. CASE ContextDone(j, f) \/ HandlerTimeout(j, f)
  <2> DEFINE p == IF Fenced(j, f) /\ job[j].cancel THEN "flip"
                  ELSE IF claim[j][f].dispatched THEN "abandon"
                  ELSE "release"
             r == [claim[j][f] EXCEPT !.pc = p]
  <2>1. job' = job /\ claim' = [claim EXCEPT ![j][f].pc = p]
    BY <1>15 DEF ContextDone, HandlerTimeout, Translate
  <2>2. /\ r.sent = claim[j][f].sent /\ r.dispatched = claim[j][f].dispatched
        /\ r.pc = p
    BY <1>7 DEF ClaimRecord
  <2>3. \/ p = "flip"
        \/ p = "abandon" /\ claim[j][f].dispatched
        \/ p = "release" /\ ~claim[j][f].dispatched
    OBVIOUS
  <2>4. claim' = [claim EXCEPT ![j][f] = r]
    BY <2>1 DEF TypeOK
  <2> HIDE DEF p, r
  <2> QED BY <1>5, <2>1, <2>2, <2>3, <2>4
<1>16. CASE ProbeFails(j, f)
  <2> DEFINE p == IF claim[j][f].dispatched THEN "abandon" ELSE "release"
             r == [claim[j][f] EXCEPT !.pc = p]
  <2>1. job' = job /\ claim' = [claim EXCEPT ![j][f].pc = p]
    BY <1>16 DEF ProbeFails
  <2>2. /\ r.sent = claim[j][f].sent /\ r.dispatched = claim[j][f].dispatched
        /\ r.pc = p
    BY <1>7 DEF ClaimRecord
  <2>3. \/ p = "abandon" /\ claim[j][f].dispatched
        \/ p = "release" /\ ~claim[j][f].dispatched
    OBVIOUS
  <2>4. claim' = [claim EXCEPT ![j][f] = r]
    BY <2>1 DEF TypeOK
  <2> HIDE DEF p, r
  <2> QED BY <1>5, <2>1, <2>2, <2>3, <2>4
<1> QED BY <1>9, <1>10, <1>11, <1>12, <1>13, <1>14, <1>15, <1>16

\* Executing a claim keeps what is known true.
LEMMA ExecutionKnown ==
  ASSUME TypeOK, AttemptLedger, KnownEverywhere, NEW j \in Job, NEW f \in Fence,
         Execution(j, f), NEW k \in Job, NEW g \in Fence
  PROVE  Known(k, g)'
<1>1. /\ job[j] \in Row
      /\ f \in 0..MaxFence
      /\ Known(k, g) /\ Known(j, f)
      /\ job[k].fence \in Nat
  BY BoundsAssumption DEF TypeOK, Fence, KnownEverywhere, Row
<1>2. Unleased(j) \in Row /\ Unleased(j).fence = job[j].fence
  <2>1. None \in Lease
    BY DEF Lease
  <2> QED BY <1>1, <2>1 DEF Unleased, Row
<1>3. CASE \/ StartHandler(j, f) \/ Heartbeat(j, f) \/ WatchCancel(j, f)
           \/ WatchError(j, f) \/ Progress(j, f) \/ MarkDispatched(j, f)
           \/ MarkDispatchedLost(j, f) \/ Send(j, f) \/ ContextDone(j, f)
           \/ HandlerTimeout(j, f) \/ ProbeFails(j, f)
  BY <1>3, HandlerKnown
<1>4. CASE Complete(j, f)
  <2> DEFINE row == [Unleased(j) EXCEPT
           !.status = IF job[j].cancel THEN "cancelled" ELSE "succeeded",
           !.dispatched = None, !.result = f]
  <2>1. row \in Row /\ row.status \notin {"running", "queued"} /\ row.fence = job[j].fence
    BY <1>1, <1>2 DEF Row, Status
  <2>2. Settle(j, f, row, "succeeded") /\ Done(j, f) /\ claim[j][f].pc # "idle"
    BY <1>4 DEF Complete
  <2>3. "succeeded" \in AttemptStatus
    BY DEF AttemptStatus
  <2> HIDE DEF row
  <2> QED BY <2>1, <2>2, <2>3, SettleKnown
<1>5. ASSUME NEW class \in {"retryable", "fatal"}, Fail(j, f, class)
      PROVE  Known(k, g)'
  <2> DEFINE row == [Unleased(j) EXCEPT
           !.status = IF Retries(f, class) THEN "queued" ELSE "failed",
           !.lease = IF Retries(f, class) THEN RetryDelay(f) ELSE None,
           !.dispatched = None, !.error = class]
  <2>1. row \in Row /\ row.status # "running" /\ row.fence = job[j].fence
    <3>1. (IF Retries(f, class) THEN RetryDelay(f) ELSE None) \in Lease
      BY <1>1, RetryDelayType DEF Lease
    <3> QED BY <1>2, <3>1 DEF Row, Status
  <2>2. Settle(j, f, row, "failed") /\ Done(j, f) /\ claim[j][f].pc # "idle"
    BY <1>5 DEF Fail
  <2>3. "failed" \in AttemptStatus
    BY DEF AttemptStatus
  <2> HIDE DEF row
  <2> QED BY <2>1, <2>2, <2>3, SettleKnown
<1>6. CASE MarkUnknown(j, f)
  <2> DEFINE row == [Unleased(j) EXCEPT !.status = "unknown", !.error = "unobserved"]
  <2>1. row \in Row /\ row.status \notin {"running", "queued"} /\ row.fence = job[j].fence
    BY <1>2 DEF Row, Status
  <2>2. Settle(j, f, row, "unknown") /\ Done(j, f) /\ claim[j][f].pc # "idle"
    BY <1>6 DEF MarkUnknown
  <2>3. "unknown" \in AttemptStatus
    BY DEF AttemptStatus
  <2> HIDE DEF row
  <2> QED BY <2>1, <2>2, <2>3, SettleKnown
<1>7. CASE Release(j, f)
  <2> DEFINE row == [Unleased(j) EXCEPT !.status = "queued", !.dispatched = None]
  <2>1. row \in Row /\ row.status # "running" /\ row.fence = job[j].fence
    BY <1>2 DEF Row, Status
  <2>2. Settle(j, f, row, "unknown")
    BY <1>7, ReleaseSettles
  <2>3. claim[j][f].pc \in {"release", "waiting"} /\ Done(j, f)
    BY <1>7 DEF Release
  <2>4. ~claim[j][f].sent
    BY <1>1, <2>3 DEF Known, DispatchKnown
  <2>5. "unknown" \in AttemptStatus
    BY DEF AttemptStatus
  <2> HIDE DEF row
  <2> QED BY <2>1, <2>2, <2>3, <2>4, <2>5, SettleKnown
<1>8. CASE LoseClaim(j, f)
  <2>1. UNCHANGED <<job, attempt>> /\ Done(j, f) /\ claim[j][f].pc # "idle"
    BY <1>8 DEF LoseClaim
  <2>2. f <= job[j].fence
    BY <1>1, <2>1, HeldIsGranted
  <2>3. CASE k = j /\ g = f
    <3>1. claim'[j][f] = [NoClaim EXCEPT !.sent = claim[j][f].sent]
      BY <2>1 DEF TypeOK, Done
    <3>2. /\ claim'[j][f].pc = "idle"
          /\ ~claim'[j][f].dispatched
          /\ claim'[j][f].sent = claim[j][f].sent
      BY <3>1 DEF NoClaim
    <3> QED BY <1>1, <2>1, <2>2, <2>3, <3>2, KnownDone
  <2>4. CASE ~(k = j /\ g = f)
    <3>1. claim'[k][g] = claim[k][g]
      BY <2>1, <2>4 DEF TypeOK, Done
    <3> QED BY <1>1, <2>1, <3>1, KnownFrame
  <2> QED BY <2>3, <2>4
<1> QED BY <1>3, <1>4, <1>5, <1>6, <1>7, <1>8 DEF Execution, Settles

\* What is known of dispatches is inductive, given types and the ledger.
LEMMA KnownInvariant == Spec => []KnownEverywhere
<1>1. TypeOK /\ AttemptLedger /\ KnownEverywhere /\ [Next]_vars => KnownEverywhere'
  <2> SUFFICES ASSUME TypeOK, AttemptLedger, KnownEverywhere, [Next]_vars,
                      NEW k \in Job, NEW g \in Fence
               PROVE  Known(k, g)'
    BY DEF KnownEverywhere
  <2>0. Known(k, g) /\ job[k].fence \in Nat
    BY BoundsAssumption DEF KnownEverywhere, TypeOK, Row
  <2>1. CASE \E j \in Job : Submitter(j)
    BY <2>1, SubmitterKnown
  <2>2. CASE \E w \in Worker : Loop(w)
    BY <2>2, LoopKnown
  <2>3. CASE \E j \in Job, f \in Fence : Execution(j, f)
    BY <2>3, ExecutionKnown
  <2>4. CASE Tick \/ TickLate
    <3>1. UNCHANGED <<attempt, claim>> /\ Elapse
      BY <2>4 DEF Tick, TickLate
    <3>2. /\ job'[k].status = job[k].status
          /\ job'[k].fence = job[k].fence
          /\ job'[k].dispatched = job[k].dispatched
      BY <3>1 DEF TypeOK, Row, Elapse
    <3> QED BY <2>0, <3>1, <3>2, KnownFrame
  <2>5. CASE UNCHANGED vars
    BY <2>0, <2>5, KnownFrame DEF vars
  <2> QED BY <2>1, <2>2, <2>3, <2>4, <2>5 DEF Next
<1> QED BY <1>1, InitKnown, TypeCorrect, LedgerCorrect, PTL DEF Spec

\* No lease follows one that acted upstream, unless the worker that held it
\* reported the failure itself (JOB-02): for any number of jobs, workers, crashes
\* and late heartbeats.
THEOREM NoRedispatch == Spec => []NoSilentRedispatch
<1>1. KnownEverywhere => NoSilentRedispatch
  BY DEF KnownEverywhere, Known, NoSilentRedispatch
<1> QED BY <1>1, KnownInvariant, PTL

\* A worker's memory of its dispatch agrees with the row.
THEOREM DispatchIsRemembered == Spec => []DispatchRemembered
<1>1. KnownEverywhere => DispatchRemembered
  BY DEF KnownEverywhere, Known, DispatchRemembered
<1> QED BY <1>1, KnownInvariant, PTL

-----------------------------------------------------------------------------
(* Published results. *)

\* A step that leaves a job's status, fence, result and attempts alone leaves its
\* result the last lease's.
LEMMA ResultFrame ==
  ASSUME NEW k \in Job, ResultOf(k), attempt'[k] = attempt[k],
         job'[k].status = job[k].status, job'[k].fence = job[k].fence,
         job'[k].result = job[k].result
  PROVE  ResultOf(k)'
BY DEF ResultOf

\* A step that takes a job from a state without a result and publishes none.
LEMMA NoResult ==
  ASSUME NEW k \in Job, ResultOf(k), job'[k].result = job[k].result,
         job[k].status \notin {"succeeded", "cancelled", "deleted"}
  PROVE  ResultOf(k)'
BY DEF ResultOf

\* A terminal transaction publishes for the last lease or not at all.
LEMMA SettleResult ==
  ASSUME TypeOK, ResultIsLastGrant, NEW j \in Job, NEW f \in Fence,
         NEW row \in Row, row.fence = job[j].fence, NEW outcome,
         \/ row.result = job[j].result
         \/ /\ row.result = f
            /\ outcome = "succeeded"
            /\ row.status \in {"succeeded", "cancelled"},
         Settle(j, f, row, outcome), NEW k \in Job
  PROVE  ResultOf(k)'
<1>1. CASE k # j \/ ~(Fenced(j, f) /\ attempt[j][f] = "running")
  <2>1. job'[k] = job[k] /\ attempt'[k] = attempt[k]
    BY <1>1 DEF TypeOK, Settle
  <2> QED BY <2>1, ResultFrame DEF ResultIsLastGrant
<1>2. CASE k = j /\ Fenced(j, f) /\ attempt[j][f] = "running"
  <2>1. /\ job'[k] = row
        /\ attempt'[k][f] = outcome
        /\ f = job[k].fence
        /\ job[k].status = "running"
    BY <1>2 DEF TypeOK, Settle, Fenced
  <2>2. CASE row.result = job[j].result
    BY <1>2, <2>1, <2>2, NoResult DEF ResultIsLastGrant
  <2>3. CASE row.result = f /\ outcome = "succeeded"
             /\ row.status \in {"succeeded", "cancelled"}
    BY <1>2, <2>1, <2>3 DEF ResultOf
  <2> QED BY <2>2, <2>3
<1> QED BY <1>1, <1>2

\* Neither the submitter nor the Run loop touches a result.
LEMMA SubmitterLoopResult ==
  ASSUME TypeOK, ResultIsLastGrant, NEW k \in Job,
         (\E j \in Job : Submitter(j)) \/ (\E w \in Worker : Loop(w))
  PROVE  ResultOf(k)'
<1>1. ResultOf(k) /\ job[k] \in Row
  BY DEF ResultIsLastGrant, TypeOK
<1>2. ASSUME NEW j \in Job, Submitter(j) PROVE ResultOf(k)'
  <2>1. attempt' = attempt
    BY <1>2 DEF Submitter, Enqueue, Cancel, Delete
  <2>2. /\ job'[k].fence = job[k].fence
        /\ job'[k].result = job[k].result
        /\ \/ job'[k].status = job[k].status
           \/ job[k].status \in {"absent", "queued"}
           \/ job'[k].status = "deleted"
    <3>1. CASE Enqueue(j)
      BY <1>1, <3>1 DEF TypeOK, Row, Enqueue
    <3>2. CASE Cancel(j)
      <4>1. CASE k = j
        BY <1>1, <3>2, <4>1 DEF TypeOK, Row, Cancel
      <4>2. CASE k # j
        BY <3>2, <4>2 DEF TypeOK, Cancel
      <4> QED BY <4>1, <4>2
    <3>3. CASE Delete(j)
      BY <1>1, <3>3 DEF TypeOK, Row, Delete
    <3> QED BY <1>2, <3>1, <3>2, <3>3 DEF Submitter
  <2> QED BY <1>1, <2>1, <2>2 DEF ResultOf
<1>3. ASSUME NEW w \in Worker, Sweep(w) PROVE ResultOf(k)'
  <2>1. CASE ~(Expired(k) /\ OpenDispatch(k))
    <3>1. job'[k] = job[k] /\ attempt'[k] = attempt[k]
      BY <1>3, <2>1 DEF Sweep
    <3> QED BY <1>1, <3>1, ResultFrame
  <2>2. CASE Expired(k) /\ OpenDispatch(k)
    <3>1. job'[k] = Swept(k)
      BY <1>3, <2>2 DEF Sweep
    <3>2. job'[k].result = job[k].result
      BY <1>1, <3>1 DEF Row, Swept
    <3> QED BY <1>1, <2>2, <3>2, NoResult DEF Expired
  <2> QED BY <2>1, <2>2
<1>4. ASSUME NEW w \in Worker, NEW j \in Job, GrantRows(w, j), Runnable(j)
      PROVE  ResultOf(k)'
  <2>1. CASE k # j
    <3>1. job'[k] = job[k] /\ attempt'[k] = attempt[k]
      BY <1>4, <2>1 DEF TypeOK, GrantRows
    <3> QED BY <1>1, <3>1, ResultFrame
  <2>2. CASE k = j
    <3>1. job'[k] = Granted(w, k)
      BY <1>4, <2>2 DEF TypeOK, GrantRows
    <3>2. job'[k].result = job[k].result
      BY <1>1, <3>1 DEF Row, Granted
    <3>3. job[k].status \in {"queued", "running"}
      BY <1>4, <2>2 DEF Runnable, Expired
    <3> QED BY <1>1, <3>2, <3>3, NoResult
  <2> QED BY <2>1, <2>2
<1>5. ASSUME NEW w \in Worker,
             NothingRunnable(w) \/ Drain(w) \/ Restart(w) \/ Crash(w)
      PROVE  ResultOf(k)'
  <2>1. UNCHANGED <<job, attempt>>
    BY <1>5 DEF NothingRunnable, Drain, Restart, Crash
  <2> QED BY <1>1, <2>1, ResultFrame
<1> QED BY <1>2, <1>3, <1>4, <1>5 DEF Loop, Grant, GrantLost

\* Among the steps of a claim only Complete publishes, and only for the last lease.
LEMMA ExecutionResult ==
  ASSUME TypeOK, AttemptLedger, ResultIsLastGrant, NEW j \in Job, NEW f \in Fence,
         Execution(j, f), NEW k \in Job
  PROVE  ResultOf(k)'
<1>1. /\ job[j] \in Row
      /\ f \in 0..MaxFence
      /\ ResultOf(k)
  BY BoundsAssumption DEF TypeOK, Fence, ResultIsLastGrant
<1>2. /\ Unleased(j) \in Row
      /\ Unleased(j).fence = job[j].fence
      /\ Unleased(j).result = job[j].result
  <2>1. None \in Lease
    BY DEF Lease
  <2> QED BY <1>1, <2>1 DEF Unleased, Row
<1>3. CASE \/ StartHandler(j, f) \/ WatchCancel(j, f) \/ WatchError(j, f)
           \/ Send(j, f) \/ ContextDone(j, f) \/ HandlerTimeout(j, f)
           \/ ProbeFails(j, f) \/ LoseClaim(j, f)
  <2>1. UNCHANGED <<job, attempt>>
    BY <1>3 DEF StartHandler, WatchCancel, WatchError, Send, ContextDone,
                HandlerTimeout, ProbeFails, LoseClaim
  <2> QED BY <1>1, <2>1, ResultFrame
<1>4. CASE \/ Heartbeat(j, f) \/ Progress(j, f)
           \/ MarkDispatched(j, f) \/ MarkDispatchedLost(j, f)
  <2>1. /\ attempt' = attempt
        /\ \/ job' = job
           \/ job' = [job EXCEPT ![j].lease = LeaseTTL]
           \/ job' = [job EXCEPT ![j].progress = f]
           \/ job' = [job EXCEPT ![j].dispatched = f]
    BY <1>4 DEF Heartbeat, Progress, MarkDispatched, MarkDispatchedLost
  <2>2. /\ job'[k].status = job[k].status
        /\ job'[k].fence = job[k].fence
        /\ job'[k].result = job[k].result
    <3>1. CASE job' = [job EXCEPT ![j].lease = LeaseTTL]
      BY <3>1 DEF TypeOK, Row
    <3>2. CASE job' = [job EXCEPT ![j].progress = f]
      BY <3>2 DEF TypeOK, Row
    <3>3. CASE job' = [job EXCEPT ![j].dispatched = f]
      BY <3>3 DEF TypeOK, Row
    <3> QED BY <2>1, <3>1, <3>2, <3>3
  <2> QED BY <1>1, <2>1, <2>2, ResultFrame
<1>5. CASE Complete(j, f)
  <2> DEFINE row == [Unleased(j) EXCEPT
           !.status = IF job[j].cancel THEN "cancelled" ELSE "succeeded",
           !.dispatched = None, !.result = f]
  <2>1. /\ row \in Row /\ row.fence = job[j].fence /\ row.result = f
        /\ row.status \in {"succeeded", "cancelled"}
    BY <1>1, <1>2 DEF Row, Status
  <2>2. Settle(j, f, row, "succeeded")
    BY <1>5 DEF Complete
  <2> HIDE DEF row
  <2> QED BY <2>1, <2>2, SettleResult
<1>6. ASSUME NEW class \in {"retryable", "fatal"}, Fail(j, f, class)
      PROVE  ResultOf(k)'
  <2> DEFINE row == [Unleased(j) EXCEPT
           !.status = IF Retries(f, class) THEN "queued" ELSE "failed",
           !.lease = IF Retries(f, class) THEN RetryDelay(f) ELSE None,
           !.dispatched = None, !.error = class]
  <2>1. row \in Row /\ row.fence = job[j].fence /\ row.result = job[j].result
    <3>1. (IF Retries(f, class) THEN RetryDelay(f) ELSE None) \in Lease
      BY <1>1, RetryDelayType DEF Lease
    <3> QED BY <1>2, <3>1 DEF Row, Status
  <2>2. Settle(j, f, row, "failed")
    BY <1>6 DEF Fail
  <2> HIDE DEF row
  <2> QED BY <2>1, <2>2, SettleResult
<1>7. CASE MarkUnknown(j, f)
  <2> DEFINE row == [Unleased(j) EXCEPT !.status = "unknown", !.error = "unobserved"]
  <2>1. row \in Row /\ row.fence = job[j].fence /\ row.result = job[j].result
    BY <1>2 DEF Row, Status
  <2>2. Settle(j, f, row, "unknown")
    BY <1>7 DEF MarkUnknown
  <2> HIDE DEF row
  <2> QED BY <2>1, <2>2, SettleResult
<1>8. CASE Release(j, f)
  <2> DEFINE row == [Unleased(j) EXCEPT !.status = "queued", !.dispatched = None]
  <2>1. row \in Row /\ row.fence = job[j].fence /\ row.result = job[j].result
    BY <1>2 DEF Row, Status
  <2>2. Settle(j, f, row, "unknown")
    BY <1>8, ReleaseSettles
  <2> HIDE DEF row
  <2> QED BY <2>1, <2>2, SettleResult
<1> QED BY <1>3, <1>4, <1>5, <1>6, <1>7, <1>8 DEF Execution, Settles

\* The result of a job was written by the lease with the highest fence, in every
\* reachable state: no stale worker publishes (JOB-02).
THEOREM Fencing == Spec => []ResultIsLastGrant
<1>1. Init => ResultIsLastGrant
  BY DEF Init, NewRow, ResultIsLastGrant, ResultOf
<1>2. TypeOK /\ AttemptLedger /\ ResultIsLastGrant /\ [Next]_vars => ResultIsLastGrant'
  <2> SUFFICES ASSUME TypeOK, AttemptLedger, ResultIsLastGrant, [Next]_vars,
                      NEW k \in Job
               PROVE  ResultOf(k)'
    BY DEF ResultIsLastGrant
  <2>1. CASE (\E j \in Job : Submitter(j)) \/ (\E w \in Worker : Loop(w))
    BY <2>1, SubmitterLoopResult
  <2>2. CASE \E j \in Job, f \in Fence : Execution(j, f)
    BY <2>2, ExecutionResult
  <2>3. CASE Tick \/ TickLate
    <3>1. attempt' = attempt /\ Elapse
      BY <2>3 DEF Tick, TickLate
    <3>2. /\ job'[k].status = job[k].status
          /\ job'[k].fence = job[k].fence
          /\ job'[k].result = job[k].result
      BY <3>1 DEF TypeOK, Row, Elapse
    <3> QED BY <3>1, <3>2, ResultFrame DEF ResultIsLastGrant
  <2>4. CASE UNCHANGED vars
    BY <2>4, ResultFrame DEF vars, ResultIsLastGrant
  <2> QED BY <2>1, <2>2, <2>3, <2>4 DEF Next
<1> QED BY <1>1, <1>2, TypeCorrect, LedgerCorrect, PTL DEF Spec

-----------------------------------------------------------------------------
(* Refinement: every step of the queue is one of the contract's or unseen.   *)

\* Rows that the contract cannot tell apart.
Alike(row, old) ==
  /\ PhaseOf(row.status) = PhaseOf(old.status)
  /\ row.fence = old.fence /\ row.cancel = old.cancel /\ row.result = old.result
  /\ row.dispatched # None <=> old.dispatched # None

\* The contract sees nothing of a step that leaves every row alike.
LEMMA Unseen ==
  ASSUME \A j \in Job : Alike(job'[j], job[j])
  PROVE  UNCHANGED C!cvars
<1>1. [j \in Job |-> PhaseOf(job'[j].status)] = [j \in Job |-> PhaseOf(job[j].status)]
  BY DEF Alike
<1>2. [j \in Job |-> job'[j].fence] = [j \in Job |-> job[j].fence]
  BY DEF Alike
<1>3. [j \in Job |-> job'[j].dispatched # None] = [j \in Job |-> job[j].dispatched # None]
  BY DEF Alike
<1>4. [j \in Job |-> job'[j].cancel] = [j \in Job |-> job[j].cancel]
  BY DEF Alike
<1>5. [j \in Job |-> job'[j].result] = [j \in Job |-> job[j].result]
  BY DEF Alike
<1>. QED  BY <1>1, <1>2, <1>3, <1>4, <1>5 DEF C!cvars

\* What the contract sees of a step that writes one row.
LEMMA SeenRow ==
  ASSUME job \in [Job -> Row], NEW j \in Job, NEW row, job' = [job EXCEPT ![j] = row]
  PROVE  /\ [k \in Job |-> PhaseOf(job'[k].status)] =
              [[k \in Job |-> PhaseOf(job[k].status)] EXCEPT ![j] = PhaseOf(row.status)]
         /\ [k \in Job |-> job'[k].fence] = [[k \in Job |-> job[k].fence] EXCEPT ![j] = row.fence]
         /\ [k \in Job |-> job'[k].dispatched # None] =
              [[k \in Job |-> job[k].dispatched # None] EXCEPT ![j] = row.dispatched # None]
         /\ [k \in Job |-> job'[k].cancel] =
              [[k \in Job |-> job[k].cancel] EXCEPT ![j] = row.cancel]
         /\ [k \in Job |-> job'[k].result] =
              [[k \in Job |-> job[k].result] EXCEPT ![j] = row.result]
<1>1. \A k \in Job : job'[k] = IF k = j THEN row ELSE job[k]
  OBVIOUS
<1>. QED  BY <1>1

\* A column that the row keeps is kept.
LEMMA KeptColumns ==
  ASSUME job \in [Job -> Row], NEW j \in Job, NEW row, job' = [job EXCEPT ![j] = row]
  PROVE  /\ PhaseOf(row.status) = PhaseOf(job[j].status) =>
              [k \in Job |-> PhaseOf(job'[k].status)] = [k \in Job |-> PhaseOf(job[k].status)]
         /\ row.fence = job[j].fence => [k \in Job |-> job'[k].fence] = [k \in Job |-> job[k].fence]
         /\ (row.dispatched # None <=> job[j].dispatched # None) =>
              [k \in Job |-> job'[k].dispatched # None] = [k \in Job |-> job[k].dispatched # None]
         /\ row.cancel = job[j].cancel =>
              [k \in Job |-> job'[k].cancel] = [k \in Job |-> job[k].cancel]
         /\ row.result = job[j].result =>
              [k \in Job |-> job'[k].result] = [k \in Job |-> job[k].result]
<1>1. \A k \in Job : job'[k] = IF k = j THEN row ELSE job[k]
  OBVIOUS
<1>. QED  BY <1>1

\* One row is written: each of the contract's steps on it, by what becomes of the row.
Writes(j, row) == job \in [Job -> Row] /\ j \in Job /\ job' = [job EXCEPT ![j] = row]

\* InsertJob is a submission: a row that was not there begins.
LEMMA SeenSubmit ==
  ASSUME NEW j, NEW row, Writes(j, row), job[j].status = "absent",
         row = [job[j] EXCEPT !.status = "queued"]
  PROVE  C!Submit(j)
<1>1. /\ job[j] \in Row /\ row.status = "queued" /\ row.fence = job[j].fence
      /\ row.dispatched = job[j].dispatched /\ row.cancel = job[j].cancel
      /\ row.result = job[j].result
  BY DEF Writes, Row
<1>2. /\ [k \in Job |-> job'[k].fence] = [k \in Job |-> job[k].fence]
      /\ [k \in Job |-> job'[k].dispatched # None] = [k \in Job |-> job[k].dispatched # None]
      /\ [k \in Job |-> job'[k].result] = [k \in Job |-> job[k].result]
  BY <1>1, KeptColumns DEF Writes
<1>3. [k \in Job |-> job'[k].cancel] = [k \in Job |-> job[k].cancel]
  BY <1>1, KeptColumns DEF Writes
<1>4. [k \in Job |-> PhaseOf(job'[k].status)] =
        [[k \in Job |-> PhaseOf(job[k].status)] EXCEPT ![j] = PhaseOf(row.status)]
  BY SeenRow DEF Writes
<1>. QED  BY <1>1, <1>2, <1>3, <1>4 DEF Writes, C!Submit, PhaseOf

\* A grant is a lease under the next fence.
LEMMA SeenLease ==
  ASSUME NEW j, NEW row, Writes(j, row), job[j].status \in {"queued", "running"},
         job[j].status = "running" => job[j].dispatched = None, ~job[j].cancel,
         job[j].fence < MaxFence, row.status = "running", row.fence = job[j].fence + 1,
         row.dispatched = None, row.cancel = job[j].cancel, row.result = job[j].result
  PROVE  C!Lease(j)
BY SeenRow, KeptColumns DEF Writes, C!Lease, PhaseOf

\* MarkDispatched records the dispatch of the lease that holds the row.
LEMMA SeenDispatch ==
  ASSUME NEW j, NEW row, Writes(j, row), job[j].status = "running", row.status = "running",
         row.fence = job[j].fence, row.dispatched # None, row.cancel = job[j].cancel,
         row.result = job[j].result
  PROVE  C!Dispatch(j)
<1>1. /\ [k \in Job |-> PhaseOf(job'[k].status)] = [k \in Job |-> PhaseOf(job[k].status)]
      /\ [k \in Job |-> job'[k].fence] = [k \in Job |-> job[k].fence]
      /\ [k \in Job |-> job'[k].cancel] = [k \in Job |-> job[k].cancel]
      /\ [k \in Job |-> job'[k].result] = [k \in Job |-> job[k].result]
  BY KeptColumns DEF Writes
<1>2. [k \in Job |-> job'[k].dispatched # None] =
        [[k \in Job |-> job[k].dispatched # None] EXCEPT ![j] = TRUE]
  <2>1. (row.dispatched # None) = TRUE
    OBVIOUS
  <2>. QED  BY <2>1, SeenRow DEF Writes
<1>. QED  BY <1>1, <1>2 DEF Writes, C!Dispatch, PhaseOf

\* The fenced completion publishes once, under the last fence.
LEMMA SeenPublish ==
  ASSUME NEW j, NEW row, Writes(j, row), job[j].status = "running",
         row.status = IF job[j].cancel THEN "cancelled" ELSE "succeeded",
         row.fence = job[j].fence, row.dispatched = None, row.cancel = job[j].cancel,
         row.result = job[j].fence
  PROVE  C!Publish(j)
BY SeenRow, KeptColumns DEF Writes, C!Publish, PhaseOf

\* A holder that gives its lease up requeues the job or fails it.
LEMMA SeenGiveUp ==
  ASSUME NEW j, NEW row, Writes(j, row), job[j].status = "running",
         row.status \in {"failed", "queued"}, row.fence = job[j].fence,
         row.dispatched = None, row.cancel = job[j].cancel, row.result = job[j].result
  PROVE  C!GiveUp(j)
BY SeenRow, KeptColumns DEF Writes, C!GiveUp, PhaseOf

\* A cancellation withdraws the job, and what runs only learns of it.
LEMMA SeenWithdraw ==
  ASSUME NEW j, NEW row, Writes(j, row), job[j].status \in {"queued", "running"},
         row.status = (IF job[j].status = "queued" THEN "cancelled" ELSE job[j].status),
         row.fence = job[j].fence, row.dispatched = job[j].dispatched, row.cancel = TRUE,
         row.result = job[j].result
  PROVE  C!Withdraw(j)
<1>2. /\ [k \in Job |-> job'[k].fence] = [k \in Job |-> job[k].fence]
      /\ [k \in Job |-> job'[k].dispatched # None] = [k \in Job |-> job[k].dispatched # None]
      /\ [k \in Job |-> job'[k].result] = [k \in Job |-> job[k].result]
  BY KeptColumns DEF Writes
<1>3. [k \in Job |-> job'[k].cancel] = [[k \in Job |-> job[k].cancel] EXCEPT ![j] = TRUE]
  BY SeenRow DEF Writes
<1>4. [k \in Job |-> PhaseOf(job'[k].status)] =
        [[k \in Job |-> PhaseOf(job[k].status)] EXCEPT ![j] = PhaseOf(row.status)]
  BY SeenRow DEF Writes
<1>. QED  BY <1>2, <1>3, <1>4 DEF Writes, C!Withdraw, PhaseOf

\* Deletion takes a row that is there.
LEMMA SeenRemove ==
  ASSUME NEW j, NEW row, Writes(j, row), job[j].status \notin {"absent", "deleted"},
         row.status = "deleted", row.fence = job[j].fence, row.dispatched = job[j].dispatched,
         row.cancel = job[j].cancel, row.result = job[j].result
  PROVE  C!Remove(j)
<1>1. PhaseOf(row.status) = "deleted" /\ PhaseOf(job[j].status) \notin {"absent", "deleted"}
  BY DEF PhaseOf
<1>2. /\ [k \in Job |-> job'[k].fence] = [k \in Job |-> job[k].fence]
      /\ [k \in Job |-> job'[k].dispatched # None] = [k \in Job |-> job[k].dispatched # None]
      /\ [k \in Job |-> job'[k].result] = [k \in Job |-> job[k].result]
  BY KeptColumns DEF Writes
<1>3. [k \in Job |-> job'[k].cancel] = [k \in Job |-> job[k].cancel]
  BY KeptColumns DEF Writes
<1>4. [k \in Job |-> PhaseOf(job'[k].status)] =
        [[k \in Job |-> PhaseOf(job[k].status)] EXCEPT ![j] = PhaseOf(row.status)]
  BY SeenRow DEF Writes
<1>. QED  BY <1>1, <1>2, <1>3, <1>4 DEF Writes, C!Remove

\* The sweep, and a worker that gives its dispatch up, lose some.
LEMMA SeenLose ==
  ASSUME NEW lost, lost \subseteq Job, lost # {},
         \A j \in lost : /\ job[j].status = "running" /\ job[j].dispatched # None
                        /\ job'[j].status = "unknown" /\ job'[j].fence = job[j].fence
                        /\ job'[j].dispatched = job[j].dispatched
                        /\ job'[j].cancel = job[j].cancel /\ job'[j].result = job[j].result,
         \A j \in Job \ lost : job'[j] = job[j]
  PROVE  C!Lose(lost)
<1>1. [j \in Job |-> PhaseOf(job'[j].status)]
      = [j \in Job |-> IF j \in lost THEN "unknown" ELSE PhaseOf(job[j].status)]
  BY DEF PhaseOf
<1>2. [j \in Job |-> job'[j].fence] = [j \in Job |-> job[j].fence]
      /\ [j \in Job |-> job'[j].dispatched # None] = [j \in Job |-> job[j].dispatched # None]
  OBVIOUS
<1>3. [j \in Job |-> job'[j].cancel] = [j \in Job |-> job[j].cancel]
      /\ [j \in Job |-> job'[j].result] = [j \in Job |-> job[j].result]
  OBVIOUS
<1>. QED  BY <1>1, <1>2, <1>3 DEF C!Lose, PhaseOf

\* A step the contract allows is a step of its next-state relation.
LEMMA StepOf ==
  ASSUME NEW j \in Job,
         C!Submit(j) \/ C!Lease(j) \/ C!Dispatch(j) \/ C!Publish(j) \/ C!GiveUp(j)
           \/ C!Withdraw(j) \/ C!Remove(j)
  PROVE  C!CNext
BY DEF C!CNext

\* What the submitter does is a submission, a withdrawal or unseen.
LEMMA SubmitterKeeps ==
  ASSUME TypeOK, NEW j \in Job, Submitter(j)
  PROVE  C!CNext
<1>1. job \in [Job -> Row] /\ job[j] \in Row
  BY DEF TypeOK
<1>2. CASE Enqueue(j)
  <2>1. Writes(j, [job[j] EXCEPT !.status = "queued"]) /\ job[j].status = "absent"
    BY <1>1, <1>2 DEF Enqueue, Writes
  <2>. QED  BY <2>1, SeenSubmit, StepOf
<1>3. CASE Cancel(j)
  <2>. DEFINE row == [job[j] EXCEPT !.cancel = TRUE,
                                    !.status = IF @ = "queued" THEN "cancelled" ELSE @]
  <2>1. Writes(j, row) /\ job[j].status \in {"queued", "running"}
    BY <1>1, <1>3 DEF Cancel, Writes
  <2>2. /\ row.status = (IF job[j].status = "queued" THEN "cancelled" ELSE job[j].status)
        /\ row.fence = job[j].fence /\ row.dispatched = job[j].dispatched
        /\ row.cancel = TRUE /\ row.result = job[j].result
    BY <1>1 DEF Row
  <2>. HIDE DEF row
  <2>. QED  BY <2>1, <2>2, SeenWithdraw, StepOf
<1>4. CASE Delete(j)
  <2>. DEFINE row == [job[j] EXCEPT !.status = "deleted"]
  <2>1. Writes(j, row) /\ job[j].status \notin {"absent", "deleted"}
    BY <1>1, <1>4 DEF Delete, Writes
  <2>2. /\ row.status = "deleted" /\ row.fence = job[j].fence
        /\ row.dispatched = job[j].dispatched /\ row.cancel = job[j].cancel
        /\ row.result = job[j].result
    BY <1>1 DEF Row
  <2>. HIDE DEF row
  <2>. QED  BY <2>1, <2>2, SeenRemove, StepOf
<1>. QED  BY <1>2, <1>3, <1>4 DEF Submitter

\* What the sweep finds was dispatched: the contract allows it to be lost.
LEMMA SweepKeeps ==
  ASSUME TypeOK, NEW w \in Worker, Sweep(w)
  PROVE  C!CNext \/ UNCHANGED C!cvars
<1>1. PICK lost \in SUBSET Job : lost = {j \in Job : Expired(j) /\ OpenDispatch(j)}
  OBVIOUS
<1>2. job' = [j \in Job |-> IF j \in lost THEN Swept(j) ELSE job[j]]
  BY <1>1 DEF Sweep
<1>3. CASE lost = {}
  BY <1>2, <1>3, Unseen DEF TypeOK, Alike
<1>4. CASE lost # {}
  <2>1. ASSUME NEW j \in lost
        PROVE  /\ job[j].status = "running" /\ job[j].dispatched # None
               /\ job'[j].status = "unknown" /\ job'[j].fence = job[j].fence
               /\ job'[j].dispatched = job[j].dispatched
               /\ job'[j].cancel = job[j].cancel /\ job'[j].result = job[j].result
    <3>1. job[j] \in Row /\ job'[j] = Swept(j)
      BY <1>2 DEF TypeOK
    <3>2. Expired(j) /\ OpenDispatch(j)
      BY <1>1
    <3>. QED  BY <3>1, <3>2 DEF Swept, Row, Expired, OpenDispatch
  <2>2. \A j \in Job \ lost : job'[j] = job[j]
    BY <1>2
  <2>3. C!Lose(lost)
    BY <1>4, <2>1, <2>2, SeenLose
  <2>. QED  BY <2>3 DEF C!CNext
<1>. QED  BY <1>3, <1>4

\* A running job that is runnable again has no dispatch on its row.
LEMMA GrantKeeps ==
  ASSUME TypeOK, AttemptLedger, NEW w \in Worker, NEW j \in Job, Grant(w, j) \/ GrantLost(w, j)
  PROVE  C!CNext
<1>1. job \in [Job -> Row] /\ job[j] \in Row
  BY DEF TypeOK
<1>2. Runnable(j) /\ job[j].fence < MaxFence /\ job' = [job EXCEPT ![j] = Granted(w, j)]
  BY DEF Grant, GrantLost, GrantRows
<1>3. job[j].status = "running" => job[j].dispatched = None
  BY <1>2 DEF Runnable, OpenDispatch, AttemptLedger, LedgerOf
<1>4. job[j].status \in {"queued", "running"} /\ ~job[j].cancel
  BY <1>2 DEF Runnable, Expired
<1>5. PICK row : row = Granted(w, j)
  OBVIOUS
<1>6. /\ row.status = "running" /\ row.fence = job[j].fence + 1 /\ row.dispatched = None
      /\ row.cancel = job[j].cancel /\ row.result = job[j].result
  BY <1>1, <1>5 DEF Granted, Row
<1>7. Writes(j, row)
  BY <1>1, <1>2, <1>5 DEF Writes
<1>. QED  BY <1>2, <1>3, <1>4, <1>6, <1>7, SeenLease, StepOf

\* The loops of a process lease, lose or are unseen.
LEMMA LoopKeeps ==
  ASSUME TypeOK, AttemptLedger, NEW w \in Worker, Loop(w)
  PROVE  C!CNext \/ UNCHANGED C!cvars
<1>1. CASE job' = job
  BY <1>1, Unseen DEF Alike
<1>2. CASE job' # job
  BY <1>2, SweepKeeps, GrantKeeps DEF Loop, NothingRunnable, Drain, Restart, Crash
<1>. QED  BY <1>1, <1>2

\* What a holder writes of its own lease.
LEMMA SettlesKeep ==
  ASSUME TypeOK, KnownEverywhere, NEW j \in Job, NEW f \in Fence, Settles(j, f), Fenced(j, f)
  PROVE  C!CNext \/ UNCHANGED C!cvars
<1>1. /\ job \in [Job -> Row] /\ job[j] \in Row /\ job[j].status = "running"
      /\ job[j].fence = f
  BY DEF TypeOK, Fenced
<1>2. CASE job' = job
  BY <1>2, Unseen DEF Alike
<1>3. CASE job' # job /\ Complete(j, f)
  <2>1. PICK row : row = [Unleased(j) EXCEPT
          !.status = IF job[j].cancel THEN "cancelled" ELSE "succeeded",
          !.dispatched = None, !.result = f]
    OBVIOUS
  <2>2. Writes(j, row)
    BY <1>1, <1>3, <2>1 DEF Complete, Settle, Writes
  <2>3. /\ row.status = (IF job[j].cancel THEN "cancelled" ELSE "succeeded")
        /\ row.fence = job[j].fence /\ row.dispatched = None
        /\ row.cancel = job[j].cancel /\ row.result = job[j].fence
    BY <1>1, <2>1 DEF Unleased, Row
  <2>. QED  BY <1>1, <2>2, <2>3, SeenPublish, StepOf
<1>4. ASSUME NEW class \in {"retryable", "fatal"}, job' # job /\ Fail(j, f, class)
      PROVE  C!CNext
  <2>1. PICK row : row = [Unleased(j) EXCEPT
          !.status = IF Retries(f, class) THEN "queued" ELSE "failed",
          !.lease = IF Retries(f, class) THEN RetryDelay(f) ELSE None,
          !.dispatched = None, !.error = class]
    OBVIOUS
  <2>2. Writes(j, row)
    BY <1>1, <1>4, <2>1 DEF Fail, Settle, Writes
  <2>3. /\ row.status \in {"failed", "queued"}
        /\ row.fence = job[j].fence /\ row.dispatched = None
        /\ row.cancel = job[j].cancel /\ row.result = job[j].result
    BY <1>1, <2>1 DEF Unleased, Row
  <2>. QED  BY <1>1, <2>2, <2>3, SeenGiveUp, StepOf
<1>5. CASE job' # job /\ MarkUnknown(j, f)
  <2>1. PICK row : row = [Unleased(j) EXCEPT !.status = "unknown", !.error = "unobserved"]
    OBVIOUS
  <2>2. job' = [job EXCEPT ![j] = row]
    BY <1>5, <2>1 DEF MarkUnknown, Settle
  <2>3. /\ row.status = "unknown" /\ row.fence = job[j].fence
        /\ row.dispatched = job[j].dispatched
        /\ row.cancel = job[j].cancel /\ row.result = job[j].result
    BY <1>1, <2>1 DEF Unleased, Row
  <2>4. job[j].dispatched = f /\ f # None
    BY <1>1, <1>5, NullAssumption, BoundsAssumption
    DEF MarkUnknown, KnownEverywhere, Known, DispatchKnown, Fence
  <2>5. job'[j] = row /\ \A k \in Job \ {j} : job'[k] = job[k]
    BY <1>1, <2>2
  <2>6. C!Lose({j})
    BY <1>1, <2>3, <2>4, <2>5, SeenLose
  <2>. QED  BY <2>6 DEF C!CNext
<1>6. CASE job' # job /\ Release(j, f)
  <2>1. PICK row : row = [Unleased(j) EXCEPT !.status = "queued", !.dispatched = None]
    OBVIOUS
  <2>2. Writes(j, row)
    BY <1>1, <1>6, <2>1 DEF Release, Writes
  <2>3. /\ row.status \in {"failed", "queued"}
        /\ row.fence = job[j].fence /\ row.dispatched = None
        /\ row.cancel = job[j].cancel /\ row.result = job[j].result
    BY <1>1, <2>1 DEF Unleased, Row
  <2>. QED  BY <1>1, <2>2, <2>3, SeenGiveUp, StepOf
<1>. QED  BY <1>2, <1>3, <1>4, <1>5, <1>6 DEF Settles

\* What a worker does with its lease is allowed by the contract, or unseen.
LEMMA ExecutionKeeps ==
  ASSUME TypeOK, KnownEverywhere, NEW j \in Job, NEW f \in Fence, Execution(j, f)
  PROVE  C!CNext \/ UNCHANGED C!cvars
<1>1. job \in [Job -> Row] /\ job[j] \in Row
  BY DEF TypeOK
<1>2. CASE job' = job
  BY <1>2, Unseen DEF Alike
<1>3. CASE Settles(j, f) /\ job' # job
  <2>1. Fenced(j, f)
    BY <1>3 DEF Settles, Complete, Fail, MarkUnknown, Release, Settle
  <2>. QED  BY <1>3, <2>1, SettlesKeep
<1>4. CASE MarkDispatched(j, f) \/ MarkDispatchedLost(j, f)
  <2>1. PICK row : row = [job[j] EXCEPT !.dispatched = f]
    OBVIOUS
  <2>2. Writes(j, row) /\ job[j].status = "running"
    BY <1>1, <1>4, <2>1 DEF MarkDispatched, MarkDispatchedLost, Fenced, Writes
  <2>3. /\ row.status = "running" /\ row.fence = job[j].fence /\ row.dispatched = f
        /\ row.cancel = job[j].cancel /\ row.result = job[j].result
    BY <1>1, <2>1, <2>2 DEF Row
  <2>4. f # None
    BY NullAssumption, BoundsAssumption DEF Fence
  <2>. QED  BY <2>2, <2>3, <2>4, SeenDispatch, StepOf
<1>5. CASE job' # job /\ (Heartbeat(j, f) \/ Progress(j, f))
  <2>1. ASSUME NEW k \in Job PROVE Alike(job'[k], job[k])
    <3>1. job[k] \in Row
      BY <1>1
    <3>2. CASE job' = [job EXCEPT ![j].lease = LeaseTTL]
      BY <1>1, <3>1, <3>2 DEF Alike, Row
    <3>3. CASE job' = [job EXCEPT ![j].progress = f]
      BY <1>1, <3>1, <3>3 DEF Alike, Row
    <3>. QED  BY <1>5, <3>2, <3>3 DEF Heartbeat, Progress
  <2>. QED  BY <2>1, Unseen
<1>. QED
  BY <1>2, <1>3, <1>4, <1>5 DEF Execution, StartHandler, WatchCancel, WatchError, Send,
     ContextDone, HandlerTimeout, ProbeFails, LoseClaim

\* InsertJob, CancelJob, Claim, the fenced writes and the sweep, with whatever is lost or late
\* between them, do to a job only what JobContract allows.
THEOREM ContractKept == Spec => KeepsContract
<1>1. Init => C!CInit
  <2>. SUFFICES ASSUME Init PROVE C!CInit
    OBVIOUS
  <2>1. \A j \in Job : /\ job[j].status = "absent" /\ job[j].fence = 0 /\ job[j].cancel = FALSE
                       /\ job[j].dispatched = None /\ job[j].result = 0
    BY DEF Init, NewRow
  <2>2. \A j \in Job : PhaseOf(job[j].status) = "absent" /\ (job[j].dispatched # None) = FALSE
    BY <2>1 DEF PhaseOf
  <2>. QED  BY <2>1, <2>2 DEF C!CInit
<1>2. TypeOK /\ AttemptLedger /\ KnownEverywhere /\ [Next]_vars => [C!CNext]_(C!cvars)
  <2>. SUFFICES ASSUME TypeOK, AttemptLedger, KnownEverywhere, [Next]_vars
                PROVE  C!CNext \/ UNCHANGED C!cvars
    OBVIOUS
  <2>1. CASE \E j \in Job : Submitter(j)
    BY <2>1, SubmitterKeeps
  <2>2. CASE \E w \in Worker : Loop(w)
    BY <2>2, LoopKeeps
  <2>3. CASE \E j \in Job, f \in Fence : Execution(j, f)
    BY <2>3, ExecutionKeeps
  <2>4. CASE Tick \/ TickLate
    <3>1. \A k \in Job : Alike(job'[k], job[k])
      BY <2>4 DEF Tick, TickLate, Elapse, Alike, TypeOK, Row
    <3>. QED  BY <3>1, Unseen
  <2>5. CASE UNCHANGED vars
    BY <2>5, Unseen DEF vars, Alike
  <2>. QED  BY <2>1, <2>2, <2>3, <2>4, <2>5 DEF Next
<1>. QED
  BY <1>1, <1>2, TypeCorrect, LedgerCorrect, KnownInvariant, PTL DEF Spec, KeepsContract, C!Contract
=============================================================================
