-------------------------------- MODULE Jobs --------------------------------
(***************************************************************************)
(* The durable job queue: the jobs and job_attempts tables, the statements *)
(* of internal/store/postgres/jobs_repo.go that move a row, the service in *)
(* front of them (internal/jobs/service.go) and the worker processes that  *)
(* lease, execute and settle jobs (internal/jobs/runner.go).               *)
(*                                                                         *)
(* One action is one SQL statement or transaction, or one step of a worker *)
(* between two of them; the claim transaction is two steps because its two *)
(* statements take their own snapshots (READ COMMITTED).  Time is relative *)
(* to now(): a row's lease holds lease_expires_at - now(), and Tick lowers *)
(* every timer.  -1 stands for every instant in the past.                  *)
(***************************************************************************)
EXTENDS Integers, FiniteSets

CONSTANTS
  Job,          \* job identities: (tenant, operation, idempotency_key)
  Worker,       \* worker processes, each running one Runner
  None,         \* SQL NULL
  LeaseTTL,     \* RunnerConfig.LeaseTTL, in ticks
  RetryBase,    \* Service.retryBase, in ticks
  RetryCap,     \* the cap of retryDelay, in ticks
  MaxAttempts,  \* jobs.max_attempts
  Concurrency,  \* RunnerConfig.Concurrency
  MaxFence,     \* bound: leases granted per job
  MaxFaults     \* bound: crashes, shutdowns, lost replies and late heartbeats

Fence == 1..MaxFence

ASSUME BoundsAssumption ==
  /\ MaxFence \in Nat \ {0}
  /\ MaxFaults \in Nat
  /\ MaxAttempts \in Nat \ {0}
  /\ Concurrency \in Nat \ {0}

ASSUME NullAssumption == None \notin Worker \cup Int \cup STRING

\* NewService and NewRunner replace a non-positive duration by a default.
ASSUME DurationAssumption ==
  /\ LeaseTTL \in Nat \ {0}
  /\ RetryBase \in Nat \ {0}
  /\ RetryCap \in Nat \ {0}


VARIABLES
  job,      \* the jobs table
  attempt,  \* the job_attempts table: the attempt of lease f of job j
  claim,    \* worker memory: the Claim granted as lease f of job j
  runner,   \* the Run loop of each worker
  faults    \* faults so far

vars == <<job, attempt, claim, runner, faults>>

-----------------------------------------------------------------------------
(* Types.  fence_token and attempts are both bumped by Claim and by nothing *)
(* else, so one field stands for both; status "absent" is a row that has    *)
(* not been inserted; deleted_at is set exactly when status is "deleted".   *)
(* progress and result hold the fence of the lease that wrote them.         *)

Status == {"absent", "queued", "running", "succeeded", "failed",
           "cancelled", "unknown", "deleted"}
Lease == Int \cup {None}

Row == [status     : Status,
        fence      : 0..MaxFence,
        owner      : Worker \cup {None},
        lease      : Lease,                  \* not-before when queued
        dispatched : Fence \cup {None},
        cancel     : BOOLEAN,                \* cancel_requested_at IS NOT NULL
        error      : {None, "retryable", "fatal", "unobserved"},
        progress   : 0..MaxFence,
        result     : 0..MaxFence]

AttemptStatus == {"none", "running", "succeeded", "failed", "unknown"}

\* idle: not granted, or the worker is through with it; waiting: leased, not
\* yet past the semaphore; handling: in the handler; flip, release, abandon:
\* translate has chosen Complete, Release or MarkUnknown after a context error.
ClaimStep == {"idle", "waiting", "handling", "flip", "release", "abandon"}
ClaimRecord == [pc         : ClaimStep,
                by         : Worker \cup {None},
                cancelled  : BOOLEAN,        \* the handler's context is done
                dispatched : BOOLEAN,        \* Claim.dispatched
                sent       : BOOLEAN]        \* history: the upstream effect

NewRow == [status |-> "absent", fence |-> 0, owner |-> None, lease |-> None,
           dispatched |-> None, cancel |-> FALSE, error |-> None,
           progress |-> 0, result |-> 0]
NoClaim == [pc |-> "idle", by |-> None, cancelled |-> FALSE,
            dispatched |-> FALSE, sent |-> FALSE]

TypeOK ==
  /\ job \in [Job -> Row]
  /\ attempt \in [Job -> [Fence -> AttemptStatus]]
  /\ claim \in [Job -> [Fence -> ClaimRecord]]
  /\ runner \in [Worker -> {"up", "claiming", "draining"}]
  /\ faults \in 0..MaxFaults

Init ==
  /\ job = [j \in Job |-> NewRow]
  /\ attempt = [j \in Job |-> [f \in Fence |-> "none"]]
  /\ claim = [j \in Job |-> [f \in Fence |-> NoClaim]]
  /\ runner = [w \in Worker |-> "up"]
  /\ faults = 0

Fault ==
  /\ faults < MaxFaults
  /\ faults' = faults + 1

-----------------------------------------------------------------------------
(* The submitter. *)

\* Enqueue of an identity the table does not hold: InsertJob's INSERT.  A
\* replay or a conflict finds the row and writes nothing.
Enqueue(j) ==
  /\ job[j].status = "absent"
  /\ job' = [job EXCEPT ![j].status = "queued"]
  /\ UNCHANGED <<attempt, claim, runner, faults>>

\* Cancel reads the row first, but only to choose the error it returns: the
\* UPDATE carries its own status condition, which is the guard here.
Cancel(j) ==
  /\ job[j].status \in {"queued", "running"}
  /\ job' = [job EXCEPT ![j].cancel = TRUE,
                        ![j].status = IF @ = "queued" THEN "cancelled" ELSE @]
  /\ UNCHANGED <<attempt, claim, runner, faults>>

\* DeleteJob tombstones a row in any state and leaves its lease columns alone.
Delete(j) ==
  /\ job[j].status \notin {"absent", "deleted"}
  /\ job' = [job EXCEPT ![j].status = "deleted"]
  /\ UNCHANGED <<attempt, claim, runner, faults>>

-----------------------------------------------------------------------------
(* Claim: sweep the expired dispatches, then lease the next runnable job. *)

Expired(j) ==
  /\ job[j].status = "running"
  /\ job[j].lease # None
  /\ job[j].lease < 0

OpenDispatch(j) ==
  /\ job[j].dispatched # None
  /\ attempt[j][job[j].dispatched] = "running"

\* Faulty variants: the reclaim does not look for a dispatch; expired leases are not
\* reclaimed.
RunnableThoughDispatched(j) ==
  /\ ~job[j].cancel
  /\ \/ /\ job[j].status = "queued"
        /\ job[j].lease # None => job[j].lease <= 0
     \/ Expired(j)

RunnableQueuedOnly(j) ==
  /\ ~job[j].cancel
  /\ job[j].status = "queued"
  /\ job[j].lease # None => job[j].lease <= 0

Runnable(j) ==
  /\ ~job[j].cancel
  /\ \/ /\ job[j].status = "queued"
        /\ job[j].lease # None => job[j].lease <= 0
     \/ /\ Expired(j)
        /\ ~OpenDispatch(j)

Holds(w, j, f) == claim[j][f].pc # "idle" /\ claim[j][f].by = w

\* The Run loop claims the next job only after the last one passed the semaphore.
Polls(w) ==
  /\ runner[w] = "up"
  /\ \A j \in Job, f \in Fence : ~(Holds(w, j, f) /\ claim[j][f].pc = "waiting")

Swept(j) ==
  [job[j] EXCEPT !.status = "unknown", !.error = "unobserved",
                 !.owner = None, !.lease = None]

\* Faulty variant: the sweep passes over cancelled jobs, as the grant does.
SweepUncancelled(w) ==
  /\ Polls(w)
  /\ LET lost == {j \in Job : Expired(j) /\ OpenDispatch(j) /\ ~job[j].cancel}
     IN /\ job' = [j \in Job |-> IF j \in lost THEN Swept(j) ELSE job[j]]
        /\ attempt' = [j \in Job |->
             IF j \in lost
             THEN [attempt[j] EXCEPT ![job[j].dispatched] = "unknown"]
             ELSE attempt[j]]
  /\ runner' = [runner EXCEPT ![w] = "claiming"]
  /\ UNCHANGED <<claim, faults>>

\* First statement.  The locks it takes make the rows stale for every fenced
\* write from here on, so its effect is visible at once to those who matter.
Sweep(w) ==
  /\ Polls(w)
  /\ LET lost == {j \in Job : Expired(j) /\ OpenDispatch(j)}
     IN /\ job' = [j \in Job |-> IF j \in lost THEN Swept(j) ELSE job[j]]
        /\ attempt' = [j \in Job |->
             IF j \in lost
             THEN [attempt[j] EXCEPT ![job[j].dispatched] = "unknown"]
             ELSE attempt[j]]
  /\ runner' = [runner EXCEPT ![w] = "claiming"]
  /\ UNCHANGED <<claim, faults>>

Granted(w, j) ==
  [job[j] EXCEPT !.status = "running", !.fence = @ + 1, !.owner = w,
                 !.lease = LeaseTTL, !.dispatched = None, !.error = None]

\* Faulty variant: the attempts of earlier leases stay open.
GrantRowsOpen(w, j) ==
  /\ job' = [job EXCEPT ![j] = Granted(w, j)]
  /\ attempt' = [attempt EXCEPT ![j][job[j].fence + 1] = "running"]

\* The row and attempt writes of a grant: still-open attempts are closed as
\* unknown and the new lease's attempt row is inserted.
GrantRows(w, j) ==
  /\ job' = [job EXCEPT ![j] = Granted(w, j)]
  /\ attempt' = [attempt EXCEPT ![j] =
       [f \in Fence |-> IF f = job[j].fence + 1 THEN "running"
                        ELSE IF attempt[j][f] = "running" THEN "unknown"
                        ELSE attempt[j][f]]]

\* Second statement and commit.  FOR UPDATE SKIP LOCKED passes over rows that
\* another session has locked, so any runnable row may be the one it takes.
Grant(w, j) ==
  /\ runner[w] = "claiming"
  /\ Runnable(j)
  /\ job[j].fence < MaxFence
  /\ GrantRows(w, j)
  /\ claim' = [claim EXCEPT ![j][job[j].fence + 1] =
                 [NoClaim EXCEPT !.pc = "waiting", !.by = w]]
  /\ runner' = [runner EXCEPT ![w] = "up"]
  /\ UNCHANGED faults

\* The transaction commits but its reply is lost: the row is leased, nobody
\* works on it.
GrantLost(w, j) ==
  /\ runner[w] = "claiming"
  /\ Runnable(j)
  /\ job[j].fence < MaxFence
  /\ GrantRows(w, j)
  /\ Fault
  /\ runner' = [runner EXCEPT ![w] = "up"]
  /\ UNCHANGED claim

NothingRunnable(w) ==
  /\ runner[w] = "claiming"
  /\ \A j \in Job : ~(Runnable(j) /\ job[j].fence < MaxFence)
  /\ runner' = [runner EXCEPT ![w] = "up"]
  /\ UNCHANGED <<job, attempt, claim, faults>>

-----------------------------------------------------------------------------
(* Run: from the claim to the handler. *)

Busy(w) ==
  {c \in Job \X Fence : /\ Holds(w, c[1], c[2])
                        /\ claim[c[1]][c[2]].pc # "waiting"}

FreeSlot(w) == Cardinality(Busy(w)) < Concurrency

\* The claim passes the semaphore.  In a draining worker the select may still
\* choose this branch; the handler's context is done from the start.
StartHandler(j, f) ==
  /\ claim[j][f].pc = "waiting"
  /\ FreeSlot(claim[j][f].by)
  /\ claim' = [claim EXCEPT
       ![j][f].pc = "handling",
       ![j][f].cancelled = (runner[claim[j][f].by] = "draining")]
  /\ UNCHANGED <<job, attempt, runner, faults>>

\* The condition of every worker write: status, owner and fence token, and
\* not the lease's age.
Fenced(j, f) ==
  /\ job[j].status = "running"
  /\ job[j].owner = claim[j][f].by
  /\ job[j].fence = f

\* The worker is through with the claim; whether it acted upstream stays known.
Done(j, f) ==
  claim' = [claim EXCEPT ![j][f] = [NoClaim EXCEPT !.sent = claim[j][f].sent]]

\* Faulty variant: whoever comes first.
SettleUnfenced(j, f, row, outcome) ==
  IF job[j].status = "running"
  THEN /\ job' = [job EXCEPT ![j] = row]
       /\ attempt' = [attempt EXCEPT ![j][f] = outcome]
  ELSE UNCHANGED <<job, attempt>>

\* A terminal transaction: the fenced row update and the update of the open
\* attempt commit together or not at all; a stale worker changes nothing.
Settle(j, f, row, outcome) ==
  IF Fenced(j, f) /\ attempt[j][f] = "running"
  THEN /\ job' = [job EXCEPT ![j] = row]
       /\ attempt' = [attempt EXCEPT ![j][f] = outcome]
  ELSE UNCHANGED <<job, attempt>>

Unleased(j) == [job[j] EXCEPT !.owner = None, !.lease = None]

-----------------------------------------------------------------------------
(* The watchdog and the handler. *)

Live(j, f) == claim[j][f].pc \notin {"idle", "waiting"} /\ ~claim[j][f].cancelled

Heartbeat(j, f) ==
  /\ Live(j, f)
  /\ IF Fenced(j, f)
     THEN job' = [job EXCEPT ![j].lease = LeaseTTL] /\ UNCHANGED claim
     ELSE claim' = [claim EXCEPT ![j][f].cancelled = TRUE] /\ UNCHANGED job
  /\ UNCHANGED <<attempt, runner, faults>>

\* The cancel probe: the context ends on a request and on a lost lease.
WatchCancel(j, f) ==
  /\ Live(j, f)
  /\ Fenced(j, f) => job[j].cancel
  /\ claim' = [claim EXCEPT ![j][f].cancelled = TRUE]
  /\ UNCHANGED <<job, attempt, runner, faults>>

\* The heartbeat or the probe fails in the database.
WatchError(j, f) ==
  /\ Live(j, f)
  /\ Fault
  /\ claim' = [claim EXCEPT ![j][f].cancelled = TRUE]
  /\ UNCHANGED <<job, attempt, runner>>

\* A stale worker's progress changes nothing, so only a fenced one is a step.
Progress(j, f) ==
  /\ claim[j][f].pc = "handling"
  /\ Fenced(j, f)
  /\ job' = [job EXCEPT ![j].progress = f]
  /\ UNCHANGED <<attempt, claim, runner, faults>>

MarkDispatched(j, f) ==
  /\ claim[j][f].pc = "handling"
  /\ Fenced(j, f)
  /\ job' = [job EXCEPT ![j].dispatched = f]
  /\ claim' = [claim EXCEPT ![j][f].dispatched = TRUE]
  /\ UNCHANGED <<attempt, runner, faults>>

\* The update commits, the handler sees an error: Claim.dispatched stays false.
MarkDispatchedLost(j, f) ==
  /\ claim[j][f].pc = "handling"
  /\ Fenced(j, f)
  /\ Fault
  /\ job' = [job EXCEPT ![j].dispatched = f]
  /\ UNCHANGED <<attempt, claim, runner>>

\* The upstream side effect; handlers have it only after MarkDispatched
\* returned nil (extract/service.go:271-288, rag/service.go attemptEmbed).
Send(j, f) ==
  /\ claim[j][f].pc = "handling"
  /\ claim[j][f].dispatched
  /\ claim' = [claim EXCEPT ![j][f].sent = TRUE]
  /\ UNCHANGED <<job, attempt, runner, faults>>

-----------------------------------------------------------------------------
(* translate: the handler's return becomes one fenced transition. *)

\* The handler returned nil, or the owner cancelled ("flip").
Complete(j, f) ==
  /\ claim[j][f].pc \in {"handling", "flip"}
  /\ Settle(j, f,
       [Unleased(j) EXCEPT
          !.status = IF job[j].cancel THEN "cancelled" ELSE "succeeded",
          !.dispatched = None, !.result = f],
       "succeeded")
  /\ Done(j, f)
  /\ UNCHANGED <<runner, faults>>

RetryDelay(n) == IF RetryBase * 2^n >= RetryCap THEN RetryCap ELSE RetryBase * 2^n

\* Claim.job was read back by the grant, so its attempt count is already f.
Retries(f, class) == class = "retryable" /\ f + 1 < MaxAttempts

Fail(j, f, class) ==
  /\ claim[j][f].pc = "handling"
  /\ Settle(j, f,
       [Unleased(j) EXCEPT
          !.status = IF Retries(f, class) THEN "queued" ELSE "failed",
          !.lease = IF Retries(f, class) THEN RetryDelay(f) ELSE None,
          !.dispatched = None, !.error = class],
       "failed")
  /\ Done(j, f)
  /\ UNCHANGED <<runner, faults>>

\* The handler returned a context error; translate asks whether the owner
\* cancelled and picks the transition before it makes it.
Translate(j, f) ==
  claim' = [claim EXCEPT ![j][f].pc =
    IF Fenced(j, f) /\ job[j].cancel THEN "flip"
    ELSE IF claim[j][f].dispatched THEN "abandon"
    ELSE "release"]

ContextDone(j, f) ==
  /\ claim[j][f].pc = "handling"
  /\ claim[j][f].cancelled
  /\ Translate(j, f)
  /\ UNCHANGED <<job, attempt, runner, faults>>

\* A deadline of the handler's own, while the watchdog goes on.
HandlerTimeout(j, f) ==
  /\ claim[j][f].pc = "handling"
  /\ Fault
  /\ Translate(j, f)
  /\ UNCHANGED <<job, attempt, runner>>

\* The question fails in the database: translate goes on as if nobody cancelled.
ProbeFails(j, f) ==
  /\ claim[j][f].pc = "handling"
  /\ claim[j][f].cancelled
  /\ Fault
  /\ claim' = [claim EXCEPT ![j][f].pc =
                 IF claim[j][f].dispatched THEN "abandon" ELSE "release"]
  /\ UNCHANGED <<job, attempt, runner>>

MarkUnknown(j, f) ==
  /\ claim[j][f].pc = "abandon"
  /\ Settle(j, f, [Unleased(j) EXCEPT !.status = "unknown", !.error = "unobserved"],
            "unknown")
  /\ Done(j, f)
  /\ UNCHANGED <<runner, faults>>

\* Release: of an undispatched claim, and by a draining worker of a claim that
\* still waits for the semaphore.  It does not ask for an open attempt.
Release(j, f) ==
  /\ \/ claim[j][f].pc = "release"
     \/ /\ claim[j][f].pc = "waiting"
        /\ runner[claim[j][f].by] = "draining"
  /\ IF Fenced(j, f)
     THEN /\ job' = [job EXCEPT ![j] =
               [Unleased(j) EXCEPT !.status = "queued", !.dispatched = None]]
          /\ attempt' = [attempt EXCEPT ![j][f] =
               IF @ = "running" THEN "unknown" ELSE @]
     ELSE UNCHANGED <<job, attempt>>
  /\ Done(j, f)
  /\ UNCHANGED <<runner, faults>>

\* The terminal transaction fails in the database; translate drops the error.
LoseClaim(j, f) ==
  /\ claim[j][f].pc # "idle"
  /\ claim[j][f].pc = "waiting" => runner[claim[j][f].by] = "draining"
  /\ Fault
  /\ Done(j, f)
  /\ UNCHANGED <<job, attempt, runner>>

-----------------------------------------------------------------------------
(* Worker processes and time. *)

\* Run's context is cancelled: no more claims, the handlers' contexts end.  A
\* claim transaction cut short rolls back, that is, it never began.
Drain(w) ==
  /\ runner[w] = "up"
  /\ Fault
  /\ runner' = [runner EXCEPT ![w] = "draining"]
  /\ claim' = [j \in Job |-> [f \in Fence |->
       IF Holds(w, j, f) /\ claim[j][f].pc # "waiting"
       THEN [claim[j][f] EXCEPT !.cancelled = TRUE]
       ELSE claim[j][f]]]
  /\ UNCHANGED <<job, attempt>>

\* Run returned after wg.Wait; a new process takes the worker's place.
Restart(w) ==
  /\ runner[w] = "draining"
  /\ \A j \in Job, f \in Fence : ~Holds(w, j, f)
  /\ runner' = [runner EXCEPT ![w] = "up"]
  /\ UNCHANGED <<job, attempt, claim, faults>>

\* The process dies and is restarted: its claims are gone from memory.
Crash(w) ==
  /\ runner[w] # "claiming"
  /\ Fault
  /\ runner' = [runner EXCEPT ![w] = "up"]
  /\ claim' = [j \in Job |-> [f \in Fence |->
       IF Holds(w, j, f) THEN [NoClaim EXCEPT !.sent = claim[j][f].sent]
       ELSE claim[j][f]]]
  /\ UNCHANGED <<job, attempt>>

\* A claim whose worker is about to renew the lease: heartbeats come three to
\* a lease, and a claim with a free slot does not wait for one.
Punctual(j, f) ==
  /\ Fenced(j, f)
  /\ \/ Live(j, f)
     \/ claim[j][f].pc = "waiting" /\ FreeSlot(claim[j][f].by)

Due == \E j \in Job, f \in Fence : Punctual(j, f) /\ job[j].lease = 0

Later(lease) == IF lease \in {None, -1} THEN lease ELSE lease - 1

Elapse == job' = [j \in Job |-> [job[j] EXCEPT !.lease = Later(@)]]

Tick ==
  /\ ~Due
  /\ Elapse
  /\ UNCHANGED <<attempt, claim, runner, faults>>

\* A stalled process: a lease that should have been renewed runs out.
TickLate ==
  /\ Due
  /\ Fault
  /\ Elapse
  /\ UNCHANGED <<attempt, claim, runner>>

-----------------------------------------------------------------------------
Submitter(j) == Enqueue(j) \/ Cancel(j) \/ Delete(j)

Loop(w) ==
  \/ Sweep(w)
  \/ \E j \in Job : Grant(w, j) \/ GrantLost(w, j)
  \/ NothingRunnable(w)
  \/ Drain(w) \/ Restart(w) \/ Crash(w)

Settles(j, f) ==
  \/ Complete(j, f)
  \/ \E class \in {"retryable", "fatal"} : Fail(j, f, class)
  \/ MarkUnknown(j, f)
  \/ Release(j, f)

Execution(j, f) ==
  \/ StartHandler(j, f)
  \/ Heartbeat(j, f) \/ WatchCancel(j, f) \/ WatchError(j, f)
  \/ Progress(j, f)
  \/ MarkDispatched(j, f) \/ MarkDispatchedLost(j, f) \/ Send(j, f)
  \/ ContextDone(j, f) \/ HandlerTimeout(j, f) \/ ProbeFails(j, f)
  \/ Settles(j, f)
  \/ LoseClaim(j, f)

Next ==
  \/ \E j \in Job : Submitter(j)
  \/ \E w \in Worker : Loop(w)
  \/ \E j \in Job, f \in Fence : Execution(j, f)
  \/ Tick
  \/ TickLate

Spec == Init /\ [][Next]_vars

\* The Run loop polls, the database commits, handlers return (every upstream
\* call they make has a deadline), tickers fire and time passes.  Nothing is
\* assumed of the submitter, and no fault is ever due.
Fairness ==
  /\ WF_vars(Tick)
  /\ \A w \in Worker :
       /\ WF_vars(Sweep(w))
       /\ WF_vars((\E j \in Job : Grant(w, j)) \/ NothingRunnable(w))
       /\ WF_vars(Restart(w))
  /\ \A j \in Job, f \in Fence :
       /\ WF_vars(Heartbeat(j, f))
       /\ WF_vars(StartHandler(j, f) \/ ContextDone(j, f) \/ Settles(j, f))

FairSpec == Spec /\ Fairness

-----------------------------------------------------------------------------
(* Safety. *)

\* The ledger of attempts always agrees with the row: no attempt other than
\* the last lease's is open, a running job has exactly that one open and its
\* owner is the worker it was granted to, and a job that is not running (and
\* was not deleted under its worker) has none open.  Claim, the sweep and the
\* four terminal transactions each move both tables.
LedgerOf(j) ==
  /\ \A f \in Fence :
       /\ attempt[j][f] = "none" <=> f > job[j].fence
       /\ attempt[j][f] = "running" => f = job[j].fence
  /\ job[j].status = "running" =>
       /\ job[j].fence > 0
       /\ attempt[j][job[j].fence] = "running"
       /\ job[j].owner # None
       /\ job[j].dispatched \in {None, job[j].fence}
  /\ job[j].status = "absent" => job[j].fence = 0
  /\ job[j].status \notin {"running", "deleted"} =>
       \A f \in Fence : attempt[j][f] # "running"

AttemptLedger == \A j \in Job : LedgerOf(j)

\* A published result is the last lease's: whatever workers hold older leases,
\* expired, stalled or restarted, the result of a job was written by the lease
\* with the highest fence and its attempt is the one that succeeded (JOB-02).
ResultOf(j) ==
  job[j].result # 0 =>
    /\ job[j].result = job[j].fence
    /\ attempt[j][job[j].result] = "succeeded"
    /\ job[j].status \in {"succeeded", "cancelled", "deleted"}

ResultIsLastGrant == \A j \in Job : ResultOf(j)

\* No silent re-dispatch: a lease that acted upstream is followed by another
\* lease of the same job only when its own worker saw the attempt fail and said
\* so; a crash, a lost lease or a shutdown after the act never reruns the job.
NoSilentRedispatch ==
  \A j \in Job, f \in Fence :
    claim[j][f].sent /\ f < job[j].fence => attempt[j][f] = "failed"

\* What a worker remembers of its dispatch agrees with the row: a remembered
\* dispatch belongs to the last lease and is on the row as long as the job runs,
\* so no lease follows it; release is chosen only by a worker with no dispatch.
\* This is why NoSilentRedispatch holds.
DispatchKnown(j, f) ==
  /\ f > job[j].fence => claim[j][f] = NoClaim
  /\ claim[j][f].dispatched =>
       /\ f = job[j].fence
       /\ job[j].status # "queued"
       /\ job[j].status = "running" => job[j].dispatched = f
  /\ claim[j][f].sent /\ f = job[j].fence =>
       /\ job[j].status = "queued" => attempt[j][f] = "failed"
       /\ job[j].status = "running" => job[j].dispatched = f
  /\ claim[j][f].pc \in {"idle", "waiting", "release"} => ~claim[j][f].dispatched
  /\ claim[j][f].pc = "abandon" => claim[j][f].dispatched
  /\ claim[j][f].pc # "idle" /\ claim[j][f].sent => claim[j][f].dispatched

DispatchRemembered == \A j \in Job, f \in Fence : DispatchKnown(j, f)

-----------------------------------------------------------------------------
(* Refinement: the rows, seen without workers, leases in time and attempts,  *)
(* keep the contract of JobContract.                                        *)

PhaseOf(status) == IF status = "queued" THEN "pending"
                   ELSE IF status = "running" THEN "leased" ELSE status

C == INSTANCE JobContract WITH
       MaxLeases  <- MaxFence,
       phase      <- [j \in Job |-> PhaseOf(job[j].status)],
       leases     <- [j \in Job |-> job[j].fence],
       dispatched <- [j \in Job |-> job[j].dispatched # None],
       cancelled  <- [j \in Job |-> job[j].cancel],
       published  <- [j \in Job |-> job[j].result]

\* Every step of the queue is a step the contract allows, or none it can see.
KeepsContract == C!Contract

-----------------------------------------------------------------------------
(* Liveness. *)

Pending(j) == job[j].status \in {"queued", "running"}

\* Every job nobody cancels settles: retries are bounded, abandoned leases run
\* out and are reclaimed or swept.
JobsSettle ==
  \A j \in Job : Pending(j) ~> (~Pending(j) \/ job[j].cancel)

\* A dispatched job does not stay running, cancelled or not: its worker settles
\* it or the sweep finds it.
DispatchesResolve ==
  \A j \in Job : (job[j].status = "running" /\ job[j].dispatched # None)
    ~> job[j].status # "running"

-----------------------------------------------------------------------------
(* What the repository says of the queue and the code does not do. *)

\* service.go:342-344: "a running job flips when its worker's next fenced write
\* observes cancel_requested": every requested cancellation takes effect.
CancelSettles ==
  \A j \in Job : job[j].cancel ~> ~Pending(j)
=============================================================================
