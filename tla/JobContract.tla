---------------------------- MODULE JobContract ----------------------------
(***************************************************************************)
(* What the job queue promises the submitter of a job and the handlers that *)
(* execute it, without workers, clocks, attempts or lost messages: a job is *)
(* leased to one holder at a time; only the holder of the last lease        *)
(* publishes; once that holder has recorded a dispatch, the job is leased    *)
(* again only if the holder hands it back, and is otherwise settled as       *)
(* unknown; a cancelled job is not leased again; what is settled stays.      *)
(***************************************************************************)
EXTENDS Naturals

CONSTANTS
  Job,
  MaxLeases   \* bound: leases of a job

VARIABLES
  phase,       \* where each job is
  leases,      \* leases granted so far; the last one is the current one
  dispatched,  \* the current lease recorded its dispatch
  cancelled,   \* the owner asked for cancellation
  published    \* the lease that published the result, 0 for none

cvars == <<phase, leases, dispatched, cancelled, published>>

Settled == {"succeeded", "failed", "cancelled", "unknown"}
Phase == {"absent", "pending", "leased", "deleted"} \cup Settled

CInit ==
  /\ phase = [j \in Job |-> "absent"]
  /\ leases = [j \in Job |-> 0]
  /\ dispatched = [j \in Job |-> FALSE]
  /\ cancelled = [j \in Job |-> FALSE]
  /\ published = [j \in Job |-> 0]

Submit(j) ==
  /\ phase[j] = "absent"
  /\ phase' = [phase EXCEPT ![j] = "pending"]
  /\ UNCHANGED <<leases, dispatched, cancelled, published>>

\* A lease of a waiting job, or of one whose holder is lost before it dispatched.
Lease(j) ==
  /\ phase[j] \in {"pending", "leased"}
  /\ phase[j] = "leased" => ~dispatched[j]
  /\ ~cancelled[j]
  /\ leases[j] < MaxLeases
  /\ phase' = [phase EXCEPT ![j] = "leased"]
  /\ leases' = [leases EXCEPT ![j] = @ + 1]
  /\ dispatched' = [dispatched EXCEPT ![j] = FALSE]
  /\ UNCHANGED <<cancelled, published>>

Dispatch(j) ==
  /\ phase[j] = "leased"
  /\ dispatched' = [dispatched EXCEPT ![j] = TRUE]
  /\ UNCHANGED <<phase, leases, cancelled, published>>

\* The holder publishes; a requested cancellation takes the success away.
Publish(j) ==
  /\ phase[j] = "leased"
  /\ phase' = [phase EXCEPT ![j] = IF cancelled[j] THEN "cancelled" ELSE "succeeded"]
  /\ dispatched' = [dispatched EXCEPT ![j] = FALSE]
  /\ published' = [published EXCEPT ![j] = leases[j]]
  /\ UNCHANGED <<leases, cancelled>>

\* The holder reports a failure, or gives the job back to be leased again.
GiveUp(j) ==
  /\ phase[j] = "leased"
  /\ \E p \in {"failed", "pending"} : phase' = [phase EXCEPT ![j] = p]
  /\ dispatched' = [dispatched EXCEPT ![j] = FALSE]
  /\ UNCHANGED <<leases, cancelled, published>>

\* What became of some dispatches will never be known.
Lose(lost) ==
  /\ lost # {}
  /\ \A j \in lost : phase[j] = "leased" /\ dispatched[j]
  /\ phase' = [j \in Job |-> IF j \in lost THEN "unknown" ELSE phase[j]]
  /\ UNCHANGED <<leases, dispatched, cancelled, published>>

Withdraw(j) ==
  /\ phase[j] \in {"pending", "leased"}
  /\ cancelled' = [cancelled EXCEPT ![j] = TRUE]
  /\ phase' = [phase EXCEPT ![j] = IF @ = "pending" THEN "cancelled" ELSE @]
  /\ UNCHANGED <<leases, dispatched, published>>

Remove(j) ==
  /\ phase[j] \notin {"absent", "deleted"}
  /\ phase' = [phase EXCEPT ![j] = "deleted"]
  /\ UNCHANGED <<leases, dispatched, cancelled, published>>

CNext ==
  \/ \E j \in Job : \/ Submit(j) \/ Lease(j) \/ Dispatch(j) \/ Publish(j)
                    \/ GiveUp(j) \/ Withdraw(j) \/ Remove(j)
  \/ \E lost \in SUBSET Job : Lose(lost)

Contract == CInit /\ [][CNext]_cvars
=============================================================================
