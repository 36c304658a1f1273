------------------------------- MODULE Billing -------------------------------
(***************************************************************************)
(* The liability ledger of one tenant: the reservations and usage_records   *)
(* tables and the transactions of internal/billing/service.go over          *)
(* internal/store/postgres/billing_repo.go.                                 *)
(*                                                                         *)
(* Reserve is the long transaction: it locks the budgets that apply, one    *)
(* row after the other, then reads the liability of each by two statements  *)
(* that take their own snapshots (READ COMMITTED), then inserts.  The other *)
(* transactions begin with the reservation's row lock and are one step.     *)
(* Rows of a reservation move in one UPDATE and are one record here.        *)
(* Money and token budgets both bound a sum; an amount stands for either.   *)
(***************************************************************************)
EXTENDS Integers, Sequences, FiniteSets, FiniteSetsExt

CONSTANTS
  Reservation,  \* reservation identities, one per priced attempt
  Tenant,       \* the tenant, as a subject
  Payer,        \* the billing subject of each reservation
  Keys,         \* the further subjects each Reserve names in SubjectKeys
  Budgets,      \* the budgets, in the order of (subject_type, subject_id, id)
  Bounds,       \* estimates that are reserved
  Charges,      \* amounts that are settled; one may exceed its bound
  Period,       \* length of a budget's period
  MaxNow        \* bound: the clock

Budget == DOMAIN Budgets

ASSUME LedgerAssumption ==
  /\ Budget = 1 .. Len(Budgets)
  /\ \A b \in Budget :
       /\ Budgets[b].limit \in Nat
       /\ Budgets[b].starts \in Nat
       /\ Budgets[b].ends \in Nat
  /\ Bounds \subseteq Nat
  /\ Charges \subseteq Nat
  /\ Period \in Nat \ {0}
  /\ MaxNow \in Nat

VARIABLES
  row,    \* reservations
  usage,  \* usage_records
  tx,     \* the open Reserve transaction of each reservation
  now     \* the database's and the services' clock

ledger == <<row, usage, tx, now>>

State == {"none", "held", "settled", "unknown", "released"}
NoTx == [pc |-> "none", now |-> 0, bound |-> 0, locked |-> {}, passed |-> {},
         held |-> 0]

TypeOK ==
  /\ row \in [Reservation -> [state : State, bound : Nat, dispatched : BOOLEAN,
                              checked : SUBSET Budget]]  \* history: budgets that admitted it
  /\ usage \in [Reservation -> [recorded : BOOLEAN, amount : Nat, at : Nat]]
  /\ tx \in [Reservation -> [pc : {"none", "locking", "reading", "summing"},
                             now : Nat, bound : Nat, locked : SUBSET Budget,
                             passed : SUBSET Budget, held : Nat]]
  /\ now \in 0..MaxNow

Init ==
  /\ row = [r \in Reservation |->
              [state |-> "none", bound |-> 0, dispatched |-> FALSE, checked |-> {}]]
  /\ usage = [r \in Reservation |-> [recorded |-> FALSE, amount |-> 0, at |-> 0]]
  /\ tx = [r \in Reservation |-> NoTx]
  /\ now = 0

-----------------------------------------------------------------------------
(* Reserve. *)

Subjects(r) == {Payer[r], Tenant} \cup Keys[r]

Applicable(r, t) ==
  {b \in Budget : /\ Budgets[b].holder \in Subjects(r)
                  /\ Budgets[b].starts <= t
                  /\ Budgets[b].ends > t}

PeriodStart(t) == t - (t % Period)

\* The start of the window in which settled usage counts.
LiabilityFrom(b, t) ==
  IF Budgets[b].starts > PeriodStart(t) THEN Budgets[b].starts ELSE PeriodStart(t)

\* The canonical row or an attribution row of r counts against b.
Counts(b, r) == Budgets[b].holder \in Subjects(r)

\* Faulty variant: unknown outcomes are forgotten.
OutstandingHeld(b) == {r \in Reservation : Counts(b, r) /\ row[r].state = "held"}

Outstanding(b) == {r \in Reservation : Counts(b, r) /\ row[r].state \in {"held", "unknown"}}

\* A usage record carries the billing subject alone; a tenant budget counts them all.
Settled(b, from) ==
  {r \in Reservation : /\ usage[r].recorded
                       /\ usage[r].at >= from
                       /\ Budgets[b].holder \in {Payer[r], Tenant}}

\* now is read before the transaction begins.
Begin(r, bound) ==
  /\ row[r].state = "none"
  /\ tx[r].pc = "none"
  /\ tx' = [tx EXCEPT ![r] =
               [NoTx EXCEPT !.pc = IF Applicable(r, now) = {} THEN "reading" ELSE "locking",
                            !.now = now, !.bound = bound]]
  /\ UNCHANGED <<row, usage, now>>

First(set) == CHOOSE b \in set : \A c \in set : b <= c

Free(b) == \A r \in Reservation : b \notin tx[r].locked

\* Faulty variant: FOR UPDATE without ORDER BY.
LockAny(r) ==
  LET wanted == Applicable(r, tx[r].now) \ tx[r].locked
  IN /\ tx[r].pc = "locking"
     /\ \E b \in wanted :
          /\ Free(b)
          /\ tx' = [tx EXCEPT ![r].locked = @ \cup {b},
                              ![r].pc = IF wanted = {b} THEN "reading" ELSE @]
     /\ UNCHANGED <<row, usage, now>>

\* LockActiveBudgets takes its rows in order, waiting for each.
Lock(r) ==
  LET wanted == Applicable(r, tx[r].now) \ tx[r].locked
      b == First(wanted)
  IN /\ tx[r].pc = "locking"
     /\ wanted # {}
     /\ Free(b)
     /\ tx' = [tx EXCEPT ![r].locked = @ \cup {b},
                         ![r].pc = IF wanted = {b} THEN "reading" ELSE @]
     /\ UNCHANGED <<row, usage, now>>

Unread(r) == Applicable(r, tx[r].now) \ tx[r].passed

BoundOf == [q \in Reservation |-> row[q].bound]
AmountOf == [q \in Reservation |-> usage[q].amount]

\* Liabilities, first statement: what is held or unknown.
ReadOutstanding(r) ==
  /\ tx[r].pc = "reading"
  /\ Unread(r) # {}
  /\ tx' = [tx EXCEPT ![r].pc = "summing",
                      ![r].held = SumFunctionOnSet(BoundOf, Outstanding(First(Unread(r))))]
  /\ UNCHANGED <<row, usage, now>>

Rollback(r) == tx' = [tx EXCEPT ![r] = NoTx]

\* Liabilities, second statement, and admit: existing liability and the proposed
\* bound fit the limit, or the transaction rolls back (ErrBudgetExceeded).
ReadSettled(r) ==
  /\ tx[r].pc = "summing"
  /\ LET b == First(Unread(r))
         spent == SumFunctionOnSet(AmountOf, Settled(b, LiabilityFrom(b, tx[r].now)))
     IN IF tx[r].held + spent + tx[r].bound <= Budgets[b].limit
        THEN tx' = [tx EXCEPT ![r].pc = "reading", ![r].passed = @ \cup {b},
                              ![r].held = 0]
        ELSE Rollback(r)
  /\ UNCHANGED <<row, usage, now>>

\* Every budget admitted the bound: insert and commit, which frees the locks.
Insert(r) ==
  /\ tx[r].pc = "reading"
  /\ Unread(r) = {}
  /\ row' = [row EXCEPT ![r] = [state |-> "held", bound |-> tx[r].bound,
                                dispatched |-> FALSE, checked |-> tx[r].passed]]
  /\ Rollback(r)
  /\ UNCHANGED <<usage, now>>

\* A missing price, a database error or the end of the caller's context.
Abort(r) ==
  /\ tx[r].pc # "none"
  /\ Rollback(r)
  /\ UNCHANGED <<row, usage, now>>

-----------------------------------------------------------------------------
(* The life of a reservation. *)

\* Whatever the reservation's state; a second call changes nothing.
MarkDispatched(r) ==
  /\ row[r].state # "none"
  /\ row' = [row EXCEPT ![r].dispatched = TRUE]
  /\ UNCHANGED <<usage, tx, now>>

\* The charge is recorded unclipped.  Of a settled reservation Settle returns the
\* evidence and writes nothing; of any other it is refused.
Settle(r, amount) ==
  /\ row[r].state = "held"
  /\ row' = [row EXCEPT ![r].state = "settled"]
  /\ usage' = [usage EXCEPT ![r] = [recorded |-> TRUE, amount |-> amount, at |-> now]]
  /\ UNCHANGED <<tx, now>>

MarkUnknown(r) ==
  /\ row[r].state = "held"
  /\ row' = [row EXCEPT ![r].state = "unknown"]
  /\ UNCHANGED <<usage, tx, now>>

\* Faulty variant: the dispatch mark is not looked at.
ReleaseHeld(r) ==
  /\ row[r].state = "held"
  /\ row' = [row EXCEPT ![r].state = "released"]
  /\ UNCHANGED <<usage, tx, now>>

ReleaseUndispatched(r) ==
  /\ row[r].state = "held"
  /\ ~row[r].dispatched
  /\ row' = [row EXCEPT ![r].state = "released"]
  /\ UNCHANGED <<usage, tx, now>>

Tick ==
  /\ now < MaxNow
  /\ now' = now + 1
  /\ UNCHANGED <<row, usage, tx>>

\* The statements of a Reserve transaction after its begin.
Reserving(r) == Lock(r) \/ ReadOutstanding(r) \/ ReadSettled(r) \/ Insert(r)

Next ==
  \/ \E r \in Reservation :
       \/ \E bound \in Bounds : Begin(r, bound)
       \/ Reserving(r)
       \/ Abort(r)
       \/ MarkDispatched(r)
       \/ \E amount \in Charges : Settle(r, amount)
       \/ MarkUnknown(r)
       \/ ReleaseUndispatched(r)
  \/ Tick

Spec == Init /\ [][Next]_ledger

\* The database executes statements and grants row locks to those who wait.
Fairness ==
  \A r \in Reservation : /\ SF_ledger(Lock(r))
                         /\ WF_ledger(ReadOutstanding(r) \/ ReadSettled(r) \/ Insert(r))

FairSpec == Spec /\ Fairness

-----------------------------------------------------------------------------
Least(a, b) == IF a < b THEN a ELSE b

\* What a reservation that budget b admitted takes of it: its bound until it
\* settles, then its charge as far as the bound goes, in the window it settled.
Exposure(b, r) ==
  IF row[r].state \in {"held", "unknown"} THEN row[r].bound
  ELSE IF row[r].state = "settled" /\ usage[r].at >= LiabilityFrom(b, now)
  THEN Least(usage[r].amount, row[r].bound)
  ELSE 0

Admitted(b) == SumFunctionOnSet([r \in Reservation |-> Exposure(b, r)],
                                {r \in Reservation : b \in row[r].checked})

\* No over-admission: however reservations, settlements, unknown outcomes and the
\* turn of a period interleave with the statements of a Reserve, the bounds that a
\* budget admitted and that still stand never add up to more than its limit; only
\* an upstream that reports more than was reserved can exceed it (service.go:1-7).
NoOverAdmission ==
  \A b \in Budget :
    (\A r \in Reservation : Budgets[b].holder \notin Keys[r]) => Admitted(b) <= Budgets[b].limit

\* Admissions are serial per budget: between the first read of a budget's liability
\* and the commit no other Reserve reads it, whatever order the subjects come in.
SerialPerBudget ==
  \A r, q \in Reservation, b \in Budget :
    /\ r # q
    /\ tx[r].pc \in {"reading", "summing"} /\ b \in Applicable(r, tx[r].now)
    => ~(/\ tx[q].pc \in {"reading", "summing"}
         /\ b \in Applicable(q, tx[q].now))

\* Liability that may be owed upstream is never dropped: once dispatched, a held
\* reservation is settled or stays liable, and an unknown outcome stays unknown.
LiabilityRetained ==
  [][\A r \in Reservation :
       /\ row[r].state = "held" /\ row[r].dispatched =>
            row'[r].state \in {"held", "settled", "unknown"}
       /\ row[r].state \in {"settled", "unknown"} =>
            row'[r].state = row[r].state /\ usage'[r] = usage[r]]_ledger

\* Concurrent admissions do not deadlock on the budgets they share.
ReservesEnd == \A r \in Reservation : tx[r].pc # "none" ~> tx[r].pc = "none"
=============================================================================
