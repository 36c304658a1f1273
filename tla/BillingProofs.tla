---------------------------- MODULE BillingProofs ----------------------------
(* Theorems about the liability ledger of module Billing, for every set of   *)
(* reservations, budgets, bounds and charges: serial admission, retained     *)
(* liability and, over sums of amounts, no over-admission.                   *)
EXTENDS Billing, FiniteSetTheorems, TLAPS

\* The rows are records of the four columns, whatever the amounts in them.
RowShape ==
  \E Amount, Checked :
    row \in [Reservation -> [state : State, bound : Amount, dispatched : BOOLEAN,
                             checked : Checked]]

\* The transactions are records, whatever they have locked, passed and summed.
TxShape ==
  \E Value :
    tx \in [Reservation -> [pc : {"none", "locking", "reading", "summing"},
                            now : Value, bound : Value, locked : Value,
                            passed : Value, held : Value]]

\* An open Reserve has inserted nothing yet.
OpenIsNew == \A r \in Reservation : tx[r].pc # "none" => row[r].state = "none"

\* A budget row is locked by one transaction, and a transaction that reads
\* liabilities has locked every budget that applies to it.
Exclusive ==
  \A r, q \in Reservation : r # q => tx[r].locked \cap tx[q].locked = {}

ReadsLocked ==
  \A r \in Reservation :
    tx[r].pc \in {"reading", "summing"} => Applicable(r, tx[r].now) \subseteq tx[r].locked

LockInv == TxShape /\ Exclusive /\ ReadsLocked

RowInv == RowShape /\ TxShape /\ OpenIsNew

-----------------------------------------------------------------------------
LEMMA InitLockInv == Init => LockInv
<1> SUFFICES ASSUME Init PROVE LockInv
  OBVIOUS
<1>1. TxShape
  <2>1. tx \in [Reservation -> [pc : {"none", "locking", "reading", "summing"},
                            now : {0, {}}, bound : {0, {}}, locked : {0, {}},
                            passed : {0, {}}, held : {0, {}}]]
    BY DEF Init, NoTx
  <2> QED BY <2>1 DEF TxShape
<1> QED BY <1>1 DEF LockInv, Init, NoTx, Exclusive, ReadsLocked

\* One transaction is written, to these values in the columns that matter.
Writes(r, pc, n, lk) ==
  /\ TxShape'
  /\ \A q \in Reservation \ {r} : tx'[q] = tx[q]
  /\ tx'[r].pc = pc /\ tx'[r].now = n /\ tx'[r].locked = lk

\* A transaction without locks: one that begins, or one that is over.
Fresh(r) ==
  \E pc \in {"none", "locking", "reading"} : \E n :
    /\ Writes(r, pc, n, {})
    /\ pc = "reading" => Applicable(r, n) = {}

\* It takes one more lock.
Locks(r) ==
  \E pc \in {"locking", "reading"} : \E b :
    /\ Writes(r, pc, tx[r].now, tx[r].locked \cup {b})
    /\ Free(b)
    /\ pc = "reading" => Applicable(r, tx[r].now) \subseteq tx[r].locked \cup {b}

\* It reads, and keeps its locks.
Reads(r) ==
  /\ tx[r].pc \in {"reading", "summing"}
  /\ \E pc \in {"reading", "summing"} : Writes(r, pc, tx[r].now, tx[r].locked)

\* The records of the transactions over one set of values.
TxRecord(Value) == [pc : {"none", "locking", "reading", "summing"},
                    now : Value, bound : Value, locked : Value,
                    passed : Value, held : Value]

\* A typed record can be written to any transaction.
LEMMA WriteShape ==
  ASSUME TxShape, NEW r \in Reservation, NEW Value, NEW new \in TxRecord(Value),
         tx' = [tx EXCEPT ![r] = new]
  PROVE  Writes(r, new.pc, new.now, new.locked)
<1>1. PICK Old : tx \in [Reservation -> TxRecord(Old)]
  BY DEF TxShape, TxRecord
<1> DEFINE All == Old \cup Value
<1>2. tx' \in [Reservation -> TxRecord(All)]
  BY <1>1 DEF TxRecord
<1>3. TxShape'
  BY <1>2 DEF TxShape, TxRecord
<1> QED BY <1>1, <1>3 DEF Writes

LEMMA BeginFresh ==
  ASSUME TxShape, NEW r \in Reservation, NEW bound, Begin(r, bound) PROVE Fresh(r)
<1> DEFINE pc == IF Applicable(r, now) = {} THEN "reading" ELSE "locking"
<1> DEFINE new == [NoTx EXCEPT !.pc = pc, !.now = now, !.bound = bound]
<1>1. tx' = [tx EXCEPT ![r] = new]
  BY DEF Begin
<1>2. pc \in {"none", "locking", "reading"} /\ (pc = "reading" => Applicable(r, now) = {})
  OBVIOUS
<1> HIDE DEF pc
<1>3. new \in TxRecord({now, bound, {}, 0}) /\ new.pc = pc /\ new.now = now /\ new.locked = {}
  BY <1>2 DEF NoTx, TxRecord
<1> HIDE DEF new
<1>4. Writes(r, pc, now, {})
  BY <1>1, <1>3, WriteShape
<1> QED BY <1>2, <1>4 DEF Fresh

LEMMA RollbackFresh ==
  ASSUME TxShape, NEW r \in Reservation, Rollback(r) PROVE Fresh(r)
<1>1. NoTx \in TxRecord({0, {}}) /\ NoTx.pc = "none" /\ NoTx.locked = {} /\ NoTx.now = 0
  BY DEF NoTx, TxRecord
<1>2. Writes(r, "none", 0, {})
  BY <1>1, WriteShape DEF Rollback
<1> QED BY <1>2 DEF Fresh

LEMMA LockLocks ==
  ASSUME TxShape, NEW r \in Reservation, Lock(r) PROVE Locks(r)
<1> DEFINE wanted == Applicable(r, tx[r].now) \ tx[r].locked
<1> DEFINE b == First(wanted)
<1> DEFINE pc == IF wanted = {b} THEN "reading" ELSE tx[r].pc
<1> DEFINE lk == tx[r].locked \cup {b}
<1> DEFINE new == [tx[r] EXCEPT !.locked = lk, !.pc = pc]
<1>1. tx[r].pc = "locking" /\ Free(b)
  BY DEF Lock
<1>2. tx' = [tx EXCEPT ![r].locked = lk, ![r].pc = pc]
  BY DEF Lock
<1>3. pc = "reading" => Applicable(r, tx[r].now) \subseteq lk
  BY <1>1
<1>4. pc \in {"locking", "reading"}
  BY <1>1
<1>5. PICK Old : tx \in [Reservation -> TxRecord(Old)]
  BY DEF TxShape, TxRecord
<1> HIDE DEF pc, lk
<1>6. tx' = [tx EXCEPT ![r] = new]
  BY <1>2, <1>5
<1>7. /\ new \in TxRecord(Old \cup {lk})
      /\ new.pc = pc /\ new.now = tx[r].now /\ new.locked = lk
  BY <1>4, <1>5 DEF TxRecord
<1> HIDE DEF new
<1>8. Writes(r, pc, tx[r].now, lk)
  BY <1>6, <1>7, WriteShape
<1> USE DEF lk
<1> HIDE DEF b
<1> QED BY <1>1, <1>3, <1>4, <1>8 DEF Locks

LEMMA ReadOutstandingReads ==
  ASSUME TxShape, NEW r \in Reservation, ReadOutstanding(r) PROVE Reads(r)
<1>1. PICK hd : tx' = [tx EXCEPT ![r].pc = "summing", ![r].held = hd]
  BY DEF ReadOutstanding
<1> DEFINE new == [tx[r] EXCEPT !.pc = "summing", !.held = hd]
<1>2. PICK Old : tx \in [Reservation -> TxRecord(Old)]
  BY DEF TxShape, TxRecord
<1>3. tx' = [tx EXCEPT ![r] = new]
  BY <1>1, <1>2
<1>4. /\ new \in TxRecord(Old \cup {hd})
      /\ new.pc = "summing" /\ new.now = tx[r].now /\ new.locked = tx[r].locked
  BY <1>2 DEF TxRecord
<1> HIDE DEF new
<1>5. Writes(r, "summing", tx[r].now, tx[r].locked)
  BY <1>3, <1>4, WriteShape
<1>6. tx[r].pc = "reading"
  BY DEF ReadOutstanding
<1> QED BY <1>5, <1>6 DEF Reads

LEMMA ReadSettledReads ==
  ASSUME TxShape, NEW r \in Reservation, ReadSettled(r) PROVE Reads(r) \/ Fresh(r)
<1>1. CASE Rollback(r)
  BY <1>1, RollbackFresh
<1>2. CASE ~Rollback(r)
  <2>1. PICK ps : tx' = [tx EXCEPT ![r].pc = "reading", ![r].passed = ps, ![r].held = 0]
    BY <1>2 DEF ReadSettled
  <2> DEFINE new == [tx[r] EXCEPT !.pc = "reading", !.passed = ps, !.held = 0]
  <2>2. PICK Old : tx \in [Reservation -> TxRecord(Old)]
    BY DEF TxShape, TxRecord
  <2>3. tx' = [tx EXCEPT ![r] = new]
    BY <2>1, <2>2
  <2>4. /\ new \in TxRecord(Old \cup {ps, 0})
        /\ new.pc = "reading" /\ new.now = tx[r].now /\ new.locked = tx[r].locked
    BY <2>2 DEF TxRecord
  <2> HIDE DEF new
  <2>5. Writes(r, "reading", tx[r].now, tx[r].locked)
    BY <2>3, <2>4, WriteShape
  <2>6. tx[r].pc = "summing"
    BY DEF ReadSettled
  <2> QED BY <2>5, <2>6 DEF Reads
<1> QED BY <1>1, <1>2

\* What a step does to the transactions.
LEMMA TxStep ==
  ASSUME TxShape, [Next]_ledger
  PROVE  UNCHANGED tx \/ \E r \in Reservation : Fresh(r) \/ Locks(r) \/ Reads(r)
<1>1. ASSUME NEW r \in Reservation, Reserving(r)
      PROVE  Fresh(r) \/ Locks(r) \/ Reads(r)
  BY <1>1, LockLocks, ReadOutstandingReads, ReadSettledReads, RollbackFresh
  DEF Reserving, Insert
<1>2. ASSUME NEW r \in Reservation, Abort(r) PROVE Fresh(r)
  BY <1>2, RollbackFresh DEF Abort
<1>3. ASSUME NEW r \in Reservation,
             \/ MarkDispatched(r)
             \/ \E amount \in Charges : Settle(r, amount)
             \/ MarkUnknown(r)
             \/ ReleaseUndispatched(r)
      PROVE  UNCHANGED tx
  BY <1>3 DEF MarkDispatched, Settle, MarkUnknown, ReleaseUndispatched
<1>4. CASE Tick \/ UNCHANGED ledger
  BY <1>4 DEF Tick, ledger
<1> QED BY <1>1, <1>2, <1>3, <1>4, BeginFresh DEF Next

LEMMA StepTxShape ==
  ASSUME TxShape, [Next]_ledger PROVE TxShape'
<1>1. CASE UNCHANGED tx
  BY <1>1 DEF TxShape
<1> QED BY <1>1, TxStep DEF Fresh, Locks, Reads, Writes

LEMMA StepLockInv ==
  ASSUME LockInv, [Next]_ledger PROVE LockInv'
<1>1. TxShape'
  BY StepTxShape DEF LockInv
<1>2. ASSUME NEW r \in Reservation, Fresh(r) PROVE (Exclusive /\ ReadsLocked)'
  BY <1>2 DEF Fresh, Writes, LockInv, Exclusive, ReadsLocked, Applicable, TxShape
<1>3. ASSUME NEW r \in Reservation, Locks(r) PROVE (Exclusive /\ ReadsLocked)'
  BY <1>3 DEF Locks, Writes, Free, LockInv, Exclusive, ReadsLocked, Applicable, TxShape
<1>4. ASSUME NEW r \in Reservation, Reads(r) PROVE (Exclusive /\ ReadsLocked)'
  BY <1>4 DEF Reads, Writes, LockInv, Exclusive, ReadsLocked, Applicable, TxShape
<1>5. CASE UNCHANGED tx
  BY <1>1, <1>5 DEF LockInv, Exclusive, ReadsLocked, Applicable
<1>6. CASE \E r \in Reservation : Fresh(r) \/ Locks(r) \/ Reads(r)
  <2>1. PICK r \in Reservation : Fresh(r) \/ Locks(r) \/ Reads(r)
    BY <1>6
  <2>2. (Exclusive /\ ReadsLocked)'
    BY <2>1, <1>2, <1>3, <1>4
  <2> QED BY <1>1, <2>2 DEF LockInv
<1>7. TxShape
  BY DEF LockInv
<1>8. UNCHANGED tx \/ \E r \in Reservation : Fresh(r) \/ Locks(r) \/ Reads(r)
  BY <1>7, TxStep
<1> QED BY <1>1, <1>5, <1>6, <1>8 DEF LockInv

LEMMA LockInvSerial == LockInv => SerialPerBudget
BY DEF LockInv, Exclusive, ReadsLocked, SerialPerBudget

\* Between its first liability read and its commit a Reserve is alone with every
\* budget that applies to it, for any number of concurrent admissions: the row
\* locks of LockActiveBudgets cover all that queryLiabilities reads.
THEOREM SerialAdmission == Spec => []SerialPerBudget
<1>1. Spec => []LockInv
  BY InitLockInv, StepLockInv, PTL DEF Spec
<1> QED BY <1>1, LockInvSerial, PTL

-----------------------------------------------------------------------------
LEMMA InitRowInv == Init => RowInv
<1> SUFFICES ASSUME Init PROVE RowInv
  OBVIOUS
<1>1. row \in [Reservation -> [state : State, bound : {0}, dispatched : BOOLEAN,
                              checked : {{}}]]
  BY DEF Init, State
<1>2. RowShape
  BY <1>1 DEF RowShape
<1>3. TxShape
  BY InitLockInv DEF LockInv
<1> QED BY <1>2, <1>3 DEF RowInv, Init, OpenIsNew

\* A typed record can be written to any row.
LEMMA WriteRow ==
  ASSUME RowShape, NEW r \in Reservation, NEW Amount, NEW Checked,
         NEW new \in [state : State, bound : Amount, dispatched : BOOLEAN, checked : Checked],
         row' = [row EXCEPT ![r] = new]
  PROVE  RowShape' /\ row'[r] = new /\ \A q \in Reservation \ {r} : row'[q] = row[q]
<1>1. PICK A, C : row \in [Reservation -> [state : State, bound : A, dispatched : BOOLEAN,
                                          checked : C]]
  BY DEF RowShape
<1>2. row' \in [Reservation -> [state : State, bound : A \cup Amount, dispatched : BOOLEAN,
                               checked : C \cup Checked]]
  BY <1>1
<1>3. RowShape'
  <2> DEFINE Amounts == A \cup Amount
  <2> DEFINE Checks == C \cup Checked
  <2>1. row' \in [Reservation -> [state : State, bound : Amounts, dispatched : BOOLEAN,
                                 checked : Checks]]
    BY <1>2
  <2> HIDE DEF Amounts, Checks
  <2> QED BY <2>1 DEF RowShape
<1>4. row'[r] = new /\ \A q \in Reservation \ {r} : row'[q] = row[q]
  BY <1>1
<1> QED BY <1>3, <1>4

\* The state or the stamp of a row can be changed.
LEMMA MoveRow ==
  ASSUME RowShape, NEW r \in Reservation, NEW st \in State,
         row' = [row EXCEPT ![r].state = st] \/ row' = [row EXCEPT ![r].dispatched = TRUE]
  PROVE  /\ RowShape'
         /\ \A q \in Reservation \ {r} : row'[q] = row[q]
         /\ row' = [row EXCEPT ![r].state = st] => row'[r].state = st
         /\ row' = [row EXCEPT ![r].dispatched = TRUE] => row'[r].state = row[r].state
<1>1. PICK A, C : row \in [Reservation -> [state : State, bound : A, dispatched : BOOLEAN,
                                          checked : C]]
  BY DEF RowShape
<1>2. row' \in [Reservation -> [state : State, bound : A, dispatched : BOOLEAN, checked : C]]
  BY <1>1
<1> QED BY <1>1, <1>2 DEF RowShape

LEMMA StepRowShape ==
  ASSUME RowShape, [Next]_ledger PROVE RowShape'
<1>1. ASSUME NEW r \in Reservation, Insert(r) PROVE RowShape'
  <2> DEFINE new == [state |-> "held", bound |-> tx[r].bound, dispatched |-> FALSE,
                     checked |-> tx[r].passed]
  <2>1. new \in [state : State, bound : {tx[r].bound}, dispatched : BOOLEAN,
                 checked : {tx[r].passed}]
    BY DEF State
  <2>2. row' = [row EXCEPT ![r] = new]
    BY <1>1 DEF Insert
  <2> HIDE DEF new
  <2> QED BY <2>1, <2>2, WriteRow
<1>2. ASSUME NEW r \in Reservation, Reserving(r), ~Insert(r) PROVE UNCHANGED row
  BY <1>2 DEF Reserving, Lock, ReadOutstanding, ReadSettled
<1>3. ASSUME NEW r \in Reservation, MarkDispatched(r) PROVE RowShape'
  BY <1>3, MoveRow DEF MarkDispatched, State
<1>4. ASSUME NEW r \in Reservation, NEW amount, Settle(r, amount) PROVE RowShape'
  BY <1>4, MoveRow DEF Settle, State
<1>5. ASSUME NEW r \in Reservation, MarkUnknown(r) PROVE RowShape'
  BY <1>5, MoveRow DEF MarkUnknown, State
<1>6. ASSUME NEW r \in Reservation, ReleaseUndispatched(r) PROVE RowShape'
  BY <1>6, MoveRow DEF ReleaseUndispatched, State
<1>7. ASSUME NEW r \in Reservation, Abort(r) \/ \E bound \in Bounds : Begin(r, bound)
      PROVE  UNCHANGED row
  BY <1>7 DEF Abort, Begin
<1>8. CASE UNCHANGED row
  BY <1>8 DEF RowShape
<1>9. Tick \/ UNCHANGED ledger => UNCHANGED row
  BY DEF Tick, ledger
<1> QED BY <1>1, <1>2, <1>3, <1>4, <1>5, <1>6, <1>7, <1>8, <1>9 DEF Next

LEMMA StepOpenIsNew ==
  ASSUME RowInv, [Next]_ledger PROVE OpenIsNew'
<1> USE DEF RowInv
<1>1. ASSUME NEW r \in Reservation, NEW bound, Begin(r, bound) PROVE OpenIsNew'
  <2>1. UNCHANGED row /\ row[r].state = "none"
    BY <1>1 DEF Begin
  <2>2. \A q \in Reservation \ {r} : tx'[q] = tx[q]
    BY <1>1 DEF Begin, TxShape
  <2> QED BY <2>1, <2>2 DEF OpenIsNew
<1>2. ASSUME NEW r \in Reservation, tx[r].pc # "none", UNCHANGED row,
             Lock(r) \/ ReadOutstanding(r) \/ ReadSettled(r) \/ Abort(r)
      PROVE  OpenIsNew'
  <2>1. \A q \in Reservation \ {r} : tx'[q] = tx[q]
    BY <1>2 DEF Lock, ReadOutstanding, ReadSettled, Abort, Rollback, TxShape
  <2> QED BY <1>2, <2>1 DEF OpenIsNew
<1>3. ASSUME NEW r \in Reservation, Lock(r) \/ ReadOutstanding(r) \/ ReadSettled(r) \/ Abort(r)
      PROVE  OpenIsNew'
  <2>1. tx[r].pc # "none" /\ UNCHANGED row
    BY <1>3 DEF Lock, ReadOutstanding, ReadSettled, Abort
  <2> QED BY <1>2, <1>3, <2>1
<1>4. ASSUME NEW r \in Reservation, Insert(r) PROVE OpenIsNew'
  <2>1. tx'[r].pc = "none" /\ \A q \in Reservation \ {r} : tx'[q] = tx[q]
    BY <1>4 DEF Insert, Rollback, NoTx, TxShape
  <2>2. \A q \in Reservation \ {r} : row'[q] = row[q]
    BY <1>4 DEF Insert, RowShape
  <2> QED BY <2>1, <2>2 DEF OpenIsNew
<1>5. ASSUME NEW r \in Reservation,
             \/ MarkDispatched(r)
             \/ \E amount \in Charges : Settle(r, amount)
             \/ MarkUnknown(r)
             \/ ReleaseUndispatched(r)
      PROVE  OpenIsNew'
  <2>1. UNCHANGED tx /\ row[r].state # "none"
    BY <1>5 DEF MarkDispatched, Settle, MarkUnknown, ReleaseUndispatched
  <2>2. \A q \in Reservation \ {r} : row'[q] = row[q]
    BY <1>5 DEF MarkDispatched, Settle, MarkUnknown, ReleaseUndispatched, RowShape
  <2> QED BY <2>1, <2>2 DEF OpenIsNew
<1>6. CASE Tick \/ UNCHANGED ledger
  BY <1>6 DEF Tick, ledger, OpenIsNew
<1> QED BY <1>1, <1>3, <1>4, <1>5, <1>6 DEF Next, Reserving

LEMMA StepRowInv == ASSUME RowInv, [Next]_ledger PROVE RowInv'
BY StepRowShape, StepTxShape, StepOpenIsNew DEF RowInv

\* What a step may do to the row and the evidence of one reservation.
LEMMA StepRetains ==
  ASSUME RowInv, [Next]_ledger, NEW q \in Reservation
  PROVE  /\ row[q].state = "held" /\ row[q].dispatched =>
              row'[q].state \in {"held", "settled", "unknown"}
         /\ row[q].state \in {"settled", "unknown"} =>
              row'[q].state = row[q].state /\ usage'[q] = usage[q]
<1> USE DEF RowInv
<1>1. CASE UNCHANGED <<row, usage>>
  BY <1>1
<1>2. ASSUME NEW r \in Reservation, Insert(r) PROVE UNCHANGED usage /\ (q # r => row'[q] = row[q])
                                                 /\ row[r].state = "none"
  BY <1>2 DEF Insert, RowShape, OpenIsNew
<1>3. ASSUME NEW r \in Reservation, MarkDispatched(r)
      PROVE  UNCHANGED usage /\ row'[q].state = row[q].state
  <2>1. q # r => row'[q] = row[q]
    BY <1>3 DEF MarkDispatched, RowShape
  <2>2. row'[r].state = row[r].state
    BY <1>3, MoveRow DEF MarkDispatched, State
  <2> QED BY <1>3, <2>1, <2>2 DEF MarkDispatched
<1>4. ASSUME NEW r \in Reservation, NEW amount, Settle(r, amount)
      PROVE  (q # r => row'[q] = row[q]) /\ row[r].state = "held" /\ row'[r].state = "settled"
  BY <1>4 DEF Settle, RowShape
<1>5. ASSUME NEW r \in Reservation, MarkUnknown(r)
      PROVE  /\ UNCHANGED usage
             /\ (q # r => row'[q] = row[q]) /\ row[r].state = "held" /\ row'[r].state = "unknown"
  BY <1>5 DEF MarkUnknown, RowShape
<1>6. ASSUME NEW r \in Reservation, ReleaseUndispatched(r)
      PROVE  /\ UNCHANGED usage
             /\ (q # r => row'[q] = row[q]) /\ row[r].state = "held" /\ ~row[r].dispatched
  BY <1>6 DEF ReleaseUndispatched, RowShape
<1>7. ASSUME NEW r \in Reservation, NEW amount, Settle(r, amount)
      PROVE  row[q].state \in {"settled", "unknown"} => usage'[q] = usage[q]
  BY <1>7 DEF Settle
<1>8. ASSUME NEW r \in Reservation,
             \/ Lock(r) \/ ReadOutstanding(r) \/ ReadSettled(r) \/ Abort(r)
             \/ \E bound \in Bounds : Begin(r, bound)
      PROVE  UNCHANGED <<row, usage>>
  BY <1>8 DEF Lock, ReadOutstanding, ReadSettled, Abort, Begin
<1>9. Tick \/ UNCHANGED ledger => UNCHANGED <<row, usage>>
  BY DEF Tick, ledger
<1>10. CASE \E r \in Reservation : Insert(r) \/ MarkDispatched(r) \/ MarkUnknown(r)
                                 \/ ReleaseUndispatched(r)
  BY <1>10, <1>2, <1>3, <1>5, <1>6
<1>11. CASE \E r \in Reservation, amount \in Charges : Settle(r, amount)
  BY <1>11, <1>4, <1>7
<1> QED BY <1>1, <1>8, <1>9, <1>10, <1>11 DEF Next, Reserving

\* Liability that may be owed upstream is never dropped, for any number of
\* reservations: no transaction of the ledger releases a dispatched hold, and
\* settled evidence and unknown outcomes are final.
THEOREM RetainsLiability == Spec => LiabilityRetained
<1>1. Spec => []RowInv
  BY InitRowInv, StepRowInv, PTL DEF Spec
<1>2. RowInv /\ [Next]_ledger =>
        [\A r \in Reservation :
           /\ row[r].state = "held" /\ row[r].dispatched =>
                row'[r].state \in {"held", "settled", "unknown"}
           /\ row[r].state \in {"settled", "unknown"} =>
                row'[r].state = row[r].state /\ usage'[r] = usage[r]]_ledger
  BY StepRetains
<1> QED BY <1>1, <1>2, PTL DEF Spec, LiabilityRetained

-----------------------------------------------------------------------------
(* Sums over finite sets, by a least counterexample. *)

Pick(s) == CHOOSE x \in s : TRUE

\* g adds up f over the subsets of S.
Adds(f, g, S) ==
  g = [s \in SUBSET S |-> IF s = {} THEN 0 ELSE f[Pick(s)] + g[s \ {Pick(s)}]]

\* The fold is a chosen function that adds up.
LEMMA SumIsChosen ==
  ASSUME NEW f, NEW S
  PROVE  SumFunctionOnSet(f, S) = (CHOOSE g : Adds(f, g, S))[S]
BY DEF SumFunctionOnSet, FoldFunctionOnSet, MapThenFoldSet, Adds, Pick

\* Of the finite sets that have a property none contains a smaller one: a smallest.
LEMMA LeastSet ==
  ASSUME NEW S, IsFiniteSet(S), NEW Bad \in SUBSET SUBSET S, Bad # {}
  PROVE  \E s \in Bad : \A t \in Bad : ~(t \subseteq s /\ t # s)
<1>1. IsWellFoundedOn(StrictSubsetOrdering(S), SUBSET S)
  BY FS_StrictSubsetOrderingWellFounded, FS_FiniteSubsetsOfFinite
<1>2. PICK s \in Bad : \A t \in Bad : ~(<<t, s>> \in StrictSubsetOrdering(S))
  <2>1. Bad \subseteq SUBSET S
    OBVIOUS
  <2>. DEFINE R == StrictSubsetOrdering(S)
              P == SUBSET S
  <2>2. IsWellFoundedOn(R, P) /\ Bad \subseteq P
    BY <1>1, <2>1
  <2>. HIDE DEF IsWellFoundedOn, R, P
  <2>3. \E s \in Bad : \A t \in Bad : ~(<<t, s>> \in R)
    BY <2>2, WFMin
  <2>. QED  BY <2>3 DEF R
<1>3. ASSUME NEW t \in Bad, t \subseteq s, t # s PROVE <<t, s>> \in StrictSubsetOrdering(S)
  BY <1>3 DEF StrictSubsetOrdering
<1>4. \A t \in Bad : ~(t \subseteq s /\ t # s)
  BY <1>2, <1>3
<1>. QED  BY <1>4

\* What is taken from a set is in it.
LEMMA PickIn == ASSUME NEW s, s # {} PROVE Pick(s) \in s
BY DEF Pick

\* Two that add up agree where both are defined.
LEMMA AddsAgree ==
  ASSUME NEW f, NEW S, IsFiniteSet(S), NEW T \in SUBSET S, NEW g, NEW h,
         Adds(f, g, S), Adds(f, h, T)
  PROVE  \A s \in SUBSET T : g[s] = h[s]
<1>. DEFINE Bad == {s \in SUBSET T : g[s] # h[s]}
<1>. SUFFICES ASSUME Bad # {} PROVE FALSE
  OBVIOUS
<1>1. IsFiniteSet(T)
  BY FS_Subset
<1>2. PICK s \in Bad : \A t \in Bad : ~(t \subseteq s /\ t # s)
  <2>. Bad \in SUBSET SUBSET T
    OBVIOUS
  <2>. HIDE DEF Bad
  <2>. QED  BY <1>1, LeastSet
<1>3. /\ g[s] = IF s = {} THEN 0 ELSE f[Pick(s)] + g[s \ {Pick(s)}]
      /\ h[s] = IF s = {} THEN 0 ELSE f[Pick(s)] + h[s \ {Pick(s)}]
  BY DEF Adds
<1>4. s # {} => g[s \ {Pick(s)}] = h[s \ {Pick(s)}]
  BY <1>2, PickIn
<1>. QED  BY <1>3, <1>4

\* There is one for each finite set.
LEMMA AddsExists ==
  ASSUME NEW f, NEW S, IsFiniteSet(S)
  PROVE  \E g : Adds(f, g, S)
<1>. DEFINE Bad == {s \in SUBSET S : ~\E g : Adds(f, g, s)}
<1>. SUFFICES ASSUME Bad # {} PROVE FALSE
  OBVIOUS
<1>1. PICK s \in Bad : \A t \in Bad : ~(t \subseteq s /\ t # s)
  <2>. Bad \in SUBSET SUBSET S
    OBVIOUS
  <2>. HIDE DEF Bad
  <2>. QED  BY LeastSet
<1>. DEFINE Of(t) == CHOOSE g : Adds(f, g, t)
            g == [t \in SUBSET s |->
                    IF t = {} THEN 0 ELSE f[Pick(t)] + Of(t \ {Pick(t)})[t \ {Pick(t)}]]
<1>2. ASSUME NEW t \in SUBSET s, t # s PROVE Adds(f, Of(t), t)
  <2>1. \E h : Adds(f, h, t)
    BY <1>1, <1>2
  <2>. QED  BY <2>1
<1>3. ASSUME NEW t \in SUBSET s, t # {}
      PROVE  g[t \ {Pick(t)}] = Of(t \ {Pick(t)})[t \ {Pick(t)}]
  <2>. DEFINE u == t \ {Pick(t)}
  <2>1. u \in SUBSET s /\ u # s
    BY <1>3, PickIn
  <2>2. Adds(f, Of(u), u)
    BY <2>1, <1>2
  <2>3. Of(u)[u] = IF u = {} THEN 0 ELSE f[Pick(u)] + Of(u)[u \ {Pick(u)}]
    <3>. HIDE DEF u, Of
    <3>. QED  BY <2>2 DEF Adds
  <2>4. u # {} => Of(u)[u \ {Pick(u)}] = Of(u \ {Pick(u)})[u \ {Pick(u)}]
    <3>. HAVE u # {}
    <3>. DEFINE w == u \ {Pick(u)}
    <3>1. w \in SUBSET u /\ w \in SUBSET s /\ w # s
      BY <2>1
    <3>2. Adds(f, Of(w), w)
      BY <3>1, <1>2
    <3>3. IsFiniteSet(u)
      BY <2>1, FS_Subset
    <3>. HIDE DEF w, u, Of
    <3>4. Of(u)[w] = Of(w)[w]
      BY <2>2, <3>1, <3>2, <3>3, AddsAgree
    <3>. QED  BY <3>4 DEF w
  <2>5. g[u] = IF u = {} THEN 0 ELSE f[Pick(u)] + Of(u \ {Pick(u)})[u \ {Pick(u)}]
    <3>. HIDE DEF u, Of
    <3>. QED  BY <2>1
  <2>. QED  BY <2>3, <2>4, <2>5
<1>4. Adds(f, g, s)
  <2>. HIDE DEF Of
  <2>. QED  BY <1>3 DEF Adds
<1>. QED  BY <1>1, <1>4

\* The sum of nothing is 0; of more it is that of the rest and a first.
LEMMA SumRecursion ==
  ASSUME NEW f, NEW S, IsFiniteSet(S)
  PROVE  SumFunctionOnSet(f, S) =
           IF S = {} THEN 0 ELSE f[Pick(S)] + SumFunctionOnSet(f, S \ {Pick(S)})
<1>. DEFINE Of(t) == CHOOSE g : Adds(f, g, t)
<1>1. ASSUME NEW T, IsFiniteSet(T) PROVE Adds(f, Of(T), T)
  BY <1>1, AddsExists
<1>2. CASE S = {}
  <2>1. Of(S)[S] = 0
    <3>. HIDE DEF Of
    <3>. QED  BY <1>1, <1>2 DEF Adds
  <2>. QED  BY <1>2, <2>1, SumIsChosen
<1>3. CASE S # {}
  <2>. DEFINE T == S \ {Pick(S)}
  <2>1. T \in SUBSET S /\ IsFiniteSet(T)
    BY FS_Subset
  <2>2. Adds(f, Of(S), S) /\ Adds(f, Of(T), T)
    BY <1>1, <2>1
  <2>3. Of(S)[T] = Of(T)[T]
    <3>. HIDE DEF Of, T
    <3>. QED  BY <2>1, <2>2, AddsAgree
  <2>4. Of(S)[S] = f[Pick(S)] + Of(S)[T]
    <3>. HIDE DEF Of
    <3>. QED  BY <1>3, <2>2 DEF Adds
  <2>5. SumFunctionOnSet(f, S) = Of(S)[S] /\ SumFunctionOnSet(f, T) = Of(T)[T]
    BY SumIsChosen
  <2>. HIDE DEF Of
  <2>. QED  BY <1>3, <2>3, <2>4, <2>5
<1>. QED  BY <1>2, <1>3

\* Nothing adds up to zero.
LEMMA SumNothing == \A f : SumFunctionOnSet(f, {}) = 0
BY SumRecursion, FS_EmptySet

\* The recursion, for a set with an element.
LEMMA SumPicked ==
  ASSUME NEW f, NEW S, IsFiniteSet(S), S # {}
  PROVE  SumFunctionOnSet(f, S) = f[Pick(S)] + SumFunctionOnSet(f, S \ {Pick(S)})
BY SumRecursion

\* A sum of naturals is a natural.
LEMMA SumIsNat ==
  ASSUME NEW f, NEW S, IsFiniteSet(S), \A x \in S : f[x] \in Nat
  PROVE  SumFunctionOnSet(f, S) \in Nat
<1>. DEFINE Bad == {s \in SUBSET S : SumFunctionOnSet(f, s) \notin Nat}
<1>. SUFFICES ASSUME Bad # {} PROVE FALSE
  OBVIOUS
<1>1. PICK s \in Bad : \A t \in Bad : ~(t \subseteq s /\ t # s)
  <2>. Bad \in SUBSET SUBSET S
    OBVIOUS
  <2>. HIDE DEF Bad
  <2>. QED  BY LeastSet
<1>2. s # {}
  BY SumNothing
<1>3. Pick(s) \in s /\ IsFiniteSet(s)
  BY <1>2, PickIn, FS_Subset
<1>4. SumFunctionOnSet(f, s \ {Pick(s)}) \in Nat
  BY <1>1, <1>3
<1>5. SumFunctionOnSet(f, s) = f[Pick(s)] + SumFunctionOnSet(f, s \ {Pick(s)})
  BY <1>2, <1>3, SumPicked
<1>. QED  BY <1>3, <1>4, <1>5

\* Whichever is taken first.
LEMMA SumWithout ==
  ASSUME NEW f, NEW S, IsFiniteSet(S), \A x \in S : f[x] \in Nat
  PROVE  \A y \in S : SumFunctionOnSet(f, S) = f[y] + SumFunctionOnSet(f, S \ {y})
<1>. DEFINE Bad == {s \in SUBSET S :
                      \E y \in s : SumFunctionOnSet(f, s) # f[y] + SumFunctionOnSet(f, s \ {y})}
<1>. SUFFICES ASSUME Bad # {} PROVE FALSE
  OBVIOUS
<1>1. PICK s \in Bad : \A t \in Bad : ~(t \subseteq s /\ t # s)
  <2>. Bad \in SUBSET SUBSET S
    OBVIOUS
  <2>. HIDE DEF Bad
  <2>. QED  BY LeastSet
<1>2. PICK y \in s : SumFunctionOnSet(f, s) # f[y] + SumFunctionOnSet(f, s \ {y})
  BY <1>1
<1>3. PICK x : x = Pick(s)
  OBVIOUS
<1>4. x \in s /\ IsFiniteSet(s) /\ SumFunctionOnSet(f, s) = f[x] + SumFunctionOnSet(f, s \ {x})
  BY <1>2, <1>3, PickIn, FS_Subset, SumPicked
<1>5. x # y
  BY <1>2, <1>4
<1>6. \A t \in SUBSET s : t # s =>
        \A z \in t : SumFunctionOnSet(f, t) = f[z] + SumFunctionOnSet(f, t \ {z})
  BY <1>1
<1>7. SumFunctionOnSet(f, s \ {x}) = f[y] + SumFunctionOnSet(f, (s \ {x}) \ {y})
  BY <1>2, <1>4, <1>5, <1>6
<1>8. SumFunctionOnSet(f, s \ {y}) = f[x] + SumFunctionOnSet(f, (s \ {y}) \ {x})
  BY <1>2, <1>4, <1>5, <1>6
<1>9. (s \ {x}) \ {y} = (s \ {y}) \ {x} /\ (s \ {y}) \ {x} \in SUBSET s
  OBVIOUS
<1>10. SumFunctionOnSet(f, (s \ {y}) \ {x}) \in Nat /\ f[x] \in Nat /\ f[y] \in Nat
  BY <1>1, <1>4, <1>9, FS_Subset, SumIsNat
<1>11. PICK n \in Nat : n = SumFunctionOnSet(f, (s \ {y}) \ {x})
  BY <1>10
<1>12. SumFunctionOnSet(f, s) = f[x] + (f[y] + n) /\ SumFunctionOnSet(f, s \ {y}) = f[x] + n
  BY <1>4, <1>7, <1>8, <1>9, <1>11
<1>. HIDE DEF Bad
<1>. QED  BY <1>2, <1>10, <1>12

\* A part does not add up to more.
LEMMA SumOfPart ==
  ASSUME NEW f, NEW S, IsFiniteSet(S), \A x \in S : f[x] \in Nat, NEW T \in SUBSET S
  PROVE  SumFunctionOnSet(f, T) <= SumFunctionOnSet(f, S)
<1>. DEFINE Bad == {s \in SUBSET S :
                      T \subseteq s /\ ~(SumFunctionOnSet(f, T) <= SumFunctionOnSet(f, s))}
<1>. SUFFICES ASSUME Bad # {} PROVE FALSE
  OBVIOUS
<1>1. PICK s \in Bad : \A t \in Bad : ~(t \subseteq s /\ t # s)
  <2>. Bad \in SUBSET SUBSET S
    OBVIOUS
  <2>. HIDE DEF Bad
  <2>. QED  BY LeastSet
<1>2. \A t \in SUBSET S : IsFiniteSet(t) /\ SumFunctionOnSet(f, t) \in Nat
  BY FS_Subset, SumIsNat
<1>3. s # T
  BY <1>2
<1>4. PICK x \in s : x \notin T
  BY <1>3
<1>5. SumFunctionOnSet(f, T) <= SumFunctionOnSet(f, s \ {x})
  BY <1>1, <1>4
<1>6. SumFunctionOnSet(f, s) = f[x] + SumFunctionOnSet(f, s \ {x})
  BY <1>2, SumWithout
<1>. QED  BY <1>2, <1>5, <1>6

\* What one element adds to the sum over a part of a set.
Splits(f, B, s, x) ==
  SumFunctionOnSet(f, B \cap s)
    = (IF x \in B THEN f[x] ELSE 0) + SumFunctionOnSet(f, B \cap (s \ {x}))

\* It adds its own value, where it belongs to the part.
LEMMA SumSplits ==
  ASSUME NEW f, NEW B, IsFiniteSet(B), \A y \in B : f[y] \in Nat
  PROVE  \A s : \A x \in s : Splits(f, B, s, x)
<1>. SUFFICES ASSUME NEW s, NEW x \in s PROVE Splits(f, B, s, x)
  OBVIOUS
<1>. DEFINE P == B \cap s
            Q == B \cap (s \ {x})
<1>1. IsFiniteSet(P) /\ IsFiniteSet(Q) /\ P \subseteq B /\ Q \subseteq B
  BY FS_Subset
<1>2. SumFunctionOnSet(f, Q) \in Nat
  <2>. HIDE DEF P, Q
  <2>. QED  BY <1>1, SumIsNat
<1>3. CASE x \in B
  <2>1. P \ {x} = Q /\ x \in P
    BY <1>3
  <2>. HIDE DEF P, Q
  <2>2. SumFunctionOnSet(f, P) = f[x] + SumFunctionOnSet(f, Q)
    BY <1>1, <2>1, SumWithout
  <2>. QED  BY <1>3, <2>2 DEF P, Q, Splits
<1>4. CASE x \notin B
  <2>1. P = Q
    BY <1>4
  <2>. HIDE DEF P, Q
  <2>2. SumFunctionOnSet(f, P) = 0 + SumFunctionOnSet(f, Q)
    BY <1>2, <2>1
  <2>. QED  BY <1>4, <2>2 DEF P, Q, Splits
<1>. QED  BY <1>3, <1>4

\* What is covered, one by one, by what two sets contribute, is covered in all.
LEMMA SumCovered ==
  ASSUME NEW h, NEW A, IsFiniteSet(A), \A x \in A : h[x] \in Nat,
         NEW f, NEW B, IsFiniteSet(B), \A x \in B : f[x] \in Nat,
         NEW g, NEW C, IsFiniteSet(C), \A x \in C : g[x] \in Nat,
         \A x \in A : h[x] <= (IF x \in B THEN f[x] ELSE 0) + (IF x \in C THEN g[x] ELSE 0)
  PROVE  SumFunctionOnSet(h, A) <= SumFunctionOnSet(f, B) + SumFunctionOnSet(g, C)
<1>. DEFINE Covers(s) ==
              SumFunctionOnSet(h, s)
                <= SumFunctionOnSet(f, B \cap s) + SumFunctionOnSet(g, C \cap s)
            Bad == {s \in SUBSET A : ~Covers(s)}
<1>1. \A s \in SUBSET A : IsFiniteSet(s) /\ SumFunctionOnSet(h, s) \in Nat
  BY FS_Subset, SumIsNat
<1>2. \A s \in SUBSET B : IsFiniteSet(s) /\ SumFunctionOnSet(f, s) \in Nat
  BY FS_Subset, SumIsNat
<1>3. \A s \in SUBSET C : IsFiniteSet(s) /\ SumFunctionOnSet(g, s) \in Nat
  BY FS_Subset, SumIsNat
<1>4. Bad = {}
  <2>. SUFFICES ASSUME Bad # {} PROVE FALSE
    OBVIOUS
  <2>1. PICK s \in Bad : \A t \in Bad : ~(t \subseteq s /\ t # s)
    <3>. Bad \in SUBSET SUBSET A
      OBVIOUS
    <3>. HIDE DEF Bad
    <3>. QED  BY LeastSet
  <2>2. s # {}
    <3>. SUFFICES ASSUME s = {} PROVE FALSE
      OBVIOUS
    <3>1. B \cap s = {} /\ C \cap s = {}
      OBVIOUS
    <3>. QED  BY <2>1, <3>1, SumNothing
  <2>3. PICK x \in s : TRUE
    BY <2>2
  <2>. DEFINE r == s \ {x}
  <2>4. Covers(r)
    BY <2>1, <2>3
  <2>5. SumFunctionOnSet(h, s) = h[x] + SumFunctionOnSet(h, r)
    BY <1>1, <2>3, SumWithout
  <2>6. /\ SumFunctionOnSet(f, B \cap s)
             = (IF x \in B THEN f[x] ELSE 0) + SumFunctionOnSet(f, B \cap r)
        /\ SumFunctionOnSet(g, C \cap s)
             = (IF x \in C THEN g[x] ELSE 0) + SumFunctionOnSet(g, C \cap r)
    <3>. HIDE DEF Bad, Covers
    <3>1. Splits(f, B, s, x) /\ Splits(g, C, s, x)
      BY <2>3, SumSplits
    <3>. QED  BY <3>1 DEF Splits
  <2>7. PICK fx \in Nat, gx \in Nat, hx \in Nat :
          /\ fx = (IF x \in B THEN f[x] ELSE 0) /\ gx = (IF x \in C THEN g[x] ELSE 0)
          /\ hx = h[x] /\ hx <= fx + gx
    BY <2>3
  <2>8. /\ SumFunctionOnSet(h, r) \in Nat /\ SumFunctionOnSet(f, B \cap r) \in Nat
        /\ SumFunctionOnSet(g, C \cap r) \in Nat
    BY <1>1, <1>2, <1>3
  <2>9. Covers(s)
    <3>. HIDE DEF r
    <3>. QED  BY <2>4, <2>5, <2>6, <2>7, <2>8
  <2>. QED  BY <2>1, <2>9
<1>5. Covers(A)
  BY <1>4
<1>6. SumFunctionOnSet(f, B \cap A) <= SumFunctionOnSet(f, B)
      /\ SumFunctionOnSet(g, C \cap A) <= SumFunctionOnSet(g, C)
  BY SumOfPart
<1>7. /\ SumFunctionOnSet(h, A) \in Nat /\ SumFunctionOnSet(f, B) \in Nat
      /\ SumFunctionOnSet(g, C) \in Nat
      /\ SumFunctionOnSet(f, B \cap A) \in Nat /\ SumFunctionOnSet(g, C \cap A) \in Nat
  BY <1>1, <1>2, <1>3
<1>. QED  BY <1>5, <1>6, <1>7

-----------------------------------------------------------------------------
(* No over-admission. *)

\* A budget whose holder is named in no reservation's further subjects.
Plain(b) == \A r \in Reservation : Budgets[b].holder \notin Keys[r]

Inserted == {r \in Reservation : row[r].state # "none"}

\* Rows have what their state says, and only budgets that count them admitted them.
Rows ==
  \A r \in Reservation :
    /\ row[r].state = "none" => row[r].checked = {}
    /\ usage[r].recorded <=> row[r].state = "settled"
    /\ \A b \in row[r].checked : Counts(b, r)

\* How far a Reserve has come.
Open(r) ==
  tx[r].pc # "none" =>
    /\ row[r].state = "none"
    /\ tx[r].now <= now
    /\ tx[r].passed \subseteq Applicable(r, tx[r].now)
    /\ tx[r].pc = "locking" => tx[r].passed = {}
    /\ tx[r].pc = "summing" => Unread(r) # {}

Spent(b, t) == SumFunctionOnSet(AmountOf, Settled(b, LiabilityFrom(b, t)))

\* A budget that passed has room for the bound.
Room(r) ==
  tx[r].pc # "none" =>
    \A b \in tx[r].passed : Plain(b) => Admitted(b) + tx[r].bound <= Budgets[b].limit

\* What was read outstanding and what is settled by now cover what was admitted.
Covered(r) ==
  tx[r].pc = "summing" =>
    LET b == First(Unread(r))
    IN  Plain(b) => Admitted(b) <= tx[r].held + Spent(b, tx[r].now)

BudgetInv ==
  /\ TypeOK /\ LockInv /\ IsFiniteSet(Inserted) /\ Rows
  /\ \A r \in Reservation : Open(r) /\ Room(r) /\ Covered(r)
  /\ NoOverAdmission

-----------------------------------------------------------------------------
\* The start of a period does not move back.
LEMMA PeriodsFollow ==
  ASSUME NEW s \in Nat, NEW t \in Nat, s <= t
  PROVE  PeriodStart(s) <= PeriodStart(t) /\ PeriodStart(t) \in Nat
<1>1. Period \in Nat \ {0}
  BY LedgerAssumption
<1>. QED  BY <1>1 DEF PeriodStart

\* Nor does the start of a window.
LEMMA WindowsFollow ==
  ASSUME NEW s \in Nat, NEW t \in Nat, s <= t, NEW b \in Budget
  PROVE  /\ LiabilityFrom(b, s) <= LiabilityFrom(b, t)
         /\ LiabilityFrom(b, s) \in Nat /\ LiabilityFrom(b, t) \in Nat
<1>1. PeriodStart(s) <= PeriodStart(t) /\ PeriodStart(t) \in Nat /\ PeriodStart(s) \in Nat
  BY PeriodsFollow
<1>2. Budgets[b].starts \in Nat
  BY LedgerAssumption
<1>. QED  BY <1>1, <1>2 DEF LiabilityFrom

\* The first of some budgets is one of them.
LEMMA FirstOf ==
  ASSUME NEW S \in SUBSET Budget, S # {}
  PROVE  First(S) \in S
<1>1. S \subseteq Nat
  BY LedgerAssumption
<1>2. PICK b \in S : \A c \in S : <<c, b>> \notin OpToRel(<, Nat)
  BY <1>1, NatLessThanWellFounded, WFMin
<1>3. \A c \in S : ~(c < b)
  BY <1>1, <1>2 DEF OpToRel
<1>4. \A c \in S : b <= c
  BY <1>1, <1>3
<1>. QED  BY <1>4 DEF First

-----------------------------------------------------------------------------
(* What a step does to rows and evidence. *)

RowRecord == [state : State, bound : Nat, dispatched : BOOLEAN, checked : SUBSET Budget]
UsageRecord == [recorded : BOOLEAN, amount : Nat, at : Nat]

\* A reservation that keeps its bound and its budgets, and what becomes of its liability.
Moved(q) ==
  /\ row'[q].bound = row[q].bound /\ row'[q].checked = row[q].checked
  /\ \/ row'[q].state = row[q].state /\ usage'[q] = usage[q]
     \/ /\ row[q].state = "held" /\ row'[q].state \in {"unknown", "released"}
        /\ usage'[q] = usage[q]
     \/ /\ row[q].state = "held" /\ row'[q].state = "settled"
        /\ usage'[q].recorded /\ usage'[q].at = now

Typed == /\ row' \in [Reservation -> RowRecord] /\ usage' \in [Reservation -> UsageRecord]

\* The life of a reservation is made of such moves.
LEMMA Moves ==
  ASSUME TypeOK, NEW r \in Reservation,
         \/ MarkDispatched(r) \/ MarkUnknown(r) \/ ReleaseUndispatched(r)
         \/ \E amount \in Charges : Settle(r, amount)
  PROVE  /\ \A q \in Reservation : Moved(q)
         /\ Typed /\ tx' = tx /\ now' = now
<1>1. row \in [Reservation -> RowRecord] /\ usage \in [Reservation -> UsageRecord]
      /\ row[r] \in RowRecord /\ now \in Nat
  BY LedgerAssumption DEF TypeOK, RowRecord, UsageRecord
<1>2. tx' = tx /\ now' = now
  BY DEF MarkDispatched, MarkUnknown, ReleaseUndispatched, Settle
<1>3. CASE MarkDispatched(r)
  <2>. DEFINE new == [row[r] EXCEPT !.dispatched = TRUE]
  <2>1. /\ new \in RowRecord
        /\ new.bound = row[r].bound /\ new.checked = row[r].checked /\ new.state = row[r].state
    BY <1>1 DEF RowRecord
  <2>2. row' = [row EXCEPT ![r] = new] /\ usage' = usage
    BY <1>3 DEF MarkDispatched
  <2>. HIDE DEF new
  <2>. QED  BY <1>1, <1>2, <2>1, <2>2 DEF Moved, Typed
<1>4. ASSUME NEW st \in {"unknown", "released", "settled"},
             row' = [row EXCEPT ![r].state = st], row[r].state = "held",
             \/ st # "settled" /\ usage' = usage
             \/ /\ st = "settled"
                /\ \E a \in Nat :
                     usage' = [usage EXCEPT ![r] = [recorded |-> TRUE, amount |-> a, at |-> now]]
      PROVE  (\A q \in Reservation : Moved(q)) /\ Typed
  <2>. DEFINE new == [row[r] EXCEPT !.state = st]
  <2>1. /\ new \in RowRecord
        /\ new.bound = row[r].bound /\ new.checked = row[r].checked /\ new.state = st
    BY <1>1 DEF RowRecord, State
  <2>2. row' = [row EXCEPT ![r] = new]
    BY <1>4
  <2>. HIDE DEF new
  <2>3. CASE st # "settled"
    BY <1>1, <1>4, <2>1, <2>2, <2>3 DEF Moved, Typed
  <2>4. CASE st = "settled"
    <3>1. PICK ev \in UsageRecord : ev.recorded /\ ev.at = now /\ usage' = [usage EXCEPT ![r] = ev]
      BY <1>1, <1>4, <2>4 DEF UsageRecord
    <3>. QED  BY <1>1, <1>4, <2>1, <2>2, <2>4, <3>1 DEF Moved, Typed
  <2>. QED  BY <2>3, <2>4
<1>5. CASE MarkUnknown(r) \/ ReleaseUndispatched(r)
  BY <1>2, <1>4, <1>5 DEF MarkUnknown, ReleaseUndispatched
<1>6. CASE \E amount \in Charges : Settle(r, amount)
  <2>1. PICK a \in Nat : Settle(r, a)
    BY <1>6, LedgerAssumption
  <2>. QED  BY <1>2, <1>4, <2>1 DEF Settle
<1>. QED  BY <1>2, <1>3, <1>5, <1>6

\* Which keep the rows in order, and the same ones inserted.
LEMMA RowsMoved ==
  ASSUME TypeOK, Rows, \A q \in Reservation : Moved(q)
  PROVE  Rows' /\ Inserted' = Inserted
<1>1. ASSUME NEW q \in Reservation
      PROVE  /\ row'[q].state = "none" <=> row[q].state = "none"
             /\ usage'[q].recorded <=> row'[q].state = "settled"
             /\ row'[q].checked = row[q].checked
  BY DEF Moved, Rows
<1>. QED  BY <1>1 DEF Rows, Inserted, Counts, Subjects

\* What is summed up is finite.
LEMMA FewRows ==
  ASSUME Rows, IsFiniteSet(Inserted), NEW b, NEW t
  PROVE  /\ IsFiniteSet(Outstanding(b)) /\ IsFiniteSet(Settled(b, t))
         /\ IsFiniteSet({q \in Reservation : b \in row[q].checked})
<1>1. Outstanding(b) \in SUBSET Inserted /\ Settled(b, t) \in SUBSET Inserted
      /\ {q \in Reservation : b \in row[q].checked} \in SUBSET Inserted
  BY DEF Outstanding, Settled, Inserted, Rows
<1>. QED  BY <1>1, FS_Subset

\* And of naturals.
LEMMA Amounts ==
  ASSUME TypeOK
  PROVE  /\ \A q \in Reservation : BoundOf[q] = row[q].bound /\ AmountOf[q] = usage[q].amount
         /\ \A q \in Reservation : BoundOf[q] \in Nat /\ AmountOf[q] \in Nat
         /\ \A q \in Reservation, b \in Budget : Exposure(b, q) \in Nat
BY DEF TypeOK, BoundOf, AmountOf, Exposure, Least

\* A reservation takes less of a budget as it goes on.
LEMMA ExposureFalls ==
  ASSUME TypeOK, TypeOK', now <= now', NEW q \in Reservation, Moved(q), NEW b \in Budget
  PROVE  Exposure(b, q)' <= Exposure(b, q)
<1>1. /\ row[q].bound \in Nat /\ usage[q].amount \in Nat /\ usage'[q].amount \in Nat
      /\ usage[q].at \in Nat /\ usage'[q].at \in Nat /\ now \in Nat /\ now' \in Nat
  BY LedgerAssumption DEF TypeOK
<1>2. /\ LiabilityFrom(b, now) <= LiabilityFrom(b, now') /\ LiabilityFrom(b, now) \in Nat
      /\ LiabilityFrom(b, now') \in Nat
  BY <1>1, WindowsFollow
<1>3. LiabilityFrom(b, now)' = LiabilityFrom(b, now')
  BY DEF LiabilityFrom, PeriodStart
<1>4. PICK f \in Nat, g \in Nat : f = LiabilityFrom(b, now) /\ g = LiabilityFrom(b, now')
  BY <1>2
<1>5. Exposure(b, q)' = IF row'[q].state \in {"held", "unknown"} THEN row'[q].bound
                        ELSE IF row'[q].state = "settled" /\ usage'[q].at >= g
                        THEN Least(usage'[q].amount, row'[q].bound) ELSE 0
  BY <1>3, <1>4 DEF Exposure, Least
<1>6. Exposure(b, q) = IF row[q].state \in {"held", "unknown"} THEN row[q].bound
                       ELSE IF row[q].state = "settled" /\ usage[q].at >= f
                       THEN Least(usage[q].amount, row[q].bound) ELSE 0
  BY <1>4 DEF Exposure
<1>7. row'[q].bound = row[q].bound
  BY DEF Moved
<1>8. CASE row'[q].state = row[q].state /\ usage'[q] = usage[q]
  BY <1>1, <1>2, <1>4, <1>5, <1>6, <1>7, <1>8 DEF Least
<1>9. CASE row[q].state = "held" /\ row'[q].state \in {"unknown", "released", "settled"}
  BY <1>1, <1>5, <1>6, <1>7, <1>9 DEF Least
<1>. QED  BY <1>8, <1>9 DEF Moved

\* And so does the sum of what a budget admitted.
LEMMA AdmittedFalls ==
  ASSUME TypeOK, TypeOK', Rows, IsFiniteSet(Inserted), now <= now',
         \A q \in Reservation : Moved(q), NEW b \in Budget
  PROVE  Admitted(b)' <= Admitted(b)
<1>. DEFINE A == {q \in Reservation : b \in row[q].checked}
            f == [q \in Reservation |-> Exposure(b, q)]
            h == [q \in Reservation |-> Exposure(b, q)']
<1>1. {q \in Reservation : b \in row'[q].checked} = A
  BY DEF Moved
<1>2. Admitted(b) = SumFunctionOnSet(f, A) /\ Admitted(b)' = SumFunctionOnSet(h, A)
  BY <1>1 DEF Admitted
<1>3. IsFiniteSet(A)
  BY FewRows
<1>4. \A q \in A : f[q] \in Nat /\ h[q] \in Nat /\ h[q] <= f[q]
  <2>1. ASSUME NEW q \in Reservation PROVE Exposure(b, q)' <= Exposure(b, q)
    BY <2>1, ExposureFalls
  <2>2. ASSUME NEW q \in Reservation PROVE Exposure(b, q) \in Nat
    BY <2>2, Amounts
  <2>3. ASSUME NEW q \in Reservation PROVE Exposure(b, q)' \in Nat
    <3>1. /\ row'[q].bound \in Nat /\ usage'[q].amount \in Nat
      BY DEF TypeOK
    <3>. QED  BY <3>1 DEF Exposure, Least
  <2>. QED  BY <2>1, <2>2, <2>3
<1>. HIDE DEF A, f, h
<1>5. SumFunctionOnSet(h, A) <= SumFunctionOnSet(f, A) + SumFunctionOnSet(f, {})
  BY <1>3, <1>4, FS_EmptySet, SumCovered
<1>6. SumFunctionOnSet(f, A) \in Nat /\ SumFunctionOnSet(f, {}) = 0
  BY <1>3, <1>4, SumIsNat, SumNothing
<1>. QED  BY <1>2, <1>5, <1>6

\* Evidence is only added.
LEMMA SpentGrows ==
  ASSUME TypeOK, TypeOK', Rows, IsFiniteSet(Inserted), \A q \in Reservation : Moved(q),
         NEW b \in Budget, NEW t \in Nat
  PROVE  Spent(b, t) <= Spent(b, t)'
<1>. DEFINE A == Settled(b, LiabilityFrom(b, t))
            B == Settled(b, LiabilityFrom(b, t))'
            f == [q \in Reservation |-> usage[q].amount]
            g == [q \in Reservation |-> usage'[q].amount]
<1>1. Spent(b, t) = SumFunctionOnSet(f, A) /\ Spent(b, t)' = SumFunctionOnSet(g, B)
  BY DEF Spent, AmountOf
<1>2. Rows' /\ Inserted' = Inserted
  BY RowsMoved
<1>3. IsFiniteSet(A) /\ IsFiniteSet(B)
  <2>1. B \in SUBSET Inserted
    BY <1>2 DEF Settled, Inserted, Rows
  <2>. QED  BY <2>1, FewRows, FS_Subset
<1>4. \A q \in Reservation : f[q] \in Nat /\ g[q] \in Nat
  BY DEF TypeOK
<1>5. \A q \in A : q \in B /\ g[q] = f[q]
  BY DEF Settled, Moved, Rows, LiabilityFrom, PeriodStart
<1>6. A \subseteq Reservation /\ B \subseteq Reservation
  BY DEF Settled
<1>. HIDE DEF A, B, f, g
<1>7. SumFunctionOnSet(f, A) <= SumFunctionOnSet(g, B) + SumFunctionOnSet(g, {})
  BY <1>3, <1>4, <1>5, <1>6, FS_EmptySet, SumCovered
<1>8. SumFunctionOnSet(g, B) \in Nat /\ SumFunctionOnSet(g, {}) = 0
  BY <1>3, <1>4, <1>6, SumIsNat, SumNothing
<1>. QED  BY <1>1, <1>7, <1>8

\* What a budget admitted is outstanding or settled in the window.
LEMMA LiabilitiesCover ==
  ASSUME TypeOK, Rows, IsFiniteSet(Inserted), NEW b \in Budget, Plain(b), NEW t \in Nat, t <= now
  PROVE  Admitted(b) <= SumFunctionOnSet(BoundOf, Outstanding(b)) + Spent(b, t)
<1>. DEFINE A == {q \in Reservation : b \in row[q].checked}
            h == [q \in Reservation |-> Exposure(b, q)]
            B == Outstanding(b)
            C == Settled(b, LiabilityFrom(b, t))
<1>1. Admitted(b) = SumFunctionOnSet(h, A)
      /\ Spent(b, t) = SumFunctionOnSet(AmountOf, C)
  BY DEF Admitted, Spent
<1>2. IsFiniteSet(A) /\ IsFiniteSet(B) /\ IsFiniteSet(C)
  BY FewRows
<1>3. \A q \in Reservation : h[q] \in Nat /\ BoundOf[q] \in Nat /\ AmountOf[q] \in Nat
  BY Amounts
<1>4. LiabilityFrom(b, t) <= LiabilityFrom(b, now) /\ LiabilityFrom(b, t) \in Nat
      /\ LiabilityFrom(b, now) \in Nat
  BY LedgerAssumption, WindowsFollow DEF TypeOK
<1>5. ASSUME NEW q \in A
      PROVE  h[q] <= (IF q \in B THEN BoundOf[q] ELSE 0) + (IF q \in C THEN AmountOf[q] ELSE 0)
  <2>1. Counts(b, q) /\ q \in Reservation
    BY DEF Rows
  <2>2. /\ h[q] = Exposure(b, q) /\ BoundOf[q] = row[q].bound /\ AmountOf[q] = usage[q].amount
        /\ row[q].bound \in Nat /\ usage[q].amount \in Nat /\ usage[q].at \in Nat
    BY <2>1, Amounts DEF TypeOK
  <2>3. CASE row[q].state \in {"held", "unknown"}
    <3>1. q \in B
      BY <2>1, <2>3 DEF Outstanding
    <3>. HIDE DEF B, C, h, A
    <3>. QED  BY <2>2, <2>3, <3>1 DEF Exposure
  <2>4. CASE row[q].state = "settled" /\ usage[q].at >= LiabilityFrom(b, now)
    <3>1. usage[q].at >= LiabilityFrom(b, t)
      BY <1>4, <2>2, <2>4
    <3>2. Budgets[b].holder \in {Payer[q], Tenant}
      BY <2>1 DEF Plain, Counts, Subjects
    <3>3. q \in C
      BY <2>1, <2>4, <3>1, <3>2 DEF Settled, Rows
    <3>. HIDE DEF B, C, h, A
    <3>. QED  BY <2>2, <2>4, <3>3 DEF Exposure, Least
  <2>5. CASE ~(row[q].state \in {"held", "unknown"})
             /\ ~(row[q].state = "settled" /\ usage[q].at >= LiabilityFrom(b, now))
    <3>. HIDE DEF B, C, h, A
    <3>. QED  BY <2>2, <2>5 DEF Exposure
  <2>. QED  BY <2>3, <2>4, <2>5
<1>6. A \subseteq Reservation /\ B \subseteq Reservation /\ C \subseteq Reservation
  BY DEF Outstanding, Settled
<1>. HIDE DEF A, B, C, h
<1>7. SumFunctionOnSet(h, A) <= SumFunctionOnSet(BoundOf, B) + SumFunctionOnSet(AmountOf, C)
  BY <1>2, <1>3, <1>5, <1>6, SumCovered
<1>. QED  BY <1>1, <1>7 DEF B

\* The sums are naturals.
LEMMA Sums ==
  ASSUME TypeOK, Rows, IsFiniteSet(Inserted), NEW b \in Budget, NEW t
  PROVE  Admitted(b) \in Nat /\ Spent(b, t) \in Nat
         /\ SumFunctionOnSet(BoundOf, Outstanding(b)) \in Nat
<1>. DEFINE A == {q \in Reservation : b \in row[q].checked}
            h == [q \in Reservation |-> Exposure(b, q)]
            B == Outstanding(b)
            C == Settled(b, LiabilityFrom(b, t))
<1>1. Admitted(b) = SumFunctionOnSet(h, A) /\ Spent(b, t) = SumFunctionOnSet(AmountOf, C)
  BY DEF Admitted, Spent
<1>2. IsFiniteSet(A) /\ IsFiniteSet(B) /\ IsFiniteSet(C)
  BY FewRows
<1>3. \A q \in Reservation : h[q] \in Nat /\ BoundOf[q] \in Nat /\ AmountOf[q] \in Nat
  BY Amounts
<1>4. A \subseteq Reservation /\ B \subseteq Reservation /\ C \subseteq Reservation
  BY DEF Outstanding, Settled
<1>. HIDE DEF A, B, C, h
<1>. QED  BY <1>1, <1>2, <1>3, <1>4, SumIsNat DEF B

Summable == TypeOK /\ Rows /\ IsFiniteSet(Inserted)

SumsAreNat ==
  \A b \in Budget : Admitted(b) \in Nat /\ \A t \in Nat : Spent(b, t) \in Nat

\* Before a step,
LEMMA SumsNow == Summable => SumsAreNat
BY Sums DEF Summable, SumsAreNat

\* and after it.
LEMMA SumsAfter == Summable' => SumsAreNat'
BY SumsNow, PTL

-----------------------------------------------------------------------------
(* The steps. *)

\* Rows move and no transaction does.
LEMMA MovedInv ==
  ASSUME BudgetInv, LockInv', Typed, tx' = tx, now' \in 0 .. MaxNow, now <= now',
         \A q \in Reservation : Moved(q)
  PROVE  BudgetInv'
<1>. USE DEF BudgetInv
<1>1. TypeOK'
  BY DEF TypeOK, Typed, RowRecord, UsageRecord
<1>2. Rows' /\ Inserted' = Inserted
  BY RowsMoved
<1>3. ASSUME NEW b \in Budget
      PROVE  /\ Admitted(b)' <= Admitted(b) /\ Admitted(b) \in Nat /\ Admitted(b)' \in Nat
             /\ \A t \in Nat : Spent(b, t) <= Spent(b, t)' /\ Spent(b, t) \in Nat
             /\ \A t \in Nat : Spent(b, t)' \in Nat
  <2>1. Admitted(b)' <= Admitted(b) /\ \A t \in Nat : Spent(b, t) <= Spent(b, t)'
    BY <1>1, AdmittedFalls, SpentGrows
  <2>2. Admitted(b) \in Nat /\ \A t \in Nat : Spent(b, t) \in Nat
    BY Sums
  <2>3. ASSUME NEW t \in Nat PROVE Admitted(b)' \in Nat /\ Spent(b, t)' \in Nat
    BY <1>1, <1>2, SumsAfter DEF Summable, SumsAreNat
  <2>4. \A t \in Nat : Admitted(b)' \in Nat /\ Spent(b, t)' \in Nat
    BY <2>3
  <2>. QED  BY <2>1, <2>2, <2>4
<1>4. ASSUME NEW r \in Reservation PROVE Open(r)' /\ Room(r)' /\ Covered(r)'
  <2>1. tx'[r] = tx[r] /\ row'[r].state = "none" <=> row[r].state = "none"
    BY DEF Moved
  <2>2. /\ tx[r].passed \subseteq Budget /\ tx[r].bound \in Nat /\ tx[r].held \in Nat
        /\ tx[r].now \in Nat /\ now \in Nat /\ now' \in Nat
    BY LedgerAssumption DEF TypeOK
  <2>3. Unread(r)' = Unread(r)
    BY DEF Unread, Applicable, Subjects
  <2>4. Open(r)'
    <3>1. Applicable(r, tx[r].now)' = Applicable(r, tx[r].now)
      BY DEF Applicable, Subjects
    <3>. QED  BY <2>1, <2>2, <2>3, <3>1 DEF Open, Moved
  <2>5. Room(r)'
    <3>. SUFFICES ASSUME tx[r].pc # "none", NEW b \in tx[r].passed, Plain(b)
                  PROVE  Admitted(b)' + tx[r].bound <= Budgets[b].limit
      BY DEF Room, Plain
    <3>1. b \in Budget /\ Budgets[b].limit \in Nat /\ Admitted(b) + tx[r].bound <= Budgets[b].limit
      BY <2>2, LedgerAssumption DEF Room
    <3>. QED  BY <1>3, <2>2, <3>1
  <2>6. Covered(r)'
    <3>1. CASE tx[r].pc # "summing"
      BY <2>1, <3>1 DEF Covered
    <3>2. CASE tx[r].pc = "summing"
      <4>1. First(Unread(r)) \in Budget
        BY <3>2, FirstOf DEF Open, Unread, Applicable
      <4>2. PICK b \in Budget : b = First(Unread(r))
        BY <4>1
      <4>3. PICK t \in Nat : t = tx[r].now
        BY <2>2
      <4>4. Plain(b) => Admitted(b) <= tx[r].held + Spent(b, t)
        BY <3>2, <4>2, <4>3 DEF Covered
      <4>5. Plain(b) => Admitted(b)' <= tx[r].held + Spent(b, t)'
        BY <1>3, <2>2, <4>4
      <4>6. First(Unread(r))' = b /\ tx'[r].now = t /\ tx'[r].held = tx[r].held
        BY <2>1, <2>3, <4>2, <4>3 DEF First
      <4>7. Spent(b, tx[r].now)' = Spent(b, t)'
        BY <4>6 DEF Spent, Settled, LiabilityFrom, PeriodStart
      <4>8. Admitted(First(Unread(r)))' = Admitted(b)'
        BY <4>6 DEF Admitted, Exposure
      <4>. QED  BY <4>5, <4>6, <4>7, <4>8 DEF Covered, Plain
    <3>. QED  BY <3>1, <3>2
  <2>. QED  BY <2>4, <2>5, <2>6
<1>5. NoOverAdmission'
  <2>. SUFFICES ASSUME NEW b \in Budget, Admitted(b) <= Budgets[b].limit
                PROVE  Admitted(b)' <= Budgets[b].limit
    BY DEF NoOverAdmission
  <2>1. Budgets[b].limit \in Nat
    BY LedgerAssumption
  <2>. QED  BY <1>3, <2>1
<1>. QED  BY <1>1, <1>2, <1>4, <1>5

\* Only the transaction of r moves.
LEMMA OneTx ==
  ASSUME BudgetInv, LockInv', NEW r \in Reservation, UNCHANGED <<row, usage, now>>, TypeOK',
         \A q \in Reservation \ {r} : tx'[q] = tx[q], Open(r)', Room(r)', Covered(r)'
  PROVE  BudgetInv'
<1>. USE DEF BudgetInv
<1>1. Rows' /\ Inserted' = Inserted
  BY DEF Rows, Inserted, Counts, Subjects
<1>2. ASSUME NEW b PROVE Admitted(b)' = Admitted(b) /\ \A t : Spent(b, t)' = Spent(b, t)
  BY DEF Admitted, Exposure, LiabilityFrom, PeriodStart, Spent, Settled, AmountOf
<1>3. ASSUME NEW q \in Reservation \ {r} PROVE Open(q)' /\ Room(q)' /\ Covered(q)'
  <2>1. Unread(q)' = Unread(q) /\ Applicable(q, tx[q].now)' = Applicable(q, tx[q].now)
    BY DEF Unread, Applicable, Subjects
  <2>2. Open(q)'
    BY <2>1 DEF Open
  <2>3. Room(q)'
    BY <1>2 DEF Room, Plain
  <2>4. Covered(q)'
    BY <1>2, <2>1 DEF Covered, Plain
  <2>. QED  BY <2>2, <2>3, <2>4
<1>4. NoOverAdmission'
  BY <1>2 DEF NoOverAdmission
<1>. QED  BY <1>1, <1>3, <1>4

TxRow == [pc : {"none", "locking", "reading", "summing"}, now : Nat, bound : Nat,
          locked : SUBSET Budget, passed : SUBSET Budget, held : Nat]

\* What a statement of r may leave of its transaction.
LEMMA TxKeeps ==
  ASSUME BudgetInv, LockInv', UNCHANGED <<row, usage, now>>, NEW r \in Reservation,
         NEW new \in TxRow, tx' = [tx EXCEPT ![r] = new],
         new.pc # "none" =>
           /\ row[r].state = "none"
           /\ new.now <= now
           /\ new.passed \subseteq Applicable(r, new.now)
           /\ new.pc = "locking" => new.passed = {}
           /\ new.pc = "summing" => Applicable(r, new.now) \ new.passed # {},
         \A b \in new.passed : Plain(b) => Admitted(b) + new.bound <= Budgets[b].limit,
         new.pc = "summing" =>
           LET b == First(Applicable(r, new.now) \ new.passed)
           IN  Plain(b) => Admitted(b) <= new.held + Spent(b, new.now)
  PROVE  BudgetInv'
<1>1. /\ TypeOK' /\ tx'[r] = new
      /\ \A q \in Reservation \ {r} : tx'[q] = tx[q]
  BY DEF BudgetInv, TypeOK, TxRow
<1>2. /\ Unread(r)' = Applicable(r, new.now) \ new.passed
      /\ Applicable(r, tx[r].now)' = Applicable(r, new.now)
  BY <1>1 DEF Unread, Applicable, Subjects
<1>3. ASSUME NEW b PROVE Admitted(b)' = Admitted(b) /\ \A t : Spent(b, t)' = Spent(b, t)
  BY DEF Admitted, Exposure, LiabilityFrom, PeriodStart, Spent, Settled, AmountOf
<1>4. Open(r)'
  BY <1>1, <1>2 DEF Open
<1>5. Room(r)'
  BY <1>1, <1>3 DEF Room, Plain
<1>6. Covered(r)'
  <2>1. CASE new.pc # "summing"
    BY <1>1, <2>1 DEF Covered
  <2>2. CASE new.pc = "summing"
    <3>1. PICK b : b = First(Applicable(r, new.now) \ new.passed)
      OBVIOUS
    <3>2. First(Unread(r))' = b
      BY <1>2, <3>1 DEF First
    <3>3. Spent(b, tx[r].now)' = Spent(b, new.now)
      <4>1. Spent(b, new.now)' = Spent(b, new.now)
        BY <1>3
      <4>. QED  BY <1>1, <4>1 DEF Spent, Settled, LiabilityFrom, PeriodStart
    <3>4. Plain(b) => Admitted(b) <= new.held + Spent(b, new.now)
      BY <2>2, <3>1
    <3>5. Admitted(First(Unread(r)))' = Admitted(b)
      <4>1. Admitted(First(Unread(r)))' = Admitted(b)'
        BY <3>2 DEF Admitted, Exposure
      <4>. QED  BY <1>3, <4>1
    <3>6. Spent(First(Unread(r)), tx[r].now)' = Spent(b, new.now)
      <4>1. Spent(First(Unread(r)), tx[r].now)' = Spent(b, tx[r].now)'
        BY <3>2 DEF Spent, Settled, LiabilityFrom, PeriodStart
      <4>. QED  BY <3>3, <4>1
    <3>. QED  BY <1>1, <3>2, <3>4, <3>5, <3>6 DEF Covered, Plain
  <2>. QED  BY <2>1, <2>2
<1>. QED  BY <1>1, <1>4, <1>5, <1>6, OneTx

\* A transaction that ends without a row.
LEMMA RollbackBudget ==
  ASSUME BudgetInv, LockInv', UNCHANGED <<row, usage, now>>, NEW r \in Reservation, Rollback(r)
  PROVE  BudgetInv'
<1>1. NoTx \in TxRow /\ NoTx.pc = "none" /\ NoTx.passed = {}
  BY DEF NoTx, TxRow
<1>2. tx' = [tx EXCEPT ![r] = NoTx]
  BY DEF Rollback
<1>. QED  BY <1>1, <1>2, TxKeeps

\* A transaction begins with nothing passed.
LEMMA BeginBudget ==
  ASSUME BudgetInv, LockInv', NEW r \in Reservation, NEW bound \in Bounds, Begin(r, bound)
  PROVE  BudgetInv'
<1>. DEFINE pc == IF Applicable(r, now) = {} THEN "reading" ELSE "locking"
            new == [NoTx EXCEPT !.pc = pc, !.now = now, !.bound = bound]
<1>1. now \in Nat /\ bound \in Nat
  BY LedgerAssumption DEF BudgetInv, TypeOK
<1>2. pc \in {"reading", "locking"}
  OBVIOUS
<1>3. tx' = [tx EXCEPT ![r] = new] /\ UNCHANGED <<row, usage, now>> /\ row[r].state = "none"
  BY DEF Begin
<1>. HIDE DEF pc
<1>4. new \in TxRow /\ new.pc = pc /\ new.now = now /\ new.passed = {}
  BY <1>1, <1>2 DEF NoTx, TxRow
<1>. HIDE DEF new
<1>5. /\ new.now <= now /\ new.passed \subseteq Applicable(r, new.now)
      /\ new.pc # "summing"
      /\ \A b \in new.passed : Plain(b) => Admitted(b) + new.bound <= Budgets[b].limit
  BY <1>1, <1>2, <1>4
<1>. QED  BY <1>1, <1>2, <1>3, <1>4, <1>5, TxKeeps

\* It locks before anything passed.
LEMMA LockBudget ==
  ASSUME BudgetInv, LockInv', NEW r \in Reservation, Lock(r)
  PROVE  BudgetInv'
<1>. DEFINE wanted == Applicable(r, tx[r].now) \ tx[r].locked
            b == First(wanted)
            pc == IF wanted = {b} THEN "reading" ELSE tx[r].pc
            new == [tx[r] EXCEPT !.locked = @ \cup {b}, !.pc = pc]
<1>1. tx[r] \in TxRow /\ tx[r].pc = "locking" /\ UNCHANGED <<row, usage, now>>
  BY DEF BudgetInv, TypeOK, Lock, TxRow
<1>2. tx' = [tx EXCEPT ![r] = new]
  BY <1>1 DEF Lock, BudgetInv, TypeOK
<1>3. b \in Budget
  <2>1. wanted \in SUBSET Budget /\ wanted # {}
    BY DEF Applicable, Lock
  <2>. QED  BY <2>1, FirstOf
<1>4. pc \in {"locking", "reading"}
  BY <1>1
<1>5. Open(r) /\ Room(r)
  BY DEF BudgetInv
<1>. HIDE DEF wanted, b, pc
<1>6. /\ new \in TxRow /\ new.pc = pc /\ new.now = tx[r].now
      /\ new.passed = tx[r].passed /\ new.bound = tx[r].bound
  BY <1>1, <1>3, <1>4 DEF TxRow
<1>. HIDE DEF new
<1>. QED  BY <1>1, <1>2, <1>4, <1>5, <1>6, TxKeeps DEF Open, Room

\* What the first statement reads covers, with the evidence, what was admitted.
LEMMA ReadOutstandingBudget ==
  ASSUME BudgetInv, LockInv', NEW r \in Reservation, ReadOutstanding(r)
  PROVE  BudgetInv'
<1>. DEFINE b == First(Unread(r))
            held == SumFunctionOnSet(BoundOf, Outstanding(b))
            new == [tx[r] EXCEPT !.pc = "summing", !.held = held]
<1>1. /\ tx[r] \in TxRow /\ tx[r].pc = "reading" /\ Unread(r) # {}
      /\ UNCHANGED <<row, usage, now>>
  BY DEF BudgetInv, TypeOK, ReadOutstanding, TxRow
<1>2. tx' = [tx EXCEPT ![r] = new]
  BY DEF ReadOutstanding, BudgetInv, TypeOK
<1>3. b \in Budget
  <2>1. Unread(r) \in SUBSET Budget
    BY DEF Unread, Applicable
  <2>. QED  BY <1>1, <2>1, FirstOf
<1>4. held \in Nat
  BY <1>3, Sums DEF BudgetInv
<1>5. Open(r) /\ Room(r)
  BY DEF BudgetInv
<1>6. Plain(b) => Admitted(b) <= held + Spent(b, tx[r].now)
  <2>1. tx[r].now \in Nat /\ tx[r].now <= now
    BY <1>1, <1>5 DEF TxRow, Open
  <2>. HIDE DEF b
  <2>. QED  BY <1>3, <2>1, LiabilitiesCover DEF BudgetInv
<1>. HIDE DEF held
<1>7. /\ new \in TxRow /\ new.pc = "summing" /\ new.now = tx[r].now /\ new.held = held
      /\ new.passed = tx[r].passed /\ new.bound = tx[r].bound
  BY <1>1, <1>4 DEF TxRow
<1>. HIDE DEF new
<1>8. Applicable(r, new.now) \ new.passed = Unread(r)
  BY <1>7 DEF Unread
<1>. QED  BY <1>1, <1>2, <1>5, <1>6, <1>7, <1>8, TxKeeps DEF Open, Room

\* So a bound that fits beside what both statements read has room.
LEMMA ReadSettledBudget ==
  ASSUME BudgetInv, LockInv', NEW r \in Reservation, ReadSettled(r)
  PROVE  BudgetInv'
<1>. DEFINE b == First(Unread(r))
            spent == Spent(b, tx[r].now)
            new == [tx[r] EXCEPT !.pc = "reading", !.passed = @ \cup {b}, !.held = 0]
<1>1. /\ tx[r] \in TxRow /\ tx[r].pc = "summing" /\ UNCHANGED <<row, usage, now>>
  BY DEF BudgetInv, TypeOK, ReadSettled, TxRow
<1>2. Open(r) /\ Room(r) /\ Covered(r)
  BY DEF BudgetInv
<1>3. b \in Unread(r) /\ b \in Budget
  <2>1. Unread(r) \in SUBSET Budget /\ Unread(r) # {}
    BY <1>1, <1>2 DEF Unread, Applicable, Open
  <2>. QED  BY <2>1, FirstOf
<1>4. CASE Rollback(r)
  BY <1>1, <1>4, RollbackBudget
<1>5. CASE ~Rollback(r)
  <2>1. tx[r].held + spent + tx[r].bound <= Budgets[b].limit
    BY <1>5 DEF ReadSettled, Spent
  <2>2. tx' = [tx EXCEPT ![r] = new]
    BY <1>5 DEF ReadSettled, BudgetInv, TypeOK
  <2>3. Plain(b) => Admitted(b) + tx[r].bound <= Budgets[b].limit
    <3>1. Plain(b) => Admitted(b) <= tx[r].held + spent
      BY <1>1, <1>2 DEF Covered
    <3>2. spent \in Nat /\ Admitted(b) \in Nat /\ tx[r].held \in Nat /\ tx[r].bound \in Nat
          /\ Budgets[b].limit \in Nat
      BY <1>1, <1>3, Sums, LedgerAssumption DEF BudgetInv, TxRow
    <3>. HIDE DEF b, spent
    <3>. QED  BY <2>1, <3>1, <3>2
  <2>. HIDE DEF b
  <2>4. /\ new \in TxRow /\ new.pc = "reading" /\ new.now = tx[r].now
        /\ new.passed = tx[r].passed \cup {b} /\ new.bound = tx[r].bound
    BY <1>1, <1>3 DEF TxRow
  <2>. HIDE DEF new
  <2>5. new.passed \subseteq Applicable(r, new.now)
    BY <1>1, <1>2, <1>3, <2>4 DEF Open, Unread
  <2>6. \A c \in new.passed : Plain(c) => Admitted(c) + new.bound <= Budgets[c].limit
    BY <1>1, <1>2, <2>3, <2>4 DEF Room
  <2>7. row[r].state = "none" /\ new.now <= now
    BY <1>1, <1>2, <2>4 DEF Open
  <2>. QED  BY <1>1, <2>2, <2>4, <2>5, <2>6, <2>7, TxKeeps
<1>. QED  BY <1>4, <1>5

\* A commit: the budgets that passed take the bound, the others nothing.
LEMMA InsertTakes ==
  ASSUME TypeOK, TypeOK', Rows, IsFiniteSet(Inserted), NEW r \in Reservation,
         row[r].state = "none", row'[r].state = "held", UNCHANGED <<usage, now>>,
         row'[r].bound = tx[r].bound, row'[r].checked = tx[r].passed,
         \A q \in Reservation \ {r} : row'[q] = row[q],
         NEW b \in Budget
  PROVE  /\ Admitted(b) \in Nat /\ Admitted(b)' \in Nat
         /\ b \in tx[r].passed => Admitted(b)' <= Admitted(b) + tx[r].bound
         /\ b \notin tx[r].passed => Admitted(b)' <= Admitted(b)
<1>. DEFINE A == {q \in Reservation : b \in row[q].checked}
            C == {q \in Reservation : b \in row'[q].checked}
            f == [q \in Reservation |-> Exposure(b, q)]
            g == [q \in Reservation |-> Exposure(b, q)']
            bound == tx[r].bound
<1>1. Admitted(b) = SumFunctionOnSet(f, A) /\ Admitted(b)' = SumFunctionOnSet(g, C)
  BY DEF Admitted
<1>2. IsFiniteSet(A) /\ r \notin A /\ A \subseteq Reservation /\ C \subseteq Reservation
  BY FewRows DEF Rows
<1>3. /\ b \in tx[r].passed => C = A \cup {r}
      /\ b \notin tx[r].passed => C = A
  BY <1>2
<1>4. bound \in Nat
  BY DEF TypeOK
<1>5. \A q \in Reservation : f[q] \in Nat
  BY Amounts
<1>6. \A q \in Reservation : g[q] \in Nat
  <2>1. ASSUME NEW q \in Reservation PROVE Exposure(b, q)' \in Nat
    <3>1. row'[q].bound \in Nat /\ usage'[q].amount \in Nat
      BY DEF TypeOK
    <3>. QED  BY <3>1 DEF Exposure, Least
  <2>. QED  BY <2>1
<1>7. g[r] = bound
  BY DEF Exposure
<1>8. \A q \in A : g[q] = f[q]
  <2>1. ASSUME NEW q \in Reservation \ {r} PROVE Exposure(b, q)' = Exposure(b, q)
    BY <2>1 DEF Exposure, LiabilityFrom, PeriodStart
  <2>. QED  BY <1>2, <2>1
<1>9. Admitted(b)' = IF b \in tx[r].passed THEN bound + SumFunctionOnSet(g, A)
                                           ELSE SumFunctionOnSet(g, A)
  <2>1. CASE b \in tx[r].passed
    <3>. HIDE DEF A, C, f, g, bound
    <3>1. IsFiniteSet(C) /\ C \ {r} = A /\ r \in C
      BY <1>2, <1>3, <2>1, FS_AddElement
    <3>2. \A q \in C : g[q] \in Nat
      BY <1>2, <1>6
    <3>3. SumFunctionOnSet(g, C) = g[r] + SumFunctionOnSet(g, C \ {r})
      BY <3>1, <3>2, SumWithout
    <3>. QED  BY <1>1, <1>7, <2>1, <3>1, <3>3
  <2>2. CASE b \notin tx[r].passed
    <3>. HIDE DEF A, C, f, g, bound
    <3>. QED  BY <1>1, <1>3, <2>2
  <2>. QED  BY <2>1, <2>2
<1>. HIDE DEF A, C, f, g, bound
<1>10. \A q \in A : f[q] \in Nat /\ g[q] \in Nat /\ g[q] <= f[q]
  BY <1>2, <1>5, <1>6, <1>8
<1>11. SumFunctionOnSet(g, A) <= SumFunctionOnSet(f, A) + SumFunctionOnSet(f, {})
  BY <1>2, <1>10, FS_EmptySet, SumCovered
<1>12. /\ SumFunctionOnSet(f, A) \in Nat /\ SumFunctionOnSet(g, A) \in Nat
       /\ SumFunctionOnSet(f, {}) = 0
  BY <1>2, <1>10, SumIsNat, SumNothing
<1>. QED  BY <1>1, <1>4, <1>9, <1>11, <1>12 DEF bound

\* A commit fills the room, and no other Reserve counted on it: the locks are exclusive.
LEMMA InsertBudget ==
  ASSUME BudgetInv, LockInv', NEW r \in Reservation, Insert(r)
  PROVE  BudgetInv'
<1>. USE DEF BudgetInv
<1>. DEFINE new == [state |-> "held", bound |-> tx[r].bound, dispatched |-> FALSE,
                    checked |-> tx[r].passed]
<1>1. /\ tx[r].bound \in Nat /\ tx[r].passed \in SUBSET Budget
      /\ row \in [Reservation -> RowRecord] /\ tx \in [Reservation -> TxRow]
  BY DEF TypeOK, RowRecord, TxRow
<1>2. tx[r].pc = "reading" /\ row[r].state = "none" /\ UNCHANGED <<usage, now>>
      /\ tx[r].passed \subseteq Applicable(r, tx[r].now)
  BY DEF Insert, Open
<1>3. row' = [row EXCEPT ![r] = new] /\ tx' = [tx EXCEPT ![r] = NoTx]
  BY DEF Insert, Rollback
<1>4. new \in RowRecord /\ NoTx \in TxRow /\ NoTx.pc = "none"
  BY <1>1 DEF RowRecord, State, NoTx, TxRow
<1>5. /\ row'[r] = new /\ tx'[r] = NoTx
      /\ \A q \in Reservation \ {r} : row'[q] = row[q] /\ tx'[q] = tx[q]
  BY <1>1, <1>3
<1>6. TypeOK'
  <2>1. row' \in [Reservation -> RowRecord] /\ tx' \in [Reservation -> TxRow]
    BY <1>1, <1>3, <1>4
  <2>. QED  BY <1>2, <2>1 DEF TypeOK, RowRecord, TxRow
<1>7. IsFiniteSet(Inserted)'
  <2>1. Inserted' = Inserted \cup {r}
    BY <1>5 DEF Inserted
  <2>. QED  BY <2>1, FS_AddElement
<1>8. Rows'
  BY <1>2, <1>5 DEF Rows, Counts, Subjects, Applicable
<1>9. ASSUME NEW b \in Budget
      PROVE  /\ Admitted(b) \in Nat /\ Admitted(b)' \in Nat
             /\ b \in tx[r].passed => Admitted(b)' <= Admitted(b) + tx[r].bound
             /\ b \notin tx[r].passed => Admitted(b)' <= Admitted(b)
  BY <1>2, <1>5, <1>6, InsertTakes
<1>10. \A b, t : Spent(b, t)' = Spent(b, t)
  BY <1>2 DEF Spent, Settled, AmountOf, LiabilityFrom, PeriodStart
<1>11. ASSUME NEW q \in Reservation \ {r} PROVE Open(q)' /\ Room(q)' /\ Covered(q)'
  <2>1. ASSUME NEW b \in Applicable(q, tx[q].now), tx[q].pc \in {"reading", "summing"}
        PROVE  b \in Budget /\ Admitted(b)' <= Admitted(b)
    <3>1. b \notin tx[r].passed
      BY <1>2, <2>1, LockInvSerial DEF SerialPerBudget, Applicable
    <3>. QED  BY <1>9, <3>1 DEF Applicable
  <2>2. /\ Unread(q)' = Unread(q) /\ tx'[q] = tx[q] /\ row'[q] = row[q]
        /\ Applicable(q, tx[q].now)' = Applicable(q, tx[q].now)
    BY <1>5 DEF Unread, Applicable, Subjects
  <2>3. tx[q].now \in Nat /\ tx[q].bound \in Nat /\ tx[q].held \in Nat
        /\ tx[q].pc \in {"none", "locking", "reading", "summing"}
    BY <1>1 DEF TxRow
  <2>4. Open(q)'
    BY <1>2, <2>2 DEF Open
  <2>5. Room(q)'
    <3>. SUFFICES ASSUME tx[q].pc # "none", NEW b \in tx[q].passed, Plain(b)
                  PROVE  Admitted(b)' + tx[q].bound <= Budgets[b].limit
      BY <2>2 DEF Room, Plain
    <3>1. b \in Applicable(q, tx[q].now) /\ tx[q].pc \in {"reading", "summing"}
      BY <2>3 DEF Open
    <3>2. b \in Budget /\ Admitted(b)' <= Admitted(b)
      BY <2>1, <3>1
    <3>3. Admitted(b) + tx[q].bound <= Budgets[b].limit
      BY DEF Room
    <3>4. Budgets[b].limit \in Nat
      BY <3>2, LedgerAssumption
    <3>. QED  BY <1>9, <2>3, <3>2, <3>3, <3>4
  <2>6. Covered(q)'
    <3>1. CASE tx[q].pc # "summing"
      BY <2>2, <3>1 DEF Covered
    <3>2. CASE tx[q].pc = "summing"
      <4>1. PICK b : b = First(Unread(q))
        OBVIOUS
      <4>2. b \in Applicable(q, tx[q].now)
        <5>1. Unread(q) # {} /\ Unread(q) \in SUBSET Budget
          BY <3>2 DEF Open, Unread, Applicable
        <5>. QED  BY <4>1, <5>1, FirstOf DEF Unread
      <4>3. b \in Budget /\ Admitted(b)' <= Admitted(b)
        BY <2>1, <3>2, <4>2
      <4>4. PICK t \in Nat : t = tx[q].now
        BY <2>3
      <4>5. Plain(b) => Admitted(b) <= tx[q].held + Spent(b, t)
        BY <3>2, <4>1, <4>4 DEF Covered
      <4>6. Spent(b, t) \in Nat
        BY <4>3, Sums
      <4>7. Plain(b) => Admitted(b)' <= tx[q].held + Spent(b, t)
        BY <1>9, <2>3, <4>3, <4>5, <4>6
      <4>8. First(Unread(q))' = b
        BY <2>2, <4>1 DEF First
      <4>9. Spent(First(Unread(q)), tx[q].now)' = Spent(b, t)
        <5>1. Spent(First(Unread(q)), tx[q].now)' = Spent(b, t)'
          BY <2>2, <4>4, <4>8 DEF Spent, Settled, LiabilityFrom, PeriodStart
        <5>. QED  BY <1>10, <5>1
      <4>10. Admitted(First(Unread(q)))' = Admitted(b)'
        BY <4>8 DEF Admitted, Exposure
      <4>. QED  BY <2>2, <4>7, <4>8, <4>9, <4>10 DEF Covered, Plain
    <3>. QED  BY <3>1, <3>2
  <2>. QED  BY <2>4, <2>5, <2>6
<1>12. Open(r)' /\ Room(r)' /\ Covered(r)'
  BY <1>4, <1>5 DEF Open, Room, Covered
<1>13. NoOverAdmission'
  <2>. SUFFICES ASSUME NEW b \in Budget, Plain(b)
                PROVE  Admitted(b)' <= Budgets[b].limit
    BY DEF NoOverAdmission, Plain
  <2>1. Admitted(b) <= Budgets[b].limit /\ Budgets[b].limit \in Nat
    BY LedgerAssumption DEF NoOverAdmission, Plain
  <2>2. b \in tx[r].passed => Admitted(b) + tx[r].bound <= Budgets[b].limit
    BY <1>2 DEF Room
  <2>. QED  BY <1>1, <1>9, <2>1, <2>2
<1>. QED  BY <1>6, <1>7, <1>8, <1>11, <1>12, <1>13

\* The ledger starts empty.
LEMMA InitBudgetInv == Init => BudgetInv
<1>. SUFFICES ASSUME Init PROVE BudgetInv
  OBVIOUS
<1>1. TypeOK
  <2>1. row \in [Reservation -> RowRecord] /\ usage \in [Reservation -> UsageRecord]
    BY DEF Init, RowRecord, UsageRecord, State
  <2>2. tx \in [Reservation -> TxRow]
    BY DEF Init, NoTx, TxRow
  <2>3. now \in 0 .. MaxNow
    BY LedgerAssumption DEF Init
  <2>. QED  BY <2>1, <2>2, <2>3 DEF TypeOK, RowRecord, UsageRecord, TxRow
<1>2. LockInv
  BY InitLockInv
<1>3. Inserted = {} /\ IsFiniteSet(Inserted)
  <2>1. Inserted = {}
    BY DEF Init, Inserted
  <2>. QED  BY <2>1, FS_EmptySet
<1>4. Rows
  BY DEF Init, Rows
<1>5. ASSUME NEW r \in Reservation PROVE Open(r) /\ Room(r) /\ Covered(r)
  <2>1. tx[r].pc = "none"
    BY DEF Init, NoTx
  <2>. QED  BY <2>1 DEF Open, Room, Covered
<1>6. ASSUME NEW b \in Budget PROVE Admitted(b) <= Budgets[b].limit
  <2>1. {r \in Reservation : b \in row[r].checked} = {}
    BY DEF Init
  <2>2. Admitted(b) = 0
    BY <2>1, SumNothing DEF Admitted
  <2>. QED  BY <2>2, LedgerAssumption
<1>. QED  BY <1>1, <1>2, <1>3, <1>4, <1>5, <1>6 DEF BudgetInv, NoOverAdmission

\* Every step keeps the invariant.
LEMMA StepBudgetInv == ASSUME BudgetInv, [Next]_ledger PROVE BudgetInv'
<1>1. LockInv'
  BY StepLockInv DEF BudgetInv
<1>2. now \in 0 .. MaxNow /\ now \in Nat
  BY LedgerAssumption DEF BudgetInv, TypeOK
<1>3. CASE UNCHANGED <<row, usage>> /\ tx' = tx /\ now' \in 0 .. MaxNow /\ now <= now'
  <2>1. Typed
    BY <1>3 DEF BudgetInv, TypeOK, Typed, RowRecord, UsageRecord
  <2>2. \A q \in Reservation : Moved(q)
    BY <1>3 DEF Moved
  <2>. QED  BY <1>1, <1>3, <2>1, <2>2, MovedInv
<1>4. CASE UNCHANGED ledger
  <2>1. now <= now
    BY <1>2
  <2>. QED  BY <1>2, <1>3, <1>4, <2>1 DEF ledger
<1>5. CASE Tick
  <2>1. now' \in 0 .. MaxNow /\ now <= now'
    BY <1>2, <1>5, LedgerAssumption DEF Tick
  <2>. QED  BY <1>3, <1>5, <2>1 DEF Tick
<1>6. ASSUME NEW r \in Reservation,
             \/ MarkDispatched(r) \/ MarkUnknown(r) \/ ReleaseUndispatched(r)
             \/ \E amount \in Charges : Settle(r, amount)
      PROVE  BudgetInv'
  <2>1. /\ \A q \in Reservation : Moved(q)
        /\ Typed /\ tx' = tx /\ now' = now
    BY <1>6, Moves DEF BudgetInv
  <2>2. now' \in 0 .. MaxNow /\ now <= now'
    BY <1>2, <2>1
  <2>. QED  BY <1>1, <2>1, <2>2, MovedInv
<1>7. ASSUME NEW r \in Reservation, Abort(r) PROVE BudgetInv'
  BY <1>1, <1>7, RollbackBudget DEF Abort
<1>8. ASSUME NEW r \in Reservation, Reserving(r) PROVE BudgetInv'
  BY <1>1, <1>8, LockBudget, ReadOutstandingBudget, ReadSettledBudget, InsertBudget
  DEF Reserving
<1>9. ASSUME NEW r \in Reservation, NEW bound \in Bounds, Begin(r, bound) PROVE BudgetInv'
  BY <1>1, <1>9, BeginBudget
<1>. QED  BY <1>4, <1>5, <1>6, <1>7, <1>8, <1>9 DEF Next

\* What a budget admitted never adds up to more than its limit, for any number of
\* reservations, budgets and concurrent Reserves: the locks of LockActiveBudgets make
\* the two liability reads of admit good until the insert commits.
THEOREM BudgetsHold == Spec => []NoOverAdmission
<1>1. Spec => []BudgetInv
  BY InitBudgetInv, StepBudgetInv, PTL DEF Spec
<1>2. BudgetInv => NoOverAdmission
  BY DEF BudgetInv
<1>. QED  BY <1>1, <1>2, PTL
================================================================================
