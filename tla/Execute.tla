------------------------------- MODULE Execute -------------------------------
(***************************************************************************)
(* One priced model call end to end: Service.Execute of                     *)
(* internal/inference/service.go takes a permit, reserves, marks the        *)
(* reservation dispatched, sends, and settles or retains the liability.     *)
(*                                                                         *)
(* The ledger is module Billing and every database transaction below is one *)
(* of its actions.  The permit pool is what module Admission promises: at   *)
(* most MaxPermits are out.  An attempt is named by the reservation it      *)
(* makes.  A call runs once; it may lose its client, its database and       *)
(* its process at any point.                                                *)
(***************************************************************************)
EXTENDS Integers, FiniteSets

CONSTANTS
  Reservation, Tenant, Payer, Keys, Budgets, Bounds, Charges, Period, MaxNow,
  Streams,    \* attempts that ask for a streamed answer
  MaxPermits, \* permits of the pool
  Flaky,      \* attempts whose statements may fail or lose their answers
  Crashes     \* whether the process may die

VARIABLES
  row, usage, tx, now,  \* of the ledger
  phase,     \* how far the call has come
  permits,   \* attempts that hold a permit
  gone,      \* attempts whose request context has ended
  sent       \* history: attempts whose request went to the upstream

L == INSTANCE Billing

ledger == <<row, usage, tx, now>>
calls == <<phase, permits, gone, sent>>
vars == <<ledger, calls>>

Phase == {"idle", "waiting", "admitted", "reserving", "unpriced", "repriced",
          "reserved", "releasing", "dispatched", "sent", "streaming",
          "settling", "marking", "done", "dead"}

TypeOK ==
  /\ L!TypeOK
  /\ phase \in [Reservation -> Phase]
  /\ permits \subseteq Reservation
  /\ gone \subseteq Reservation
  /\ sent \subseteq Reservation

Init ==
  /\ L!Init
  /\ phase = [a \in Reservation |-> "idle"]
  /\ permits = {}
  /\ gone = {}
  /\ sent = {}

\* The call moves on and keeps its permit, or moves on without one.
To(a, p) == phase' = [phase EXCEPT ![a] = p] /\ UNCHANGED <<permits, gone, sent>>

ReleaseTo(a, p) ==
  /\ phase' = [phase EXCEPT ![a] = p]
  /\ permits' = permits \ {a}
  /\ UNCHANGED <<gone, sent>>

Call(a) == phase[a] = "idle" /\ To(a, "waiting") /\ UNCHANGED ledger

-----------------------------------------------------------------------------
(* Admission and reservation. *)

Admit(a) ==
  /\ phase[a] = "waiting"
  /\ Cardinality(permits) < MaxPermits
  /\ phase' = [phase EXCEPT ![a] = "admitted"]
  /\ permits' = permits \cup {a}
  /\ UNCHANGED <<gone, sent>> /\ UNCHANGED ledger

\* The pool is full, or the client leaves the queue.
Overloaded(a) == phase[a] = "waiting" /\ To(a, "done") /\ UNCHANGED ledger

\* The endpoint's prices first, then the model's.
BeginReserve(a) ==
  \E bound \in Bounds :
    /\ L!Begin(a, bound)
    /\ \/ phase[a] = "admitted" /\ To(a, "reserving")
       \/ phase[a] = "unpriced" /\ To(a, "repriced")

ReserveStatement(a) ==
  /\ phase[a] \in {"reserving", "repriced"}
  /\ L!Reserving(a)
  /\ UNCHANGED calls

\* Prices are selected when the budgets are locked.
PriceMissing(a) ==
  /\ phase[a] = "reserving"
  /\ tx[a].pc = "reading" /\ tx[a].passed = {}
  /\ L!Abort(a)
  /\ To(a, "unpriced")

ReserveAborted(a) ==
  /\ phase[a] \in {"reserving", "repriced"}
  /\ a \in gone \/ a \in Flaky
  /\ L!Abort(a)
  /\ UNCHANGED calls

Refused(a) ==
  /\ phase[a] \in {"admitted", "reserving", "unpriced", "repriced"}
  /\ tx[a].pc = "none" /\ row[a].state = "none"
  /\ ReleaseTo(a, "done")
  /\ UNCHANGED ledger

\* The second disjunct: committed, and the answer to the commit is lost.
Reserved(a) ==
  /\ phase[a] \in {"reserving", "repriced"}
  /\ row[a].state = "held"
  /\ \/ To(a, "reserved")
     \/ a \in Flaky /\ ReleaseTo(a, "done")
  /\ UNCHANGED ledger

-----------------------------------------------------------------------------
(* The point of no return. *)

\* Faulty variant: the error return forgets the permit.
TransportFailsLeak(a) ==
  /\ phase[a] = "reserved"
  /\ To(a, "releasing")
  /\ UNCHANGED ledger

TransportFails(a) ==
  /\ phase[a] = "reserved"
  /\ ReleaseTo(a, "releasing")
  /\ UNCHANGED ledger

ReleaseReservation(a) ==
  /\ phase[a] = "releasing"
  /\ To(a, "done")
  /\ \/ L!ReleaseUndispatched(a)
     \/ a \in Flaky /\ UNCHANGED ledger

\* Faulty variant: the stamp is written when the answer is in.
MarkLater(a) ==
  /\ phase[a] = "reserved"
  /\ To(a, "dispatched")
  /\ UNCHANGED ledger

Mark(a) ==
  /\ phase[a] = "reserved"
  /\ L!MarkDispatched(a)
  /\ To(a, "dispatched")

\* The stamp runs under the request's own context; it fails, or its answer is lost.
MarkFails(a) ==
  /\ phase[a] = "reserved"
  /\ ReleaseTo(a, "done")
  /\ \/ (a \in gone \/ a \in Flaky) /\ UNCHANGED ledger
     \/ a \in Flaky /\ L!MarkDispatched(a)

Send(a) ==
  /\ phase[a] = "dispatched"
  /\ phase' = [phase EXCEPT ![a] = "sent"]
  /\ sent' = sent \cup {a}
  /\ UNCHANGED <<permits, gone>> /\ UNCHANGED ledger

\* The transport lacks the capability, cannot connect, or the context has ended.
SendFails(a) ==
  /\ phase[a] = "dispatched"
  /\ ReleaseTo(a, "marking")
  /\ UNCHANGED ledger

-----------------------------------------------------------------------------
(* The outcome. *)

\* An answer with usage settles; one without is unknown.
Answer(a) ==
  /\ phase[a] = "sent" /\ a \notin Streams
  /\ \E p \in {"settling", "marking"} : ReleaseTo(a, p)
  /\ UNCHANGED ledger

\* A non-success status.
Reject(a) ==
  /\ phase[a] = "sent"
  /\ ReleaseTo(a, IF a \in Streams THEN "marking" ELSE "settling")
  /\ UNCHANGED ledger

\* The connection breaks, the attempt times out or the client leaves.
Break(a) ==
  /\ phase[a] = "sent"
  /\ ReleaseTo(a, "marking")
  /\ UNCHANGED ledger

Headers(a) ==
  /\ phase[a] = "sent" /\ a \in Streams
  /\ To(a, "streaming")
  /\ UNCHANGED ledger

\* End of the stream or Close, whichever is first: with a terminal event and usage
\* the attempt settles, and the permit is kept until that is written.
FinishStream(a) ==
  /\ phase[a] = "streaming"
  /\ \E p \in {"settling", "marking"} : To(a, p)
  /\ UNCHANGED ledger

\* The detached accounting context: it outlives the request's.
Settle(a) ==
  /\ phase[a] = "settling"
  /\ \E amount \in Charges : L!Settle(a, amount)
  /\ ReleaseTo(a, "done")

\* Settle fails, or its answer is lost, and MarkUnknown follows.
SettleFails(a) ==
  /\ phase[a] = "settling"
  /\ a \in Flaky
  /\ To(a, "marking")
  /\ \/ UNCHANGED ledger
     \/ \E amount \in Charges : L!Settle(a, amount)

\* Faulty variant: the hold of an unknown outcome is given back.
MarkReleased(a) ==
  /\ phase[a] = "marking"
  /\ ReleaseTo(a, "done")
  /\ row' = [row EXCEPT ![a].state = "released"]
  /\ UNCHANGED <<usage, tx, now>>

\* Faulty variant: accounting runs under the request's context.
MarkInRequest(a) ==
  /\ phase[a] = "marking"
  /\ ReleaseTo(a, "done")
  /\ IF a \in gone THEN UNCHANGED ledger ELSE L!MarkUnknown(a)

MarkUnknown(a) ==
  /\ phase[a] = "marking"
  /\ ReleaseTo(a, "done")
  /\ \/ L!MarkUnknown(a)
     \/ (a \in Flaky \/ row[a].state # "held") /\ UNCHANGED ledger

-----------------------------------------------------------------------------
(* The surroundings. *)

Leave(a) ==
  /\ phase[a] \notin {"idle", "done", "dead"}
  /\ gone' = gone \cup {a}
  /\ UNCHANGED <<phase, permits, sent>> /\ UNCHANGED ledger

\* The process dies with all its calls; rows stay.
Crash ==
  /\ Crashes
  /\ phase' = [a \in Reservation |-> IF phase[a] \in {"idle", "done"} THEN phase[a] ELSE "dead"]
  /\ permits' = {}
  /\ UNCHANGED <<gone, sent>> /\ UNCHANGED ledger

\* The server rolls back the transaction of a lost connection.
ServerAborts(a) == phase[a] = "dead" /\ L!Abort(a) /\ UNCHANGED calls

Tick == L!Tick /\ UNCHANGED calls

\* What the code of a call does next.
Step(a) ==
  \/ Admit(a)
  \/ BeginReserve(a) \/ ReserveStatement(a) \/ PriceMissing(a) \/ ReserveAborted(a)
  \/ Refused(a) \/ Reserved(a)
  \/ TransportFails(a) \/ ReleaseReservation(a) \/ Mark(a) \/ MarkFails(a)
  \/ Send(a) \/ SendFails(a)
  \/ Answer(a) \/ Reject(a) \/ Break(a) \/ Headers(a) \/ FinishStream(a)
  \/ Settle(a) \/ SettleFails(a) \/ MarkUnknown(a)

Next ==
  \/ \E a \in Reservation : Call(a) \/ Overloaded(a) \/ Step(a) \/ Leave(a) \/ ServerAborts(a)
  \/ Crash
  \/ Tick

Spec == Init /\ [][Next]_vars

\* A call that can move does: the scheduler runs it, the attempt timeout and the
\* stream's idle and wall limits end every wait, handlers close the stream they
\* hold, and the server ends lost connections.  Nothing is assumed of a client's
\* patience: Overloaded and Leave may never happen.
Fairness ==
  \A a \in Reservation :
    /\ WF_vars(Step(a))
    /\ SF_vars(ReserveStatement(a))
    /\ WF_vars(ServerAborts(a))

FairSpec == Spec /\ Fairness

-----------------------------------------------------------------------------
\* What went upstream stays on the books: from before the request leaves, whatever
\* fails, crashes or disconnects, its reservation is marked dispatched and is held,
\* settled or unknown (service.go:228-230, "never released or retried").
SentIsLiable ==
  \A a \in sent :
    row[a].dispatched /\ row[a].state \in {"held", "settled", "unknown"}

\* Nobody is charged for a request that never left.
ChargedWasSent == \A a \in Reservation : usage[a].recorded => a \in sent

\* A sent attempt is resolved before its call ends, also when the client has gone:
\* with a working database it ends settled or unknown and never stays held.
SentResolves ==
  \A a \in sent \ Flaky : phase[a] = "done" => row[a].state \in {"settled", "unknown"}

\* Every call ends, whoever waits for permits and budgets (or dies with its process).
CallsReturn == \A a \in Reservation : phase[a] = "waiting" ~> phase[a] \in {"done", "dead"}

\* The executor uses the ledger as Billing allows: every step of a call is one of
\* its transactions or leaves it alone.
KeepsLedger == L!Spec
=============================================================================
