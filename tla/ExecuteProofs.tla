---------------------------- MODULE ExecuteProofs ----------------------------
(* Theorems about model calls of module Execute, for every set of attempts,  *)
(* every pool size, and with or without failures and crashes; and about the  *)
(* gate they pass (module Admission), for any number of callers.             *)
EXTENDS Execute, Admission, FiniteSetTheorems, TLAPS

-----------------------------------------------------------------------------
(* Execute implements the ledger. *)

\* What a call does to the ledger is one of its transactions.
LEMMA StepLedger ==
  ASSUME [Next]_vars PROVE [L!Next]_(L!ledger)
<1> DEFINE Same == UNCHANGED ledger
<1>1. Same => UNCHANGED L!ledger
  BY DEF ledger, L!ledger
<1>2. ASSUME NEW a \in Reservation,
             \/ BeginReserve(a) \/ ReserveStatement(a) \/ PriceMissing(a) \/ ReserveAborted(a)
             \/ ServerAborts(a)
      PROVE  L!Next
  BY <1>2 DEF BeginReserve, ReserveStatement, PriceMissing, ReserveAborted, ServerAborts, L!Next
<1>3. ASSUME NEW a \in Reservation, ReleaseReservation(a) \/ Mark(a) \/ MarkFails(a)
      PROVE  L!Next \/ Same
  BY <1>3 DEF ReleaseReservation, Mark, MarkFails, L!Next
<1>4. ASSUME NEW a \in Reservation, Settle(a) \/ SettleFails(a) \/ MarkUnknown(a)
      PROVE  L!Next \/ Same
  BY <1>4 DEF Settle, SettleFails, MarkUnknown, L!Next
<1>5. ASSUME NEW a \in Reservation,
             \/ Call(a) \/ Admit(a) \/ Overloaded(a) \/ Refused(a) \/ Reserved(a)
             \/ TransportFails(a) \/ Send(a) \/ SendFails(a) \/ Answer(a) \/ Reject(a)
             \/ Break(a) \/ Headers(a) \/ FinishStream(a) \/ Leave(a)
      PROVE  Same
  BY <1>5 DEF Call, Admit, Overloaded, Refused, Reserved, TransportFails, Send, SendFails,
              Answer, Reject, Break, Headers, FinishStream, Leave
<1>6. Crash => Same
  BY DEF Crash
<1>7. Tick => L!Next
  BY DEF Tick, L!Next
<1>8. UNCHANGED vars => Same
  BY DEF vars
<1> HIDE DEF Same
<1> QED BY <1>1, <1>2, <1>3, <1>4, <1>5, <1>6, <1>7, <1>8 DEF Next, Step

\* The executor implements the ledger: whatever fails, every step of a call is a
\* transaction that internal/billing allows in that state, or none.
THEOREM LedgerKept == Spec => KeepsLedger
<1>1. Init => L!Init
  BY DEF Init
<1> QED BY <1>1, StepLedger, PTL DEF Spec, KeepsLedger, L!Spec

-----------------------------------------------------------------------------
(* The life of a call. *)

Unsent == {"idle", "waiting", "admitted", "reserving", "unpriced", "repriced",
           "reserved", "releasing", "dispatched"}

Liable(a) == row[a].dispatched /\ row[a].state \in {"held", "settled", "unknown"}

\* The rows are records of the four columns, whatever the amounts in them.
RowShape ==
  \E Amount, Checked :
    row \in [Reservation -> [state : L!State, bound : Amount, dispatched : BOOLEAN,
                             checked : Checked]]

Shape ==
  /\ RowShape
  /\ DOMAIN usage = Reservation
  /\ phase \in [Reservation -> Phase]
  /\ permits \subseteq Reservation
  /\ sent \subseteq Reservation

\* Where a call is tells what it has written and sent.
CallInv(a) ==
  /\ phase[a] \in Unsent => a \notin sent
  /\ phase[a] \in {"reserved", "releasing"} => row[a].state = "held"
  /\ phase[a] \in {"dispatched", "sent", "streaming", "settling", "marking"} => Liable(a)
  /\ a \in sent => Liable(a)
  /\ usage[a].recorded => row[a].state = "settled" /\ a \in sent
  /\ phase[a] \in {"sent", "streaming", "settling"} => a \in sent

IInv == Shape /\ \A a \in Reservation : CallInv(a)

\* Only the call of a moves, and only its row and evidence.
Frame(a) ==
  \A q \in Reservation \ {a} :
    /\ phase'[q] = phase[q] /\ row'[q] = row[q] /\ usage'[q] = usage[q]
    /\ q \in sent' <=> q \in sent

LEMMA FrameInv ==
  ASSUME IInv, NEW a \in Reservation, Frame(a), Shape', CallInv(a)' PROVE IInv'
BY DEF IInv, Frame, CallInv, Liable

LEMMA InitIInv == Init => IInv
<1> SUFFICES ASSUME Init PROVE IInv
  OBVIOUS
<1>1. row \in [Reservation -> [state : L!State, bound : {0}, dispatched : BOOLEAN,
                              checked : {{}}]]
  BY DEF Init, L!Init, L!State
<1>2. RowShape
  BY <1>1 DEF RowShape
<1>3. Shape
  BY <1>2 DEF Shape, Init, L!Init, Phase
<1> QED BY <1>3 DEF IInv, CallInv, Init, L!Init, Unsent, Liable

\* The two ways a call moves on.
LEMMA ToPhase ==
  ASSUME Shape, NEW a \in Reservation, NEW p \in Phase, To(a, p) \/ ReleaseTo(a, p)
  PROVE  /\ phase' \in [Reservation -> Phase] /\ permits' \subseteq Reservation
         /\ sent' = sent /\ phase'[a] = p
         /\ \A q \in Reservation \ {a} : phase'[q] = phase[q]
BY DEF Shape, To, ReleaseTo

\* The state or the stamp of a row can be changed.
LEMMA MoveRow ==
  ASSUME RowShape, NEW a \in Reservation, NEW st \in L!State,
         row' = [row EXCEPT ![a].state = st] \/ row' = [row EXCEPT ![a].dispatched = TRUE]
  PROVE  /\ RowShape'
         /\ \A q \in Reservation \ {a} : row'[q] = row[q]
         /\ row' = [row EXCEPT ![a].state = st] =>
              row'[a].state = st /\ row'[a].dispatched = row[a].dispatched
         /\ row' = [row EXCEPT ![a].dispatched = TRUE] =>
              row'[a].state = row[a].state /\ row'[a].dispatched
<1>1. PICK A, C : row \in [Reservation -> [state : L!State, bound : A, dispatched : BOOLEAN,
                                          checked : C]]
  BY DEF RowShape
<1>2. row' \in [Reservation -> [state : L!State, bound : A, dispatched : BOOLEAN, checked : C]]
  BY <1>1
<1> QED BY <1>1, <1>2 DEF RowShape

LEMMA InsertRow ==
  ASSUME RowShape, NEW a \in Reservation, L!Insert(a)
  PROVE  RowShape' /\ \A q \in Reservation \ {a} : row'[q] = row[q]
<1>1. PICK A, C : row \in [Reservation -> [state : L!State, bound : A, dispatched : BOOLEAN,
                                          checked : C]]
  BY DEF RowShape
<1> DEFINE Amounts == A \cup {tx[a].bound}
<1> DEFINE Checks == C \cup {tx[a].passed}
<1>2. row' \in [Reservation -> [state : L!State, bound : Amounts, dispatched : BOOLEAN,
                               checked : Checks]]
  BY <1>1 DEF L!Insert, L!State
<1>3. \A q \in Reservation \ {a} : row'[q] = row[q]
  BY <1>1 DEF L!Insert
<1> HIDE DEF Amounts, Checks
<1> QED BY <1>2, <1>3 DEF RowShape

\* An action that leaves the ledger alone and keeps the call before its dispatch or
\* after its answer.
LEMMA QuietStep ==
  ASSUME IInv, UNCHANGED ledger, NEW a \in Reservation, NEW p \in Phase,
         To(a, p) \/ ReleaseTo(a, p),
         p \in Unsent => phase[a] \in Unsent,
         p \in {"reserved", "releasing"} => row[a].state = "held",
         p \in {"dispatched", "sent", "streaming", "settling", "marking"} => Liable(a),
         p \in {"sent", "streaming", "settling"} => a \in sent
  PROVE  IInv'
<1>1. row' = row /\ usage' = usage
  BY DEF ledger
<1>2. Shape'
  BY <1>1, ToPhase DEF IInv, Shape, RowShape
<1>3. Frame(a)
  BY <1>1, ToPhase DEF IInv, Frame
<1>4. CallInv(a)'
  BY <1>1, ToPhase DEF IInv, CallInv, Liable
<1> QED BY <1>2, <1>3, <1>4, FrameInv

LEMMA AdmissionSteps ==
  ASSUME IInv, NEW a \in Reservation,
         \/ Call(a) \/ Admit(a) \/ Overloaded(a) \/ Refused(a) \/ Reserved(a) \/ Leave(a)
  PROVE  IInv'
<1>1. CASE Call(a)
  BY <1>1, QuietStep DEF Call, Unsent, Phase
<1>2. CASE Overloaded(a)
  BY <1>2, QuietStep DEF Overloaded, Unsent, Phase
<1>3. CASE Refused(a)
  BY <1>3, QuietStep DEF Refused, Unsent, Phase
<1>4. CASE Reserved(a)
  BY <1>4, QuietStep DEF Reserved, Unsent, Phase
<1>5. CASE Admit(a)
  <2>1. row' = row /\ usage' = usage /\ sent' = sent
    BY <1>5 DEF Admit, ledger
  <2>2. /\ phase[a] = "waiting" /\ phase'[a] = "admitted"
        /\ \A q \in Reservation \ {a} : phase'[q] = phase[q]
    BY <1>5 DEF Admit, IInv, Shape
  <2>3. Shape'
    BY <1>5, <2>1 DEF Admit, IInv, Shape, RowShape, Phase
  <2>4. Frame(a) /\ CallInv(a)'
    BY <2>1, <2>2 DEF IInv, Frame, CallInv, Liable, Unsent
  <2> QED BY <2>3, <2>4, FrameInv
<1>6. CASE Leave(a)
  BY <1>6 DEF Leave, ledger, IInv, Shape, RowShape, CallInv, Liable
<1> QED BY <1>1, <1>2, <1>3, <1>4, <1>5, <1>6

\* The statements of Reserve touch no row but the one they insert.
LEMMA ReserveSteps ==
  ASSUME IInv, NEW a \in Reservation,
         \/ BeginReserve(a) \/ ReserveStatement(a) \/ PriceMissing(a) \/ ReserveAborted(a)
         \/ ServerAborts(a)
  PROVE  IInv'
<1>1. CASE row' = row /\ usage' = usage /\ UNCHANGED calls
  BY <1>1 DEF calls, IInv, Shape, RowShape, CallInv, Liable
<1>2. ASSUME NEW p \in {"reserving", "repriced", "unpriced"}, To(a, p),
             phase[a] \in {"admitted", "unpriced", "reserving"}, row' = row, usage' = usage
      PROVE  IInv'
  <2>1. Shape'
    BY <1>2, ToPhase DEF IInv, Shape, RowShape, Phase
  <2>2. Frame(a) /\ CallInv(a)'
    BY <1>2, ToPhase DEF IInv, Frame, CallInv, Liable, Unsent, Phase
  <2> QED BY <2>1, <2>2, FrameInv
<1>3. CASE BeginReserve(a)
  <2>1. row' = row /\ usage' = usage
    BY <1>3 DEF BeginReserve, L!Begin
  <2>2. \/ phase[a] = "admitted" /\ To(a, "reserving")
        \/ phase[a] = "unpriced" /\ To(a, "repriced")
    BY <1>3 DEF BeginReserve
  <2> QED BY <2>1, <2>2, <1>2
<1>4. CASE PriceMissing(a)
  BY <1>4, <1>2 DEF PriceMissing, L!Abort
<1>5. CASE ReserveAborted(a) \/ ServerAborts(a)
  BY <1>5, <1>1 DEF ReserveAborted, ServerAborts, L!Abort
<1>6. CASE ReserveStatement(a) /\ ~L!Insert(a)
  <2>1. row' = row /\ usage' = usage /\ UNCHANGED calls
    BY <1>6 DEF ReserveStatement, L!Reserving, L!Lock, L!ReadOutstanding, L!ReadSettled
  <2> QED BY <2>1, <1>1
<1>7. CASE ReserveStatement(a) /\ L!Insert(a)
  <2>1. /\ usage' = usage /\ phase' = phase /\ sent' = sent /\ permits' = permits
        /\ phase[a] \in {"reserving", "repriced"}
    BY <1>7 DEF ReserveStatement, L!Insert, calls
  <2>2. RowShape' /\ \A q \in Reservation \ {a} : row'[q] = row[q]
    BY <1>7, InsertRow DEF IInv, Shape
  <2>3. row'[a].state = "held"
    BY <1>7 DEF L!Insert, IInv, Shape, RowShape
  <2>4. Shape'
    BY <2>1, <2>2 DEF IInv, Shape
  <2>5. a \notin sent
    BY <2>1 DEF IInv, CallInv, Unsent
  <2>6. ~usage[a].recorded
    BY <2>5 DEF IInv, CallInv
  <2>7. CallInv(a)'
    BY <2>1, <2>5, <2>6 DEF CallInv
  <2>8. Frame(a)
    BY <2>1, <2>2 DEF Frame
  <2> QED BY <2>4, <2>7, <2>8, FrameInv
<1> QED BY <1>3, <1>4, <1>5, <1>6, <1>7

LEMMA OutcomeSteps ==
  ASSUME IInv, NEW a \in Reservation,
         \/ TransportFails(a) \/ SendFails(a) \/ Answer(a) \/ Break(a) \/ Headers(a)
         \/ FinishStream(a)
  PROVE  IInv'
<1>1. CASE TransportFails(a)
  BY <1>1, QuietStep DEF TransportFails, Unsent, Phase, IInv, CallInv
<1>2. CASE SendFails(a)
  BY <1>2, QuietStep DEF SendFails, Unsent, Phase, IInv, CallInv
<1>3. CASE Break(a)
  BY <1>3, QuietStep DEF Break, Unsent, Phase, IInv, CallInv
<1>4. CASE Headers(a)
  BY <1>4, QuietStep DEF Headers, Unsent, Phase, IInv, CallInv
<1>5. CASE Answer(a)
  BY <1>5, QuietStep DEF Answer, Unsent, Phase, IInv, CallInv
<1>6. CASE FinishStream(a)
  BY <1>6, QuietStep DEF FinishStream, Unsent, Phase, IInv, CallInv
<1> QED BY <1>1, <1>2, <1>3, <1>4, <1>5, <1>6

\* The steps that write to the row of a: a call that is not about to send keeps or
\* gains its liability.
LEMMA LedgerStep ==
  ASSUME IInv, NEW a \in Reservation, NEW p \in {"dispatched", "marking", "done"},
         To(a, p) \/ ReleaseTo(a, p), RowShape', DOMAIN usage' = Reservation,
         \A q \in Reservation \ {a} : row'[q] = row[q] /\ usage'[q] = usage[q],
         p \in {"dispatched", "marking"} => Liable(a)',
         p = "dispatched" => a \notin sent,
         a \in sent => Liable(a)',
         usage'[a].recorded => row'[a].state = "settled" /\ a \in sent
  PROVE  IInv'
<1>1. p \in Phase
  BY DEF Phase
<1>2. Shape'
  BY <1>1, ToPhase DEF IInv, Shape
<1>3. Frame(a)
  BY <1>1, ToPhase DEF IInv, Frame
<1>4. CallInv(a)'
  BY <1>1, ToPhase DEF IInv, CallInv, Liable, Unsent
<1> QED BY <1>2, <1>3, <1>4, FrameInv

LEMMA WriteSteps ==
  ASSUME IInv, NEW a \in Reservation,
         \/ ReleaseReservation(a) \/ Mark(a) \/ MarkFails(a)
         \/ Settle(a) \/ SettleFails(a) \/ MarkUnknown(a)
  PROVE  IInv'
<1> USE DEF IInv, Shape
<1>1. ASSUME UNCHANGED ledger, NEW p \in {"marking", "done"}, To(a, p) \/ ReleaseTo(a, p),
             phase[a] = "settling" \/ p = "done"
      PROVE  IInv'
  BY <1>1, QuietStep DEF Phase, Unsent, CallInv
<1>2. ASSUME L!ReleaseUndispatched(a), phase[a] = "releasing", To(a, "done") PROVE IInv'
  <2>1. row' = [row EXCEPT ![a].state = "released"] /\ usage' = usage
    BY <1>2 DEF L!ReleaseUndispatched
  <2>2. RowShape' /\ \A q \in Reservation \ {a} : row'[q] = row[q]
    BY <2>1, MoveRow DEF L!State
  <2>3. a \notin sent /\ ~usage[a].recorded
    BY <1>2 DEF CallInv, Unsent
  <2> QED BY <1>2, <2>1, <2>2, <2>3, LedgerStep
<1>3. ASSUME L!MarkDispatched(a), phase[a] = "reserved", NEW p \in {"dispatched", "done"},
             To(a, p) \/ ReleaseTo(a, p)
      PROVE  IInv'
  <2>1. row' = [row EXCEPT ![a].dispatched = TRUE] /\ usage' = usage
    BY <1>3 DEF L!MarkDispatched
  <2>2. /\ RowShape' /\ \A q \in Reservation \ {a} : row'[q] = row[q]
        /\ row'[a].dispatched /\ row'[a].state = row[a].state
    BY <2>1, MoveRow DEF L!State
  <2>3. a \notin sent /\ ~usage[a].recorded /\ row[a].state = "held"
    BY <1>3 DEF CallInv, Unsent
  <2> QED BY <1>3, <2>1, <2>2, <2>3, LedgerStep DEF Liable
<1>4. ASSUME NEW amount, L!Settle(a, amount), phase[a] = "settling",
             NEW p \in {"marking", "done"}, To(a, p) \/ ReleaseTo(a, p)
      PROVE  IInv'
  <2>1. /\ row' = [row EXCEPT ![a].state = "settled"]
        /\ DOMAIN usage' = Reservation
        /\ \A q \in Reservation \ {a} : usage'[q] = usage[q]
    BY <1>4 DEF L!Settle
  <2>2. /\ RowShape' /\ \A q \in Reservation \ {a} : row'[q] = row[q]
        /\ row'[a].state = "settled" /\ row'[a].dispatched = row[a].dispatched
    BY <2>1, MoveRow DEF L!State
  <2>3. a \in sent /\ Liable(a)
    BY <1>4 DEF CallInv
  <2> QED BY <1>4, <2>1, <2>2, <2>3, LedgerStep DEF Liable
<1>5. ASSUME L!MarkUnknown(a), phase[a] = "marking", ReleaseTo(a, "done") PROVE IInv'
  <2>1. row' = [row EXCEPT ![a].state = "unknown"] /\ usage' = usage /\ row[a].state = "held"
    BY <1>5 DEF L!MarkUnknown
  <2>2. /\ RowShape' /\ \A q \in Reservation \ {a} : row'[q] = row[q]
        /\ row'[a].state = "unknown" /\ row'[a].dispatched = row[a].dispatched
    BY <2>1, MoveRow DEF L!State
  <2>3. Liable(a) /\ ~usage[a].recorded
    BY <1>5, <2>1 DEF CallInv
  <2> QED BY <1>5, <2>1, <2>2, <2>3, LedgerStep DEF Liable
<1>6. CASE ReleaseReservation(a)
  BY <1>6, <1>1, <1>2 DEF ReleaseReservation
<1>7. CASE Mark(a)
  BY <1>7, <1>3 DEF Mark
<1>8. CASE MarkFails(a)
  BY <1>8, <1>1, <1>3 DEF MarkFails
<1>9. CASE Settle(a)
  BY <1>9, <1>4 DEF Settle
<1>10. CASE SettleFails(a)
  BY <1>10, <1>1, <1>4 DEF SettleFails
<1>11. CASE MarkUnknown(a)
  BY <1>11, <1>1, <1>5 DEF MarkUnknown
<1> QED BY <1>6, <1>7, <1>8, <1>9, <1>10, <1>11

LEMMA UpstreamSteps ==
  ASSUME IInv, NEW a \in Reservation, Send(a) \/ Reject(a) PROVE IInv'
<1>1. row' = row /\ usage' = usage
  BY DEF Send, Reject, ledger
<1>2. /\ phase' \in [Reservation -> Phase] /\ permits' \subseteq Reservation
      /\ \A q \in Reservation \ {a} : phase'[q] = phase[q]
      /\ phase[a] \in {"dispatched", "sent"} /\ phase'[a] \in {"sent", "marking", "settling"}
  BY DEF Send, Reject, ReleaseTo, IInv, Shape, Phase
<1>3. sent' = sent \cup {a}
  BY DEF Send, Reject, ReleaseTo, IInv, CallInv
<1>4. Shape'
  BY <1>1, <1>2, <1>3 DEF IInv, Shape, RowShape
<1>5. Liable(a) /\ ~(usage[a].recorded /\ a \notin sent)
  BY <1>2 DEF IInv, CallInv
<1>6. CallInv(a)'
  BY <1>1, <1>2, <1>3, <1>5 DEF IInv, CallInv, Liable, Unsent
<1>7. Frame(a)
  BY <1>1, <1>2, <1>3 DEF Frame
<1> QED BY <1>4, <1>6, <1>7, FrameInv

LEMMA StepIInv == ASSUME IInv, [Next]_vars PROVE IInv'
<1>1. ASSUME Crash PROVE IInv'
  <2>1. row' = row /\ usage' = usage /\ sent' = sent
    BY <1>1 DEF Crash, ledger
  <2>2. Shape'
    BY <1>1, <2>1 DEF Crash, IInv, Shape, RowShape, Phase
  <2>3. \A a \in Reservation : phase'[a] = phase[a] \/ phase'[a] = "dead"
    BY <1>1 DEF Crash
  <2> QED BY <2>1, <2>2, <2>3 DEF IInv, CallInv, Liable, Unsent
<1>2. ASSUME Tick PROVE IInv'
  BY <1>2 DEF Tick, L!Tick, calls, IInv, Shape, RowShape, CallInv, Liable
<1>3. ASSUME UNCHANGED vars PROVE IInv'
  BY <1>3 DEF vars, ledger, calls, IInv, Shape, RowShape, CallInv, Liable
<1> QED BY <1>1, <1>2, <1>3, AdmissionSteps, ReserveSteps, OutcomeSteps, WriteSteps, UpstreamSteps
        DEF Next, Step

LEMMA Invariant == Spec => []IInv
BY InitIInv, StepIInv, PTL DEF Spec

\* A request that went upstream stays liable, for any number of calls and whatever
\* fails, crashes or disconnects.
THEOREM SentStaysLiable == Spec => []SentIsLiable
<1>1. IInv => SentIsLiable
  BY DEF IInv, Shape, CallInv, Liable, SentIsLiable
<1> QED BY <1>1, Invariant, PTL

\* And nobody is charged for one that did not.
THEOREM OnlySentIsCharged == Spec => []ChargedWasSent
<1>1. IInv => ChargedWasSent
  BY DEF IInv, CallInv, ChargedWasSent
<1> QED BY <1>1, Invariant, PTL

-----------------------------------------------------------------------------
(* The end of a call. *)

\* Nothing is written for a call that has returned.
LEMMA DoneStays ==
  ASSUME IInv, [Next]_vars, NEW q \in Reservation, phase[q] = "done"
  PROVE  row'[q] = row[q] /\ (q \in sent' => q \in sent)
<1>. USE DEF IInv, Shape
<1>1. ASSUME NEW a \in Reservation, NEW p, To(a, p) \/ ReleaseTo(a, p)
      PROVE  sent' = sent
  BY <1>1 DEF To, ReleaseTo
<1>2. ASSUME UNCHANGED ledger PROVE row' = row
  BY <1>2 DEF ledger
<1>3. ASSUME NEW a \in Reservation,
             \/ Call(a) \/ Admit(a) \/ Overloaded(a) \/ Refused(a) \/ Reserved(a) \/ Leave(a)
             \/ TransportFails(a) \/ SendFails(a) \/ Answer(a) \/ Break(a) \/ Headers(a)
             \/ FinishStream(a) \/ Reject(a)
      PROVE  row' = row /\ sent' = sent
  BY <1>1, <1>2, <1>3 DEF Call, Admit, Overloaded, Refused, Reserved, Leave, TransportFails,
     SendFails, Answer, Break, Headers, FinishStream, Reject
<1>4. ASSUME NEW a \in Reservation, BeginReserve(a) \/ PriceMissing(a) \/ ReserveAborted(a)
                                    \/ ServerAborts(a)
      PROVE  row' = row /\ sent' = sent
  BY <1>1, <1>4
  DEF BeginReserve, PriceMissing, ReserveAborted, ServerAborts, L!Begin, L!Abort, calls
<1>5. ASSUME NEW a \in Reservation, ReserveStatement(a)
      PROVE  row'[q] = row[q] /\ sent' = sent
  <2>1. q # a /\ sent' = sent
    BY <1>5 DEF ReserveStatement, calls
  <2>2. CASE L!Insert(a)
    BY <2>1, <2>2, InsertRow
  <2>3. CASE ~L!Insert(a)
    BY <1>5, <2>1, <2>3 DEF ReserveStatement, L!Reserving, L!Lock, L!ReadOutstanding, L!ReadSettled
  <2>. QED  BY <2>2, <2>3
<1>6. ASSUME NEW a \in Reservation,
             \/ ReleaseReservation(a) \/ Mark(a) \/ MarkFails(a)
             \/ Settle(a) \/ SettleFails(a) \/ MarkUnknown(a)
      PROVE  row'[q] = row[q] /\ sent' = sent
  <2>1. q # a
    BY <1>6 DEF ReleaseReservation, Mark, MarkFails, Settle, SettleFails, MarkUnknown
  <2>2. sent' = sent
    BY <1>1, <1>6 DEF ReleaseReservation, Mark, MarkFails, Settle, SettleFails, MarkUnknown
  <2>3. \/ row' = row \/ row' = [row EXCEPT ![a].dispatched = TRUE]
        \/ \E st \in L!State : row' = [row EXCEPT ![a].state = st]
    BY <1>2, <1>6 DEF ReleaseReservation, Mark, MarkFails, Settle, SettleFails, MarkUnknown,
       L!ReleaseUndispatched, L!MarkDispatched, L!Settle, L!MarkUnknown, L!State
  <2>4. DOMAIN row = Reservation
    BY DEF RowShape
  <2>. QED  BY <2>1, <2>2, <2>3, <2>4
<1>7. ASSUME NEW a \in Reservation, Send(a)
      PROVE  row'[q] = row[q] /\ (q \in sent' => q \in sent)
  BY <1>2, <1>7 DEF Send
<1>8. CASE Crash \/ Tick \/ UNCHANGED vars
  BY <1>8 DEF Crash, Tick, L!Tick, ledger, calls, vars
<1>. QED  BY <1>3, <1>4, <1>5, <1>6, <1>7, <1>8 DEF Next, Step

\* A call that has sent returns by way of Settle or MarkUnknown.
LEMMA SentReturns ==
  ASSUME IInv, [Next]_vars, NEW q \in Reservation, phase[q] # "done", phase'[q] = "done",
         q \in sent', q \notin Flaky
  PROVE  row'[q].state \in {"settled", "unknown"}
<1>. USE DEF IInv, Shape
<1>1. PICK a \in Reservation : Call(a) \/ Overloaded(a) \/ Step(a) \/ Leave(a) \/ ServerAborts(a)
  BY DEF Next, Crash, Tick, vars, calls
<1>2. ASSUME NEW p, To(a, p) \/ ReleaseTo(a, p)
      PROVE  a = q /\ p = "done" /\ sent' = sent
  BY <1>2 DEF To, ReleaseTo
<1>3. CASE Settle(a)
  <2>1. a = q /\ row' = [row EXCEPT ![a].state = "settled"]
    BY <1>2, <1>3 DEF Settle, L!Settle
  <2>. QED  BY <2>1, MoveRow DEF L!State
<1>4. CASE MarkUnknown(a)
  <2>1. a = q /\ phase[a] = "marking"
    BY <1>2, <1>4 DEF MarkUnknown
  <2>2. CASE L!MarkUnknown(a)
    BY <2>1, <2>2, MoveRow DEF L!MarkUnknown, L!State
  <2>3. CASE row[a].state # "held" /\ UNCHANGED ledger
    BY <2>1, <2>3 DEF CallInv, Liable, ledger
  <2>. QED  BY <1>4, <2>1, <2>2, <2>3 DEF MarkUnknown
<1>5. CASE Overloaded(a) \/ Refused(a) \/ Reserved(a) \/ ReleaseReservation(a) \/ MarkFails(a)
  <2>1. a = q /\ sent' = sent
    BY <1>2, <1>5 DEF Overloaded, Refused, Reserved, ReleaseReservation, MarkFails
  <2>2. phase[a] \in Unsent
    BY <1>5 DEF Overloaded, Refused, Reserved, ReleaseReservation, MarkFails, Unsent
  <2>. QED  BY <2>1, <2>2 DEF CallInv
<1>6. CASE Call(a) \/ TransportFails(a) \/ SendFails(a) \/ Answer(a) \/ Break(a) \/ Headers(a)
           \/ FinishStream(a) \/ Reject(a) \/ BeginReserve(a) \/ PriceMissing(a) \/ Mark(a)
           \/ SettleFails(a)
  BY <1>2, <1>6 DEF Call, TransportFails, SendFails, Answer, Break, Headers, FinishStream, Reject,
     BeginReserve, PriceMissing, Mark, SettleFails
<1>7. CASE Admit(a) \/ Send(a) \/ Leave(a) \/ ReserveStatement(a) \/ ReserveAborted(a)
           \/ ServerAborts(a)
  BY <1>7 DEF Admit, Send, Leave, ReserveStatement, ReserveAborted, ServerAborts, calls
<1>. QED  BY <1>1, <1>3, <1>4, <1>5, <1>6, <1>7 DEF Step

\* Settle and MarkUnknown run to their end whatever became of the client: a call that has
\* sent does not return with its reservation held, unless its database fails it.
THEOREM SentIsResolved == Spec => []SentResolves
<1>1. Init => SentResolves
  BY DEF Init, SentResolves
<1>2. IInv /\ SentResolves /\ [Next]_vars => SentResolves'
  <2>. SUFFICES ASSUME IInv, SentResolves, [Next]_vars, NEW q \in sent', q \notin Flaky,
                       phase'[q] = "done"
                PROVE  row'[q].state \in {"settled", "unknown"}
    BY DEF SentResolves
  <2>1. q \in Reservation
    BY StepIInv DEF IInv, Shape
  <2>. QED  BY <2>1, DoneStays, SentReturns DEF SentResolves
<1>. QED  BY <1>1, <1>2, Invariant, PTL DEF Spec

-----------------------------------------------------------------------------
(* The admission gate. *)

\* Where callers are, and the line without repetitions.
Places == {"outside", "waiting", "granted", "holding"}
Lined ==
  /\ waiters \in Seq(Caller) /\ pc \in [Caller -> Places]
  /\ \A i \in 1..Len(waiters) : pc[waiters[i]] = "waiting"
  /\ \A c \in Caller : pc[c] = "waiting" => \E i \in 1..Len(waiters) : waiters[i] = c
  /\ \A i, k \in 1..Len(waiters) : waiters[i] = waiters[k] => i = k

\* The counters count what they should, and no slot is idle.
Counted ==
  /\ active \in Nat /\ active <= MaxActive
  /\ queued = Len(waiters) /\ queued <= MaxQueued
  /\ waiters # <<>> => active = MaxActive
  /\ IsFiniteSet(In({"granted", "holding"})) /\ active = Cardinality(In({"granted", "holding"}))
  /\ IsFiniteSet(In({"waiting"})) /\ Cardinality(In({"waiting"})) = Len(waiters)

Labels ==
  /\ tenants \in [TenantId -> 0..MaxCount]
  /\ tenant \in [Caller -> TenantId \cup {NoTenant}]

PoolInv == Lined /\ Counted /\ Labels

-----------------------------------------------------------------------------
(* What a step does to counters, line and places. *)

\* c takes a free slot.
Takes(c) ==
  /\ pc[c] = "outside" /\ waiters = <<>> /\ active < MaxActive
  /\ active' = active + 1 /\ queued' = queued /\ waiters' = waiters
  /\ pc' = [pc EXCEPT ![c] = "holding"]

\* c gets in line.
Lines(c) ==
  /\ pc[c] = "outside" /\ queued < MaxQueued
  /\ active >= MaxActive \/ waiters # <<>>
  /\ active' = active /\ queued' = queued + 1 /\ waiters' = Append(waiters, c)
  /\ pc' = [pc EXCEPT ![c] = "waiting"]

\* c notices its grant.
Notices(c) ==
  /\ pc[c] = "granted" /\ UNCHANGED <<active, queued, waiters>>
  /\ pc' = [pc EXCEPT ![c] = "holding"]

\* c gives back its slot, which nobody waits for.
Frees(c) ==
  /\ pc[c] \in {"granted", "holding"} /\ waiters = <<>>
  /\ active' = active - 1 /\ queued' = queued /\ waiters' = <<>>
  /\ pc' = [pc EXCEPT ![c] = "outside"]

\* c hands its slot to the head of the line.
Hands(c) ==
  /\ pc[c] \in {"granted", "holding"} /\ waiters # <<>>
  /\ active' = active /\ queued' = queued - 1
  /\ waiters' \in Seq(Caller) /\ Len(waiters') = Len(waiters) - 1
  /\ \A k \in 1..Len(waiters) - 1 : waiters'[k] = waiters[k + 1]
  /\ pc' = [pc EXCEPT ![c] = "outside", ![waiters[1]] = "granted"]

\* c leaves the line from place i.
Leaves(c, i) ==
  /\ i \in 1..Len(waiters) /\ waiters[i] = c
  /\ active' = active /\ queued' = queued - 1
  /\ waiters' \in Seq(Caller) /\ Len(waiters') = Len(waiters) - 1
  /\ \A k \in 1..Len(waiters) - 1 : waiters'[k] = IF k < i THEN waiters[k] ELSE waiters[k + 1]
  /\ pc' = [pc EXCEPT ![c] = "outside"]

\* A slot that comes back goes to the head of the line, or is free.
LEMMA HandsOn ==
  ASSUME PoolInv, NEW c \in Caller, pc[c] \in {"granted", "holding"},
         GrantLocked(active - 1, queued, waiters, [pc EXCEPT ![c] = "outside"])
  PROVE  Frees(c) \/ Hands(c)
<1>. DEFINE p == [pc EXCEPT ![c] = "outside"]
            free == MaxActive - (active - 1)
            count == IF free < Len(waiters) THEN free ELSE Len(waiters)
            won == {waiters[i] : i \in 1..count}
<1>1. /\ active' = (active - 1) + count /\ queued' = queued - count
      /\ waiters' = SubSeq(waiters, count + 1, Len(waiters))
      /\ pc' = [d \in Caller |-> IF d \in won THEN "granted" ELSE p[d]]
  BY DEF GrantLocked
<1>2. /\ p \in [Caller -> Places] /\ Len(waiters) \in Nat /\ active \in Nat
      /\ MaxActive \in Nat \ {0} /\ queued = Len(waiters) /\ waiters \in Seq(Caller)
  BY LimitAssumption DEF PoolInv, Lined, Counted, Places
<1>3. CASE waiters = <<>>
  <2>1. count = 0
    BY <1>2, <1>3 DEF PoolInv, Counted
  <2>2. won = {}
    BY <2>1
  <2>. HIDE DEF count, won
  <2>3. pc' = p
    BY <1>1, <1>2, <2>2
  <2>4. Len(waiters) = 0
    BY <1>3
  <2>5. waiters' = <<>>
    BY <1>1, <1>2, <2>1, <2>4
  <2>6. active' = active - 1 /\ queued' = queued
    BY <1>1, <1>2, <2>1, <2>4
  <2>. QED  BY <1>3, <2>3, <2>5, <2>6 DEF Frees
<1>4. CASE waiters # <<>>
  <2>1. count = 1 /\ Len(waiters) >= 1 /\ active = MaxActive
    BY <1>2, <1>4 DEF PoolInv, Counted
  <2>2. won = {waiters[1]}
    BY <2>1
  <2>. HIDE DEF count, won
  <2>3. waiters' = SubSeq(waiters, 2, Len(waiters))
    BY <1>1, <2>1
  <2>4. /\ waiters' \in Seq(Caller) /\ Len(waiters') = Len(waiters) - 1
        /\ \A k \in 1..Len(waiters) - 1 : waiters'[k] = waiters[k + 1]
    BY <1>2, <2>1, <2>3
  <2>5. pc' = [pc EXCEPT ![c] = "outside", ![waiters[1]] = "granted"]
    BY <1>1, <1>2, <2>1, <2>2 DEF PoolInv, Lined
  <2>6. active' = active /\ queued' = queued - 1
    BY <1>1, <1>2, <2>1
  <2>. QED  BY <1>4, <2>4, <2>5, <2>6 DEF Hands
<1>. QED  BY <1>3, <1>4

\* A sequence followed by another.
LEMMA Joined ==
  ASSUME NEW S, NEW u \in Seq(S), NEW v \in Seq(S)
  PROVE  /\ u \o v \in Seq(S) /\ Len(u \o v) = Len(u) + Len(v)
         /\ \A k \in 1..Len(u) : (u \o v)[k] = u[k]
         /\ \A k \in 1..Len(v) : (u \o v)[Len(u) + k] = v[k]
OBVIOUS

\* Who leaves the line frees no slot: none is granted.
LEMMA LeavesLine ==
  ASSUME PoolInv, NEW c \in Caller, CancelQueued(c)
  PROVE  \E i \in 1..Len(waiters) : Leaves(c, i)
<1>1. PICK i \in 1..Len(waiters) :
        /\ waiters[i] = c
        /\ GrantLocked(active, queued - 1,
                       SubSeq(waiters, 1, i - 1) \o SubSeq(waiters, i + 1, Len(waiters)),
                       [pc EXCEPT ![c] = "outside"])
  BY DEF CancelQueued
<1>. DEFINE p == [pc EXCEPT ![c] = "outside"]
            line == SubSeq(waiters, 1, i - 1) \o SubSeq(waiters, i + 1, Len(waiters))
            free == MaxActive - active
            count == IF free < Len(line) THEN free ELSE Len(line)
            won == {line[k] : k \in 1..count}
<1>2. /\ active' = active + count /\ queued' = (queued - 1) - count
      /\ waiters' = SubSeq(line, count + 1, Len(line))
      /\ pc' = [d \in Caller |-> IF d \in won THEN "granted" ELSE p[d]]
  BY <1>1 DEF GrantLocked
<1>3. /\ p \in [Caller -> Places] /\ Len(waiters) \in Nat /\ active \in Nat
      /\ MaxActive \in Nat \ {0} /\ queued = Len(waiters) /\ waiters \in Seq(Caller)
      /\ Len(waiters) >= 1 /\ active = MaxActive
  BY LimitAssumption DEF PoolInv, Lined, Counted, Places
<1>4. /\ SubSeq(waiters, 1, i - 1) \in Seq(Caller) /\ Len(SubSeq(waiters, 1, i - 1)) = i - 1
      /\ SubSeq(waiters, i + 1, Len(waiters)) \in Seq(Caller)
      /\ Len(SubSeq(waiters, i + 1, Len(waiters))) = Len(waiters) - i
      /\ \A k \in 1..i - 1 : SubSeq(waiters, 1, i - 1)[k] = waiters[k]
      /\ \A k \in 1..Len(waiters) - i :
           SubSeq(waiters, i + 1, Len(waiters))[k] = waiters[k + i]
  BY <1>3
<1>5. /\ line \in Seq(Caller) /\ Len(line) = Len(waiters) - 1
      /\ \A k \in 1..Len(waiters) - 1 : line[k] = IF k < i THEN waiters[k] ELSE waiters[k + 1]
  <2>. DEFINE u == SubSeq(waiters, 1, i - 1)
              v == SubSeq(waiters, i + 1, Len(waiters))
  <2>. HIDE DEF u, v
  <2>1. /\ u \in Seq(Caller) /\ Len(u) = i - 1 /\ v \in Seq(Caller) /\ Len(v) = Len(waiters) - i
        /\ \A k \in 1..i - 1 : u[k] = waiters[k]
        /\ \A k \in 1..Len(waiters) - i : v[k] = waiters[k + i]
    BY <1>4 DEF u, v
  <2>2. /\ line \in Seq(Caller) /\ Len(line) = Len(u) + Len(v)
        /\ \A k \in 1..Len(u) : line[k] = u[k]
        /\ \A k \in 1..Len(v) : line[Len(u) + k] = v[k]
    <3>1. line = u \o v
      BY DEF u, v
    <3>2. u \in Seq(Caller) /\ v \in Seq(Caller)
      BY <2>1
    <3>3. /\ u \o v \in Seq(Caller) /\ Len(u \o v) = Len(u) + Len(v)
          /\ \A k \in 1..Len(u) : (u \o v)[k] = u[k]
          /\ \A k \in 1..Len(v) : (u \o v)[Len(u) + k] = v[k]
      BY <3>2, Joined
    <3>. HIDE DEF line
    <3>. QED  BY <3>1, <3>3, Zenon
  <2>. HIDE DEF line
  <2>3. ASSUME NEW k \in 1..Len(waiters) - 1, k < i PROVE line[k] = waiters[k]
    <3>1. k \in 1..Len(u) /\ k \in 1..i - 1
      BY <1>3, <2>1, <2>3
    <3>2. line[k] = u[k] /\ u[k] = waiters[k]
      BY <2>1, <2>2, <3>1
    <3>. QED  BY <3>2
  <2>4. ASSUME NEW k \in 1..Len(waiters) - 1, ~(k < i) PROVE line[k] = waiters[k + 1]
    <3>. DEFINE m == k - (i - 1)
    <3>1. m \in 1..Len(waiters) - i /\ Len(u) + m = k /\ m + i = k + 1
      BY <1>3, <2>1, <2>4
    <3>. HIDE DEF m
    <3>. QED  BY <2>1, <2>2, <3>1
  <2>5. Len(line) = Len(waiters) - 1
    BY <1>3, <2>1, <2>2
  <2>. QED  BY <2>2, <2>3, <2>4, <2>5
<1>. HIDE DEF line
<1>6. count = 0
  BY <1>3, <1>5
<1>7. won = {}
  BY <1>6
<1>. HIDE DEF count, won
<1>8. pc' = p
  BY <1>2, <1>3, <1>7
<1>9. waiters' = line
  <2>1. Len(line) \in Nat
    BY <1>5
  <2>. QED  BY <1>2, <1>5, <1>6, <2>1
<1>10. active' = active /\ queued' = queued - 1
  BY <1>2, <1>3, <1>6
<1>11. Leaves(c, i)
  BY <1>1, <1>5, <1>8, <1>9, <1>10 DEF Leaves
<1>. QED  BY <1>11

\* Nothing else happens to a pool.
LEMMA PoolSteps ==
  ASSUME PoolInv, [PoolNext]_pool
  PROVE  /\ Labels'
         /\ \/ UNCHANGED <<active, queued, waiters, pc>>
            \/ \E c \in Caller : \/ Takes(c) \/ Lines(c) \/ Notices(c) \/ Frees(c) \/ Hands(c)
                                 \/ \E i \in 1..Len(waiters) : Leaves(c, i)
<1>1. CASE UNCHANGED pool
  BY <1>1 DEF pool, PoolInv, Labels
<1>2. ASSUME NEW c \in Caller, NEW t \in TenantId, AcquireNow(c, t) \/ AcquireQueued(c, t)
      PROVE  Labels' /\ (Takes(c) \/ Lines(c))
  <2>1. Takes(c) \/ Lines(c)
    BY <1>2 DEF AcquireNow, AcquireQueued, Takes, Lines
  <2>2. /\ tenants' = [tenants EXCEPT ![t] = IF @ < MaxCount THEN @ + 1 ELSE @]
        /\ tenant' = [tenant EXCEPT ![c] = t]
    BY <1>2 DEF AcquireNow, AcquireQueued, Count
  <2>. QED  BY <2>1, <2>2, LimitAssumption DEF PoolInv, Labels
<1>3. ASSUME NEW c \in Caller, Wake(c) PROVE Labels' /\ Notices(c)
  BY <1>3 DEF Wake, Notices, PoolInv, Labels
<1>4. ASSUME NEW c \in Caller, Release(c) PROVE Labels' /\ (Frees(c) \/ Hands(c))
  <2>1. Frees(c) \/ Hands(c)
    BY <1>4, HandsOn DEF Release
  <2>. QED  BY <1>4, <2>1 DEF Release, Gone, PoolInv, Labels
<1>5. ASSUME NEW c \in Caller, pc[c] # "outside", Discount(tenant[c]), Gone(c) PROVE Labels'
  <2>1. tenants' \in [TenantId -> 0..MaxCount]
    <3>. DEFINE n == IF tenants[tenant[c]] > 0 THEN tenants[tenant[c]] - 1 ELSE 0
    <3>1. tenants' = [tenants EXCEPT ![tenant[c]] = n]
      BY <1>5 DEF Discount
    <3>2. tenant[c] \in TenantId => n \in 0..MaxCount
      BY LimitAssumption DEF PoolInv, Labels
    <3>. HIDE DEF n
    <3>. QED  BY <3>1, <3>2 DEF PoolInv, Labels
  <2>. QED  BY <1>5, <2>1 DEF Gone, PoolInv, Labels
<1>6. ASSUME NEW c \in Caller, CancelGranted(c) PROVE Labels' /\ (Frees(c) \/ Hands(c))
  <2>1. Frees(c) \/ Hands(c)
    BY <1>6, HandsOn DEF CancelGranted
  <2>. QED  BY <1>5, <1>6, <2>1 DEF CancelGranted
<1>7. ASSUME NEW c \in Caller, CancelQueued(c)
      PROVE  Labels' /\ \E i \in 1..Len(waiters) : Leaves(c, i)
  <2>1. \E i \in 1..Len(waiters) : Leaves(c, i)
    BY <1>7, LeavesLine
  <2>. QED  BY <1>5, <1>7, <2>1 DEF CancelQueued
<1>. QED  BY <1>1, <1>2, <1>3, <1>4, <1>6, <1>7 DEF PoolNext

-----------------------------------------------------------------------------
\* The pool starts empty.
LEMMA InitPool == PoolInit => PoolInv
<1>. SUFFICES ASSUME PoolInit PROVE PoolInv
  OBVIOUS
<1>1. waiters = <<>> /\ Len(waiters) = 0 /\ waiters \in Seq(Caller)
  BY DEF PoolInit
<1>2. Lined
  BY <1>1 DEF PoolInit, Lined, Places
<1>3. In({"granted", "holding"}) = {} /\ In({"waiting"}) = {}
  BY DEF PoolInit, In
<1>4. Counted
  <2>1. IsFiniteSet({}) /\ Cardinality({}) = 0
    BY FS_EmptySet
  <2>2. /\ IsFiniteSet(In({"granted", "holding"})) /\ Cardinality(In({"granted", "holding"})) = 0
        /\ IsFiniteSet(In({"waiting"})) /\ Cardinality(In({"waiting"})) = 0
    BY <1>3, <2>1
  <2>3. active = 0 /\ queued = 0 /\ 0 <= MaxActive /\ 0 <= MaxQueued
    BY LimitAssumption DEF PoolInit
  <2>. QED  BY <1>1, <2>2, <2>3 DEF Counted
<1>5. Labels
  BY LimitAssumption DEF PoolInit, Labels
<1>. QED  BY <1>2, <1>4, <1>5 DEF PoolInv

\* The line stays the line of those who wait.
LEMMA LineKept ==
  ASSUME PoolInv, NEW c \in Caller,
         \/ Takes(c) \/ Lines(c) \/ Notices(c) \/ Frees(c) \/ Hands(c)
         \/ \E i \in 1..Len(waiters) : Leaves(c, i)
  PROVE  Lined'
<1>. USE DEF PoolInv, Places
<1>1. CASE Takes(c) \/ Notices(c) \/ Frees(c)
  BY <1>1 DEF Takes, Notices, Frees, Lined
<1>2. CASE Lines(c)
  <2>1. /\ Len(waiters) \in Nat /\ Len(waiters') = Len(waiters) + 1 /\ waiters' \in Seq(Caller)
        /\ waiters'[Len(waiters) + 1] = c
        /\ \A k \in 1..Len(waiters) : waiters'[k] = waiters[k] /\ waiters[k] \in Caller
    BY <1>2 DEF Lines, Lined
  <2>2. /\ pc' \in [Caller -> Places] /\ pc[c] = "outside" /\ pc'[c] = "waiting"
        /\ \A d \in Caller \ {c} : pc'[d] = pc[d]
    BY <1>2 DEF Lines, Lined
  <2>3. \A i \in 1..Len(waiters') : i \in 1..Len(waiters) \/ i = Len(waiters) + 1
    BY <2>1
  <2>4. \A i \in 1..Len(waiters) : i \in 1..Len(waiters') /\ Len(waiters) + 1 \in 1..Len(waiters')
    BY <2>1
  <2>5. Len(waiters) + 1 \in 1..Len(waiters')
    BY <2>1
  <2>6. \A i \in 1..Len(waiters') : pc'[waiters'[i]] = "waiting"
    BY <2>1, <2>2, <2>3 DEF Lined
  <2>7. ASSUME NEW d \in Caller, pc'[d] = "waiting"
        PROVE  \E i \in 1..Len(waiters') : waiters'[i] = d
    <3>1. CASE d = c
      BY <2>1, <2>5, <3>1
    <3>2. CASE d # c
      <4>1. PICK i \in 1..Len(waiters) : waiters[i] = d
        BY <2>2, <2>7, <3>2 DEF Lined
      <4>. QED  BY <2>1, <2>4, <4>1
    <3>. QED  BY <3>1, <3>2
  <2>8. ASSUME NEW i \in 1..Len(waiters'), NEW k \in 1..Len(waiters'), waiters'[i] = waiters'[k]
        PROVE  i = k
    <3>1. \A j \in 1..Len(waiters) : waiters'[j] # c
      BY <2>1, <2>2 DEF Lined
    <3>. QED  BY <2>1, <2>3, <2>8, <3>1 DEF Lined
  <2>. QED  BY <2>1, <2>2, <2>6, <2>7, <2>8 DEF Lined
<1>3. CASE Hands(c)
  <2>1. /\ Len(waiters) \in Nat /\ Len(waiters) >= 1 /\ Len(waiters') = Len(waiters) - 1
        /\ waiters' \in Seq(Caller)
        /\ \A k \in 1..Len(waiters') : /\ k \in 1..Len(waiters) /\ k + 1 \in 1..Len(waiters)
                                      /\ waiters'[k] = waiters[k + 1]
        /\ \A k \in 1..Len(waiters) : waiters[k] \in Caller
    BY <1>3 DEF Hands, Lined
  <2>2. /\ pc' \in [Caller -> Places] /\ pc[c] # "waiting" /\ pc[waiters[1]] = "waiting"
        /\ pc'[c] = "outside" /\ pc'[waiters[1]] = "granted" /\ waiters[1] \in Caller
        /\ \A d \in Caller \ {c, waiters[1]} : pc'[d] = pc[d]
    BY <1>3, <2>1 DEF Hands, Lined
  <2>3. \A k \in 1..Len(waiters') : waiters'[k] # waiters[1] /\ pc[waiters'[k]] = "waiting"
    <3>. SUFFICES ASSUME NEW k \in 1..Len(waiters')
                  PROVE  waiters'[k] # waiters[1] /\ pc[waiters'[k]] = "waiting"
      OBVIOUS
    <3>1. k + 1 \in 1..Len(waiters) /\ 1 \in 1..Len(waiters) /\ k + 1 # 1
      BY <2>1
    <3>. QED  BY <2>1, <3>1 DEF Lined
  <2>4. \A k \in 1..Len(waiters') : pc'[waiters'[k]] = "waiting"
    BY <2>1, <2>2, <2>3
  <2>5. ASSUME NEW d \in Caller, pc'[d] = "waiting"
        PROVE  \E i \in 1..Len(waiters') : waiters'[i] = d
    <3>1. d # waiters[1] /\ pc[d] = "waiting"
      BY <2>2, <2>5
    <3>2. PICK i \in 1..Len(waiters) : waiters[i] = d
      BY <3>1 DEF Lined
    <3>3. i - 1 \in 1..Len(waiters') /\ (i - 1) + 1 = i
      BY <2>1, <3>1, <3>2
    <3>. QED  BY <2>1, <3>2, <3>3
  <2>6. ASSUME NEW i \in 1..Len(waiters'), NEW k \in 1..Len(waiters'), waiters'[i] = waiters'[k]
        PROVE  i = k
    <3>1. i + 1 = k + 1
      BY <2>1, <2>6 DEF Lined
    <3>. QED  BY <2>1, <3>1
  <2>. QED  BY <2>1, <2>2, <2>4, <2>5, <2>6 DEF Lined
<1>4. ASSUME NEW p \in 1..Len(waiters), Leaves(c, p) PROVE Lined'
  <2>. DEFINE old(k) == IF k < p THEN k ELSE k + 1
  <2>1. /\ Len(waiters) \in Nat /\ Len(waiters') = Len(waiters) - 1 /\ waiters' \in Seq(Caller)
        /\ \A k \in 1..Len(waiters') : waiters'[k] = waiters[old(k)]
        /\ \A k \in 1..Len(waiters) : waiters[k] \in Caller
        /\ waiters[p] = c
    BY <1>4 DEF Leaves, Lined
  <2>2. /\ \A k \in 1..Len(waiters') : old(k) \in 1..Len(waiters) /\ old(k) # p
        /\ \A i, k \in 1..Len(waiters') : old(i) = old(k) => i = k
        /\ \A j \in 1..Len(waiters) : j # p => \E k \in 1..Len(waiters') : old(k) = j
    <3>1. \A j \in 1..Len(waiters) : j < p => j \in 1..Len(waiters') /\ old(j) = j
      BY <2>1
    <3>2. \A j \in 1..Len(waiters) : j > p => j - 1 \in 1..Len(waiters') /\ old(j - 1) = j
      BY <2>1
    <3>3. \A j \in 1..Len(waiters) : j # p => \E k \in 1..Len(waiters') : old(k) = j
      <4>. HIDE DEF old
      <4>. QED  BY <3>1, <3>2
    <3>. QED  BY <2>1, <3>3
  <2>. HIDE DEF old
  <2>3. /\ pc' \in [Caller -> Places] /\ pc'[c] = "outside"
        /\ \A d \in Caller \ {c} : pc'[d] = pc[d]
    BY <1>4 DEF Leaves, Lined
  <2>4. \A k \in 1..Len(waiters') : waiters'[k] # c /\ pc[waiters'[k]] = "waiting"
    <3>. SUFFICES ASSUME NEW k \in 1..Len(waiters')
                  PROVE  waiters'[k] # c /\ pc[waiters'[k]] = "waiting"
      OBVIOUS
    <3>1. PICK j \in 1..Len(waiters) : j = old(k) /\ j # p /\ waiters'[k] = waiters[j]
      BY <2>1, <2>2
    <3>. QED  BY <2>1, <3>1 DEF Lined
  <2>5. \A k \in 1..Len(waiters') : pc'[waiters'[k]] = "waiting"
    BY <2>1, <2>2, <2>3, <2>4
  <2>6. ASSUME NEW d \in Caller, pc'[d] = "waiting"
        PROVE  \E i \in 1..Len(waiters') : waiters'[i] = d
    <3>1. d # c /\ pc[d] = "waiting"
      BY <2>3, <2>6
    <3>2. PICK i \in 1..Len(waiters) : waiters[i] = d
      BY <3>1 DEF Lined
    <3>. QED  BY <2>1, <2>2, <3>1, <3>2
  <2>7. ASSUME NEW i \in 1..Len(waiters'), NEW k \in 1..Len(waiters'), waiters'[i] = waiters'[k]
        PROVE  i = k
    <3>1. /\ old(i) \in 1..Len(waiters) /\ old(k) \in 1..Len(waiters)
          /\ waiters[old(i)] = waiters[old(k)]
      BY <2>1, <2>2, <2>7
    <3>2. old(i) = old(k)
      BY <3>1 DEF Lined
    <3>. QED  BY <2>2, <3>2
  <2>. QED  BY <2>1, <2>3, <2>5, <2>6, <2>7 DEF Lined
<1>. QED  BY <1>1, <1>2, <1>3, <1>4

\* The counters keep up.
LEMMA CountKept ==
  ASSUME PoolInv, NEW c \in Caller,
         \/ Takes(c) \/ Lines(c) \/ Notices(c) \/ Frees(c) \/ Hands(c)
         \/ \E i \in 1..Len(waiters) : Leaves(c, i)
  PROVE  Counted'
<1>. USE DEF PoolInv, Places
<1>. DEFINE Slots == In({"granted", "holding"})
            Queue == In({"waiting"})
<1>1. /\ IsFiniteSet(Slots) /\ active = Cardinality(Slots) /\ active \in Nat
      /\ IsFiniteSet(Queue) /\ Len(waiters) = Cardinality(Queue) /\ Len(waiters) \in Nat
      /\ queued = Len(waiters) /\ MaxActive \in Nat \ {0} /\ MaxQueued \in Nat
      /\ active <= MaxActive /\ queued <= MaxQueued
      /\ waiters \in Seq(Caller) /\ pc \in [Caller -> Places]
      /\ waiters # <<>> => active = MaxActive
  BY LimitAssumption DEF Counted, Lined
<1>2. CASE Takes(c)
  <2>1. Slots' = Slots \cup {c} /\ c \notin Slots /\ Queue' = Queue
    BY <1>1, <1>2 DEF Takes, In
  <2>. HIDE DEF Slots, Queue
  <2>2. IsFiniteSet(Slots') /\ Cardinality(Slots') = Cardinality(Slots) + 1
    BY <1>1, <2>1, FS_AddElement
  <2>. QED  BY <1>1, <1>2, <2>1, <2>2 DEF Takes, Counted, Slots, Queue
<1>3. CASE Lines(c)
  <2>1. Queue' = Queue \cup {c} /\ c \notin Queue /\ Slots' = Slots
    BY <1>1, <1>3 DEF Lines, In
  <2>. HIDE DEF Slots, Queue
  <2>2. IsFiniteSet(Queue') /\ Cardinality(Queue') = Cardinality(Queue) + 1
    BY <1>1, <2>1, FS_AddElement
  <2>3. Len(waiters') = Len(waiters) + 1 /\ active = MaxActive
    BY <1>1, <1>3 DEF Lines
  <2>. QED  BY <1>1, <1>3, <2>1, <2>2, <2>3 DEF Lines, Counted, Slots, Queue
<1>4. CASE Notices(c)
  <2>1. Slots' = Slots /\ Queue' = Queue
    BY <1>1, <1>4 DEF Notices, In
  <2>. HIDE DEF Slots, Queue
  <2>. QED  BY <1>1, <1>4, <2>1 DEF Notices, Counted, Slots, Queue
<1>5. CASE Frees(c)
  <2>1. Slots' = Slots \ {c} /\ c \in Slots /\ Queue' = Queue
    BY <1>1, <1>5 DEF Frees, In
  <2>. HIDE DEF Slots, Queue
  <2>2. IsFiniteSet(Slots') /\ Cardinality(Slots') = Cardinality(Slots) - 1
        /\ Cardinality(Slots') \in Nat
    BY <1>1, <2>1, FS_RemoveElement, FS_CardinalityType
  <2>. QED  BY <1>1, <1>5, <2>1, <2>2 DEF Frees, Counted, Slots, Queue
<1>6. CASE Hands(c)
  <2>. DEFINE h == waiters[1]
  <2>1. h \in Caller /\ pc[h] = "waiting" /\ Len(waiters) >= 1
    BY <1>1, <1>6 DEF Hands, Lined
  <2>2. /\ Slots' = (Slots \ {c}) \cup {h} /\ c \in Slots /\ h \notin Slots
        /\ Queue' = Queue \ {h} /\ h \in Queue
    BY <1>1, <1>6, <2>1 DEF Hands, In
  <2>. HIDE DEF Slots, Queue, h
  <2>3. IsFiniteSet(Slots \ {c}) /\ Cardinality(Slots \ {c}) = Cardinality(Slots) - 1
    BY <1>1, <2>2, FS_RemoveElement
  <2>4. IsFiniteSet(Slots') /\ Cardinality(Slots') = Cardinality(Slots)
    <3>1. h \notin Slots \ {c}
      BY <2>2
    <3>2. /\ IsFiniteSet((Slots \ {c}) \cup {h})
          /\ Cardinality((Slots \ {c}) \cup {h}) = Cardinality(Slots \ {c}) + 1
      BY <2>3, <3>1, FS_AddElement, Zenon
    <3>3. Cardinality(Slots) \in Nat
      BY <1>1
    <3>. QED  BY <2>2, <2>3, <3>2, <3>3
  <2>5. IsFiniteSet(Queue') /\ Cardinality(Queue') = Cardinality(Queue) - 1
    BY <1>1, <2>2, FS_RemoveElement
  <2>. QED  BY <1>1, <1>6, <2>1, <2>4, <2>5 DEF Hands, Counted, Slots, Queue
<1>7. ASSUME NEW i \in 1..Len(waiters), Leaves(c, i) PROVE Counted'
  <2>1. Queue' = Queue \ {c} /\ c \in Queue /\ Slots' = Slots /\ waiters # <<>>
    BY <1>1, <1>7 DEF Leaves, In, Lined
  <2>. HIDE DEF Slots, Queue
  <2>2. IsFiniteSet(Queue') /\ Cardinality(Queue') = Cardinality(Queue) - 1
    BY <1>1, <2>1, FS_RemoveElement
  <2>. QED  BY <1>1, <1>7, <2>1, <2>2 DEF Leaves, Counted, Slots, Queue
<1>. QED  BY <1>2, <1>3, <1>4, <1>5, <1>6, <1>7

\* Every step keeps the invariant.
LEMMA StepPool == ASSUME PoolInv, [PoolNext]_pool PROVE PoolInv'
<1>1. CASE UNCHANGED <<active, queued, waiters, pc>>
  BY <1>1, PoolSteps DEF PoolInv, Lined, Counted, In
<1>. QED  BY <1>1, PoolSteps, LineKept, CountKept DEF PoolInv

\* Slots are conserved, for any number of callers, tenants and slots: a grant that races
\* a cancellation is counted once, and no slot idles while somebody waits.
THEOREM SlotsAreConserved == PoolSpec => []SlotsConserved
<1>1. PoolSpec => []PoolInv
  BY InitPool, StepPool, PTL DEF PoolSpec
<1>2. PoolInv => SlotsConserved
  <2>. SUFFICES ASSUME PoolInv PROVE SlotsConserved
    OBVIOUS
  <2>1. {waiters[i] : i \in 1..Len(waiters)} = In({"waiting"})
    BY DEF PoolInv, Lined, In
  <2>. QED  BY <2>1 DEF SlotsConserved, PoolInv, Counted
<1>. QED  BY <1>1, <1>2, PTL

\* The counters stay within their limits and every variable keeps its type.
THEOREM PoolTyped == PoolSpec => []PoolTypes
<1>1. PoolSpec => []PoolInv
  BY InitPool, StepPool, PTL DEF PoolSpec
<1>2. PoolInv => PoolTypes
  BY LimitAssumption DEF PoolInv, Lined, Counted, Labels, Places, PoolTypes
<1>. QED  BY <1>1, <1>2, PTL

\* Of two that stay in line neither overtakes the other, and who comes in comes last.
LEMMA NoOvertaking ==
  ASSUME PoolInv, [PoolNext]_pool, NEW c \in Caller, NEW d \in Caller,
         pc[c] = "waiting", pc'[c] = "waiting"
  PROVE  /\ pc[d] = "outside" => pc'[d] \in {"outside", "waiting"}
         /\ pc[d] = "outside" /\ pc'[d] = "waiting" => Ahead(c, d)'
         /\ Ahead(c, d) => pc'[d] = "outside" \/ Ahead(c, d)'
<1>. USE DEF PoolInv, Places
<1>1. /\ pc \in [Caller -> Places] /\ waiters \in Seq(Caller) /\ Len(waiters) \in Nat
      /\ \A i \in 1..Len(waiters) : waiters[i] \in Caller /\ pc[waiters[i]] = "waiting"
  BY DEF Lined
<1>2. PICK i \in 1..Len(waiters) : waiters[i] = c
  BY DEF Lined
<1>3. CASE UNCHANGED <<waiters, pc>>
  BY <1>3 DEF Ahead
<1>4. ASSUME NEW x \in Caller, Takes(x) \/ Frees(x) PROVE FALSE
  <2>1. Len(waiters) = 0
    BY <1>4 DEF Takes, Frees
  <2>. QED  BY <1>1, <1>2, <2>1
<1>5. ASSUME NEW x \in Caller, Notices(x)
      PROVE  /\ pc[d] = "outside" => pc'[d] = "outside"
             /\ Ahead(c, d) => Ahead(c, d)'
  BY <1>1, <1>5 DEF Notices, Ahead
<1>6. ASSUME NEW x \in Caller, Lines(x)
      PROVE  /\ pc[d] = "outside" => pc'[d] \in {"outside", "waiting"}
             /\ pc[d] = "outside" /\ pc'[d] = "waiting" => Ahead(c, d)'
             /\ Ahead(c, d) => Ahead(c, d)'
  <2>1. /\ Len(waiters') = Len(waiters) + 1 /\ waiters'[Len(waiters) + 1] = x
        /\ \A k \in 1..Len(waiters) : waiters'[k] = waiters[k] /\ k \in 1..Len(waiters')
        /\ Len(waiters) + 1 \in 1..Len(waiters')
    BY <1>1, <1>6 DEF Lines
  <2>2. pc'[x] = "waiting" /\ \A y \in Caller \ {x} : pc'[y] = pc[y]
    BY <1>1, <1>6 DEF Lines
  <2>3. d = x => Ahead(c, d)'
    <3>1. i < Len(waiters) + 1
      BY <1>1
    <3>. QED  BY <1>2, <2>1, <3>1 DEF Ahead
  <2>4. Ahead(c, d) => Ahead(c, d)'
    BY <2>1 DEF Ahead
  <2>. QED  BY <2>2, <2>3, <2>4
<1>7. ASSUME NEW x \in Caller, Hands(x)
      PROVE  /\ pc[d] = "outside" => pc'[d] = "outside"
             /\ Ahead(c, d) => Ahead(c, d)'
  <2>1. /\ Len(waiters') = Len(waiters) - 1 /\ Len(waiters) >= 1
        /\ \A k \in 1..Len(waiters) : k # 1 =>
             k - 1 \in 1..Len(waiters') /\ waiters'[k - 1] = waiters[k]
        /\ 1 \in 1..Len(waiters)
    BY <1>1, <1>7 DEF Hands
  <2>2. /\ pc'[waiters[1]] = "granted" /\ pc'[x] \in {"outside", "granted"}
        /\ pc[waiters[1]] = "waiting" /\ pc[x] \in {"granted", "holding"}
        /\ \A y \in Caller \ {x, waiters[1]} : pc'[y] = pc[y]
    BY <1>1, <1>7, <2>1 DEF Hands
  <2>3. Ahead(c, d) => Ahead(c, d)'
    <3>. SUFFICES ASSUME NEW j \in 1..Len(waiters), NEW k \in 1..Len(waiters),
                         j < k, waiters[j] = c, waiters[k] = d
                  PROVE  Ahead(c, d)'
      BY DEF Ahead
    <3>1. j # 1 /\ k # 1
      BY <2>2
    <3>2. j - 1 < k - 1
      OBVIOUS
    <3>. QED  BY <2>1, <3>1, <3>2 DEF Ahead
  <2>. QED  BY <2>2, <2>3
<1>8. ASSUME NEW x \in Caller, NEW p \in 1..Len(waiters), Leaves(x, p)
      PROVE  /\ pc[d] = "outside" => pc'[d] = "outside"
             /\ Ahead(c, d) => pc'[d] = "outside" \/ Ahead(c, d)'
  <2>. DEFINE new(k) == IF k < p THEN k ELSE k - 1
  <2>1. /\ \A k \in 1..Len(waiters) : k # p =>
             new(k) \in 1..Len(waiters') /\ waiters'[new(k)] = waiters[k]
        /\ \A j, k \in 1..Len(waiters) : j < k /\ j # p /\ k # p => new(j) < new(k)
    BY <1>1, <1>8 DEF Leaves
  <2>2. /\ pc'[x] = "outside" /\ waiters[p] = x
        /\ \A y \in Caller \ {x} : pc'[y] = pc[y]
    BY <1>1, <1>8 DEF Leaves
  <2>3. Ahead(c, d) => pc'[d] = "outside" \/ Ahead(c, d)'
    <3>. SUFFICES ASSUME NEW j \in 1..Len(waiters), NEW k \in 1..Len(waiters),
                         j < k, waiters[j] = c, waiters[k] = d, pc'[d] # "outside"
                  PROVE  Ahead(c, d)'
      BY DEF Ahead
    <3>1. j # p /\ k # p
      BY <2>2
    <3>. HIDE DEF new
    <3>. QED  BY <2>1, <3>1 DEF Ahead
  <2>. QED  BY <2>2, <2>3
<1>. QED  BY <1>3, <1>4, <1>5, <1>6, <1>7, <1>8, PoolSteps

\* First come, first served, for any number of callers: the line keeps its order through
\* grants at its head and cancellations in its middle.
THEOREM FirstComeFirstServed == PoolSpec => Fifo
<1>1. PoolSpec => []PoolInv
  BY InitPool, StepPool, PTL DEF PoolSpec
<1>2. PoolInv /\ [PoolNext]_pool =>
        [\A c, d \in Caller :
           pc[c] = "waiting" /\ pc'[c] = "waiting" =>
             /\ pc[d] = "outside" => pc'[d] \in {"outside", "waiting"}
             /\ pc[d] = "outside" /\ pc'[d] = "waiting" => Ahead(c, d)'
             /\ Ahead(c, d) => pc'[d] = "outside" \/ Ahead(c, d)']_pool
  BY NoOvertaking
<1>. QED  BY <1>1, <1>2, PTL DEF PoolSpec, Fifo
================================================================================
