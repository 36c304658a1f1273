---------------------------- MODULE PolicyProofs ----------------------------
(***************************************************************************)
(* For every number of endpoints, configurations, calls, edits, stamps and  *)
(* changes: a stamp on an endpoint is a proof of its configuration, what    *)
(* demands assurance goes to what was assured, and nothing is sent against  *)
(* what has stood in its way since the call began.                          *)
(***************************************************************************)
EXTENDS Policy, TLAPS

-----------------------------------------------------------------------------
(* Types: a call that is under way or was sent has its request, its endpoint *)
(* and the row it read of it; an edit that writes has its row.               *)

CallAt == {"idle", "sent", "ended"} \cup Started
UnderWay(k) == k.sent \/ k.at \in Started \cup {"sent"}

CallOK(k) ==
  /\ k \in CallRecord
  /\ UnderWay(k) => k.ask \in Asking /\ k.e \in Endpoint /\ k.row \in Row
  /\ k.sent => k.at \in {"sent", "stamp", "ended"}
  /\ k.at = "sent" => k.sent

EditRecord == [at : {"idle", "enable", "write", "done"}, e : Endpoint \cup {None},
               row : Row \cup {None}]
EditOK(k) ==
  /\ k \in EditRecord
  /\ k.at \in {"enable", "write"} => k.e \in Endpoint /\ k.row \in Row

Types ==
  /\ TypeOK
  /\ \A c \in Call : CallOK(call[c])
  /\ \A x \in Edit : EditOK(edit[x])
  /\ \A x \in Edit : edit[x].at = "enable" => endpoint[edit[x].e] # None

-----------------------------------------------------------------------------
(* The inductive invariant. *)

\* What anybody holds of a row, a transport or a call's proof was observed to attest.
Attested(row, A) == row # None /\ row.stamp # 0 => row.config \in A
EntryOK(t, A) ==
  t # None => /\ t.proved => t.sig[1] \in A
              /\ Protocol[t.sig[1]] = "tinfoil" => t.proved

ProofOK(k, A) ==
  /\ Attested(k.row, A)
  /\ k.proved => k.row # None /\ k.row.config \in A
  /\ k.at = "stamp" => k.row.config \in A
  /\ k.at \in {"stamp", "store", "mark"} \/ k.sent => (Verifiable(k.row) => k.proved)

Proofs ==
  /\ \A e \in Endpoint : Attested(endpoint[e], attested) /\ EntryOK(cache[e], attested)
  /\ \A x \in Edit : Attested(edit[x].row, attested)
  /\ \A c \in Call : ProofOK(call[c], attested)

\* The subjects a call's inputs stand under, and those it has read.
ConcernsOf(k) ==
  {"tenant"} \cup (IF "object" \in k.ask.inputs THEN {"connection", "object"} ELSE {})
             \cup (IF "artifact" \in k.ask.inputs THEN {"artifact"} ELSE {})
OfObject == {"connection", "narrow", "narrowed", "ofConnection"}
ReadOf(k) ==
  CASE k.at \in {"object"} \cup OfObject -> {"tenant"}
    [] k.at = "ofObject" -> {"tenant", "connection"}
    [] k.at = "ofArtifact" -> ConcernsOf(k) \ {"artifact"}
    [] OTHER -> {}
Decided(k) == k.sent \/ k.at \in {"transport", "verify", "stamp", "store", "mark"}

\* What a call has collected covers what stood in each subject it read.
Covers(eff, s, h) ==
  /\ \A cap \in Capability : <<"deny", s, cap>> \in h => cap \in eff.denied
  /\ <<"high", s>> \in h => eff.level = High

\* A verdict was given against all that has stood since.
Cleared(k, h) ==
  \A s \in ConcernsOf(k) :
    /\ <<"deny", s, k.cap>> \notin h
    /\ <<"high", s>> \in h => k.row.stamp # 0 \/ Verifiable(k.row)

\* The endpoint, the object and its connection as they were looked at.
Looked(k, h) ==
  /\ <<"off", k.e>> \notin h
  /\ k.at \in OfObject \cup {"ofObject"} => <<"gone">> \notin h
  /\ k.at \in {"narrow", "narrowed", "ofConnection", "ofObject"} => <<"inactive">> \notin h
  /\ (k.at = "ofArtifact" \/ Decided(k)) /\ "object" \in k.ask.inputs =>
       <<"gone">> \notin h /\ <<"inactive">> \notin h
  /\ k.at \in {"object", "ofObject"} \cup OfObject => "object" \in k.ask.inputs
  /\ k.at = "ofArtifact" => "artifact" \in k.ask.inputs

AuthorityOK(k, h) ==
  UnderWay(k) /\ k.ask.kind # "manage" =>
    /\ \A s \in ReadOf(k) : Covers(k.eff, s, h)
    /\ Decided(k) => Cleared(k, h)
    /\ Looked(k, h)

\* A follow-up reads no restriction.
ManageOK(k) ==
  UnderWay(k) /\ k.ask.kind = "manage" => Decided(k)

Authority == \A c \in Call : AuthorityOK(call[c], held[c]) /\ ManageOK(call[c])

IInv == Types /\ Proofs /\ Authority

-----------------------------------------------------------------------------
(* Types. *)

\* Merging keeps the type, and both parts count.
LEMMA MergeType ==
  ASSUME NEW r \in Restrictions, NEW s \in Restrictions
  PROVE  /\ Merge(r, s) \in Restrictions
         /\ Merge(r, s).denied = r.denied \cup s.denied
         /\ Merge(r, s).level >= r.level /\ Merge(r, s).level >= s.level
  BY DEF Restrictions, Merge, Level

LEMMA UnrestrictedType == Unrestricted \in Restrictions
  BY DEF Restrictions, Unrestricted, Level

\* A call that has nothing under way is one.
LEMMA FreshOK ==
  ASSUME NEW p \in {"idle", "ended"}
  PROVE  CallOK([Fresh EXCEPT !.at = p]) /\ ~UnderWay([Fresh EXCEPT !.at = p])
  BY PolicyAssumption, UnrestrictedType
     DEF CallOK, UnderWay, CallRecord, Fresh, Started, Row

\* A call that ends keeps its type.
LEMMA EndedOK ==
  ASSUME NEW c \in Call, CallOK(call[c])
  PROVE  CallOK(Ended(c))
<1>1. CASE call[c].sent
  BY <1>1 DEF Ended, Goto, CallOK, CallRecord, UnderWay, Started
<1>2. CASE ~call[c].sent
  BY <1>2, FreshOK DEF Ended
<1> QED
  BY <1>1, <1>2

\* A call that moves on before it was sent keeps its type.
LEMMA MoveOK ==
  ASSUME NEW c \in Call, CallOK(call[c]), UnderWay(call[c]), ~call[c].sent,
         NEW to \in Started, NEW eff \in Restrictions, NEW got \in Restrictions,
         NEW p \in BOOLEAN
  PROVE  /\ CallOK(Goto(c, to))
         /\ CallOK([Goto(c, to) EXCEPT !.eff = eff])
         /\ CallOK([Goto(c, to) EXCEPT !.got = got])
         /\ CallOK([Goto(c, to) EXCEPT !.proved = p])
  BY DEF Goto, CallOK, CallRecord, UnderWay, Started

\* One call becomes another record, the others stay.
LEMMA BecomesOK ==
  ASSUME Types, NEW c \in Call, NEW k, CallOK(k), Becomes(c, k)
  PROVE  /\ call' \in [Call -> CallRecord]
         /\ \A d \in Call : CallOK(call'[d])
         /\ call'[c] = k
         /\ \A d \in Call : d # c => call'[d] = call[d]
<1>1. k \in CallRecord
  BY DEF CallOK
<1>2. call \in [Call -> CallRecord]
  BY DEF Types, TypeOK
<1>3. call' = [call EXCEPT ![c] = k]
  BY DEF Becomes
<1> QED
  BY <1>1, <1>2, <1>3 DEF Types

\* What an action of call c does to the calls: c becomes a call, the others stay.
CallAction(c) ==
  \/ \E a \in Asking : Route(c, a) \/ Manage(c, a)
  \/ TenantRow(c) \/ GetObject(c) \/ GetConnection(c)
  \/ NarrowConnection(c) \/ NarrowObject(c)
  \/ ConnectionRow(c) \/ ObjectRow(c) \/ ArtifactRow(c)
  \/ Transport(c) \/ Verify(c) \/ Stamp(c) \/ Store(c)
  \/ Send(c) \/ Answered(c) \/ Abandon(c)
Moved(c) == \E k \in CallRecord : CallOK(k) /\ Becomes(c, k)

\* The verdict, and what comes before it, move the call.
LEMMA DecideMoves ==
  ASSUME NEW c \in Call, CallOK(call[c]), UnderWay(call[c]), ~call[c].sent,
         NEW eff \in Restrictions, Decide(c, eff) \/ AfterObjects(c, eff)
  PROVE  Moved(c)
<1>1. CallOK([Goto(c, "transport") EXCEPT !.eff = Unrestricted])
  BY MoveOK, UnrestrictedType DEF Started
<1>2. CallOK([Goto(c, "ofArtifact") EXCEPT !.eff = eff])
  BY MoveOK DEF Started
<1>3. CallOK(Ended(c))
  BY EndedOK
<1>4. Decide(c, eff) => Moved(c)
  BY <1>1, <1>3 DEF Decide, If, Moved, CallOK
<1> QED
  BY <1>2, <1>4 DEF AfterObjects, Moved, CallOK

\* Every action of a call moves it.
LEMMA CallMoves ==
  ASSUME Types, NEW c \in Call, CallAction(c)
  PROVE  Moved(c)
<1>1. CallOK(call[c]) /\ call[c] \in CallRecord
  BY DEF Types, CallOK
<1>2. CallOK(Ended(c))
  BY <1>1, EndedOK
<1>3. restr \in [Subject -> Restrictions]
  BY DEF Types, TypeOK
<1>4. endpoint \in [Endpoint -> Row \cup {None}]
  BY DEF Types, TypeOK
<1>5. call[c].at \in Started \ {"stamp"} => UnderWay(call[c]) /\ ~call[c].sent
  BY <1>1 DEF CallOK, UnderWay, Started
<1>6. ASSUME NEW k, CallOK(k), Becomes(c, k)
      PROVE  Moved(c)
  BY <1>6 DEF Moved, CallOK
<1>7. ASSUME NEW b, NEW k, CallOK(k), If(b, c, k)
      PROVE  Moved(c)
  BY <1>7, <1>6, <1>2 DEF If
<1>8. ASSUME NEW a \in Asking, Route(c, a)
      PROVE  Moved(c)
  <2>1. PICK e \in Candidates(a) :
          Becomes(c, [Fresh EXCEPT !.at = "tenant", !.ask = a, !.e = e,
                                   !.cap = EffectiveCapability(a), !.row = endpoint[e]])
    BY <1>8 DEF Route
  <2>2. e \in Endpoint /\ endpoint[e] \in Row
    BY <2>1, <1>4 DEF Candidates, Eligible
  <2>3. EffectiveCapability(a) \in Capability
    BY PolicyAssumption DEF EffectiveCapability, Ask
  <2>4. CallOK([Fresh EXCEPT !.at = "tenant", !.ask = a, !.e = e,
                             !.cap = EffectiveCapability(a), !.row = endpoint[e]])
    BY <2>2, <2>3, UnrestrictedType DEF CallOK, UnderWay, CallRecord, Fresh, Started
  <2> QED
    BY <2>1, <2>4, <1>6
<1>9. ASSUME NEW a \in Asking, Manage(c, a)
      PROVE  Moved(c)
  <2>1. a.pin \in Endpoint /\ a.cap \in Capability
    BY <1>9, PolicyAssumption DEF Manage, Ask
  <2>2. endpoint[a.pin] \in Row
    BY <1>9, <2>1, <1>4 DEF Manage
  <2>3. CallOK([Fresh EXCEPT !.at = "transport", !.ask = a, !.e = a.pin,
                             !.cap = a.cap, !.row = endpoint[a.pin]])
    BY <2>1, <2>2, UnrestrictedType DEF CallOK, UnderWay, CallRecord, Fresh, Started
  <2> QED
    BY <1>9, <2>3, <1>6 DEF Manage
<1>10. ASSUME TenantRow(c)
       PROVE  Moved(c)
  <2> DEFINE eff == Merge(Unrestricted, restr["tenant"])
  <2>1. eff \in Restrictions
    BY <1>3, MergeType, UnrestrictedType DEF Subject
  <2>2. UnderWay(call[c]) /\ ~call[c].sent
    BY <1>10, <1>5 DEF TenantRow, At, Started
  <2>3. CallOK([Goto(c, "object") EXCEPT !.eff = eff])
    BY <2>1, <2>2, <1>1, MoveOK DEF Started
  <2>4. AfterObjects(c, eff) => Moved(c)
    BY <2>1, <2>2, <1>1, DecideMoves
  <2> QED
    BY <1>10, <2>3, <2>4, <1>6 DEF TenantRow
<1>11. ASSUME GetObject(c)
       PROVE  Moved(c)
  <2>1. CallOK(Goto(c, "connection"))
    BY <1>11, <1>1, <1>5, MoveOK, UnrestrictedType DEF GetObject, At, Started
  <2> QED
    BY <1>11, <2>1, <1>7 DEF GetObject
<1>12. ASSUME GetConnection(c)
       PROVE  Moved(c)
  <2>1. CallOK(Goto(c, "ofConnection")) /\ CallOK(Goto(c, "narrow"))
    BY <1>12, <1>1, <1>5, MoveOK, UnrestrictedType DEF GetConnection, At, Started
  <2> QED
    BY <1>12, <2>1, <1>7 DEF GetConnection
<1>13. ASSUME NarrowConnection(c)
       PROVE  Moved(c)
  <2>1. CallOK([Goto(c, "narrowed") EXCEPT !.got = restr["connection"]])
    BY <1>13, <1>1, <1>3, <1>5, MoveOK, UnrestrictedType
       DEF NarrowConnection, At, Started, Subject
  <2> QED
    BY <1>13, <2>1, <1>6 DEF NarrowConnection
<1>14. ASSUME NarrowObject(c)
       PROVE  Moved(c)
  <2>1. CallOK([Goto(c, "ofConnection") EXCEPT !.got = Unrestricted])
    BY <1>14, <1>1, <1>5, MoveOK, UnrestrictedType DEF NarrowObject, At, Started
  <2> QED
    BY <1>14, <2>1, <1>7 DEF NarrowObject
<1>15. ASSUME ConnectionRow(c)
       PROVE  Moved(c)
  <2> DEFINE eff == Merge(call[c].eff, restr["connection"])
  <2>1. eff \in Restrictions
    BY <1>1, <1>3, MergeType DEF Subject, CallRecord
  <2>2. [Goto(c, "ofObject") EXCEPT !.eff = Merge(@, restr["connection"])]
          = [Goto(c, "ofObject") EXCEPT !.eff = eff]
    BY <1>1 DEF Goto, CallRecord
  <2>3. CallOK([Goto(c, "ofObject") EXCEPT !.eff = eff])
    BY <1>15, <2>1, <1>1, <1>5, MoveOK DEF ConnectionRow, At, Started
  <2> QED
    BY <1>15, <2>2, <2>3, <1>6 DEF ConnectionRow
<1>16. ASSUME ObjectRow(c) \/ ArtifactRow(c)
       PROVE  Moved(c)
  <2>1. /\ Merge(call[c].eff, restr["object"]) \in Restrictions
        /\ Merge(call[c].eff, restr["artifact"]) \in Restrictions
    BY <1>1, <1>3, MergeType DEF Subject, CallRecord
  <2>2. UnderWay(call[c]) /\ ~call[c].sent
    BY <1>16, <1>5 DEF ObjectRow, ArtifactRow, At, Started
  <2> QED
    BY <1>16, <2>1, <2>2, <1>1, DecideMoves DEF ObjectRow, ArtifactRow
<1>17. ASSUME Transport(c)
       PROVE  Moved(c)
  <2>1. UnderWay(call[c]) /\ ~call[c].sent /\ call[c].e \in Endpoint
    BY <1>17, <1>1, <1>5 DEF Transport, At, Started, CallOK
  <2>2. cache[call[c].e] # None => cache[call[c].e].proved \in BOOLEAN
    BY <2>1 DEF Types, TypeOK
  <2>3. cache[call[c].e] # None =>
          CallOK([Goto(c, "mark") EXCEPT !.proved = cache[call[c].e].proved])
    BY <2>1, <2>2, <1>1, MoveOK, UnrestrictedType DEF Started
  <2>4. CallOK(Goto(c, "verify")) /\ CallOK(Goto(c, "store"))
    BY <2>1, <1>1, MoveOK, UnrestrictedType DEF Started
  <2> QED
    BY <1>17, <2>3, <2>4, <1>6 DEF Transport
<1>18. ASSUME Verify(c)
       PROVE  Moved(c)
  <2>1. /\ CallOK([Goto(c, "store") EXCEPT !.proved = TRUE])
        /\ CallOK([Goto(c, "stamp") EXCEPT !.proved = TRUE])
    BY <1>18, <1>1, <1>5, MoveOK, UnrestrictedType DEF Verify, At, Started
  <2> QED
    BY <1>18, <2>1, <1>6 DEF Verify
<1>19. ASSUME Stamp(c)
       PROVE  Moved(c)
  <2>1. call[c].sent => CallOK(Goto(c, "ended"))
    BY <1>1 DEF Goto, CallOK, CallRecord, UnderWay, Started
  <2>2. ~call[c].sent => CallOK(Goto(c, "store"))
    BY <1>19, <1>1, MoveOK, UnrestrictedType DEF Stamp, At, UnderWay, Started
  <2> QED
    BY <1>19, <2>1, <2>2, <1>6 DEF Stamp
<1>20. ASSUME Store(c)
       PROVE  Moved(c)
  <2>1. CallOK(Goto(c, "mark"))
    BY <1>20, <1>1, <1>5, MoveOK, UnrestrictedType DEF Store, At, Started
  <2> QED
    BY <1>20, <2>1, <1>6 DEF Store
<1>21. ASSUME Send(c)
       PROVE  Moved(c)
  <2>1. CallOK([Goto(c, "sent") EXCEPT !.sent = TRUE])
    BY <1>21, <1>1 DEF Send, At, Goto, CallOK, CallRecord, UnderWay, Started
  <2> QED
    BY <1>21, <2>1, <1>6 DEF Send
<1>22. ASSUME Answered(c)
       PROVE  Moved(c)
  <2>1. CallOK(Goto(c, "ended")) /\ CallOK(Goto(c, "stamp"))
    BY <1>22, <1>1 DEF Answered, At, Goto, CallOK, CallRecord, UnderWay, Started
  <2> QED
    BY <1>22, <2>1, <1>6 DEF Answered
<1>23. ASSUME Abandon(c)
       PROVE  Moved(c)
  BY <1>23, <1>2, <1>6 DEF Abandon
<1> QED
  BY <1>8, <1>9, <1>10, <1>11, <1>12, <1>13, <1>14, <1>15, <1>16, <1>17, <1>18, <1>19,
     <1>20, <1>21, <1>22, <1>23 DEF CallAction

-----------------------------------------------------------------------------
(* What is not a call's keeps its type. *)

RestOK ==
  /\ endpoint \in [Endpoint -> Row \cup {None}]
  /\ cache \in [Endpoint -> [sig : Config \X (0 .. MaxStamps), proved : BOOLEAN] \cup {None}]
  /\ restr \in [Subject -> Restrictions]
  /\ gone \in BOOLEAN /\ active \in BOOLEAN
  /\ edit \in [Edit -> EditRecord]
  /\ attested \subseteq Config
  /\ stamps \in 0 .. MaxStamps /\ aged \in 0 .. stamps
  /\ changes \in 0 .. MaxChanges
  /\ \A x \in Edit : EditOK(edit[x])
  /\ \A x \in Edit : edit[x].at = "enable" => endpoint[edit[x].e] # None

LEMMA RestOfTypes ==
  Types <=> /\ RestOK
            /\ call \in [Call -> CallRecord]
            /\ \A c \in Call : CallOK(call[c])
            /\ held \in [Call -> SUBSET Obstacles]
  BY DEF Types, TypeOK, RestOK, EditRecord

LEMMA CallRest ==
  ASSUME Types, NEW c \in Call, CallAction(c)
  PROVE  RestOK'
<1> USE PolicyAssumption
<1>1. RestOK /\ CallOK(call[c]) /\ call[c] \in CallRecord
  BY RestOfTypes DEF CallOK
<1>2. CASE Stamp(c)
  <2>1. call[c].e \in Endpoint /\ call[c].row \in Row
    BY <1>1, <1>2 DEF Stamp, At, CallOK, UnderWay, Started
  <2>2. CASE stamps < MaxStamps /\ endpoint' = Stamped(c) /\ stamps' = stamps + 1
    <3>1. [call[c].row EXCEPT !.stamp = stamps + 1] \in Row
      BY <2>1, <2>2, <1>1 DEF Row, RestOK
    <3>2. endpoint' \in [Endpoint -> Row \cup {None}]
      BY <2>1, <2>2, <3>1, <1>1 DEF Stamped, RestOK
    <3>3. \A y \in Edit : edit[y].at = "enable" => endpoint'[edit[y].e] # None
      BY <2>1, <2>2, <3>1, <1>1 DEF Stamped, RestOK, EditOK
    <3>4. stamps' \in 0 .. MaxStamps /\ aged' \in 0 .. stamps'
      BY <2>2, <1>1, <1>2 DEF Stamp, RestOK
    <3> QED
      BY <3>2, <3>4, <3>3, <1>1, <1>2 DEF Stamp, RestOK, sources
  <2>3. CASE UNCHANGED <<endpoint, stamps>>
    BY <2>3, <1>1, <1>2 DEF Stamp, RestOK, sources
  <2> QED
    BY <1>2, <2>2, <2>3 DEF Stamp
<1>3. CASE Store(c)
  <2>1. call[c].e \in Endpoint /\ call[c].row \in Row /\ call[c].proved \in BOOLEAN
    BY <1>1, <1>3 DEF Store, At, CallOK, UnderWay, Started, CallRecord
  <2>2. Entry(c) \in [sig : Config \X (0 .. MaxStamps), proved : BOOLEAN]
    BY <2>1 DEF Entry, Signature, Row
  <2>3. cache' \in [Endpoint -> [sig : Config \X (0 .. MaxStamps), proved : BOOLEAN]
                                  \cup {None}]
    BY <2>1, <2>2, <1>1, <1>3 DEF Store, RestOK
  <2> QED
    BY <2>3, <1>1, <1>3 DEF Store, RestOK, sources, counts
<1>4. CASE Verify(c) \/ Answered(c)
  <2>1. call[c].row.config \in Config
    BY <1>1, <1>4 DEF Verify, Answered, At, CallOK, UnderWay, Started, Row
  <2>2. attested' \subseteq Config
    BY <2>1, <1>1, <1>4 DEF Verify, Answered, RestOK
  <2> QED
    BY <2>2, <1>1, <1>4 DEF Verify, Answered, RestOK, sources, counts
<1>5. CASE UNCHANGED <<endpoint, cache, sources, edit, attested, counts>>
  BY <1>1, <1>5 DEF RestOK, sources, counts
<1> QED
  BY <1>2, <1>3, <1>4, <1>5
     DEF CallAction, Route, Manage, TenantRow, GetObject, GetConnection, NarrowConnection,
         NarrowObject, ConnectionRow, ObjectRow, ArtifactRow, Transport, Send, Abandon

\* An edited row is a row, with the stamp it had or none.
Edited(row, cfg, on) == [Updated(row, cfg) EXCEPT !.on = on]

LEMMA UpdatedType ==
  ASSUME NEW row \in Row, NEW cfg \in Config, NEW on \in BOOLEAN
  PROVE  /\ Edited(row, cfg, on) \in Row
         /\ Edited(row, cfg, on).config = cfg
         /\ \/ Edited(row, cfg, on).stamp = 0
            \/ Edited(row, cfg, on).stamp = row.stamp /\ cfg = row.config
<1>1. CASE cfg = row.config
  <2>1. Updated(row, cfg) = [row EXCEPT !.config = cfg, !.stamp = row.stamp]
    BY <1>1 DEF Updated, Row
  <2> QED
    BY <2>1, <1>1 DEF Edited, Row
<1>2. CASE cfg # row.config
  <2>1. Updated(row, cfg) = [row EXCEPT !.config = cfg, !.stamp = 0]
    BY <1>2 DEF Updated, Row
  <2>2. 0 \in 0 .. MaxStamps
    BY PolicyAssumption
  <2> QED
    BY <2>1, <2>2 DEF Edited, Row
<1> QED
  BY <1>1, <1>2

LEMMA AdministrationRest ==
  ASSUME RestOK, Administration
  PROVE  RestOK' /\ UNCHANGED <<cache, call, attested, stamps, aged>>
<1> USE PolicyAssumption
<1>1. ASSUME NEW e \in Endpoint, NEW cfg \in Config, NEW on \in BOOLEAN, Create(e, cfg, on)
      PROVE  RestOK'
  <2>1. [config |-> cfg, on |-> on, stamp |-> 0] \in Row
    BY DEF Row
  <2> QED
    BY <1>1, <2>1 DEF Create, Change, RestOK, sources
<1>2. ASSUME NEW e \in Endpoint, NEW cfg \in Config, NEW on \in BOOLEAN, NEW x \in Edit,
             PutRead(x, e, cfg, on)
      PROVE  RestOK'
  <2> DEFINE row == Edited(endpoint[e], cfg, on)
             k == [at |-> IF on = endpoint[e].on THEN "write" ELSE "enable", e |-> e,
                   row |-> row]
  <2>1. endpoint[e] \in Row
    BY <1>2 DEF PutRead, RestOK
  <2>2. row \in Row
    BY <2>1, UpdatedType
  <2>3. EditOK(k)
    BY <2>2 DEF EditOK, EditRecord
  <2> HIDE DEF k
  <2>4. edit' = [edit EXCEPT ![x] = k] /\ k \in EditRecord
    BY <1>2, <2>3 DEF PutRead, Edited, k, EditOK
  <2>5. edit' \in [Edit -> EditRecord] /\ \A y \in Edit : EditOK(edit'[y])
    BY <2>3, <2>4 DEF RestOK
  <2>6. \A y \in Edit : edit'[y].at = "enable" => endpoint'[edit'[y].e] # None
    <3>1. k.e = e /\ endpoint' = endpoint /\ endpoint[e] # None
      BY <1>2 DEF PutRead, k
    <3> QED
      BY <2>4, <3>1 DEF RestOK
  <2> QED
    BY <1>2, <2>5, <2>6 DEF PutRead, Change, RestOK, sources
<1>3. ASSUME NEW x \in Edit, PutEnable(x)
      PROVE  RestOK'
  <2>1. edit[x].e \in Endpoint /\ edit[x].row \in Row /\ edit[x] \in EditRecord
    BY <1>3 DEF PutEnable, RestOK, EditOK
  <2> DEFINE row == [endpoint[edit[x].e] EXCEPT !.on = edit[x].row.on]
             k == [edit[x] EXCEPT !.at = "write"]
  <2>2. endpoint[edit[x].e] \in Row
    BY <1>3, <2>1 DEF PutEnable, RestOK
  <2>3. row \in Row
    BY <2>1, <2>2 DEF Row
  <2>4. k \in EditRecord /\ EditOK(k) /\ k.at # "enable"
    BY <2>1 DEF EditRecord, EditOK
  <2>5. edit' = [edit EXCEPT ![x] = k] /\ endpoint' = [endpoint EXCEPT ![edit[x].e] = row]
    BY <1>3 DEF PutEnable
  <2> HIDE DEF k, row
  <2>6. endpoint' \in [Endpoint -> Row \cup {None}]
    BY <2>1, <2>3, <2>5 DEF RestOK
  <2>7. edit' \in [Edit -> EditRecord] /\ \A y \in Edit : EditOK(edit'[y])
    BY <2>4, <2>5 DEF RestOK
  <2>8. row # None
    BY <2>3
  <2>9. \A y \in Edit : edit'[y].at = "enable" => endpoint'[edit'[y].e] # None
    BY <2>1, <2>4, <2>5, <2>8 DEF RestOK, EditOK
  <2> QED
    BY <1>3, <2>6, <2>7, <2>9 DEF PutEnable, RestOK, sources, counts
<1>4. ASSUME NEW x \in Edit, PutWrite(x)
      PROVE  RestOK'
  <2>1. edit[x].e \in Endpoint /\ edit[x].row \in Row /\ edit[x] \in EditRecord
    BY <1>4 DEF PutWrite, RestOK, EditOK
  <2> DEFINE k == [edit[x] EXCEPT !.at = "done"]
  <2>2. k \in EditRecord /\ EditOK(k)
    BY <2>1 DEF EditRecord, EditOK
  <2>3. edit' = [edit EXCEPT ![x] = k]
    BY <1>4 DEF PutWrite
  <2> HIDE DEF k
  <2>4. edit' \in [Edit -> EditRecord] /\ \A y \in Edit : EditOK(edit'[y])
    BY <2>2, <2>3 DEF RestOK
  <2>5. endpoint' \in [Endpoint -> Row \cup {None}]
    BY <1>4, <2>1 DEF PutWrite, RestOK
  <2>6. k.at # "enable" /\ edit[x].row # None
    BY <2>1 DEF k, EditRecord
  <2>7. \A y \in Edit : edit'[y].at = "enable" => endpoint'[edit'[y].e] # None
    BY <1>4, <2>1, <2>3, <2>6 DEF PutWrite, RestOK, EditOK
  <2> QED
    BY <1>4, <2>4, <2>5, <2>7 DEF PutWrite, RestOK, sources, counts
<1>5. ASSUME NEW e \in Endpoint, Delete(e)
      PROVE  RestOK'
  <2> DEFINE row == [endpoint[e] EXCEPT !.on = FALSE]
  <2>1. endpoint[e] \in Row
    BY <1>5 DEF Delete, RestOK
  <2>2. row \in Row
    BY <2>1 DEF Row
  <2>3. endpoint' = [endpoint EXCEPT ![e] = row]
    BY <1>5 DEF Delete
  <2> HIDE DEF row
  <2>4. row # None
    BY <2>2
  <2>5. endpoint' \in [Endpoint -> Row \cup {None}]
    BY <2>2, <2>3 DEF RestOK
  <2>6. \A y \in Edit : edit[y].at = "enable" => endpoint'[edit[y].e] # None
    BY <2>3, <2>4 DEF RestOK, EditOK
  <2> QED
    BY <1>5, <2>5, <2>6 DEF Delete, Change, RestOK, sources
<1>6. ASSUME NEW s \in Subject, NEW r \in Restriction, SetRestriction(s, r)
      PROVE  RestOK'
  BY <1>6 DEF SetRestriction, Change, RestOK
<1>7. DeleteObject => RestOK'
  BY DEF DeleteObject, Change, RestOK
<1>8. ASSUME SetStatus
       PROVE  RestOK'
  <2>1. active' \in BOOLEAN
    BY <1>8, Zenon DEF SetStatus, RestOK
  <2> QED
    BY <1>8, <2>1 DEF SetStatus, Change, RestOK
<1>9. RestOK'
  BY <1>1, <1>2, <1>3, <1>4, <1>5, <1>6, <1>7, <1>8 DEF Administration
<1>10. UNCHANGED <<cache, call, attested, stamps, aged>>
  BY DEF Administration, Create, PutRead, PutEnable, PutWrite, Delete, SetRestriction,
         DeleteObject, SetStatus, counts
<1> QED
  BY <1>9, <1>10

\* What a step leaves of the types of the endpoints, the sources and the edits.
LEMMA TypesNext ==
  ASSUME Types, [Next]_vars
  PROVE  Types'
<1> USE PolicyAssumption
<1>1. /\ RestOK
      /\ call \in [Call -> CallRecord]
      /\ \A c \in Call : CallOK(call[c])
      /\ held \in [Call -> SUBSET Obstacles]
  BY RestOfTypes
<1>2. Remember => held' \in [Call -> SUBSET Obstacles]
  <2>1. \A c \in Call : held[c] \subseteq Obstacles
    BY <1>1
  <2>2. Standing' \subseteq Obstacles
    BY DEF Standing, Obstacles
  <2> QED
    BY <2>1, <2>2 DEF Remember
<1>3. CASE Calls /\ Remember
  <2>1. PICK c \in Call : CallAction(c)
    BY <1>3 DEF Calls, CallAction
  <2>2. RestOK'
    BY <2>1, CallRest
  <2>3. PICK k \in CallRecord : CallOK(k) /\ Becomes(c, k)
    BY <2>1, CallMoves DEF Moved
  <2>4. call' \in [Call -> CallRecord] /\ \A d \in Call : CallOK(call'[d])
    BY <2>3, BecomesOK
  <2> QED
    BY <1>2, <1>3, <2>2, <2>4 DEF Types, TypeOK, RestOK, EditRecord
<1>4. CASE Close /\ Remember
  <2>1. \A c \in Call : CallOK(call'[c])
    BY <1>1, <1>4, EndedOK DEF Close
  <2>2. call' \in [Call -> CallRecord]
    BY <2>1, <1>4 DEF Close, CallOK
  <2>3. RestOK'
    BY <1>1, <1>4 DEF Close, RestOK, sources, counts
  <2> QED
    BY <1>2, <1>4, <2>1, <2>2, <2>3 DEF Types, TypeOK, RestOK, EditRecord
<1>5. CASE Minute /\ Remember
  <2>1. RestOK'
    BY <1>1, <1>5 DEF Minute, RestOK, sources
  <2> QED
    BY <1>1, <1>2, <1>5, <2>1 DEF Minute, Types, TypeOK, RestOK, EditRecord
<1>6. CASE Administration /\ Remember
  <2>1. RestOK' /\ UNCHANGED call
    BY <1>1, <1>6, AdministrationRest
  <2> QED
    BY <1>1, <1>2, <1>6, <2>1 DEF Types, TypeOK, RestOK, EditRecord
<1>7. CASE UNCHANGED vars
  BY <1>1, <1>7 DEF vars, sources, counts, Types, TypeOK, RestOK, EditRecord
<1> QED
  BY <1>3, <1>4, <1>5, <1>6, <1>7 DEF Next

LEMMA TypesInit == Init => Types
<1> SUFFICES ASSUME Init
             PROVE  Types
  OBVIOUS
<1> USE PolicyAssumption
<1>1. CallOK(Fresh)
  BY UnrestrictedType DEF CallOK, UnderWay, CallRecord, Fresh, Started, Row
<1>2. \A c \in Call : call[c] = Fresh /\ CallOK(call[c])
  BY <1>1 DEF Init
<1>3. call \in [Call -> CallRecord]
  BY <1>2 DEF Init, CallOK
<1>4. endpoint \in [Endpoint -> Row \cup {None}]
  <2>1. \A e \in Endpoint : Seed[e] \in [config : Config, on : BOOLEAN, stamp : {0}] \cup {None}
    OBVIOUS
  <2>2. [config : Config, on : BOOLEAN, stamp : {0}] \subseteq Row
    BY DEF Row
  <2> QED
    BY <2>1, <2>2 DEF Init
<1>5. /\ \A x \in Edit : EditOK(edit[x]) /\ edit[x].at = "idle"
      /\ edit \in [Edit -> EditRecord]
  BY DEF Init, EditOK, EditRecord
<1>6. restr \in [Subject -> Restrictions]
  BY UnrestrictedType DEF Init
<1>7. held \in [Call -> SUBSET Obstacles]
  BY DEF Init
<1>8. cache \in [Endpoint -> [sig : Config \X (0 .. MaxStamps), proved : BOOLEAN] \cup {None}]
  BY DEF Init
<1>9. stamps \in 0 .. MaxStamps /\ aged \in 0 .. stamps /\ changes \in 0 .. MaxChanges
  BY DEF Init
<1>10. gone \in BOOLEAN /\ active \in BOOLEAN /\ attested \subseteq Config
  BY DEF Init
<1>11. RestOK
  BY <1>4, <1>5, <1>6, <1>8, <1>9, <1>10 DEF RestOK
<1> QED
  BY <1>2, <1>3, <1>7, <1>11, RestOfTypes

-----------------------------------------------------------------------------
(* Stamps, entries and proofs stay proofs. *)

\* More was observed, and the call moves on without a new proof.
LEMMA SameProof ==
  ASSUME NEW A, NEW B, A \subseteq B, NEW k, ProofOK(k, A), NEW j, j.row = k.row,
         j.proved = k.proved, j.sent = k.sent, j.at \notin {"stamp", "store", "mark"}
  PROVE  ProofOK(j, B)
  BY DEF ProofOK, Attested, Verifiable

LEMMA MoreAttested ==
  ASSUME NEW A, NEW B, A \subseteq B
  PROVE  /\ \A row : Attested(row, A) => Attested(row, B)
         /\ \A t : EntryOK(t, A) => EntryOK(t, B)
         /\ \A k : ProofOK(k, A) => ProofOK(k, B)
  BY DEF Attested, EntryOK, ProofOK

\* A call that has nothing under way proves nothing.
LEMMA FreshProof ==
  ASSUME NEW A, NEW p \in {"idle", "ended"}
  PROVE  ProofOK([Fresh EXCEPT !.at = p], A)
  BY DEF ProofOK, Attested, Fresh

LEMMA EndedProof ==
  ASSUME NEW A, NEW c \in Call, CallOK(call[c]), ProofOK(call[c], A)
  PROVE  ProofOK(Ended(c), A)
<1>1. CASE call[c].sent
  BY <1>1, SameProof DEF Ended, Goto, CallOK, CallRecord
<1>2. CASE ~call[c].sent
  BY <1>2, FreshProof DEF Ended
<1> QED
  BY <1>1, <1>2

\* The steps that read or end.
LEMMA ReadingProof ==
  ASSUME Types, Proofs, NEW c \in Call,
         TenantRow(c) \/ GetObject(c) \/ GetConnection(c) \/ NarrowConnection(c)
         \/ NarrowObject(c) \/ ConnectionRow(c) \/ ObjectRow(c) \/ ArtifactRow(c)
         \/ Abandon(c)
  PROVE  ProofOK(call'[c], attested) /\ UNCHANGED <<endpoint, cache, edit, attested>>
<1>1. CallOK(call[c]) /\ call[c] \in CallRecord /\ ProofOK(call[c], attested)
  BY DEF Types, CallOK, Proofs
<1>2. ASSUME NEW k, k.row = call[c].row, k.proved = call[c].proved, k.sent = call[c].sent,
             k.at \notin {"stamp", "store", "mark"}, k \in CallRecord, Becomes(c, k)
      PROVE  ProofOK(call'[c], attested)
  <2>1. call'[c] = k
    BY <1>2 DEF Becomes, Types, TypeOK
  <2> QED
    BY <1>1, <1>2, <2>1, SameProof
<1>3. Becomes(c, Ended(c)) => ProofOK(call'[c], attested)
  BY <1>1, EndedProof DEF Becomes, Types, TypeOK
<1>4. restr \in [Subject -> Restrictions]
  BY DEF Types, TypeOK
<1>5. ASSUME NEW eff \in Restrictions, AfterObjects(c, eff) \/ Decide(c, eff)
      PROVE  ProofOK(call'[c], attested)
  <2>1. Decide(c, eff) => ProofOK(call'[c], attested)
    <3> DEFINE k == [Goto(c, "transport") EXCEPT !.eff = Unrestricted]
    <3>1. k \in CallRecord /\ k.row = call[c].row /\ k.proved = call[c].proved
          /\ k.sent = call[c].sent /\ k.at = "transport"
      BY <1>1, UnrestrictedType DEF Goto, CallRecord, Started
    <3>2. Becomes(c, k) => ProofOK(call'[c], attested)
      BY <3>1, <1>2
    <3> QED
      BY <3>2, <1>3 DEF Decide, If
  <2>2. Becomes(c, [Goto(c, "ofArtifact") EXCEPT !.eff = eff]) => ProofOK(call'[c], attested)
    <3> DEFINE k == [Goto(c, "ofArtifact") EXCEPT !.eff = eff]
    <3>1. k \in CallRecord /\ k.row = call[c].row /\ k.proved = call[c].proved
          /\ k.sent = call[c].sent /\ k.at = "ofArtifact"
      BY <1>1 DEF Goto, CallRecord, Started
    <3> QED
      BY <3>1, <1>2
  <2> QED
    BY <1>5, <2>1, <2>2 DEF AfterObjects
<1>6. /\ Merge(Unrestricted, restr["tenant"]) \in Restrictions
      /\ Merge(call[c].eff, restr["connection"]) \in Restrictions
      /\ Merge(call[c].eff, restr["object"]) \in Restrictions
      /\ Merge(call[c].eff, restr["artifact"]) \in Restrictions
  BY <1>1, <1>4, MergeType, UnrestrictedType DEF Subject, CallRecord
<1>7. ASSUME NEW to \in Started \ {"stamp", "store", "mark"}, Becomes(c, Goto(c, to))
      PROVE  ProofOK(call'[c], attested)
  <2>1. Goto(c, to) \in CallRecord /\ Goto(c, to).row = call[c].row /\ Goto(c, to).at = to
        /\ Goto(c, to).proved = call[c].proved /\ Goto(c, to).sent = call[c].sent
    BY <1>1 DEF Goto, CallRecord, Started
  <2> QED
    BY <2>1, <1>7, <1>2
<1>8. TenantRow(c) => ProofOK(call'[c], attested)
  <2> DEFINE eff == Merge(Unrestricted, restr["tenant"])
             k == [Goto(c, "object") EXCEPT !.eff = eff]
  <2>1. k \in CallRecord /\ k.row = call[c].row /\ k.proved = call[c].proved
        /\ k.sent = call[c].sent /\ k.at = "object"
    BY <1>1, <1>6 DEF Goto, CallRecord, Started
  <2>2. Becomes(c, k) => ProofOK(call'[c], attested)
    BY <2>1, <1>2
  <2> QED
    BY <2>2, <1>5, <1>6 DEF TenantRow
<1>9. GetObject(c) \/ GetConnection(c) => ProofOK(call'[c], attested)
  BY <1>3, <1>7 DEF GetObject, GetConnection, If, Started
<1>10. NarrowConnection(c) => ProofOK(call'[c], attested)
  <2> DEFINE k == [Goto(c, "narrowed") EXCEPT !.got = restr["connection"]]
  <2>1. k \in CallRecord /\ k.row = call[c].row /\ k.proved = call[c].proved
        /\ k.sent = call[c].sent /\ k.at = "narrowed"
    BY <1>1, <1>4 DEF Goto, CallRecord, Started, Subject
  <2>2. Becomes(c, k) => ProofOK(call'[c], attested)
    BY <2>1, <1>2
  <2> QED
    BY <2>2 DEF NarrowConnection
<1>11. NarrowObject(c) => ProofOK(call'[c], attested)
  <2> DEFINE k == [Goto(c, "ofConnection") EXCEPT !.got = Unrestricted]
  <2>1. k \in CallRecord /\ k.row = call[c].row /\ k.proved = call[c].proved
        /\ k.sent = call[c].sent /\ k.at = "ofConnection"
    BY <1>1, UnrestrictedType DEF Goto, CallRecord, Started
  <2>2. Becomes(c, k) => ProofOK(call'[c], attested)
    BY <2>1, <1>2
  <2> QED
    BY <2>2, <1>3 DEF NarrowObject, If
<1>12. ConnectionRow(c) => ProofOK(call'[c], attested)
  <2> DEFINE k == [Goto(c, "ofObject") EXCEPT !.eff = Merge(@, restr["connection"])]
  <2>1. k \in CallRecord /\ k.row = call[c].row /\ k.proved = call[c].proved
        /\ k.sent = call[c].sent /\ k.at = "ofObject"
    BY <1>1, <1>6 DEF Goto, CallRecord, Started
  <2>2. Becomes(c, k) => ProofOK(call'[c], attested)
    BY <2>1, <1>2
  <2> QED
    BY <2>2 DEF ConnectionRow
<1>13. ObjectRow(c) \/ ArtifactRow(c) => ProofOK(call'[c], attested)
  BY <1>5, <1>6 DEF ObjectRow, ArtifactRow
<1>14. Abandon(c) => ProofOK(call'[c], attested)
  BY <1>3 DEF Abandon
<1>15. UNCHANGED <<endpoint, cache, edit, attested>>
  BY DEF TenantRow, GetObject, GetConnection, NarrowConnection, NarrowObject, ConnectionRow,
         ObjectRow, ArtifactRow, Abandon
<1> QED
  BY <1>8, <1>9, <1>10, <1>11, <1>12, <1>13, <1>14, <1>15

\* The steps that route, take a transport, prove it, stamp, store and send.
LEMMA SendingProof ==
  ASSUME Types, Proofs, NEW c \in Call,
         (\E a \in Asking : Route(c, a) \/ Manage(c, a))
         \/ Transport(c) \/ Verify(c) \/ Stamp(c) \/ Store(c) \/ Send(c) \/ Answered(c)
  PROVE  /\ attested \subseteq attested'
         /\ ProofOK(call'[c], attested')
         /\ \A e \in Endpoint : Attested(endpoint'[e], attested') /\ EntryOK(cache'[e], attested')
         /\ UNCHANGED edit
<1> USE DEF Types, TypeOK
<1>1. CallOK(call[c]) /\ call[c] \in CallRecord /\ ProofOK(call[c], attested)
  BY DEF CallOK, Proofs
<1>2. \A k : Becomes(c, k) => call'[c] = k
  BY DEF Becomes
<1>3. \A e \in Endpoint : Attested(endpoint[e], attested) /\ EntryOK(cache[e], attested)
  BY DEF Proofs
<1>4. ASSUME NEW a \in Asking, Route(c, a) \/ Manage(c, a)
      PROVE  ProofOK(call'[c], attested) /\ UNCHANGED <<endpoint, cache, edit, attested>>
  <2>1. CASE Route(c, a)
    <3>1. PICK e \in Candidates(a) :
            call'[c] = [Fresh EXCEPT !.at = "tenant", !.ask = a, !.e = e,
                                     !.cap = EffectiveCapability(a), !.row = endpoint[e]]
      BY <2>1, <1>2 DEF Route
    <3>2. e \in Endpoint /\ Attested(endpoint[e], attested)
      BY <3>1, <1>3 DEF Candidates
    <3>3. call'[c].row = endpoint[e] /\ call'[c].proved = FALSE /\ call'[c].sent = FALSE
          /\ call'[c].at = "tenant"
      BY <3>1 DEF Fresh
    <3> QED
      BY <2>1, <3>2, <3>3 DEF Route, ProofOK
  <2>2. CASE Manage(c, a)
    <3>1. call'[c] = [Fresh EXCEPT !.at = "transport", !.ask = a, !.e = a.pin,
                                   !.cap = a.cap, !.row = endpoint[a.pin]]
      BY <2>2, <1>2 DEF Manage
    <3>2. a.pin \in Endpoint
      BY <2>2, PolicyAssumption DEF Manage, Ask
    <3>3. call'[c].row = endpoint[a.pin] /\ call'[c].proved = FALSE /\ call'[c].sent = FALSE
          /\ call'[c].at = "transport"
      BY <3>1 DEF Fresh
    <3> QED
      BY <2>2, <3>2, <3>3, <1>3 DEF Manage, ProofOK
  <2> QED
    BY <1>4, <2>1, <2>2
<1>5. CASE Transport(c)
  <2> DEFINE row == call[c].row
             hit == cache[call[c].e]
  <2>1. call[c].e \in Endpoint /\ row \in Row /\ ~call[c].sent
    BY <1>1, <1>5 DEF Transport, At, CallOK, UnderWay, Started
  <2>2. EntryOK(hit, attested)
    BY <2>1, <1>3
  <2>3. CASE hit # None /\ hit.sig = Signature(row)
    <3>1. call'[c] = [Goto(c, "mark") EXCEPT !.proved = hit.proved]
      BY <2>3, <1>2, <1>5 DEF Transport
    <3>2. call'[c].row = row /\ call'[c].proved = hit.proved /\ call'[c].sent = FALSE
          /\ call'[c].at = "mark"
      BY <3>1, <2>1, <1>1 DEF Goto, CallRecord
    <3>3. hit.sig[1] = row.config
      BY <2>3 DEF Signature
    <3>4. row # None
      BY <2>1, PolicyAssumption
    <3> QED
      BY <3>2, <3>3, <3>4, <2>2, <2>3, <1>1, <1>3, <1>5
         DEF Transport, ProofOK, EntryOK, Verifiable
  <2>4. CASE ~(hit # None /\ hit.sig = Signature(row))
    <3>1. call'[c] = Goto(c, IF Verifiable(row) THEN "verify" ELSE "store")
      BY <2>4, <1>2, <1>5 DEF Transport
    <3>2. call'[c].row = row /\ call'[c].proved = call[c].proved /\ call'[c].sent = FALSE
          /\ call'[c].at = (IF Verifiable(row) THEN "verify" ELSE "store")
      BY <3>1, <2>1, <1>1 DEF Goto, CallRecord
    <3> QED
      BY <3>2, <1>1, <1>3, <1>5 DEF Transport, ProofOK
  <2> QED
    BY <2>3, <2>4
<1>6. CASE Verify(c) \/ Answered(c)
  <2>1. attested' = attested \cup {call[c].row.config} /\ UNCHANGED <<endpoint, cache, edit>>
    BY <1>6 DEF Verify, Answered
  <2>2. \A e \in Endpoint : Attested(endpoint'[e], attested') /\ EntryOK(cache'[e], attested')
    BY <2>1, <1>3, MoreAttested
  <2>3. call[c].row # None
    BY <1>1, <1>6, PolicyAssumption DEF Verify, Answered, At, CallOK, UnderWay, Started
  <2>4. CASE Verify(c)
    <3>1. /\ call'[c].row = call[c].row /\ call'[c].proved = TRUE
          /\ call'[c].sent = call[c].sent
      BY <2>4, <1>1, <1>2 DEF Verify, Goto, CallRecord
    <3> QED
      BY <2>1, <2>2, <2>3, <3>1, <1>1 DEF ProofOK, Attested
  <2>5. CASE Answered(c)
    <3>1. /\ call'[c].row = call[c].row /\ call'[c].proved = call[c].proved
          /\ call'[c].sent = call[c].sent
      BY <2>5, <1>1, <1>2 DEF Answered, Goto, CallRecord
    <3>2. ~Verifiable(call[c].row)
      BY <2>5 DEF Answered, Verifiable
    <3> QED
      BY <2>1, <2>2, <2>3, <3>1, <3>2, <1>1 DEF ProofOK, Attested
  <2> QED
    BY <1>6, <2>4, <2>5
<1>7. CASE Stamp(c)
  <2>1. call[c].e \in Endpoint /\ call[c].row \in Row /\ call[c].row.config \in attested
    BY <1>1, <1>7 DEF Stamp, At, CallOK, UnderWay, Started, ProofOK
  <2>2. /\ call'[c].row = call[c].row /\ call'[c].proved = call[c].proved
        /\ call'[c].sent = call[c].sent
        /\ call'[c].at = (IF call[c].sent THEN "ended" ELSE "store")
    BY <1>1, <1>2, <1>7 DEF Stamp, Goto, CallRecord
  <2>3. ProofOK(call'[c], attested)
    BY <2>2, <1>1, <1>7 DEF ProofOK, Stamp, At
  <2>4. ASSUME endpoint' = Stamped(c), NEW e \in Endpoint
        PROVE  Attested(endpoint'[e], attested)
    <3>1. e = call[c].e => endpoint'[e].config = call[c].row.config
      BY <2>1, <2>4 DEF Stamped, Row
    <3>2. e # call[c].e => endpoint'[e] = endpoint[e]
      BY <2>1, <2>4 DEF Stamped
    <3> QED
      BY <3>1, <3>2, <2>1, <1>3 DEF Attested
  <2> QED
    BY <2>3, <2>4, <1>3, <1>7 DEF Stamp
<1>8. CASE Store(c)
  <2>1. call[c].e \in Endpoint /\ call[c].row \in Row
    BY <1>1, <1>8 DEF Store, At, CallOK, UnderWay, Started
  <2>2. /\ call'[c].row = call[c].row /\ call'[c].proved = call[c].proved
        /\ call'[c].sent = call[c].sent /\ call'[c].at = "mark"
    BY <1>1, <1>2, <1>8 DEF Store, Goto, CallRecord
  <2>3. ProofOK(call'[c], attested)
    BY <2>2, <1>1, <1>8 DEF ProofOK, Store, At
  <2>4. Entry(c).sig[1] = call[c].row.config /\ Entry(c).proved = call[c].proved
    BY DEF Entry, Signature
  <2>5. EntryOK(Entry(c), attested)
    BY <2>4, <1>1, <1>8 DEF EntryOK, ProofOK, Store, At, Verifiable
  <2>6. \A e \in Endpoint : cache'[e] = IF e = call[c].e THEN Entry(c) ELSE cache[e]
    BY <2>1, <1>8 DEF Store
  <2> QED
    BY <2>3, <2>5, <2>6, <1>3, <1>8 DEF Store
<1>9. CASE Send(c)
  <2>1. /\ call'[c].row = call[c].row /\ call'[c].proved = call[c].proved
        /\ call'[c].at = "sent"
    BY <1>1, <1>2, <1>9 DEF Send, Goto, CallRecord
  <2> QED
    BY <2>1, <1>1, <1>3, <1>9 DEF Send, At, ProofOK
<1> QED
  BY <1>3, <1>4, <1>5, <1>6, <1>7, <1>8, <1>9

\* No step makes a proof of what was not observed.
LEMMA ProofsNext ==
  ASSUME Types, Proofs, [Next]_vars
  PROVE  Proofs'
<1>1. /\ \A c \in Call : CallOK(call[c]) /\ ProofOK(call[c], attested)
      /\ \A x \in Edit : Attested(edit[x].row, attested)
      /\ \A e \in Endpoint : Attested(endpoint[e], attested) /\ EntryOK(cache[e], attested)
      /\ call \in [Call -> CallRecord]
  BY DEF Types, TypeOK, Proofs
<1>2. ASSUME NEW c \in Call, CallAction(c)
      PROVE  Proofs'
  <2>1. /\ attested \subseteq attested' /\ ProofOK(call'[c], attested') /\ UNCHANGED edit
        /\ \A e \in Endpoint : Attested(endpoint'[e], attested') /\ EntryOK(cache'[e], attested')
    BY <1>1, <1>2, ReadingProof, SendingProof DEF CallAction
  <2>2. \A d \in Call : d # c => call'[d] = call[d]
    <3>1. PICK k \in CallRecord : CallOK(k) /\ Becomes(c, k)
      BY <1>2, CallMoves DEF Moved
    <3> QED
      BY <3>1, BecomesOK
  <2>3. \A d \in Call : ProofOK(call'[d], attested')
    BY <1>1, <2>1, <2>2, MoreAttested
  <2>4. \A x \in Edit : Attested(edit'[x].row, attested')
    BY <1>1, <2>1, MoreAttested
  <2> QED
    BY <2>1, <2>3, <2>4 DEF Proofs
<1>3. CASE Close
  <2>1. \A c \in Call : ProofOK(call'[c], attested)
    BY <1>1, <1>3, EndedProof DEF Close
  <2>2. \A e \in Endpoint : EntryOK(cache'[e], attested)
    BY <1>3 DEF Close, EntryOK
  <2> QED
    BY <1>1, <1>3, <2>1, <2>2 DEF Close, Proofs
<1>4. CASE Administration
  <2> DEFINE Rows == /\ \A e \in Endpoint : Attested(endpoint'[e], attested)
                     /\ \A x \in Edit : Attested(edit'[x].row, attested)
  <2>1. RestOK /\ UNCHANGED <<cache, call, attested>>
    BY <1>4, RestOfTypes, AdministrationRest
  <2>2. ASSUME NEW e \in Endpoint, NEW cfg \in Config, NEW on \in BOOLEAN, Create(e, cfg, on)
        PROVE  Rows
    <3>1. endpoint'[e].stamp = 0 /\ \A d \in Endpoint : d # e => endpoint'[d] = endpoint[d]
      BY <2>1, <2>2 DEF Create, RestOK
    <3> QED
      BY <1>1, <2>2, <3>1 DEF Create, Attested
  <2>3. ASSUME NEW e \in Endpoint, NEW cfg \in Config, NEW on \in BOOLEAN, NEW x \in Edit,
               PutRead(x, e, cfg, on)
        PROVE  Rows
    <3> DEFINE row == Edited(endpoint[e], cfg, on)
    <3>1. endpoint[e] \in Row /\ Attested(endpoint[e], attested)
      BY <1>1, <2>1, <2>3 DEF PutRead, RestOK
    <3>2. /\ row.config = cfg
          /\ row.stamp = 0 \/ (row.stamp = endpoint[e].stamp /\ cfg = endpoint[e].config)
      BY <3>1, UpdatedType
    <3>3. endpoint[e] # None
      BY <3>1, PolicyAssumption
    <3> HIDE DEF row
    <3>4. Attested(row, attested)
      BY <3>1, <3>2, <3>3 DEF Attested
    <3>5. /\ edit'[x].row = row /\ endpoint' = endpoint
          /\ \A y \in Edit : y # x => edit'[y] = edit[y]
      BY <2>1, <2>3 DEF PutRead, RestOK, Edited, row
    <3> QED
      BY <1>1, <3>4, <3>5
  <2>4. ASSUME NEW x \in Edit, PutEnable(x)
        PROVE  Rows
    <3>1. edit[x].e \in Endpoint /\ endpoint[edit[x].e] \in Row
      BY <2>1, <2>4 DEF PutEnable, RestOK, EditOK
    <3>2. /\ endpoint'[edit[x].e].config = endpoint[edit[x].e].config
          /\ endpoint'[edit[x].e].stamp = endpoint[edit[x].e].stamp
          /\ \A e \in Endpoint : e # edit[x].e => endpoint'[e] = endpoint[e]
      BY <2>1, <2>4, <3>1 DEF PutEnable, RestOK, Row
    <3>3. endpoint[edit[x].e] # None
      BY <3>1, PolicyAssumption
    <3>4. \A y \in Edit : edit'[y].row = edit[y].row
      BY <2>1, <2>4 DEF PutEnable, RestOK, EditRecord
    <3> QED
      BY <1>1, <3>1, <3>2, <3>3, <3>4 DEF Attested
  <2>5. ASSUME NEW x \in Edit, PutWrite(x)
        PROVE  Rows
    <3>1. edit[x].e \in Endpoint
      BY <2>1, <2>5 DEF PutWrite, RestOK, EditOK
    <3>2. \A e \in Endpoint : endpoint'[e] = IF e = edit[x].e THEN edit[x].row ELSE endpoint[e]
      BY <2>1, <2>5, <3>1 DEF PutWrite, RestOK
    <3>3. \A y \in Edit : edit'[y].row = edit[y].row
      BY <2>1, <2>5 DEF PutWrite, RestOK, EditRecord
    <3> QED
      BY <1>1, <3>2, <3>3
  <2>6. ASSUME NEW e \in Endpoint, Delete(e)
        PROVE  Rows
    <3>1. endpoint[e] \in Row
      BY <2>1, <2>6 DEF Delete, RestOK
    <3>2. /\ endpoint'[e].config = endpoint[e].config /\ endpoint'[e].stamp = endpoint[e].stamp
          /\ \A d \in Endpoint : d # e => endpoint'[d] = endpoint[d]
      BY <2>1, <2>6, <3>1 DEF Delete, RestOK, Row
    <3>3. endpoint[e] # None
      BY <3>1, PolicyAssumption
    <3> QED
      BY <1>1, <2>6, <3>2, <3>3 DEF Delete, Attested
  <2>7. ASSUME UNCHANGED <<endpoint, edit>>
        PROVE  Rows
    BY <1>1, <2>7
  <2>8. Rows
    BY <1>4, <2>2, <2>3, <2>4, <2>5, <2>6, <2>7
       DEF Administration, SetRestriction, DeleteObject, SetStatus
  <2> QED
    BY <1>1, <2>1, <2>8 DEF Proofs
<1>5. CASE Minute
  BY <1>1, <1>5 DEF Minute, Proofs
<1>6. CASE UNCHANGED vars
  BY <1>1, <1>6 DEF vars, Proofs
<1> QED
  BY <1>2, <1>3, <1>4, <1>5, <1>6 DEF Next, Calls, CallAction

LEMMA ProofsInit == Init => Proofs
  BY PolicyAssumption DEF Init, Proofs, Attested, EntryOK, ProofOK, Fresh

-----------------------------------------------------------------------------
(* What stands in a call's way. *)

\* What stands after a step, read off the tables.
LEMMA StandingNext ==
  /\ \A s \in Subject, cap \in Capability : <<"deny", s, cap>> \in Standing' => cap \in restr'[s].denied
  /\ \A s \in Subject : <<"high", s>> \in Standing' => restr'[s].level = High
  /\ \A e \in Endpoint : <<"off", e>> \in Standing' => ~endpoint'[e].on
  /\ <<"gone">> \in Standing' => gone'
  /\ <<"inactive">> \in Standing' => ~active'
  BY DEF Standing, Stands

\* How the history of a call moves on.
LEMMA HeldNext ==
  ASSUME Remember, NEW c \in Call
  PROVE  /\ call'[c].sent => held'[c] = held[c]
         /\ ~call'[c].sent /\ call'[c].at \notin Started => held'[c] = {}
         /\ ~call'[c].sent /\ call'[c].at \in Started => held'[c] \subseteq Standing'
         /\ call[c].at # "idle" => held'[c] \subseteq held[c]
         /\ call'[c] = call[c] => held'[c] \subseteq held[c]
  BY DEF Remember, At, Started

\* With less in its way a call is no worse.
LEMMA LessHeld ==
  ASSUME NEW k, NEW h, NEW g, g \subseteq h, AuthorityOK(k, h)
  PROVE  AuthorityOK(k, g)
<1>1. \A s : Covers(k.eff, s, h) => Covers(k.eff, s, g)
  BY DEF Covers
<1>2. Cleared(k, h) => Cleared(k, g)
  BY DEF Cleared
<1>3. Looked(k, h) => Looked(k, g)
  BY DEF Looked
<1> QED
  BY <1>1, <1>2, <1>3 DEF AuthorityOK

\* What is read covers what stands, and merging covers what either part does.
LEMMA MergeCovers ==
  ASSUME NEW r \in Restrictions, NEW q \in Restrictions, NEW s, NEW h,
         Covers(r, s, h) \/ Covers(q, s, h)
  PROVE  Covers(Merge(r, q), s, h)
<1>1. /\ Merge(r, q).denied = r.denied \cup q.denied
      /\ Merge(r, q).level >= r.level /\ Merge(r, q).level >= q.level
      /\ Merge(r, q).level \in 0 .. 2 /\ r.level \in 0 .. 2 /\ q.level \in 0 .. 2
  BY MergeType DEF Restrictions, Level
<1> QED
  BY <1>1 DEF Covers, High

\* Of a call that was decided nothing changes that the verdict was about.
DecidedAt == {"transport", "verify", "stamp", "store", "mark", "sent", "ended"}

LEMMA DecidedMove ==
  ASSUME NEW k, NEW h, UnderWay(k), Decided(k), AuthorityOK(k, h),
         NEW j, j.ask = k.ask, j.cap = k.cap, j.e = k.e, j.row = k.row,
         j.at \in DecidedAt, Decided(j)
  PROVE  AuthorityOK(j, h) /\ ManageOK(j)
<1>1. ReadOf(j) = {}
  BY DEF ReadOf, OfObject, DecidedAt
<1>2. ConcernsOf(j) = ConcernsOf(k)
  BY DEF ConcernsOf
<1>3. Cleared(k, h) => Cleared(j, h)
  BY <1>2 DEF Cleared
<1>4. Looked(k, h) => Looked(j, h)
  BY DEF Looked, OfObject, DecidedAt
<1> QED
  BY <1>1, <1>3, <1>4 DEF AuthorityOK, ManageOK

\* A call that is over, or was sent and is over, is as it was.
LEMMA EndedAuthority ==
  ASSUME NEW c \in Call, CallOK(call[c]), NEW h, AuthorityOK(call[c], h)
  PROVE  AuthorityOK(Ended(c), h) /\ ManageOK(Ended(c))
<1>1. CASE ~call[c].sent
  BY <1>1, FreshOK DEF Ended, AuthorityOK, ManageOK
<1>2. CASE call[c].sent
  <2>1. /\ Goto(c, "ended").at = "ended" /\ Goto(c, "ended").sent
        /\ Goto(c, "ended").ask = call[c].ask /\ Goto(c, "ended").cap = call[c].cap
        /\ Goto(c, "ended").e = call[c].e /\ Goto(c, "ended").row = call[c].row
    BY <1>2 DEF Goto, CallOK, CallRecord
  <2>2. UnderWay(call[c]) /\ Decided(call[c]) /\ Decided(Goto(c, "ended"))
    BY <1>2, <2>1 DEF UnderWay, Decided
  <2> QED
    BY <1>2, <2>1, <2>2, DecidedMove DEF Ended, DecidedAt
<1> QED
  BY <1>1, <1>2

\* The verdict holds against all that is covered.
LEMMA DecideAuthority ==
  ASSUME Types, NEW c \in Call, UnderWay(call[c]), ~call[c].sent,
         call[c].ask.kind # "manage", NEW eff \in Restrictions, NEW h,
         \A s \in ConcernsOf(call[c]) : Covers(eff, s, h),
         <<"off", call[c].e>> \notin h,
         "object" \in call[c].ask.inputs => <<"gone">> \notin h /\ <<"inactive">> \notin h,
         Decide(c, eff)
  PROVE  AuthorityOK(call'[c], h) /\ ManageOK(call'[c])
<1> DEFINE n == call[c].ask.narrow
           full == IF n = None THEN eff ELSE Merge(eff, n)
           k == [Goto(c, "transport") EXCEPT !.eff = Unrestricted]
<1>1. call[c] \in CallRecord /\ CallOK(call[c]) /\ call \in [Call -> CallRecord]
  BY DEF Types, TypeOK, CallOK
<1>2. n # None => n \in Restrictions
  BY <1>1, PolicyAssumption DEF CallOK, Ask
<1>3. \A s \in ConcernsOf(call[c]) : Covers(full, s, h)
  BY <1>2, MergeCovers
<1> HIDE DEF full, n
<1>4. CASE Permits(c, full)
  <2>1. call'[c] = k
    BY <1>1, <1>4 DEF Decide, If, Becomes, full, n
  <2>2. /\ k.at = "transport" /\ k.ask = call[c].ask /\ k.cap = call[c].cap
        /\ k.e = call[c].e /\ k.row = call[c].row
    BY <1>1 DEF Goto, CallRecord
  <2> HIDE DEF k
  <2>3. ConcernsOf(k) = ConcernsOf(call[c])
    BY <2>2 DEF ConcernsOf
  <2>4. call[c].cap \in Capability
    BY <1>1 DEF CallRecord
  <2>5. Cleared(k, h)
    BY <1>3, <1>4, <2>2, <2>3, <2>4
       DEF Cleared, Covers, Permits, AssuranceSatisfied, High
  <2>6. ReadOf(k) = {}
    BY <2>2 DEF ReadOf, OfObject
  <2>7. Looked(k, h) /\ Decided(k)
    BY <2>2 DEF Looked, OfObject, Decided
  <2> QED
    BY <2>1, <2>5, <2>6, <2>7 DEF AuthorityOK, ManageOK
<1>5. CASE ~Permits(c, full)
  <2>1. call'[c] = Ended(c)
    BY <1>1, <1>5 DEF Decide, If, Becomes, full, n
  <2> QED
    BY <2>1, FreshOK DEF Ended, AuthorityOK, ManageOK
<1> QED
  BY <1>4, <1>5

LEMMA AfterObjectsAuthority ==
  ASSUME Types, NEW c \in Call, UnderWay(call[c]), ~call[c].sent,
         call[c].ask.kind # "manage", NEW eff \in Restrictions, NEW h,
         \A s \in ConcernsOf(call[c]) \ {"artifact"} : Covers(eff, s, h),
         <<"off", call[c].e>> \notin h,
         "object" \in call[c].ask.inputs => <<"gone">> \notin h /\ <<"inactive">> \notin h,
         AfterObjects(c, eff)
  PROVE  AuthorityOK(call'[c], h) /\ ManageOK(call'[c])
<1> DEFINE k == [Goto(c, "ofArtifact") EXCEPT !.eff = eff]
<1>1. call[c] \in CallRecord /\ call \in [Call -> CallRecord]
  BY DEF Types, TypeOK
<1>2. CASE "artifact" \in call[c].ask.inputs
  <2>1. call'[c] = k
    BY <1>1, <1>2 DEF AfterObjects, Becomes
  <2>2. /\ k.at = "ofArtifact" /\ k.ask = call[c].ask /\ k.eff = eff /\ k.e = call[c].e
        /\ k.sent = FALSE
    BY <1>1 DEF Goto, CallRecord
  <2> HIDE DEF k
  <2>3. ReadOf(k) = ConcernsOf(call[c]) \ {"artifact"}
    BY <2>2 DEF ReadOf, ConcernsOf, OfObject
  <2>4. Looked(k, h) /\ ~Decided(k)
    BY <1>2, <2>2 DEF Looked, OfObject, Decided
  <2> QED
    BY <2>1, <2>2, <2>3, <2>4 DEF AuthorityOK, ManageOK
<1>3. CASE "artifact" \notin call[c].ask.inputs
  <2>1. Decide(c, eff)
    BY <1>3 DEF AfterObjects
  <2>2. "artifact" \notin ConcernsOf(call[c])
    BY <1>3 DEF ConcernsOf
  <2> QED
    BY <2>1, <2>2, DecideAuthority
<1> QED
  BY <1>2, <1>3

\* The steps that read: what is read covers what has stood in it since.
LEMMA ReadingAuthority ==
  ASSUME Types, Authority, Remember, NEW c \in Call,
         TenantRow(c) \/ GetObject(c) \/ GetConnection(c) \/ NarrowConnection(c)
         \/ NarrowObject(c) \/ ConnectionRow(c) \/ ObjectRow(c) \/ ArtifactRow(c)
  PROVE  AuthorityOK(call'[c], held'[c]) /\ ManageOK(call'[c])
<1> DEFINE k == call[c]
           h == held'[c]
<1>1. /\ k \in CallRecord /\ CallOK(k) /\ call \in [Call -> CallRecord]
      /\ restr \in [Subject -> Restrictions]
  BY DEF Types, TypeOK, CallOK
<1>2. k.at \in {"tenant"} \cup {"object", "ofObject", "ofArtifact"} \cup OfObject
  BY DEF TenantRow, GetObject, GetConnection, NarrowConnection, NarrowObject, ConnectionRow,
         ObjectRow, ArtifactRow, At, OfObject
<1>3. UnderWay(k) /\ ~k.sent /\ ~Decided(k) /\ k.ask.kind # "manage"
  BY <1>1, <1>2 DEF Authority, ManageOK, UnderWay, Decided, CallOK, Started, OfObject
<1>4. AuthorityOK(k, h)
  BY <1>2, HeldNext, LessHeld DEF Authority, OfObject
<1>5. UNCHANGED <<endpoint, restr, gone, active>>
  BY DEF TenantRow, GetObject, GetConnection, NarrowConnection, NarrowObject, ConnectionRow,
         ObjectRow, ArtifactRow, sources
<1>6. Looked(k, h) /\ \A s \in ReadOf(k) : Covers(k.eff, s, h)
  BY <1>3, <1>4 DEF AuthorityOK
<1>7. AuthorityOK(Ended(c), h) /\ ManageOK(Ended(c))
  BY <1>1, <1>4, EndedAuthority
<1>8. \A j : Becomes(c, j) => call'[c] = j
  BY <1>1 DEF Becomes
<1>9. ASSUME ~call'[c].sent, call'[c].at \in Started
      PROVE  /\ \A s \in Subject : Covers(restr[s], s, h)
             /\ <<"gone">> \in h => gone
             /\ <<"inactive">> \in h => ~active
  <2>1. h \subseteq Standing'
    BY <1>9, HeldNext
  <2> QED
    BY <2>1, <1>5, StandingNext DEF Covers
\* One that reads on, having read s and what it had read.
<1>10. ASSUME NEW j, call'[c] = j, j.ask = k.ask, j.e = k.e, ~j.sent, j.at \in Started,
              ~Decided(j), Looked(j, h), \A s \in ReadOf(j) : Covers(j.eff, s, h)
       PROVE  AuthorityOK(call'[c], held'[c]) /\ ManageOK(call'[c])
  BY <1>10, <1>3 DEF AuthorityOK, ManageOK
<1>11. CASE TenantRow(c)
  <2> DEFINE eff == Merge(Unrestricted, restr["tenant"])
             j == [Goto(c, "object") EXCEPT !.eff = eff]
  <2>1. eff \in Restrictions
    BY <1>1, MergeType, UnrestrictedType DEF Subject
  <2>2. (~call'[c].sent /\ call'[c].at \in Started) => Covers(eff, "tenant", h)
    BY <1>1, <1>9, MergeCovers, UnrestrictedType DEF Subject
  <2>3. CASE "object" \in k.ask.inputs
    <3>1. call'[c] = j
      BY <1>8, <1>11, <2>3 DEF TenantRow
    <3>2. j.ask = k.ask /\ j.e = k.e /\ ~j.sent /\ j.at = "object" /\ j.eff = eff
      BY <1>1, <1>3 DEF Goto, CallRecord
    <3> HIDE DEF j, eff
    <3>3. ReadOf(j) = {"tenant"} /\ Looked(j, h) /\ ~Decided(j) /\ j.at \in Started
      BY <1>6, <2>3, <3>2 DEF ReadOf, Looked, Decided, OfObject, Started
    <3> QED
      BY <1>10, <2>2, <3>1, <3>2, <3>3
  <2>4. CASE "object" \notin k.ask.inputs
    <3>1. AfterObjects(c, eff)
      BY <1>11, <2>4 DEF TenantRow
    <3>2. ConcernsOf(k) \ {"artifact"} = {"tenant"}
      BY <2>4 DEF ConcernsOf
    <3>3. CASE ~call'[c].sent /\ call'[c].at \in Started
      BY <1>3, <1>6, <2>1, <2>2, <2>4, <3>1, <3>2, <3>3, AfterObjectsAuthority DEF Looked
    <3>4. CASE ~(~call'[c].sent /\ call'[c].at \in Started)
      BY <3>1, <3>4, <1>1, <1>3, <1>7, <1>8
         DEF AfterObjects, Decide, If, Goto, CallRecord, Started
    <3> QED
      BY <3>3, <3>4
  <2> QED
    BY <2>3, <2>4
<1>12. CASE GetObject(c)
  <2> DEFINE j == Goto(c, "connection")
  <2>1. /\ j.ask = k.ask /\ j.e = k.e /\ ~j.sent /\ j.at = "connection" /\ j.eff = k.eff
    BY <1>1, <1>3 DEF Goto, CallRecord
  <2>2. CASE gone
    BY <2>2, <1>7, <1>8, <1>12 DEF GetObject, If
  <2>3. CASE ~gone
    <3>1. call'[c] = j
      BY <2>3, <1>8, <1>12 DEF GetObject, If
    <3> HIDE DEF j
    <3>2. <<"gone">> \notin h
      BY <2>1, <2>3, <3>1, <1>9 DEF Started
    <3>3. ReadOf(j) = ReadOf(k) /\ Looked(j, h) /\ ~Decided(j) /\ j.at \in Started
      BY <1>6, <1>12, <2>1, <3>2 DEF GetObject, At, ReadOf, Looked, Decided, OfObject, Started
    <3> QED
      BY <1>6, <1>10, <2>1, <3>1, <3>3
  <2> QED
    BY <2>2, <2>3
<1>13. CASE GetConnection(c)
  <2>1. PICK to \in {"ofConnection", "narrow"} :
          call'[c] = Ended(c) \/ (active /\ call'[c] = Goto(c, to))
    BY <1>8, <1>13 DEF GetConnection, If
  <2> DEFINE j == Goto(c, to)
  <2>2. /\ j.ask = k.ask /\ j.e = k.e /\ ~j.sent /\ j.at = to /\ j.eff = k.eff
    BY <1>1, <1>3 DEF Goto, CallRecord
  <2> HIDE DEF j
  <2>3. CASE active /\ call'[c] = j
    <3>1. <<"inactive">> \notin h
      BY <2>2, <2>3, <1>9 DEF Started
    <3>2. ReadOf(j) = ReadOf(k) /\ Looked(j, h) /\ ~Decided(j) /\ j.at \in Started
      BY <1>6, <1>13, <2>2, <3>1
         DEF GetConnection, At, ReadOf, Looked, Decided, OfObject, Started
    <3> QED
      BY <1>6, <1>10, <2>2, <2>3, <3>2
  <2> QED
    BY <1>7, <2>1, <2>3 DEF j
<1>14. CASE NarrowConnection(c)
  <2> DEFINE j == [Goto(c, "narrowed") EXCEPT !.got = restr["connection"]]
  <2>1. /\ j.ask = k.ask /\ j.e = k.e /\ ~j.sent /\ j.at = "narrowed" /\ j.eff = k.eff
        /\ call'[c] = j
    BY <1>1, <1>3, <1>8, <1>14 DEF NarrowConnection, Goto, CallRecord
  <2> HIDE DEF j
  <2>2. ReadOf(j) = ReadOf(k) /\ Looked(j, h) /\ ~Decided(j) /\ j.at \in Started
    BY <1>6, <1>14, <2>1 DEF NarrowConnection, At, ReadOf, Looked, Decided, OfObject, Started
  <2> QED
    BY <1>6, <1>10, <2>1, <2>2
<1>15. CASE NarrowObject(c)
  <2> DEFINE j == [Goto(c, "ofConnection") EXCEPT !.got = Unrestricted]
  <2>1. call'[c] = Ended(c) \/ call'[c] = j
    BY <1>8, <1>15 DEF NarrowObject, If
  <2>2. /\ j.ask = k.ask /\ j.e = k.e /\ ~j.sent /\ j.at = "ofConnection" /\ j.eff = k.eff
    BY <1>1, <1>3 DEF Goto, CallRecord
  <2> HIDE DEF j
  <2>3. ReadOf(j) = ReadOf(k) /\ Looked(j, h) /\ ~Decided(j) /\ j.at \in Started
    BY <1>6, <1>15, <2>2 DEF NarrowObject, At, ReadOf, Looked, Decided, OfObject, Started
  <2> QED
    BY <1>6, <1>7, <1>10, <2>1, <2>2, <2>3
<1>16. CASE ConnectionRow(c)
  <2> DEFINE eff == Merge(k.eff, restr["connection"])
             j == [Goto(c, "ofObject") EXCEPT !.eff = eff]
  <2>1. /\ j.ask = k.ask /\ j.e = k.e /\ ~j.sent /\ j.at = "ofObject" /\ j.eff = eff
    BY <1>1, <1>3 DEF Goto, CallRecord
  <2>2. call'[c] = j
    BY <1>1, <1>8, <1>16 DEF ConnectionRow, Goto, CallRecord
  <2> HIDE DEF j
  <2>3. k.eff \in Restrictions /\ restr["connection"] \in Restrictions
    BY <1>1 DEF CallRecord, Subject
  <2>4. Covers(restr["connection"], "connection", h)
    BY <1>9, <2>1, <2>2 DEF Started, Subject
  <2>5. ReadOf(k) = {"tenant"} /\ ReadOf(j) = {"tenant", "connection"}
    BY <1>16, <2>1 DEF ConnectionRow, At, ReadOf, OfObject
  <2>6. \A s \in ReadOf(j) : Covers(j.eff, s, h)
    BY <1>6, <2>1, <2>3, <2>4, <2>5, MergeCovers
  <2>7. Looked(j, h) /\ ~Decided(j) /\ j.at \in Started
    BY <1>6, <1>16, <2>1 DEF ConnectionRow, At, Looked, Decided, OfObject, Started
  <2> QED
    BY <1>10, <2>1, <2>2, <2>6, <2>7
<1>17. CASE ObjectRow(c)
  <2> DEFINE eff == Merge(k.eff, restr["object"])
  <2>1. k.eff \in Restrictions /\ restr["object"] \in Restrictions /\ eff \in Restrictions
    BY <1>1, MergeType DEF CallRecord, Subject
  <2>2. AfterObjects(c, eff)
    BY <1>17 DEF ObjectRow
  <2>3. CASE ~call'[c].sent /\ call'[c].at \in Started
    <3>1. Covers(restr["object"], "object", h)
      BY <2>3, <1>9 DEF Subject
    <3>2. ReadOf(k) = {"tenant", "connection"}
      BY <1>17 DEF ObjectRow, At, ReadOf, OfObject
    <3>3. ConcernsOf(k) \ {"artifact"} \subseteq {"tenant", "connection", "object"}
      BY DEF ConcernsOf
    <3>4. \A s \in ConcernsOf(k) \ {"artifact"} : Covers(eff, s, h)
      BY <1>6, <2>1, <3>1, <3>2, <3>3, MergeCovers
    <3>5. <<"gone">> \notin h /\ <<"inactive">> \notin h /\ <<"off", k.e>> \notin h
      BY <1>6, <1>17 DEF ObjectRow, At, Looked
    <3> QED
      BY <1>3, <2>1, <2>2, <3>4, <3>5, AfterObjectsAuthority
  <2>4. CASE ~(~call'[c].sent /\ call'[c].at \in Started)
    BY <2>2, <2>4, <1>1, <1>3, <1>7, <1>8
       DEF AfterObjects, Decide, If, Goto, CallRecord, Started
  <2> QED
    BY <2>3, <2>4
<1>18. CASE ArtifactRow(c)
  <2> DEFINE eff == Merge(k.eff, restr["artifact"])
  <2>1. k.eff \in Restrictions /\ restr["artifact"] \in Restrictions /\ eff \in Restrictions
    BY <1>1, MergeType DEF CallRecord, Subject
  <2>2. Decide(c, eff)
    BY <1>18 DEF ArtifactRow
  <2>3. CASE ~call'[c].sent /\ call'[c].at \in Started
    <3>1. Covers(restr["artifact"], "artifact", h)
      BY <2>3, <1>9 DEF Subject
    <3>2. ReadOf(k) = ConcernsOf(k) \ {"artifact"}
      BY <1>18 DEF ArtifactRow, At, ReadOf, OfObject
    <3>3. \A s \in ConcernsOf(k) : Covers(eff, s, h)
      BY <1>6, <2>1, <3>1, <3>2, MergeCovers
    <3>4. /\ <<"off", k.e>> \notin h
          /\ "object" \in k.ask.inputs => <<"gone">> \notin h /\ <<"inactive">> \notin h
      BY <1>6, <1>18 DEF ArtifactRow, At, Looked
    <3> QED
      BY <1>3, <2>1, <2>2, <3>3, <3>4, DecideAuthority
  <2>4. CASE ~(~call'[c].sent /\ call'[c].at \in Started)
    BY <2>2, <2>4, <1>1, <1>3, <1>7, <1>8
       DEF Decide, If, Goto, CallRecord, Started
  <2> QED
    BY <2>3, <2>4
<1> QED
  BY <1>11, <1>12, <1>13, <1>14, <1>15, <1>16, <1>17, <1>18

\* The first step of a call: its endpoint is enabled, or it is a follow-up.
LEMMA StartingAuthority ==
  ASSUME Types, Remember, NEW c \in Call, NEW a \in Asking, Route(c, a) \/ Manage(c, a)
  PROVE  AuthorityOK(call'[c], held'[c]) /\ ManageOK(call'[c])
<1>1. call \in [Call -> CallRecord]
  BY DEF Types, TypeOK
<1>2. CASE Route(c, a)
  <2>1. PICK e \in Candidates(a) :
          call'[c] = [Fresh EXCEPT !.at = "tenant", !.ask = a, !.e = e,
                                   !.cap = EffectiveCapability(a), !.row = endpoint[e]]
    BY <1>1, <1>2 DEF Route, Becomes
  <2> DEFINE j == call'[c]
  <2>2. j.at = "tenant" /\ j.ask = a /\ j.e = e /\ ~j.sent
    BY <2>1 DEF Fresh
  <2>3. e \in Endpoint /\ endpoint[e].on /\ endpoint' = endpoint
    BY <1>2 DEF Candidates, Eligible, Route
  <2> HIDE DEF j
  <2>4. held'[c] \subseteq Standing'
    BY <2>2, HeldNext DEF j, Started
  <2>5. <<"off", e>> \notin held'[c]
    BY <2>3, <2>4, StandingNext
  <2>6. ReadOf(j) = {} /\ ~Decided(j) /\ Looked(j, held'[c]) /\ a.kind # "manage"
    BY <1>2, <2>2, <2>5 DEF ReadOf, Decided, Looked, OfObject, Route
  <2> QED
    BY <2>2, <2>6 DEF j, AuthorityOK, ManageOK
<1>3. CASE Manage(c, a)
  <2>1. call'[c] = [Fresh EXCEPT !.at = "transport", !.ask = a, !.e = a.pin,
                                 !.cap = a.cap, !.row = endpoint[a.pin]]
    BY <1>1, <1>3 DEF Manage, Becomes
  <2>2. call'[c].at = "transport" /\ call'[c].ask = a
    BY <2>1 DEF Fresh
  <2> QED
    BY <1>3, <2>2 DEF Manage, AuthorityOK, ManageOK, Decided
<1> QED
  BY <1>2, <1>3

\* From the verdict on nothing it was about changes.
LEMMA SendingAuthority ==
  ASSUME Types, Authority, Remember, NEW c \in Call,
         Transport(c) \/ Verify(c) \/ Stamp(c) \/ Store(c) \/ Send(c) \/ Answered(c)
  PROVE  AuthorityOK(call'[c], held'[c]) /\ ManageOK(call'[c])
<1>1. /\ call[c] \in CallRecord /\ CallOK(call[c]) /\ call \in [Call -> CallRecord]
  BY DEF Types, TypeOK, CallOK
<1>2. call[c].at \in DecidedAt \ {"ended"}
  BY DEF Transport, Verify, Stamp, Store, Send, Answered, At, DecidedAt
<1>3. UnderWay(call[c]) /\ Decided(call[c])
  BY <1>1, <1>2 DEF UnderWay, Decided, DecidedAt, CallOK, Started
<1>4. AuthorityOK(call[c], held'[c])
  BY <1>2, HeldNext, LessHeld DEF Authority, DecidedAt
<1>5. /\ call'[c].ask = call[c].ask /\ call'[c].cap = call[c].cap
      /\ call'[c].e = call[c].e /\ call'[c].row = call[c].row
      /\ call'[c].at \in DecidedAt /\ Decided(call'[c])
  <2>1. CASE Transport(c) \/ Verify(c) \/ Store(c)
    <3>1. Transport(c) => call'[c] \in {Goto(c, "verify"), Goto(c, "store")}
                          \/ \E p : call'[c] = [Goto(c, "mark") EXCEPT !.proved = p]
      BY <1>1 DEF Transport, Becomes
    <3>2. Verify(c) => call'[c] \in {[Goto(c, "store") EXCEPT !.proved = TRUE],
                                     [Goto(c, "stamp") EXCEPT !.proved = TRUE]}
      BY <1>1 DEF Verify, Becomes
    <3>3. Store(c) => call'[c] = Goto(c, "mark")
      BY <1>1 DEF Store, Becomes
    <3> QED
      BY <1>1, <2>1, <3>1, <3>2, <3>3 DEF Goto, CallRecord, DecidedAt, Decided
  <2>2. CASE Stamp(c)
    BY <1>1, <2>2 DEF Stamp, Becomes, Goto, CallRecord, DecidedAt, Decided
  <2>3. CASE Send(c)
    BY <1>1, <2>3 DEF Send, Becomes, Goto, CallRecord, DecidedAt, Decided
  <2>4. CASE Answered(c)
    BY <1>1, <2>4 DEF Answered, At, Becomes, Goto, CallRecord, CallOK, DecidedAt, Decided
  <2> QED
    BY <2>1, <2>2, <2>3, <2>4
<1> QED
  BY <1>3, <1>4, <1>5, DecidedMove

\* No step sends against what has stood since the call began.
LEMMA AuthorityNext ==
  ASSUME Types, Authority, [Next]_vars
  PROVE  Authority'
<1>1. \A c \in Call : CallOK(call[c]) /\ AuthorityOK(call[c], held[c]) /\ ManageOK(call[c])
  BY DEF Types, Authority
<1>2. ASSUME Remember, NEW d \in Call, call'[d] = call[d]
      PROVE  AuthorityOK(call'[d], held'[d]) /\ ManageOK(call'[d])
  <2>1. held'[d] \subseteq held[d]
    BY <1>2, HeldNext
  <2> QED
    BY <1>1, <1>2, <2>1, LessHeld
<1>3. ASSUME Remember, NEW d \in Call, call[d].at # "idle", call'[d] = Ended(d)
      PROVE  AuthorityOK(call'[d], held'[d]) /\ ManageOK(call'[d])
  <2>1. held'[d] \subseteq held[d]
    BY <1>3, HeldNext
  <2> QED
    BY <1>1, <1>3, <2>1, LessHeld, EndedAuthority
<1>4. ASSUME Remember, NEW c \in Call, CallAction(c)
      PROVE  Authority'
  <2>1. \A d \in Call : d # c => call'[d] = call[d]
    <3>1. PICK k \in CallRecord : CallOK(k) /\ Becomes(c, k)
      BY <1>4, CallMoves DEF Moved
    <3> QED
      BY <3>1, BecomesOK
  <2>2. Abandon(c) => call[c].at # "idle" /\ call'[c] = Ended(c)
    BY DEF Abandon, Becomes, Types, TypeOK, Started
  <2>3. AuthorityOK(call'[c], held'[c]) /\ ManageOK(call'[c])
    BY <1>3, <1>4, <2>2, StartingAuthority, ReadingAuthority, SendingAuthority DEF CallAction
  <2> QED
    BY <1>2, <1>4, <2>1, <2>3 DEF Authority
<1>5. ASSUME Remember, Close
      PROVE  Authority'
  <2>1. \A d \in Call : IF call[d].at = "idle" THEN call'[d] = call[d] ELSE call'[d] = Ended(d)
    BY <1>5 DEF Close, At
  <2> QED
    BY <1>2, <1>3, <1>5, <2>1 DEF Authority
<1>6. ASSUME Remember, Minute \/ Administration
      PROVE  Authority'
  <2>1. call' = call
    BY <1>6, RestOfTypes, AdministrationRest DEF Minute
  <2> QED
    BY <1>2, <1>6, <2>1 DEF Authority
<1>7. CASE UNCHANGED vars
  BY <1>7 DEF vars, Authority
<1> QED
  BY <1>4, <1>5, <1>6, <1>7 DEF Next, Calls, CallAction

LEMMA AuthorityInit == Init => Authority
  BY DEF Init, Authority, AuthorityOK, ManageOK, UnderWay, Fresh, Started

-----------------------------------------------------------------------------
(* The theorems. *)

\* The invariant is inductive: proofs and authority need each other's types only.
THEOREM Invariant == Spec => []IInv
<1>1. Init => IInv
  BY TypesInit, ProofsInit, AuthorityInit DEF IInv
<1>2. IInv /\ [Next]_vars => IInv'
  BY TypesNext, ProofsNext, AuthorityNext DEF IInv
<1> QED
  BY <1>1, <1>2, PTL DEF Spec

\* Tables, calls and edits keep their types, for every set of constants.
THEOREM PolicyTypes == Spec => []TypeOK
<1>1. IInv => TypeOK
  BY DEF IInv, Types
<1> QED
  BY <1>1, Invariant, PTL

\* stampVerification writes back a whole row read before, and PUT another: a stamp is
\* nevertheless always a proof of the configuration next to it.
THEOREM StampsAreProofs == Spec => []StampIsProof
<1>1. IInv => StampIsProof
  BY DEF IInv, Proofs, Attested, StampIsProof
<1> QED
  BY <1>1, Invariant, PTL

\* What leaves under a demand for high assurance goes to what was observed to attest, and
\* over a proved transport where the protocol promises one (evaluate, transportFor).
THEOREM SentAreAssured == Spec => []SentIsAssured
<1>1. IInv => SentIsAssured
  <2> SUFFICES ASSUME IInv, NEW c \in Call, call[c].sent
               PROVE  /\ Verifiable(call[c].row) => call[c].proved
                      /\ (/\ call[c].ask.kind # "manage"
                          /\ \E s \in Concerns(c) : <<"high", s>> \in held[c])
                           => call[c].row.config \in attested
    BY DEF SentIsAssured
  <2>1. UnderWay(call[c]) /\ Decided(call[c]) /\ call[c].row \in Row
    BY DEF UnderWay, Decided, IInv, Types, CallOK
  <2>2. ProofOK(call[c], attested) /\ AuthorityOK(call[c], held[c])
    BY DEF IInv, Proofs, Authority
  <2>3. Concerns(c) = ConcernsOf(call[c])
    BY DEF Concerns, ConcernsOf
  <2>4. call[c].row # None
    BY <2>1, PolicyAssumption
  <2> QED
    BY <2>1, <2>2, <2>3, <2>4 DEF ProofOK, Attested, AuthorityOK, Cleared
<1> QED
  BY <1>1, Invariant, PTL

\* However reads of restrictions, objects and endpoints cross their administration, what
\* stood throughout is obeyed (policy.go resolveInputs, CanRead, route).
THEOREM AuthorityIsHeld == Spec => []AuthorityHolds
<1>1. IInv => AuthorityHolds
  <2> SUFFICES ASSUME IInv, NEW c \in Call, call[c].sent, call[c].ask.kind # "manage"
               PROVE  /\ \A s \in Concerns(c) : <<"deny", s, call[c].cap>> \notin held[c]
                      /\ <<"off", call[c].e>> \notin held[c]
                      /\ "object" \in call[c].ask.inputs =>
                           held[c] \cap {<<"gone">>, <<"inactive">>} = {}
    BY DEF AuthorityHolds
  <2>1. UnderWay(call[c]) /\ Decided(call[c])
    BY DEF UnderWay, Decided
  <2>2. Concerns(c) = ConcernsOf(call[c])
    BY DEF Concerns, ConcernsOf
  <2>3. Cleared(call[c], held[c]) /\ Looked(call[c], held[c])
    BY <2>1 DEF IInv, Authority, AuthorityOK
  <2> QED
    BY <2>1, <2>2, <2>3 DEF Cleared, Looked
<1> QED
  BY <1>1, Invariant, PTL

=============================================================================
