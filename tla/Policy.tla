------------------------------- MODULE Policy -------------------------------
(***************************************************************************)
(* Where a model call may go: the routing and the policy of                 *)
(* internal/inference (policy.go), its transport cache, the endpoint rows   *)
(* and their administration (internal/httpx/providers.go), and the          *)
(* restrictions and source objects a call's inputs stand under              *)
(* (internal/source), for one tenant and one process.                       *)
(*                                                                         *)
(* A call reads what it depends on one statement at a time while            *)
(* administrators write; an action is one statement with the code up to     *)
(* the next.  Admission, the reservation and what happens after the request *)
(* left are in Admission, Billing and Execute: here they only take time.    *)
(* A principal's allowlists and a payload are part of the call; an          *)
(* endpoint's configuration is everything transportSignature fingerprints   *)
(* but the verification stamp.                                              *)
(***************************************************************************)
EXTENDS Naturals

CONSTANTS
  NEndpoints,   \* endpoints are 1..NEndpoints, in the order of their ids
  Config,       \* configurations an endpoint may be given
  Protocol,     \* their protocol: "plain", "tinfoil" or "sdk"
  Serves,       \* the capabilities they advertise with the model's alias bound
  Capability,   \* what a restriction may deny
  Restriction,  \* the restrictions administrators write
  Asking,       \* the calls that can be made
  Call,         \* calls, each made at most once
  Edit,         \* PUT requests, each made at most once
  Seed,         \* the endpoint rows at the start
  None,
  MaxStamps,    \* bound: verification stamps written
  MaxChanges    \* bound: administrative changes begun

Endpoint == 1 .. NEndpoints
Subject == {"tenant", "connection", "object", "artifact"}

\* assuranceRank: "" is 0, "standard" 1, "high" 2; nothing else can be written.
Level == 0 .. 2
High == 2
Restrictions == [denied : SUBSET Capability, level : Level]
Unrestricted == [denied |-> {}, level |-> 0]

\* stamp: which verification assurance_verified_at records, 0 for NULL.
Row == [config : Config, on : BOOLEAN, stamp : 0 .. MaxStamps]

\* payload: text alone, with image or file parts, or barred (an unbounded tool, a
\* remote destination, a forbidden field); inputs: what it reads; reader: the caller
\* owns the object or is in its audience.
Ask == [kind : {"unary", "stream", "manage"}, pin : Endpoint \cup {None},
        allowed : SUBSET Endpoint, cap : Capability,
        payload : {"text", "image", "barred"},
        inputs : SUBSET {"object", "artifact"}, reader : BOOLEAN,
        narrow : Restrictions \cup {None}]

ASSUME PolicyAssumption ==
  /\ NEndpoints \in Nat /\ MaxStamps \in Nat /\ MaxChanges \in Nat
  /\ Protocol \in [Config -> {"plain", "tinfoil", "sdk"}]
  /\ Serves \in [Config -> SUBSET Capability]
  /\ {"chat", "vision"} \subseteq Capability
  /\ Restriction \subseteq Restrictions
  /\ Asking \subseteq Ask
  /\ None \notin Endpoint \cup Config \cup Restrictions \cup Row \cup BOOLEAN
  /\ Seed \in [Endpoint -> [config : Config, on : BOOLEAN, stamp : {0}] \cup {None}]

VARIABLES
  endpoint,  \* inference_endpoints
  cache,     \* Service.transports
  restr,     \* source_restrictions; no row restricts nothing
  gone,      \* the object is deleted or tombstoned
  active,    \* the object's connection is active
  call,      \* the calls
  edit,      \* the PUT requests
  attested,  \* configurations whose attestation was observed (history)
  stamps,    \* stamps written
  aged,      \* stamps up to this one are a minute old
  changes,   \* administrative changes begun
  held       \* what has stood in a call's way ever since it began (history)

sources == <<restr, gone, active>>
counts == <<stamps, aged, changes>>
vars == <<endpoint, cache, sources, call, edit, attested, counts, held>>

Started == {"tenant", "object", "connection", "narrow", "narrowed", "ofConnection",
            "ofObject", "ofArtifact", "transport", "verify", "stamp", "store", "mark"}

Fresh == [at |-> "idle", ask |-> None, cap |-> "chat", e |-> None, row |-> None,
          eff |-> Unrestricted, got |-> Unrestricted, proved |-> FALSE, sent |-> FALSE]

Init ==
  /\ endpoint = Seed
  /\ cache = [e \in Endpoint |-> None]
  /\ restr = [s \in Subject |-> Unrestricted]
  /\ gone = FALSE
  /\ active = TRUE
  /\ call = [c \in Call |-> Fresh]
  /\ edit = [x \in Edit |-> [at |-> "idle", e |-> None, row |-> None]]
  /\ attested = {}
  /\ stamps = 0
  /\ aged = 0
  /\ changes = 0
  /\ held = [c \in Call |-> {}]

-----------------------------------------------------------------------------
(* Rules of the policy. *)

\* mergeInto and mergeRestriction: the union of the denials, the higher level.
Merge(r, s) == [denied |-> r.denied \cup s.denied,
                level |-> IF s.level > r.level THEN s.level ELSE r.level]

\* checkNarrowing: a request's own restriction keeps every persisted one.
Narrows(persisted, asked) ==
  persisted.denied \subseteq asked.denied /\ asked.level >= persisted.level

\* analyzePayload refuses what has no bounded rule, before anything is read.
Bounded(a) == a.payload # "barred"

\* walkPayload: an image or file part anywhere in the payload.
NeedsVision(a) == a.payload = "image"

\* effectiveCapability: images make a chat a vision request.
EffectiveCapability(a) == IF a.cap = "chat" /\ NeedsVision(a) THEN "vision" ELSE a.cap

Verifiable(row) == Protocol[row.config] = "tinfoil"

\* assuranceSatisfied
AssuranceSatisfied(row, level) == level = High => row.stamp # 0

\* What route and the head of evaluate ask of a row.
Eligible(e, a) ==
  /\ endpoint[e] # None
  /\ endpoint[e].on
  /\ EffectiveCapability(a) \in Serves[endpoint[e].config]
  /\ e \in a.allowed

\* Candidates of route: the pinned endpoint, or all of them.
Candidates(a) == {e \in Endpoint : (a.pin # None => e = a.pin) /\ Eligible(e, a)}

\* The tail of evaluate, on the merged restriction.
Permits(c, eff) ==
  /\ call[c].cap \notin eff.denied
  /\ AssuranceSatisfied(call[c].row, eff.level) \/ Verifiable(call[c].row)

\* stampVerification leaves a stamp of the last minute alone.
Recent(row) == row.stamp > aged

-----------------------------------------------------------------------------
(* A call. *)

At(c, pc) == call[c].at = pc
Goto(c, pc) == [call[c] EXCEPT !.at = pc]
Becomes(c, r) == call' = [call EXCEPT ![c] = r]

\* A call that is over; of one that was sent, what it was is kept.
Ended(c) == IF call[c].sent THEN Goto(c, "ended") ELSE [Fresh EXCEPT !.at = "ended"]
If(ok, c, r) == Becomes(c, IF ok THEN r ELSE Ended(c))

\* Execute up to the first read of evaluate: the first eligible endpoint by id.
Route(c, a) ==
  /\ At(c, "idle") /\ a.kind # "manage" /\ Bounded(a)
  /\ \E e \in Candidates(a) :
       /\ \A d \in Candidates(a) : e <= d
       /\ Becomes(c, [Fresh EXCEPT !.at = "tenant", !.ask = a, !.e = e,
                                   !.cap = EffectiveCapability(a), !.row = endpoint[e]])
  /\ UNCHANGED <<endpoint, cache, sources, edit, attested, counts>>

\* Manage: the bound endpoint, enabled or not; no restriction is read.
Manage(c, a) ==
  /\ At(c, "idle") /\ a.kind = "manage"
  /\ a.pin # None /\ a.pin \in a.allowed /\ endpoint[a.pin] # None
  /\ Becomes(c, [Fresh EXCEPT !.at = "transport", !.ask = a, !.e = a.pin,
                              !.cap = a.cap, !.row = endpoint[a.pin]])
  /\ UNCHANGED <<endpoint, cache, sources, edit, attested, counts>>

\* After the inputs: the request's own restriction, then the verdict.
Decide(c, eff) ==
  LET n == call[c].ask.narrow
      full == IF n = None THEN eff ELSE Merge(eff, n)
  IN If(Permits(c, full), c, [Goto(c, "transport") EXCEPT !.eff = Unrestricted])

\* resolveInputs goes on to the artifacts when the objects are done.
AfterObjects(c, eff) ==
  IF "artifact" \in call[c].ask.inputs
  THEN Becomes(c, [Goto(c, "ofArtifact") EXCEPT !.eff = eff])
  ELSE Decide(c, eff)

\* resolveInputs: the tenant's restriction.
TenantRow(c) ==
  /\ At(c, "tenant")
  /\ LET eff == Merge(Unrestricted, restr["tenant"])
     IN IF "object" \in call[c].ask.inputs
        THEN Becomes(c, [Goto(c, "object") EXCEPT !.eff = eff])
        ELSE AfterObjects(c, eff)
  /\ UNCHANGED <<endpoint, cache, sources, edit, attested, counts>>

\* GetObject, with the checks CanRead makes of the row it is given.
GetObject(c) ==
  /\ At(c, "object")
  /\ If(~gone, c, Goto(c, "connection"))
  /\ UNCHANGED <<endpoint, cache, sources, edit, attested, counts>>

\* CanRead: the connection, and who may read when no narrowing is asked for.
GetConnection(c) ==
  /\ At(c, "connection")
  /\ IF call[c].ask.narrow = None
     THEN If(active /\ call[c].ask.reader, c, Goto(c, "ofConnection"))
     ELSE If(active, c, Goto(c, "narrow"))
  /\ UNCHANGED <<endpoint, cache, sources, edit, attested, counts>>

\* checkNarrowing reads the connection's restriction ...
NarrowConnection(c) ==
  /\ At(c, "narrow")
  /\ Becomes(c, [Goto(c, "narrowed") EXCEPT !.got = restr["connection"]])
  /\ UNCHANGED <<endpoint, cache, sources, edit, attested, counts>>

\* ... and the object's, and compares.
NarrowObject(c) ==
  /\ At(c, "narrowed")
  /\ If(/\ Narrows(Merge(call[c].got, restr["object"]), call[c].ask.narrow)
        /\ call[c].ask.reader,
        c, [Goto(c, "ofConnection") EXCEPT !.got = Unrestricted])
  /\ UNCHANGED <<endpoint, cache, sources, edit, attested, counts>>

\* Faulty variant: the connection's restriction replaces what was collected.
ConnectionRowReplaces(c) ==
  /\ At(c, "ofConnection")
  /\ Becomes(c, [Goto(c, "ofObject") EXCEPT !.eff = restr["connection"]])
  /\ UNCHANGED <<endpoint, cache, sources, edit, attested, counts>>

\* EffectiveRestrictions: the connection's ...
ConnectionRow(c) ==
  /\ At(c, "ofConnection")
  /\ Becomes(c, [Goto(c, "ofObject") EXCEPT !.eff = Merge(@, restr["connection"])])
  /\ UNCHANGED <<endpoint, cache, sources, edit, attested, counts>>

\* ... and the object's.
ObjectRow(c) ==
  /\ At(c, "ofObject")
  /\ AfterObjects(c, Merge(call[c].eff, restr["object"]))
  /\ UNCHANGED <<endpoint, cache, sources, edit, attested, counts>>

\* resolveInputs: the restriction of an artifact.
ArtifactRow(c) ==
  /\ At(c, "ofArtifact")
  /\ Decide(c, Merge(call[c].eff, restr["artifact"]))
  /\ UNCHANGED <<endpoint, cache, sources, edit, attested, counts>>

-----------------------------------------------------------------------------
(* transportFor *)

\* transportSignature
Signature(row) == <<row.config, row.stamp>>

\* What the cache holds of a call's endpoint once it stores its own.
Entry(c) == [sig |-> Signature(call[c].row), proved |-> call[c].proved]

\* The cached transport when its signature is the row's; else a new one, which
\* must prove itself first where the protocol promises attestation.
Transport(c) ==
  /\ At(c, "transport")
  /\ LET row == call[c].row
         hit == cache[call[c].e]
     IN Becomes(c, IF hit # None /\ hit.sig = Signature(row)
                   THEN [Goto(c, "mark") EXCEPT !.proved = hit.proved]
                   ELSE Goto(c, IF Verifiable(row) THEN "verify" ELSE "store"))
  /\ UNCHANGED <<endpoint, cache, sources, edit, attested, counts>>

\* Faulty variant: the new transport is in the cache before it is verified.
VerifyStored(c) ==
  \/ /\ At(c, "verify")
     /\ cache[call[c].e] = None
     /\ cache' = [cache EXCEPT ![call[c].e] = Entry(c)]
     /\ UNCHANGED <<call, endpoint, sources, edit, attested, counts>>
  \/ /\ At(c, "verify")
     /\ attested' = attested \cup {call[c].row.config}
     /\ Becomes(c, [Goto(c, IF Recent(call[c].row) THEN "store" ELSE "stamp")
                    EXCEPT !.proved = TRUE])
     /\ UNCHANGED <<endpoint, cache, sources, edit, counts>>

\* VerifyAttestation succeeds.
Verify(c) ==
  /\ At(c, "verify")
  /\ attested' = attested \cup {call[c].row.config}
  /\ Becomes(c, [Goto(c, IF Recent(call[c].row) THEN "store" ELSE "stamp")
                 EXCEPT !.proved = TRUE])
  /\ UNCHANGED <<endpoint, cache, sources, edit, counts>>

\* Faulty variant: only the timestamp's column is written.
StampedColumn(c) ==
  [endpoint EXCEPT ![call[c].e] = [@ EXCEPT !.stamp = stamps + 1]]

\* stampVerification writes back the whole row the call read, with a new stamp.
Stamped(c) ==
  [endpoint EXCEPT ![call[c].e] = [call[c].row EXCEPT !.stamp = stamps + 1]]

\* The write is best effort: it may fail and the call goes on.
Stamp(c) ==
  /\ At(c, "stamp")
  /\ Becomes(c, Goto(c, IF call[c].sent THEN "ended" ELSE "store"))
  /\ \/ /\ stamps < MaxStamps
        /\ endpoint' = Stamped(c)
        /\ stamps' = stamps + 1
     \/ UNCHANGED <<endpoint, stamps>>
  /\ UNCHANGED <<cache, sources, edit, attested, aged, changes>>

\* The entry replaces whatever is there; the transport it replaces is closed.
Store(c) ==
  /\ At(c, "store")
  /\ cache' = [cache EXCEPT ![call[c].e] = Entry(c)]
  /\ Becomes(c, Goto(c, "mark"))
  /\ UNCHANGED <<endpoint, sources, edit, attested, counts>>

\* MarkDispatched and the dispatch.
Send(c) ==
  /\ At(c, "mark")
  /\ Becomes(c, [Goto(c, "sent") EXCEPT !.sent = TRUE])
  /\ UNCHANGED <<endpoint, cache, sources, edit, attested, counts>>

\* A unary answer over a confidential SDK is itself the proof, and is stamped.
Answered(c) ==
  /\ At(c, "sent") /\ call[c].ask.kind = "unary"
  /\ Protocol[call[c].row.config] = "sdk"
  /\ attested' = attested \cup {call[c].row.config}
  /\ Becomes(c, Goto(c, IF Recent(call[c].row) THEN "ended" ELSE "stamp"))
  /\ UNCHANGED <<endpoint, cache, sources, edit, counts>>

\* No budget, no slot, no transport, no proof, an error, a client gone.
Abandon(c) ==
  /\ call[c].at \in Started \cup {"sent"}
  /\ Becomes(c, Ended(c))
  /\ UNCHANGED <<endpoint, cache, sources, edit, attested, counts>>

\* The process ends: its calls with it, and Close empties the cache.
Close ==
  /\ cache # [e \in Endpoint |-> None]
  /\ cache' = [e \in Endpoint |-> None]
  /\ call' = [c \in Call |-> IF At(c, "idle") THEN call[c] ELSE Ended(c)]
  /\ UNCHANGED <<endpoint, sources, edit, attested, counts>>

\* A minute passes.
Minute ==
  /\ aged < stamps
  /\ aged' = stamps
  /\ UNCHANGED <<endpoint, cache, sources, call, edit, attested, stamps, changes>>

-----------------------------------------------------------------------------
(* Administration. *)

Change == changes < MaxChanges /\ changes' = changes + 1

\* POST of a new endpoint.
Create(e, cfg, on) ==
  /\ endpoint[e] = None
  /\ Change
  /\ endpoint' = [endpoint EXCEPT ![e] = [config |-> cfg, on |-> on, stamp |-> 0]]
  /\ UNCHANGED <<cache, sources, call, edit, attested, stamps, aged>>

\* endpointFromUpdateRequest: a change of configuration clears the stamp.
Updated(row, cfg) ==
  [row EXCEPT !.config = cfg, !.stamp = IF cfg = row.config THEN @ ELSE 0]

\* PUT reads the row, and goes to SetEnabled only if is_enabled differs.
PutRead(x, e, cfg, on) ==
  /\ edit[x].at = "idle" /\ endpoint[e] # None
  /\ Change
  /\ edit' = [edit EXCEPT ![x] =
       [at |-> IF on = endpoint[e].on THEN "write" ELSE "enable", e |-> e,
        row |-> [Updated(endpoint[e], cfg) EXCEPT !.on = on]]]
  /\ UNCHANGED <<endpoint, cache, sources, call, attested, stamps, aged>>

\* SetEnabled
PutEnable(x) ==
  /\ edit[x].at = "enable"
  /\ endpoint' = [endpoint EXCEPT ![edit[x].e].on = edit[x].row.on]
  /\ edit' = [edit EXCEPT ![x].at = "write"]
  /\ UNCHANGED <<cache, sources, call, attested, counts>>

\* Update writes the whole row as PUT read it, edited.
PutWrite(x) ==
  /\ edit[x].at = "write"
  /\ endpoint' = [endpoint EXCEPT ![edit[x].e] = edit[x].row]
  /\ edit' = [edit EXCEPT ![x].at = "done"]
  /\ UNCHANGED <<cache, sources, call, attested, counts>>

\* DELETE disables.
Delete(e) ==
  /\ endpoint[e] # None /\ endpoint[e].on
  /\ Change
  /\ endpoint' = [endpoint EXCEPT ![e].on = FALSE]
  /\ UNCHANGED <<cache, sources, call, edit, attested, stamps, aged>>

\* PUT of a restriction: the row becomes what was sent, tighter or wider.
SetRestriction(s, r) ==
  /\ restr[s] # r
  /\ Change
  /\ restr' = [restr EXCEPT ![s] = r]
  /\ UNCHANGED <<endpoint, cache, gone, active, call, edit, attested, stamps, aged>>

\* MarkObjectDeleted or TombstoneObject.
DeleteObject ==
  /\ ~gone
  /\ Change
  /\ gone' = TRUE
  /\ UNCHANGED <<endpoint, cache, restr, active, call, edit, attested, stamps, aged>>

\* An update of the connector enables or disables its connection.
SetStatus ==
  /\ Change
  /\ active' = ~active
  /\ UNCHANGED <<endpoint, cache, restr, gone, call, edit, attested, stamps, aged>>

-----------------------------------------------------------------------------

\* What can stand in the way of a call.
Obstacles ==
       {<<"deny", s, k>> : s \in Subject, k \in Capability}
  \cup {<<"high", s>> : s \in Subject}
  \cup {<<"off", e>> : e \in Endpoint}
  \cup {<<"gone">>, <<"inactive">>}

Stands(o) ==
  CASE o[1] = "deny" -> o[3] \in restr[o[2]].denied
    [] o[1] = "high" -> restr[o[2]].level = High
    [] o[1] = "off" -> endpoint[o[2]] # None /\ ~endpoint[o[2]].on
    [] o[1] = "gone" -> gone
    [] o[1] = "inactive" -> ~active

Standing == {o \in Obstacles : Stands(o)}

\* A call remembers what stands from its first statement until it is sent.
Remember ==
  held' = [c \in Call |->
             IF call'[c].sent THEN held[c]
             ELSE IF call'[c].at \notin Started THEN {}
             ELSE IF At(c, "idle") THEN Standing'
             ELSE held[c] \cap Standing']

Calls ==
  \E c \in Call :
    \/ \E a \in Asking : Route(c, a) \/ Manage(c, a)
    \/ TenantRow(c) \/ GetObject(c) \/ GetConnection(c)
    \/ NarrowConnection(c) \/ NarrowObject(c)
    \/ ConnectionRow(c) \/ ObjectRow(c) \/ ArtifactRow(c)
    \/ Transport(c) \/ Verify(c) \/ Stamp(c) \/ Store(c)
    \/ Send(c) \/ Answered(c) \/ Abandon(c)

Administration ==
  \/ \E e \in Endpoint, cfg \in Config, on \in BOOLEAN :
       Create(e, cfg, on) \/ \E x \in Edit : PutRead(x, e, cfg, on)
  \/ \E x \in Edit : PutEnable(x) \/ PutWrite(x)
  \/ \E e \in Endpoint : Delete(e)
  \/ \E s \in Subject, r \in Restriction : SetRestriction(s, r)
  \/ DeleteObject \/ SetStatus

Next == (Calls \/ Close \/ Minute \/ Administration) /\ Remember

Spec == Init /\ [][Next]_vars

-----------------------------------------------------------------------------
(* Properties. *)

CallRecord ==
  [at : {"idle", "sent", "ended"} \cup Started, ask : Asking \cup {None},
   cap : Capability, e : Endpoint \cup {None}, row : Row \cup {None},
   eff : Restrictions, got : Restrictions, proved : BOOLEAN, sent : BOOLEAN]

TypeOK ==
  /\ endpoint \in [Endpoint -> Row \cup {None}]
  /\ cache \in [Endpoint -> [sig : Config \X (0 .. MaxStamps), proved : BOOLEAN] \cup {None}]
  /\ restr \in [Subject -> Restrictions]
  /\ gone \in BOOLEAN /\ active \in BOOLEAN
  /\ call \in [Call -> CallRecord]
  /\ edit \in [Edit -> [at : {"idle", "enable", "write", "done"},
                        e : Endpoint \cup {None}, row : Row \cup {None}]]
  /\ attested \subseteq Config
  /\ stamps \in 0 .. MaxStamps /\ aged \in 0 .. stamps
  /\ changes \in 0 .. MaxChanges
  /\ held \in [Call -> SUBSET Obstacles]

\* A verification stamp on an endpoint row is a proof of that row's configuration:
\* the configuration carrying it was itself observed to attest, whatever stamps, edits
\* and enablings crossed (service.go stampVerification, providers.go PUT).  Routing
\* trusts the stamp of a row it cannot verify.
StampIsProof ==
  \A e \in Endpoint :
    endpoint[e] # None /\ endpoint[e].stamp # 0 => endpoint[e].config \in attested

\* The subjects whose restrictions a call's inputs stand under.
Concerns(c) ==
  {"tenant"} \cup (IF "object" \in call[c].ask.inputs THEN {"connection", "object"} ELSE {})
             \cup (IF "artifact" \in call[c].ask.inputs THEN {"artifact"} ELSE {})

\* Nothing leaves for an endpoint that promises attestation but over a transport that
\* proved itself, and nothing leaves under a standing demand for high assurance but to
\* a configuration observed to attest (policy.go evaluate, service.go transportFor).
SentIsAssured ==
  \A c \in Call : call[c].sent =>
    /\ Verifiable(call[c].row) => call[c].proved
    /\ (/\ call[c].ask.kind # "manage"
        /\ \E s \in Concerns(c) : <<"high", s>> \in held[c])
         => call[c].row.config \in attested

\* A call is not sent against something that has stood in its way since it began: a
\* denial by any subject of its inputs, the endpoint disabled, its object deleted, the
\* connection inactive.  Each is read at a moment of its own (policy.go resolveInputs).
AuthorityHolds ==
  \A c \in Call : call[c].sent /\ call[c].ask.kind # "manage" =>
    /\ \A s \in Concerns(c) : <<"deny", s, call[c].cap>> \notin held[c]
    /\ <<"off", call[c].e>> \notin held[c]
    /\ "object" \in call[c].ask.inputs =>
         held[c] \cap {<<"gone">>, <<"inactive">>} = {}

=============================================================================
