------------------------------- MODULE Extract -------------------------------
(***************************************************************************)
(* Document extraction: internal/extract, its routes in modules/extract and *)
(* httpx/dashboard_extract.go, its rows of store/postgres/extract_repo.go,  *)
(* for one tenant and any number of processes.                              *)
(*                                                                         *)
(* An action is one statement with the code up to the next.  A request      *)
(* stores its file as a final artifact and only then enqueues a job under   *)
(* its idempotency key; a worker's attempt reads the template and the file  *)
(* again, marks the dispatch, calls the model and stores the result.  What  *)
(* leases, fences and cancellation do to a job is in Jobs, what a reaper    *)
(* does to an artifact in Artifacts, the call itself in Policy and Execute: *)
(* here a job is queued, running, sent, done or over, an attempt may end    *)
(* anywhere, and the model answers or fails.                                *)
(***************************************************************************)
EXTENDS Naturals, Sequences

CONSTANTS
  Template,
  Shipped,      \* the templates the program comes with
  Model,
  Vision,       \* models that endpoints with the vision capability offer
  Content,      \* what a file holds; its hash tells it from others
  Given,        \* idempotency keys clients choose
  Actor,
  May,          \* the templates an actor's allowlist grants
  Call,         \* requests in flight
  Worker,
  Edit,         \* read-modify-write requests, each made at most once
  Row,          \* the rows that POST and PUT of a template come to
  None,
  MaxArtifacts, \* bound: artifacts begun
  MaxCalls,     \* bound: requests begun
  MaxChanges    \* bound: administrative changes begun

TemplateRow == [on : BOOLEAN, default : BOOLEAN, model : Model \cup {None}]
Setting == [model : Model \cup {None}]
Key == Given \cup (Template \X Content)
Artifact == 1 .. MaxArtifacts
Job == [by : Actor, template : Template, model : Model, content : Content,
        input : Artifact, at : {"queued", "running", "sent", "done", "over"},
        result : Artifact \cup {None}]
File == [holds : Content \cup Key, final : BOOLEAN]

\* What the constants are.
Constants ==
  /\ Shipped \subseteq Template
  /\ Vision \subseteq Model
  /\ May \in [Actor -> SUBSET Template]
  /\ Row \subseteq TemplateRow
  /\ None \notin Job
  /\ MaxArtifacts \in Nat /\ MaxCalls \in Nat /\ MaxChanges \in Nat

VARIABLES
  template,  \* extract_templates
  setting,   \* the row of extract_settings
  artifact,  \* the artifacts of this operation, as they were begun
  job,       \* its jobs, by idempotency key
  call,      \* the requests
  worker,    \* the attempts
  edit,      \* the read-modify-write requests, GET of the settings among them
  begun,     \* requests begun
  changes,   \* administrative changes begun
  off        \* templates withdrawn ever since an attempt began (history)

admin == <<template, setting, edit, changes>>
work == <<artifact, job, call, worker, begun>>
vars == <<admin, work, off>>

ShippedRow == [on |-> TRUE, default |-> TRUE, model |-> None]
NoCall == [at |-> "idle", by |-> None, template |-> None, content |-> None, key |-> None,
           row |-> None, model |-> None, input |-> None]
NoAttempt == [at |-> "idle", key |-> None, content |-> None, result |-> None]
NoEdit == [at |-> "idle", id |-> None, row |-> None]

Withdrawn == {t \in Template : template[t] = None \/ ~template[t].on}

\* main has seeded the bootstrap tenant's templates and settings, no other's.
Init ==
  /\ \/ /\ template = [t \in Template |-> IF t \in Shipped THEN ShippedRow ELSE None]
        /\ setting = [model |-> None]
     \/ template = [t \in Template |-> None] /\ setting = None
  /\ artifact = <<>>
  /\ job = [k \in Key |-> None]
  /\ call = [c \in Call |-> NoCall]
  /\ worker = [w \in Worker |-> NoAttempt]
  /\ edit = [x \in Edit |-> NoEdit]
  /\ begun = 0
  /\ changes = 0
  /\ off = [w \in Worker |-> Withdrawn]

-----------------------------------------------------------------------------
(* Process. *)

Becomes(c, x) == call' = [call EXCEPT ![c] = x]
Asked(c, pc) == [call[c] EXCEPT !.at = pc]

\* A file for a template the actor may use, under a key of its own or the default one.
Begin(c, a, t, x, k) ==
  /\ call[c].at = "idle"
  /\ begun < MaxCalls
  /\ t \in May[a]
  /\ k \in Given \/ k = <<t, x>>
  /\ begun' = begun + 1
  /\ Becomes(c, [NoCall EXCEPT !.at = "template", !.by = a, !.template = t, !.content = x, !.key = k])
  /\ UNCHANGED <<admin, artifact, job, worker>>

ReadTemplate(c) ==
  /\ call[c].at = "template"
  /\ LET t == call[c].template
     IN Becomes(c, IF t \in Withdrawn THEN NoCall ELSE [Asked(c, "model") EXCEPT !.row = template[t]])
  /\ UNCHANGED <<admin, artifact, job, worker, begun>>

\* resolveModel: the template's, else the tenant's, else one that is offered.
Resolved(row) ==
  IF row.model # None THEN {row.model}
  ELSE IF setting # None /\ setting.model # None THEN {setting.model}
  ELSE Vision

ResolveModel(c) ==
  /\ call[c].at = "model"
  /\ LET models == Resolved(call[c].row)
     IN IF models = {} THEN Becomes(c, NoCall)
        ELSE \E m \in models : Becomes(c, [Asked(c, "begin") EXCEPT !.model = m, !.row = None])
  /\ UNCHANGED <<admin, artifact, job, worker, begun>>

\* Begin mints a new id.
New == Len(artifact) + 1
Writing(x) ==
  /\ Len(artifact) < MaxArtifacts
  /\ artifact' = Append(artifact, [holds |-> x, final |-> FALSE])

Finalized(f) == artifact' = [artifact EXCEPT ![f].final = TRUE]

\* Faulty variant: the job is enqueued before the input is final.
BeginInputOnly(c) ==
  /\ call[c].at = "begin"
  /\ Writing(call[c].content)
  /\ Becomes(c, [Asked(c, "enqueue") EXCEPT !.input = New])
  /\ UNCHANGED <<admin, job, worker, begun>>

BeginInput(c) ==
  /\ call[c].at = "begin"
  /\ Writing(call[c].content)
  /\ Becomes(c, [Asked(c, "finalize") EXCEPT !.input = New])
  /\ UNCHANGED <<admin, job, worker, begun>>

FinalizeInput(c) ==
  /\ call[c].at = "finalize"
  /\ Finalized(call[c].input)
  /\ Becomes(c, Asked(c, "enqueue"))
  /\ UNCHANGED <<admin, job, worker, begun>>

\* Faulty variant: whoever uses the key gets the job.
ReplayedOnKey(c, j) == TRUE

\* jobs.Enqueue: a replay has the submitter, the input and the policy of the stored job.
Replayed(c, j) ==
  /\ j.by = call[c].by
  /\ j.input = call[c].input
  /\ j.content = call[c].content
  /\ j.template = call[c].template
  /\ j.model = call[c].model

Enqueue(c) ==
  LET k == call[c].key
  IN /\ call[c].at = "enqueue"
     /\ IF job[k] = None
        THEN /\ job' = [job EXCEPT ![k] =
                          [by |-> call[c].by, template |-> call[c].template,
                           model |-> call[c].model, content |-> call[c].content,
                           input |-> call[c].input, at |-> "queued", result |-> None]]
             /\ Becomes(c, Asked(c, "accepted"))
        ELSE /\ Becomes(c, Asked(c, IF Replayed(c, job[k]) THEN "accepted" ELSE "conflict"))
             /\ UNCHANGED job
     /\ UNCHANGED <<admin, artifact, worker, begun>>

\* The reply; before it a refusal, an error, a process gone.
Leave(c) ==
  /\ call[c].at # "idle"
  /\ Becomes(c, NoCall)
  /\ UNCHANGED <<admin, artifact, job, worker, begun>>

-----------------------------------------------------------------------------
(* The attempt. *)

Works(w, x) == worker' = [worker EXCEPT ![w] = x]
Goes(w, pc) == Works(w, [worker[w] EXCEPT !.at = pc])
JobAt(w, at) == job' = [job EXCEPT ![worker[w].key].at = at]
Mine(w) == job[worker[w].key]

Claim(w, k) ==
  /\ worker[w].at = "idle"
  /\ job[k] # None /\ job[k].at = "queued"
  /\ job' = [job EXCEPT ![k].at = "running"]
  /\ Works(w, [NoAttempt EXCEPT !.at = "load", !.key = k])
  /\ UNCHANGED <<admin, artifact, call, begun>>

\* What ends an attempt: before the dispatch the job is another attempt's or over,
\* after it over.
Ends(w) ==
  /\ \/ Mine(w).at = "running" /\ JobAt(w, "queued")
     \/ JobAt(w, "over")
  /\ Works(w, NoAttempt)
  /\ UNCHANGED <<admin, artifact, call, begun>>

\* Faulty variant: the template is taken as it was when the job was accepted.
LoadUnchecked(w) ==
  /\ worker[w].at = "load"
  /\ Goes(w, "input")
  /\ UNCHANGED <<admin, artifact, job, call, begun>>

\* The template is read again and must be enabled still.
Load(w) ==
  /\ worker[w].at = "load"
  /\ Mine(w).template \notin Withdrawn
  /\ Goes(w, "input")
  /\ UNCHANGED <<admin, artifact, job, call, begun>>

ReadInput(w) ==
  /\ worker[w].at = "input"
  /\ LET f == artifact[Mine(w).input]
     IN f.final /\ Works(w, [worker[w] EXCEPT !.at = "mark", !.content = f.holds])
  /\ UNCHANGED <<admin, artifact, job, call, begun>>

MarkDispatched(w) ==
  /\ worker[w].at = "mark"
  /\ JobAt(w, "sent")
  /\ Goes(w, "call")
  /\ UNCHANGED <<admin, artifact, call, begun>>

\* The model answers; whatever it says is a result, errors of form included.
Answered(w) ==
  /\ worker[w].at = "call"
  /\ Goes(w, "begin")
  /\ UNCHANGED <<admin, artifact, job, call, begun>>

BeginResult(w) ==
  /\ worker[w].at = "begin"
  /\ Writing(worker[w].key)
  /\ Works(w, [worker[w] EXCEPT !.at = "finalize", !.result = New])
  /\ UNCHANGED <<admin, job, call, begun>>

FinalizeResult(w) ==
  /\ worker[w].at = "finalize"
  /\ Finalized(worker[w].result)
  /\ Goes(w, "complete")
  /\ UNCHANGED <<admin, job, call, begun>>

Complete(w) ==
  /\ worker[w].at = "complete"
  /\ job' = [job EXCEPT ![worker[w].key].at = "done", ![worker[w].key].result = worker[w].result]
  /\ Works(w, NoAttempt)
  /\ UNCHANGED <<admin, artifact, call, begun>>

\* An error, a cancellation, a worker gone.
Fail(w) == worker[w].at # "idle" /\ Ends(w)

-----------------------------------------------------------------------------
(* Administration. *)

Change == changes < MaxChanges /\ changes' = changes + 1

\* UpsertTemplate, of a POST for an id that may be taken.
Post(t, row) ==
  /\ Change
  /\ template' = [template EXCEPT ![t] = row]
  /\ UNCHANGED <<setting, edit, work>>

\* PUT reads the row ...
PutRead(x, t, row) ==
  /\ edit[x].at = "idle" /\ template[t] # None
  /\ Change
  /\ edit' = [edit EXCEPT ![x] = [at |-> "put", id |-> t, row |-> row]]
  /\ UNCHANGED <<template, setting, work>>

\* ... and upserts all of it, with any of its fields patched, deleted meanwhile or not.
PutWrite(x) ==
  /\ edit[x].at = "put"
  /\ template' = [template EXCEPT ![edit[x].id] = edit[x].row]
  /\ edit' = [edit EXCEPT ![x] = [NoEdit EXCEPT !.at = "done"]]
  /\ UNCHANGED <<setting, changes, work>>

DeleteTemplate(t) ==
  /\ template[t] # None
  /\ Change
  /\ template' = [template EXCEPT ![t] = None]
  /\ UNCHANGED <<setting, edit, work>>

\* ReplaceDefaultTemplates, one transaction: what is marked default goes, what the
\* program comes with is there.
ResetDefaults ==
  /\ Change
  /\ template' = [t \in Template |->
                    IF t \in Shipped THEN ShippedRow
                    ELSE IF template[t] # None /\ template[t].default THEN None ELSE template[t]]
  /\ UNCHANGED <<setting, edit, work>>

\* SeedDefaults, of a process that starts: one upsert of each.
SeedDefault(t) ==
  /\ t \in Shipped
  /\ Change
  /\ template' = [template EXCEPT ![t] = ShippedRow]
  /\ UNCHANGED <<setting, edit, work>>

\* GetSettings finds no row ...
TouchRead(x) ==
  /\ edit[x].at = "idle" /\ setting = None
  /\ Change
  /\ edit' = [edit EXCEPT ![x].at = "touch"]
  /\ UNCHANGED <<template, setting, work>>

\* ... and upserts the default one, whatever is there by now.
TouchWrite(x) ==
  /\ edit[x].at = "touch"
  /\ setting' = [model |-> None]
  /\ edit' = [edit EXCEPT ![x].at = "done"]
  /\ UNCHANGED <<template, changes, work>>

\* UpdateSettings
UpdateSettings(m) ==
  /\ Change
  /\ setting' = [model |-> m]
  /\ UNCHANGED <<template, edit, work>>

-----------------------------------------------------------------------------

Process(c) ==
  \/ \E a \in Actor, t \in Template, x \in Content, k \in Key : Begin(c, a, t, x, k)
  \/ ReadTemplate(c) \/ ResolveModel(c)
  \/ BeginInput(c) \/ FinalizeInput(c) \/ Enqueue(c)
  \/ Leave(c)

Attempt(w) ==
  \/ \E k \in Key : Claim(w, k)
  \/ Load(w) \/ ReadInput(w) \/ MarkDispatched(w) \/ Answered(w)
  \/ BeginResult(w) \/ FinalizeResult(w) \/ Complete(w)
  \/ Fail(w)

Administration ==
  \/ \E t \in Template : DeleteTemplate(t) \/ SeedDefault(t) \/ \E row \in Row : Post(t, row)
  \/ \E x \in Edit :
       \/ PutWrite(x) \/ TouchRead(x) \/ TouchWrite(x)
       \/ \E t \in Template, row \in Row : PutRead(x, t, row)
  \/ ResetDefaults
  \/ \E m \in Model \cup {None} : UpdateSettings(m)

\* What stays withdrawn, for a worker without an attempt all that is.
Remember ==
  off' = [w \in Worker |-> IF worker[w].at = "idle" THEN Withdrawn' ELSE off[w] \cap Withdrawn']

Next ==
  /\ \/ \E c \in Call : Process(c)
     \/ \E w \in Worker : Attempt(w)
     \/ Administration
  /\ Remember

Spec == Init /\ [][Next]_vars

-----------------------------------------------------------------------------
(* Properties. *)

TypeOK ==
  /\ template \in [Template -> TemplateRow \cup {None}]
  /\ setting \in Setting \cup {None}
  /\ artifact \in Seq(File)
  /\ job \in [Key -> Job \cup {None}]
  /\ begun \in 0 .. MaxCalls /\ changes \in 0 .. MaxChanges
  /\ off \in [Worker -> SUBSET Template]

\* However requests and attempts end, the file of a job is final and holds what was
\* uploaded for it, the result of one that is done is final and its own, and what an
\* attempt sends is that file (Process: "persists the input bytes as a durable artifact
\* BEFORE any job work").
JobsAreReadable ==
  /\ \A k \in Key : job[k] # None =>
       /\ artifact[job[k].input] = [holds |-> job[k].content, final |-> TRUE]
       /\ job[k].at = "done" => artifact[job[k].result] = [holds |-> k, final |-> TRUE]
  /\ \A w \in Worker : worker[w].at = "call" => worker[w].content = Mine(w).content

\* A request that is accepted has a job of its own actor, for its own file, template and
\* model, whoever else uses its key (Enqueue: a difference "never leaks the stored job").
AcceptedIsOwn ==
  \A c \in Call : call[c].at = "accepted" =>
    LET j == job[call[c].key]
    IN /\ j.by = call[c].by /\ j.content = call[c].content
       /\ j.template = call[c].template /\ j.model = call[c].model

\* No attempt sends a document to the model with a template withdrawn since before the
\* attempt began, however long the job waited in the queue.
WithdrawnNotSent ==
  \A w \in Worker : worker[w].at \in {"input", "mark", "call"} => Mine(w).template \notin off[w]

\* A request repeated as it was is given the job it has ("replayed jobs surface the
\* stored identity, not a new execution").  It is not: the file is stored as a new
\* artifact each time, and the replay is compared by artifact.
RetryGetsItsJob ==
  \A c \in Call : call[c].at = "conflict" =>
    LET j == job[call[c].key]
    IN \/ j.by # call[c].by \/ j.content # call[c].content
       \/ j.template # call[c].template \/ j.model # call[c].model

=============================================================================
