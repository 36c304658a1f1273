-------------------------------- MODULE Rag --------------------------------
(***************************************************************************)
(* Durable ingest, indexing, deletion and search of internal/rag for one    *)
(* native document identity in one collection.  Postgres rows, the Qdrant   *)
(* index and the job queue are three stores: an action is one statement or  *)
(* transaction, one call of Qdrant, or one step of a job of JobContract.    *)
(*                                                                         *)
(* Deleting the object deletes its rows and uploading again makes an object *)
(* with a fresh identifier, so versions, generations and chunks are those   *)
(* of the present object; points and jobs outlive it and name theirs.       *)
(***************************************************************************)
EXTENDS Naturals, FiniteSets

CONSTANTS
  Request,         \* HTTP requests (and connector syncs) in flight
  Worker,          \* runner slots
  Structured,      \* versions whose file is markdown or HTML
  MaxObjects,      \* bound: objects made for the identity
  MaxVersions,     \* bound: versions of an object
  MaxGenerations,  \* bound: generations of a version
  MaxLeases,       \* bound: leases of a job
  MaxWrites,       \* bound: uploads, reprocessings and deletions
  MaxFaults        \* bound: failures, lost leases and answers, crashes, cancellations

ASSUME RagAssumption ==
  /\ MaxObjects \in Nat \ {0}
  /\ MaxVersions \in Nat \ {0}
  /\ MaxGenerations \in Nat \ {0}
  /\ MaxLeases \in Nat \ {0}
  /\ MaxWrites \in Nat /\ MaxFaults \in Nat
  /\ Structured \subseteq 1..MaxVersions

VARIABLES
  obj,     \* the row of source_objects: identifier (0: no row), observed_seq, tombstoned
  made,    \* identifiers given out
  coll,    \* the knowledge_collections row exists
  item,    \* the collection_items row exists
  gens,    \* index_generations.state by version and generation
  chunks,  \* the generation and lease that wrote each version's chunk rows
  parsed,  \* versions with a parsed_documents row
  points,  \* Qdrant points: object, version, generation, lease
  purged,  \* history: objects whose points somebody deleted
  gone,    \* history: objects tombstoned
  req,     \* the requests
  run,     \* the attempts
  writes,  \* writing requests begun
  faults,  \* faults so far
  phase, leases, dispatched, cancelled, published  \* the job queue, as JobContract has it

Object == 1..MaxObjects
Version == 1..MaxVersions
Generation == 1..MaxGenerations

\* The idempotency key rag.embed:object:seq:generation is the job.
Job == Object \X Version \X Generation

Q == INSTANCE JobContract

rows == <<obj, made, coll, item, gens, chunks, parsed>>
index == <<points, purged>>
queue == <<phase, leases, dispatched, cancelled, published>>
budget == <<writes, faults>>
vars == <<rows, index, gone, req, run, budget, queue>>

NoChunks == <<0, 0>>
Idle == [at |-> "idle", o |-> 0, v |-> 0, g |-> 0, old |-> {}, hits |-> {}]
Free == [at |-> "free", o |-> 0, v |-> 0, g |-> 0, lease |-> 0]

JobOf(r) == <<r.o, r.v, r.g>>

Init ==
  /\ obj = [id |-> 0, seq |-> 0, dead |-> FALSE]
  /\ made = 0
  /\ coll = TRUE
  /\ item = FALSE
  /\ gens = [v \in Version |-> [g \in Generation |-> "none"]]
  /\ chunks = [v \in Version |-> NoChunks]
  /\ parsed = {}
  /\ points = {}
  /\ purged = {}
  /\ gone = {}
  /\ req = [r \in Request |-> Idle]
  /\ run = [w \in Worker |-> Free]
  /\ writes = 0
  /\ faults = 0
  /\ Q!CInit

-----------------------------------------------------------------------------
(* What the statements see. *)

\* source_object_versions of object o: InsertObjectVersion makes them without a gap.
HasVersion(o, v) == o # 0 /\ o = obj.id /\ v \in 1..obj.seq

\* documentSelect joins the object with its collection item; a dead object is denied.
HasDocument(o) == o # 0 /\ o = obj.id /\ item /\ ~obj.dead

\* The rows of index_generations of a version of object o.
GensOf(o, v) == {g \in Generation : HasVersion(o, v) /\ gens[v][g] # "none"}

\* DocumentStatusReady: the latest generation of the latest version is published.
Ready(o) ==
  /\ HasDocument(o)
  /\ \E g \in GensOf(o, obj.seq) :
        /\ \A h \in GensOf(o, obj.seq) : h <= g
        /\ gens[obj.seq][g] = "published"

-----------------------------------------------------------------------------
(* Requests.  A statement may be refused or fail, which ends the request, and *)
(* the process may die between two of them: EndRequest.                      *)

BeginWrite == writes < MaxWrites /\ writes' = writes + 1 /\ UNCHANGED faults
Fault == faults < MaxFaults /\ faults' = faults + 1 /\ UNCHANGED writes

Move(r, to) == req' = [req EXCEPT ![r].at = to]

\* A row the statement needs is not there, or the version's number is taken.
Refused(r) ==
  \/ req[r].at \in {"read", "insert", "item", "tombstone"} /\ obj.id # req[r].o
  \/ req[r].at = "insert" /\ req[r].v <= obj.seq
  \/ req[r].at \in {"item", "stage"} /\ ~coll
  \/ req[r].at = "stage" /\ ~HasVersion(req[r].o, req[r].v)

EndRequest(r) ==
  /\ req[r].at # "idle"
  /\ \/ (Refused(r) \/ req[r].at = "answer") /\ UNCHANGED budget
     \/ Fault
  /\ req' = [req EXCEPT ![r] = Idle]
  /\ UNCHANGED <<rows, index, gone, run, queue>>

\* UploadDocument: the bytes are final before the object is touched.  The object is
\* inserted, or a row of the same identity is kept as it is, dead or not.
UpsertObject(r) ==
  /\ req[r].at = "idle"
  /\ BeginWrite
  /\ coll
  /\ IF obj.id = 0
       THEN /\ made < MaxObjects
            /\ made' = made + 1
            /\ obj' = [id |-> made + 1, seq |-> 0, dead |-> FALSE]
       ELSE UNCHANGED <<made, obj>>
  /\ req' = [req EXCEPT ![r] = [Idle EXCEPT !.at = "read", !.o = obj'.id]]
  /\ UNCHANGED <<coll, item, gens, chunks, parsed, index, gone, run, queue>>

\* The row is read back; the next version's number comes from this read.
ReadObject(r) ==
  /\ req[r].at = "read"
  /\ obj.id = req[r].o
  /\ obj.seq < MaxVersions
  /\ req' = [req EXCEPT ![r].at = "insert", ![r].v = obj.seq + 1]
  /\ UNCHANGED <<rows, index, gone, run, queue, budget>>

\* Refused unless the number is greater than every version's.
InsertObjectVersion(r) ==
  /\ req[r].at = "insert"
  /\ obj.id = req[r].o
  /\ req[r].v > obj.seq
  /\ obj' = [obj EXCEPT !.seq = req[r].v]
  /\ Move(r, "item")
  /\ UNCHANGED <<made, coll, item, gens, chunks, parsed, index, gone, run, queue, budget>>

AddCollectionItem(r) ==
  /\ req[r].at = "item"
  /\ obj.id = req[r].o
  /\ coll
  /\ item' = TRUE
  /\ Move(r, "number")
  /\ UNCHANGED <<obj, made, coll, gens, chunks, parsed, index, gone, run, queue, budget>>

\* ReprocessDocument reads the document, with its latest version.
Reprocess(r) ==
  /\ req[r].at = "idle"
  /\ BeginWrite
  /\ HasDocument(obj.id)
  /\ obj.seq # 0
  /\ req' = [req EXCEPT ![r] = [Idle EXCEPT !.at = "number", !.o = obj.id, !.v = obj.seq]]
  /\ UNCHANGED <<rows, index, gone, run, queue>>

\* MAX(generation) + 1 of the version's rows: a read that reserves nothing.
IsNext(g, taken) == (\A h \in taken : h < g) /\ (g = 1 \/ g - 1 \in taken)

NextGeneration(r) ==
  /\ req[r].at = "number"
  /\ \E g \in Generation :
        /\ IsNext(g, GensOf(req[r].o, req[r].v))
        /\ req' = [req EXCEPT ![r].at = "stage", ![r].g = g]
  /\ UNCHANGED <<rows, index, gone, run, queue, budget>>

\* enqueueEmbed, first half: without chunks the generation row alone is upserted.
StageGeneration(r) ==
  /\ req[r].at = "stage"
  /\ coll
  /\ HasVersion(req[r].o, req[r].v)
  /\ gens' = [gens EXCEPT ![req[r].v][req[r].g] = "staging"]
  /\ Move(r, "enqueue")
  /\ UNCHANGED <<obj, made, coll, item, chunks, parsed, index, gone, run, queue, budget>>

\* Second half: a key that exists already is replayed or refused and keeps its job.
\* GetDocument, which ends an upload, only reads.
EnqueueEmbed(r) ==
  /\ req[r].at = "enqueue"
  /\ IF phase[JobOf(req[r])] = "absent" THEN Q!Submit(JobOf(req[r])) ELSE UNCHANGED queue
  /\ req' = [req EXCEPT ![r] = Idle]
  /\ UNCHANGED <<rows, index, gone, run, budget>>

\* DeleteDocument: the document is read, its points deleted, the object tombstoned,
\* its rows deleted.
ReadForDelete(r) ==
  /\ req[r].at = "idle"
  /\ BeginWrite
  /\ HasDocument(obj.id)
  /\ req' = [req EXCEPT ![r] = [Idle EXCEPT !.at = "purge", !.o = obj.id]]
  /\ UNCHANGED <<rows, index, gone, run, queue>>

DeleteDocumentPoints(r) ==
  /\ req[r].at = "purge"
  /\ points' = {p \in points : p[1] # req[r].o}
  /\ purged' = purged \cup {req[r].o}
  /\ Move(r, "tombstone")
  /\ UNCHANGED <<rows, gone, run, queue, budget>>

TombstoneObject(r) ==
  /\ req[r].at = "tombstone"
  /\ obj.id = req[r].o
  /\ obj' = [obj EXCEPT !.dead = TRUE]
  /\ gone' = gone \cup {req[r].o}
  /\ Move(r, "rows")
  /\ UNCHANGED <<made, coll, item, gens, chunks, parsed, index, run, queue, budget>>

\* One transaction.  Nothing deletes parsed_documents, whose foreign key then keeps
\* the versions and rolls everything back: the request ends with an error.
DeleteObjectRows(r) ==
  /\ req[r].at = "rows"
  /\ IF obj.id = req[r].o /\ parsed = {}
       THEN /\ obj' = [id |-> 0, seq |-> 0, dead |-> FALSE]
            /\ item' = FALSE
            /\ gens' = [v \in Version |-> [g \in Generation |-> "none"]]
            /\ chunks' = [v \in Version |-> NoChunks]
       ELSE UNCHANGED <<obj, item, gens, chunks>>
  /\ req' = [req EXCEPT ![r] = Idle]
  /\ UNCHANGED <<made, coll, parsed, index, gone, run, queue, budget>>

\* DeleteCollection: the index goes first, then the row, unless an item or a
\* generation refers to it.
DropIndex(r) ==
  /\ req[r].at = "idle"
  /\ BeginWrite
  /\ coll
  /\ points' = {}
  /\ purged' = purged \cup {p[1] : p \in points}
  /\ req' = [req EXCEPT ![r] = [Idle EXCEPT !.at = "drop"]]
  /\ UNCHANGED <<rows, gone, run, queue>>

DropCollection(r) ==
  /\ req[r].at = "drop"
  /\ coll' = (item \/ \E v \in Version : GensOf(obj.id, v) # {})
  /\ req' = [req EXCEPT ![r] = Idle]
  /\ UNCHANGED <<obj, made, item, gens, chunks, parsed, index, gone, run, queue, budget>>

\* Search resolves the documents that are ready before it asks Qdrant ...
ResolveSearch(r) ==
  /\ req[r].at = "idle"
  /\ coll
  /\ Ready(obj.id)
  /\ req' = [req EXCEPT ![r] = [Idle EXCEPT !.at = "search", !.o = obj.id, !.v = obj.seq,
                                            !.old = gone]]
  /\ UNCHANGED <<rows, index, gone, run, queue, budget>>

\* Faulty variant: the query is not filtered.
MatchesAll(r) == points

\* ... and filters the query by the versions it resolved.
Matches(r) == {p \in points : p[1] = r.o /\ p[2] = r.v}

SearchHybrid(r) ==
  /\ req[r].at = "search"
  /\ req' = [req EXCEPT ![r].at = "answer", ![r].hits = Matches(req[r])]
  /\ UNCHANGED <<rows, index, gone, run, queue, budget>>

-----------------------------------------------------------------------------
(* Attempts of the embed job. *)

Step(w, to) == run' = [run EXCEPT ![w].at = to]

\* The claim's fence is the job's: every fenced write of the attempt succeeds.
Holds(w) == phase[JobOf(run[w])] = "leased" /\ leases[JobOf(run[w])] = run[w].lease

\* A runner slot claims the job, also from a holder whose lease ran out undispatched.
Lease(w, j) ==
  /\ run[w].at = "free"
  /\ Q!Lease(j)
  /\ IF phase[j] = "leased" THEN Fault ELSE UNCHANGED budget
  /\ run' = [run EXCEPT ![w] = [at |-> "load", o |-> j[1], v |-> j[2], g |-> j[3],
                                lease |-> leases[j] + 1]]
  /\ UNCHANGED <<rows, index, gone, req>>

\* GetObject, GetObjectVersion, CanReadVersion.
LoadVersion(w) ==
  /\ run[w].at = "load"
  /\ HasVersion(run[w].o, run[w].v)
  /\ ~obj.dead
  /\ Step(w, "latest")
  /\ UNCHANGED <<rows, index, gone, req, queue, budget>>

\* LatestObjectVersion and GetCollection; a newer version ends the attempt.
CheckLatest(w) ==
  /\ run[w].at = "latest"
  /\ HasVersion(run[w].o, run[w].v)
  /\ coll
  /\ Step(w, IF obj.seq # run[w].v THEN "supersede"
             ELSE IF run[w].v \in Structured THEN "parse" ELSE "dispatch")
  /\ UNCHANGED <<rows, index, gone, req, queue, budget>>

HasGeneration(w) ==
  HasVersion(run[w].o, run[w].v) /\ gens[run[w].v][run[w].g] # "none"

\* The error of this update is ignored.
MarkSuperseded(w) ==
  /\ run[w].at = "supersede"
  /\ \/ /\ HasGeneration(w)
        /\ gens' = [gens EXCEPT ![run[w].v][run[w].g] = "superseded"]
     \/ UNCHANGED gens
  /\ Step(w, "return")
  /\ UNCHANGED <<obj, made, coll, item, chunks, parsed, index, gone, req, queue, budget>>

\* The artifact is read and parsed; a structured document's blocks are saved once.
SaveParsedDocument(w) ==
  /\ run[w].at = "parse"
  /\ HasVersion(run[w].o, run[w].v)
  /\ parsed' = parsed \cup {run[w].v}
  /\ Step(w, "dispatch")
  /\ UNCHANGED <<obj, made, coll, item, gens, chunks, index, gone, req, queue, budget>>

\* Faulty variant: the dispatch is not recorded before the call.
MarkDispatchedUnfenced(w) ==
  /\ run[w].at = "dispatch"
  /\ Step(w, "chunks")
  /\ UNCHANGED <<rows, index, gone, req, queue, budget>>

\* The fenced point of no return, before the priced embedding call; when its answer is
\* lost the attempt goes no further and does not know that it dispatched.
MarkDispatched(w) ==
  /\ run[w].at = "dispatch"
  /\ Holds(w)
  /\ Q!Dispatch(JobOf(run[w]))
  /\ \/ Step(w, "chunks") /\ UNCHANGED budget
     \/ Step(w, "lost") /\ Fault
  /\ UNCHANGED <<rows, index, gone, req>>

\* The embedding came back.  The version's chunk rows are replaced and the generation
\* is staged in one transaction that looks at neither fence nor latest generation.
ReplaceChunks(w) ==
  /\ run[w].at = "chunks"
  /\ coll
  /\ HasVersion(run[w].o, run[w].v)
  /\ chunks' = [chunks EXCEPT ![run[w].v] = <<run[w].g, run[w].lease>>]
  /\ gens' = [gens EXCEPT ![run[w].v][run[w].g] = "staging"]
  /\ Step(w, "points")
  /\ UNCHANGED <<obj, made, coll, item, parsed, index, gone, req, queue, budget>>

\* Faulty variant: an error of Qdrant is ignored.
UpsertPointsUnchecked(w) ==
  /\ run[w].at = "points"
  /\ points' \in {points, points \cup {<<run[w].o, run[w].v, run[w].g, run[w].lease>>}}
  /\ Step(w, "publish")
  /\ UNCHANGED <<rows, purged, gone, req, queue, budget>>

\* EnsureCollection and UpsertPoints, with fresh point identifiers; the answer may be lost.
UpsertPoints(w) ==
  /\ run[w].at = "points"
  /\ points' = points \cup {<<run[w].o, run[w].v, run[w].g, run[w].lease>>}
  /\ \/ Step(w, "publish") /\ UNCHANGED budget
     \/ Step(w, "error") /\ Fault
  /\ UNCHANGED <<rows, purged, gone, req, queue>>

MarkPublished(w) ==
  /\ run[w].at = "publish"
  /\ HasGeneration(w)
  /\ gens' = [gens EXCEPT ![run[w].v][run[w].g] = "published"]
  /\ Step(w, "return")
  /\ UNCHANGED <<obj, made, coll, item, chunks, parsed, index, gone, req, queue, budget>>

\* A row is missing or dead, or the fence is lost.
Denied(w) ==
  \/ run[w].at \in {"load", "latest", "parse", "chunks"} /\ ~HasVersion(run[w].o, run[w].v)
  \/ run[w].at = "load" /\ obj.dead
  \/ run[w].at \in {"latest", "chunks"} /\ ~coll
  \/ run[w].at = "dispatch" /\ ~Holds(w)
  \/ run[w].at = "publish" /\ ~HasGeneration(w)
  \/ run[w].at = "lost"

\* Any statement or call of the handler may fail besides.
Working == {"load", "latest", "parse", "dispatch", "lost", "chunks", "points",
            "publish"}
Err(w) ==
  /\ run[w].at \in Working
  /\ (Denied(w) /\ UNCHANGED budget) \/ Fault
  /\ Step(w, "error")
  /\ UNCHANGED <<rows, index, gone, req, queue>>

Settle(w, settles) ==
  /\ IF Holds(w) THEN settles ELSE UNCHANGED queue
  /\ run' = [run EXCEPT ![w] = Free]
  /\ UNCHANGED <<rows, index, gone, req>>

\* translate after success: Complete, unless another attempt holds the job.
Complete(w) ==
  /\ run[w].at = "return"
  /\ Settle(w, Q!Publish(JobOf(run[w])))
  /\ UNCHANGED budget

\* Faulty variant: errors after the dispatch are retried.
FailRetryable(w) ==
  /\ run[w].at = "error"
  /\ Settle(w, Q!GiveUp(JobOf(run[w])) /\ phase'[JobOf(run[w])] = "pending")
  /\ UNCHANGED budget

\* translate after an error: Fail; no error of this handler is marked retryable.
Fail(w) ==
  /\ run[w].at = "error"
  /\ Settle(w, Q!GiveUp(JobOf(run[w])) /\ phase'[JobOf(run[w])] = "failed")
  /\ UNCHANGED budget

\* translate after the context ended: the owner's cancellation is completed, a dispatch
\* becomes unknown, and anything else is released.
Dispatching(w) == run[w].at \in {"chunks", "points", "publish"}
ContextDone(w) ==
  /\ run[w].at \in Working
  /\ Fault
  /\ LET j == JobOf(run[w]) IN
     Settle(w, IF cancelled[j] THEN Q!Publish(j)
               ELSE IF Dispatching(w) THEN Q!Lose({j})
               ELSE Q!GiveUp(j) /\ phase'[j] = "pending")

\* The process dies, and the job keeps its lease until somebody takes it over.
Crash(w) ==
  /\ run[w].at # "free"
  /\ Fault
  /\ run' = [run EXCEPT ![w] = Free]
  /\ UNCHANGED <<rows, index, gone, req, queue>>

\* Claim sweeps an expired lease that dispatched; its holder may still be at work.
Sweep(j) ==
  /\ Fault
  /\ Q!Lose({j})
  /\ UNCHANGED <<rows, index, gone, req, run>>

\* The owner cancels or deletes the job.
CancelJob(j) ==
  /\ Fault
  /\ Q!Withdraw(j) \/ Q!Remove(j)
  /\ UNCHANGED <<rows, index, gone, req, run>>

-----------------------------------------------------------------------------
RequestNext(r) ==
  \/ EndRequest(r)
  \/ UpsertObject(r) \/ ReadObject(r) \/ InsertObjectVersion(r) \/ AddCollectionItem(r)
  \/ Reprocess(r) \/ NextGeneration(r) \/ StageGeneration(r) \/ EnqueueEmbed(r)
  \/ ReadForDelete(r) \/ DeleteDocumentPoints(r) \/ TombstoneObject(r) \/ DeleteObjectRows(r)
  \/ DropIndex(r) \/ DropCollection(r)
  \/ ResolveSearch(r) \/ SearchHybrid(r)

AttemptNext(w) ==
  \/ \E j \in Job : Lease(w, j)
  \/ LoadVersion(w) \/ CheckLatest(w) \/ MarkSuperseded(w) \/ SaveParsedDocument(w)
  \/ MarkDispatched(w) \/ ReplaceChunks(w) \/ UpsertPoints(w) \/ MarkPublished(w)
  \/ Err(w) \/ Complete(w) \/ Fail(w) \/ ContextDone(w) \/ Crash(w)

Next ==
  \/ \E r \in Request : RequestNext(r)
  \/ \E w \in Worker : AttemptNext(w)
  \/ \E j \in Job : Sweep(j) \/ CancelJob(j)

Spec == Init /\ [][Next]_vars

-----------------------------------------------------------------------------
(* Properties. *)

Point == Object \X Version \X Generation \X (1..MaxLeases)

\* Types of the rows, the index and the processes.
TypeOK ==
  /\ obj \in [id : 0..MaxObjects, seq : 0..MaxVersions, dead : BOOLEAN]
  /\ made \in 0..MaxObjects
  /\ coll \in BOOLEAN /\ item \in BOOLEAN
  /\ gens \in [Version -> [Generation -> {"none", "staging", "published", "superseded"}]]
  /\ chunks \in [Version -> (0..MaxGenerations) \X (0..MaxLeases)]
  /\ parsed \subseteq Version
  /\ points \subseteq Point
  /\ purged \subseteq Object /\ gone \subseteq Object
  /\ writes \in 0..MaxWrites /\ faults \in 0..MaxFaults

\* service.go: "Publish only after the durable chunks and index writes exist."  A
\* published generation has its points, unless somebody has deleted them.
PublishedIsIndexed ==
  \A v \in Version, g \in Generation :
    gens[v][g] = "published" /\ obj.id \notin purged
      => \E l \in 1..MaxLeases : <<obj.id, v, g, l>> \in points

\* Whatever leases expire, whoever crashes or is cancelled: at most one attempt of a job
\* writes to the index, so a generation is embedded once and its points are not doubled.
OneAuthor ==
  \A p, q \in points : p[1] = q[1] /\ p[2] = q[2] /\ p[3] = q[3] => p[4] = q[4]

\* The chunk rows of a published generation are those whose points it published.
PublishedRowsIndexed ==
  \A v \in Version, g \in Generation :
    gens[v][g] = "published" /\ chunks[v][1] = g /\ obj.id \notin purged
      => <<obj.id, v, g, chunks[v][2]>> \in points

\* A search that begins after a document was tombstoned does not return it, though an
\* attempt that overlapped the deletion may have put points back, and though the same
\* source may have been uploaded again.
DeletedNotServed ==
  \A r \in Request : \A p \in req[r].hits : p[1] \notin req[r].old
=============================================================================
