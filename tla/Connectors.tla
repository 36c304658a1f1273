----------------------------- MODULE Connectors -----------------------------
(***************************************************************************)
(* Connector sources and their syncs: internal/connectors over the          *)
(* connections row of store/postgres and the jobs of JobContract.  One      *)
(* connection, of a kind with a cursor (Slack) or without (GitHub, Notion,   *)
(* ...); requests and the scheduler of every process enqueue syncs, workers  *)
(* attempt them, operators point the source at another channel, repository   *)
(* or collection, set its checkpoint and delete documents meanwhile.         *)
(*                                                                         *)
(* An action is one SQL statement, one upstream call or one upload, with     *)
(* the code up to the next.  How an upload is stored and indexed is Rag's.   *)
(***************************************************************************)
EXTENDS Naturals, FiniteSets

CONSTANTS
  Request,      \* HTTP requests and scheduler passes in flight
  Worker,       \* runner slots
  Place,        \* what a config may name: channels, or repositories
  Collection,   \* collections a source may feed
  Checkpoints,  \* checkpoints an operator may give
  MaxDocs,      \* bound: documents upstream; of Slack, in the order of their timestamps
  MaxContents,  \* bound: contents of a document
  Limit,        \* messages one call of conversations.history returns
  MaxJobs,      \* bound: jobs
  MaxLeases,    \* bound: leases of a job
  MaxWindows,   \* bound: schedule windows that pass
  MaxFields,    \* bound: fields a PUT changes
  MaxPosts,     \* bound: messages posted, contents written
  MaxEdits,     \* bound: edits and deletions of the operator, and his calls for a sync
  MaxFaults     \* bound: failures, crashes, lost leases, cancellations

ASSUME ConnectorsAssumption ==
  /\ {MaxDocs, MaxContents, Limit, MaxJobs, MaxLeases, MaxWindows} \subseteq Nat \ {0}
  /\ {MaxFields, MaxPosts, MaxEdits, MaxFaults} \subseteq Nat
  /\ Checkpoints \subseteq [cursor : 0..MaxDocs, hash : [1..MaxDocs -> 0..MaxContents]]

VARIABLES
  conn,      \* the connections row
  up, home,  \* upstream: the content of each document, 0 when there is none, and its place
  stored,    \* the collections: the content of each document, 0 when there is none
  uploaded,  \* history: contents ever uploaded to a collection
  missed,    \* history: messages that a fetch for a collection left out for its limit
  req, run,
  keyOf,     \* the idempotency key of each job
  window,    \* now, in sync intervals
  posts, edits, faults,
  phase, leases, dispatched, cancelled, published  \* the job queue, as JobContract has it

Doc == 1..MaxDocs
Content == 0..MaxContents
Job == 1..MaxJobs

Q == INSTANCE JobContract

queue == <<keyOf, phase, leases, dispatched, cancelled, published>>
world == <<up, home, stored, uploaded, missed>>
budget == <<posts, edits, faults>>
vars == <<conn, world, req, run, window, budget, queue>>

NoHashes == [d \in Doc |-> 0]

\* The config names a place and holds the checkpoint: one cursor, whatever the place, and
\* the hash of each document, here its content.  floor and told (history) are the cursor
\* and the hashes the row has from an operator's edit and not from a sync.
NewConnection(kind, place, target) ==
  [kind |-> kind, on |-> TRUE, place |-> place, target |-> target, cursor |-> 0,
   hash |-> NoHashes, synced |-> 0, floor |-> 0, told |-> NoHashes]
Absent == [NewConnection("none", "none", "none") EXCEPT !.on = FALSE]
Exists == conn.kind # "none"

NoKey == [place |-> "none", cursor |-> 0, hash |-> NoHashes, window |-> 0]
Idle == [at |-> "idle", row |-> Absent, key |-> NoKey]
Free == [at |-> "free", job |-> 0, lease |-> 0, row |-> Absent, todo |-> {},
         got |-> NoHashes, cursor |-> 0, hash |-> NoHashes, live |-> {}, looked |-> FALSE,
         save |-> FALSE, failed |-> FALSE, lack |-> {}]

Init ==
  /\ conn = Absent
  /\ up = NoHashes
  /\ home = [d \in Doc |-> "none"]
  /\ stored = [c \in Collection |-> NoHashes]
  /\ uploaded = {}
  /\ missed = {}
  /\ req = [r \in Request |-> Idle]
  /\ run = [w \in Worker |-> Free]
  /\ keyOf = [j \in Job |-> NoKey]
  /\ window = 1
  /\ posts = 0
  /\ edits = 0
  /\ faults = 0
  /\ Q!CInit

Post == posts < MaxPosts /\ posts' = posts + 1 /\ UNCHANGED <<edits, faults>>
Edit == edits < MaxEdits /\ edits' = edits + 1 /\ UNCHANGED <<posts, faults>>
Fault == faults < MaxFaults /\ faults' = faults + 1 /\ UNCHANGED <<posts, edits>>

-----------------------------------------------------------------------------
(* Upstream, the operator and the clock. *)

\* Someone posts a message in a channel, or writes a document of a repository.
Publish(d, place) ==
  /\ Exists
  /\ Post
  /\ IF conn.kind = "slack"
       THEN up[d] = 0 /\ \A e \in Doc : e < d => up[e] # 0
       ELSE up[d] < MaxContents
  /\ up[d] # 0 => place = home[d]
  /\ up' = [up EXCEPT ![d] = @ + 1]
  /\ home' = [home EXCEPT ![d] = place]
  /\ UNCHANGED <<conn, stored, uploaded, missed, req, run, window, queue>>

\* The operator deletes a document of a collection.
DeleteDocument(c, d) ==
  /\ Edit
  /\ stored[c][d] # 0
  /\ stored' = [stored EXCEPT ![c][d] = 0]
  /\ UNCHANGED <<conn, up, home, uploaded, missed, req, run, window, queue>>

\* The bound on jobs: with all of them used nothing but the window of a last sync would
\* come of another call or of time.
Room == \E j \in Job : keyOf[j] = NoKey

Tick ==
  /\ Room
  /\ window < MaxWindows
  /\ window' = window + 1
  /\ UNCHANGED <<conn, world, req, run, budget, queue>>

-----------------------------------------------------------------------------
(* Requests and the scheduler. *)

CreateSource(kind, place, target) ==
  /\ conn = Absent
  /\ edits = 0
  /\ conn' = NewConnection(kind, place, target)
  /\ UNCHANGED <<world, req, run, window, budget, queue>>

Checkpoint(row) == [cursor |-> row.cursor, hash |-> row.hash]

\* What syncs say of a place and a collection is not known of another, nor of a checkpoint
\* that was given (history).
Put(row, place, target, on, given) ==
  LET same == target = row.target /\ given = Checkpoint(row)
  IN [row EXCEPT !.place = place, !.target = target, !.on = on,
                 !.cursor = given.cursor, !.hash = given.hash,
                 !.floor = IF same /\ place = row.place THEN @ ELSE given.cursor,
                 !.told = IF same THEN @ ELSE given.hash]

\* The fields a PUT names: the config's place, the target, the switch, the checkpoint.
Changed(row, next) ==
  {f \in {"place", "target", "on"} : next[f] # row[f]}
    \cup (IF Checkpoint(next) = Checkpoint(row) THEN {} ELSE {"checkpoint"})

\* The rows that UpdateSource may patch it to: the checkpoint stays unless one is given,
\* though another place is named.  (A new type is validated and not written.)
Patches(row) ==
  {next \in {Put(row, place, target, on, given) :
                place \in Place, target \in Collection, on \in BOOLEAN,
                given \in Checkpoints \cup {Checkpoint(row)}} :
     Cardinality(Changed(row, next)) \in 1..MaxFields}

\* GetConnection of UpdateSource.
ReadSource(r) ==
  /\ req[r].at = "idle"
  /\ Exists
  /\ Edit
  /\ \E row \in Patches(conn) : req' = [req EXCEPT ![r] = [Idle EXCEPT !.at = "write", !.row = row]]
  /\ UNCHANGED <<conn, world, run, window, queue>>

\* UpdateConnection: every column but the sync state, of a row that still exists.
Written(row) ==
  IF Exists THEN [row EXCEPT !.synced = conn.synced] ELSE conn

UpdateSource(r) ==
  /\ req[r].at = "write"
  /\ conn' = Written(req[r].row)
  /\ req' = [req EXCEPT ![r] = Idle]
  /\ UNCHANGED <<world, run, window, budget, queue>>

DeleteSource ==
  /\ Exists
  /\ Edit
  /\ conn' = Absent
  /\ UNCHANGED <<world, req, run, window, queue>>

\* syncDue: the interval has passed since the last completed sync.
SyncDue(row) == row.synced < window

\* runOnce: ListSyncCandidates, active with a target, and the window of the pass.
RunOnce(r) ==
  /\ req[r].at = "idle"
  /\ Room
  /\ Exists /\ conn.on
  /\ SyncDue(conn)
  /\ req' = [req EXCEPT ![r] = [Idle EXCEPT !.at = "due", !.key.window = window]]
  /\ UNCHANGED <<conn, world, run, window, budget, queue>>

\* The key of syncSource: the hash of config, with its checkpoint, and of the credential;
\* and the window.  The target is no part of it.
Key(row, win) ==
  [place |-> row.place, cursor |-> row.cursor, hash |-> row.hash, window |-> win]

\* GetConnection of syncSource, for a request (window 0) or a scheduler's pass.
SyncSource(r) ==
  /\ req[r].at \in {"idle", "due"}
  /\ Room
  /\ Exists /\ conn.on
  /\ IF req[r].at = "idle" THEN Edit ELSE UNCHANGED budget
  /\ req' = [req EXCEPT ![r] = [Idle EXCEPT !.at = "enqueue",
                                            !.key = Key(conn, req[r].key.window)]]
  /\ UNCHANGED <<conn, world, run, window, queue>>

\* InsertJob; a key that is there already returns its job, whatever became of it.
Enqueue(r) ==
  /\ req[r].at = "enqueue"
  /\ IF \E j \in Job : keyOf[j] = req[r].key
       THEN UNCHANGED queue
       ELSE \E j \in Job :
              /\ keyOf[j] = NoKey
              /\ \A i \in Job : i < j => keyOf[i] # NoKey
              /\ keyOf' = [keyOf EXCEPT ![j] = req[r].key]
              /\ Q!Submit(j)
  /\ req' = [req EXCEPT ![r] = Idle]
  /\ UNCHANGED <<conn, world, run, window, budget>>

\* A request that is refused or fails, and a process that dies.
EndRequest(r) ==
  /\ req[r].at # "idle"
  /\ req' = [req EXCEPT ![r] = Idle]
  /\ UNCHANGED <<conn, world, run, window, budget, queue>>

-----------------------------------------------------------------------------
(* The attempt of a sync. *)

Step(w, to) == run' = [run EXCEPT ![w].at = to]
Holds(w) == phase[run[w].job] = "leased" /\ leases[run[w].job] = run[w].lease

Lease(w, j) ==
  /\ run[w].at = "free"
  /\ Q!Lease(j)
  /\ IF phase[j] = "leased" THEN Fault ELSE UNCHANGED budget
  /\ run' = [run EXCEPT ![w] = [Free EXCEPT !.at = "load", !.job = j, !.lease = leases[j] + 1]]
  /\ UNCHANGED <<conn, world, req, window, keyOf>>

\* GetConnection of attemptSync.  lack: what the collection does not have (history).
LoadConnection(w) ==
  /\ run[w].at = "load"
  /\ Exists
  /\ run' = [run EXCEPT ![w].at = "dispatch", ![w].row = conn, ![w].hash = conn.hash,
                        ![w].cursor = conn.cursor,
                        ![w].lack = {d \in Doc : stored[conn.target][d] = 0}]
  /\ UNCHANGED <<conn, world, req, window, budget, queue>>

MarkDispatched(w) ==
  /\ run[w].at = "dispatch"
  /\ Holds(w)
  /\ Q!Dispatch(run[w].job)
  /\ Step(w, "fetch")
  /\ UNCHANGED <<conn, world, req, window, budget, keyOf>>

\* What the place has: of Slack, what is newer than the cursor, wherever that was reached.
Available(row) ==
  {d \in Doc : up[d] # 0 /\ home[d] = row.place /\ (row.kind = "slack" => d > row.cursor)}

\* The newest Limit of them are returned; the other kinds are listed in full.
Returned(row) ==
  {d \in Available(row) :
     row.kind = "slack" => Cardinality({e \in Available(row) : e > d}) < Limit}

Fetched(docs) == [d \in Doc |-> IF d \in docs THEN up[d] ELSE 0]

\* The cursor moves to the newest message; the other kinds have none.
Cursor(row, docs) ==
  IF row.kind # "slack" THEN 0
  ELSE IF docs = {} THEN row.cursor
  ELSE CHOOSE d \in docs : \A e \in docs : e <= d

\* The attempt with the documents returned.  Without any the checkpoint is the cursor
\* alone, or nothing.
Given(q, docs) ==
  [q EXCEPT !.at = IF docs = {} THEN "state" ELSE "docs",
            !.todo = docs, !.got = Fetched(docs), !.cursor = Cursor(q.row, docs),
            !.hash = IF docs = {} THEN NoHashes ELSE q.row.hash,
            !.save = docs # {} \/ (q.row.kind = "slack" /\ q.row.cursor # 0)]

\* documentsForSource
Fetch(w) ==
  /\ run[w].at = "fetch"
  /\ LET docs == Returned(run[w].row)
     IN /\ run' = [run EXCEPT ![w] = Given(run[w], docs)]
        /\ missed' = missed \cup ({run[w].row.target} \X (Available(run[w].row) \ docs))
  /\ UNCHANGED <<conn, up, home, stored, uploaded, req, window, budget, queue>>

\* Documents are taken in the order of the response.
IsFirst(w, d) == d \in run[w].todo /\ \A e \in run[w].todo : e <= d
Unchanged(w, d) == run[w].row.hash[d] = run[w].got[d]

\* The attempt once document d is dealt with.
Past(w, d) ==
  [run[w] EXCEPT !.todo = @ \ {d}, !.hash[d] = run[w].got[d],
                 !.at = IF run[w].todo = {d} THEN "state" ELSE @]

\* LiveSourceIDs, once per attempt.
ReadLive(w, d) ==
  /\ run[w].at = "docs"
  /\ IsFirst(w, d)
  /\ Unchanged(w, d)
  /\ ~run[w].looked
  /\ run' = [run EXCEPT ![w].looked = TRUE,
                        ![w].live = {e \in Doc : stored[run[w].row.target][e] # 0}]
  /\ UNCHANGED <<conn, world, req, window, budget, queue>>

\* Faulty variant: unchanged content is skipped without a look at the collection.
SkippableUnseen(w, d) == Unchanged(w, d)

\* Unchanged, and still in the collection.
Skippable(w, d) == Unchanged(w, d) /\ run[w].looked /\ d \in run[w].live

Skip(w, d) ==
  /\ run[w].at = "docs"
  /\ IsFirst(w, d)
  /\ Skippable(w, d)
  /\ run' = [run EXCEPT ![w] = Past(w, d)]
  /\ UNCHANGED <<conn, world, req, window, budget, queue>>

\* UploadDocument.  Attempts for the same collection lack d no more (history).
Uploading(w, d) ==
  LET c == run[w].row.target
  IN /\ stored' = [stored EXCEPT ![c][d] = run[w].got[d]]
     /\ uploaded' = uploaded \cup {<<c, d, run[w].got[d]>>}
     /\ run' = [v \in Worker |->
                  [(IF v = w THEN Past(w, d) ELSE run[v]) EXCEPT
                     !.lack = IF run[v].row.target = c THEN @ \ {d} ELSE @]]

\* Faulty variant: an upload's error is dropped.
UploadUnchecked(w, d) ==
  /\ run[w].at = "docs"
  /\ IsFirst(w, d)
  /\ Unchanged(w, d) => run[w].looked /\ d \notin run[w].live
  /\ \/ /\ Uploading(w, d)
        /\ UNCHANGED budget
     \/ /\ Fault
        /\ run' = [run EXCEPT ![w] = Past(w, d)]
        /\ UNCHANGED <<stored, uploaded>>
  /\ UNCHANGED <<conn, up, home, missed, req, window, queue>>

Upload(w, d) ==
  /\ run[w].at = "docs"
  /\ IsFirst(w, d)
  /\ Unchanged(w, d) => run[w].looked /\ d \notin run[w].live
  /\ Uploading(w, d)
  /\ UNCHANGED <<conn, up, home, missed, req, window, budget, queue>>

\* The pipeline fails at a call: what was uploaded stays, and the error is returned.
SyncFails(w) ==
  /\ run[w].at \in {"fetch", "docs"}
  /\ Fault
  /\ run' = [run EXCEPT ![w].at = "state", ![w].failed = TRUE]
  /\ UNCHANGED <<conn, world, req, window, queue>>

\* An error is returned before the checkpoint is written.
AfterState(w) == IF run[w].failed THEN "error" ELSE "save"

\* SetSyncState; its error is ignored.
SetSyncState(w) ==
  /\ run[w].at = "state"
  /\ \/ /\ conn' = IF Exists THEN [conn EXCEPT !.synced = window] ELSE conn
        /\ UNCHANGED budget
     \/ Fault /\ UNCHANGED conn
  /\ Step(w, AfterState(w))
  /\ UNCHANGED <<world, req, window, queue>>

\* Faulty variant: the checkpoint alone is written, to whatever the row names by now.
SaveOverEdit(w) ==
  /\ run[w].at = "save"
  /\ conn' = IF run[w].save /\ Exists
               THEN [conn EXCEPT !.cursor = run[w].cursor, !.hash = run[w].hash]
               ELSE conn
  /\ Step(w, "return")
  /\ UNCHANGED <<world, req, window, budget, queue>>

\* The row of the beginning goes back whole, with the new checkpoint; a connection that
\* is gone meanwhile stays gone.
SaveCheckpoint(w) ==
  /\ run[w].at = "save"
  /\ conn' = IF run[w].save
               THEN Written([run[w].row EXCEPT !.cursor = run[w].cursor, !.hash = run[w].hash])
               ELSE conn
  /\ Step(w, "return")
  /\ UNCHANGED <<world, req, window, budget, queue>>

\* No such connection, a lost fence, or a statement that fails.
Err(w) ==
  /\ \/ run[w].at = "load" /\ ~Exists /\ UNCHANGED budget
     \/ run[w].at = "dispatch" /\ ~Holds(w) /\ UNCHANGED budget
     \/ run[w].at \in {"load", "dispatch", "save"} /\ Fault
  /\ Step(w, "error")
  /\ UNCHANGED <<conn, world, req, window, queue>>

Settle(w, settles) ==
  /\ IF Holds(w) THEN settles ELSE UNCHANGED <<phase, leases, dispatched, cancelled, published>>
  /\ run' = [run EXCEPT ![w] = Free]
  /\ UNCHANGED <<conn, world, req, window, keyOf>>

Complete(w) ==
  /\ run[w].at = "return"
  /\ Settle(w, Q!Publish(run[w].job))
  /\ UNCHANGED budget

Fail(w) ==
  /\ run[w].at = "error"
  /\ Settle(w, Q!GiveUp(run[w].job) /\ phase'[run[w].job] = "failed")
  /\ UNCHANGED budget

\* The context of the attempt ends; the dispatch becomes unknown.
ContextDone(w) ==
  /\ run[w].at \in {"load", "dispatch", "fetch", "docs", "save"}
  /\ Fault
  /\ LET j == run[w].job IN
     Settle(w, IF cancelled[j] THEN Q!Publish(j)
               ELSE IF run[w].at \in {"load", "dispatch"}
                 THEN Q!GiveUp(j) /\ phase'[j] = "pending"
                 ELSE Q!Lose({j}))

Crash(w) ==
  /\ run[w].at # "free"
  /\ Fault
  /\ run' = [run EXCEPT ![w] = Free]
  /\ UNCHANGED <<conn, world, req, window, queue>>

\* Claim sweeps an expired lease that dispatched; its holder may still be at work.
Sweep(j) ==
  /\ Fault
  /\ Q!Lose({j})
  /\ UNCHANGED <<conn, world, req, run, window, keyOf>>

CancelJob(j) ==
  /\ Fault
  /\ Q!Withdraw(j)
  /\ UNCHANGED <<conn, world, req, run, window, keyOf>>

-----------------------------------------------------------------------------

RequestNext(r) ==
  \/ ReadSource(r) \/ UpdateSource(r)
  \/ RunOnce(r) \/ SyncSource(r) \/ Enqueue(r) \/ EndRequest(r)

AttemptNext(w) ==
  \/ \E j \in Job : Lease(w, j)
  \/ LoadConnection(w) \/ MarkDispatched(w) \/ Fetch(w)
  \/ \E d \in Doc : ReadLive(w, d) \/ Skip(w, d) \/ Upload(w, d)
  \/ SyncFails(w) \/ SetSyncState(w) \/ SaveCheckpoint(w)
  \/ Err(w) \/ Complete(w) \/ Fail(w) \/ ContextDone(w) \/ Crash(w)

Next ==
  \/ \E d \in Doc : \/ \E place \in Place : Publish(d, place)
                    \/ \E c \in Collection : DeleteDocument(c, d)
  \/ Tick
  \/ \E kind \in {"slack", "github"}, place \in Place, target \in Collection :
       CreateSource(kind, place, target)
  \/ DeleteSource
  \/ \E r \in Request : RequestNext(r)
  \/ \E w \in Worker : AttemptNext(w)
  \/ \E j \in Job : Sweep(j) \/ CancelJob(j)

Spec == Init /\ [][Next]_vars

-----------------------------------------------------------------------------
(* Properties. *)

\* What a sync saved is what it did: a message of the channel, at or below the stored
\* cursor and above the one the operator's last edit of channel, collection or checkpoint
\* left there, was uploaded to the source's collection (or never returned, because the
\* channel had more than the limit), though syncs overlap, fail half way, outlive their
\* lease or write back a row they read before that edit.  Below floor nothing is promised:
\* attemptSync keeps one cursor for every channel and collection, so what an edited source
\* newly names is passed over up to there, uploaded and missed nowhere.
CursorCovered ==
  \A d \in Doc :
    home[d] = conn.place /\ conn.floor < d /\ d <= conn.cursor =>
      <<conn.target, d, 1>> \in uploaded \/ <<conn.target, d>> \in missed

\* A recorded hash is of content that was uploaded to the source's collection, or the
\* operator gave it: told by a checkpoint, or kept when the collection was changed.
HashedWasUploaded ==
  \A d \in Doc :
    conn.hash[d] \in {0, conn.told[d]} \/ <<conn.target, d, conn.hash[d]>> \in uploaded

\* rag_repo.go: "an unchanged-content skip never fires for a document the operator deleted
\* -- the next sync must recreate it".  When a sync succeeds, each document it fetched was
\* in the collection at some moment of the sync.
SyncRestores ==
  \A w \in Worker :
    run[w].at = "return" => \A d \in Doc : run[w].got[d] # 0 => d \notin run[w].lack
=============================================================================
