----------------------------- MODULE RagProofs -----------------------------
(***************************************************************************)
(* For every number of requests, workers, objects, versions, generations    *)
(* and leases: what a generation published is in the index, one attempt of  *)
(* a job writes it, and a search does not return what was deleted before.   *)
(***************************************************************************)
EXTENDS Rag, TLAPS

-----------------------------------------------------------------------------
(* Types, with those of the processes and of the queue. *)

ReqAt == {"idle", "read", "insert", "item", "number", "stage", "enqueue", "purge",
          "tombstone", "rows", "drop", "search", "answer"}
ReqRec == [at : ReqAt, o : 0..MaxObjects, v : 0..MaxVersions, g : 0..MaxGenerations,
           old : SUBSET Object, hits : SUBSET Point]
ReqOK(r) ==
  /\ r \in ReqRec
  /\ r.at \in {"read", "insert", "item", "number", "stage", "enqueue", "purge", "tombstone",
               "rows", "search"} => r.o # 0
  /\ r.at \in {"insert", "item", "number", "stage", "enqueue"} => r.v # 0
  /\ r.at \in {"stage", "enqueue"} => r.g # 0

RunAt == Working \cup {"free", "supersede", "error", "return"}
RunRec == [at : RunAt, o : 0..MaxObjects, v : 0..MaxVersions, g : 0..MaxGenerations,
           lease : 0..MaxLeases]
RunOK(r) ==
  /\ r \in RunRec
  /\ r.at # "free" => r.o # 0 /\ r.v # 0 /\ r.g # 0 /\ r.lease # 0

QueueOK ==
  /\ phase \in [Job -> Q!Phase]
  /\ leases \in [Job -> 0..MaxLeases]
  /\ dispatched \in [Job -> BOOLEAN]
  /\ cancelled \in [Job -> BOOLEAN]
  /\ published \in [Job -> 0..MaxLeases]

ReqsOK == req \in [Request -> ReqRec] /\ \A r \in Request : ReqOK(req[r])
RunsOK == run \in [Worker -> RunRec] /\ \A w \in Worker : RunOK(run[w])
Types == TypeOK /\ obj.id <= made /\ ReqsOK /\ RunsOK /\ QueueOK

-----------------------------------------------------------------------------
(* The inductive invariant. *)

\* The job's one dispatch has been made; no lease follows.
Done == {"succeeded", "failed", "cancelled", "unknown", "deleted"}
Spent(j) == phase[j] \in Done \/ (phase[j] = "leased" /\ dispatched[j])

\* What wrote to the index or to the chunk rows of the present object.
Authors ==
  points \cup {<<obj.id, v, chunks[v][1], chunks[v][2]>> :
                 v \in {u \in Version : chunks[u] # NoChunks}}

Before == {"load", "latest", "parse", "dispatch", "lost", "supersede"}
Writing == {"chunks", "points", "publish"}

\* A lease belongs to one worker.
Owned ==
  /\ \A w \in Worker : run[w].at # "free" => run[w].lease <= leases[JobOf(run[w])]
  /\ \A w, u \in Worker :
       run[w].at # "free" /\ run[u].at # "free" /\ JobOf(run[w]) = JobOf(run[u])
         /\ run[w].lease = run[u].lease => w = u

\* A worker that writes has the job's last lease, and everything written is by the last
\* lease of a job that is spent.
Author(a) ==
  LET j == <<a[1], a[2], a[3]>> IN j \in Job /\ leases[j] = a[4] /\ Spent(j)
ByLast ==
  /\ \A w \in Worker : run[w].at \in Writing =>
       run[w].lease = leases[JobOf(run[w])] /\ Spent(JobOf(run[w]))
  /\ \A a \in Authors : Author(a)
  /\ \A w \in Worker : run[w].at \in Before =>
       <<run[w].o, run[w].v, run[w].g, run[w].lease>> \notin Authors

\* Nothing is left of an object without a row, and publishing follows the index write.
Indexed ==
  /\ obj.id = 0 => /\ \A v \in Version, g \in Generation : gens[v][g] = "none"
                   /\ \A v \in Version : chunks[v] = NoChunks
  /\ \A w \in Worker : run[w].at = "publish" =>
       <<run[w].o, run[w].v, run[w].g, run[w].lease>> \in points \/ run[w].o \in purged
  /\ PublishedIsIndexed

Tombstoned ==
  /\ gone \subseteq 1..made
  /\ obj.id \in gone => obj.dead
  /\ \A r \in Request : req[r].at = "search" => req[r].o \notin req[r].old
  /\ DeletedNotServed

IInv == Types /\ Owned /\ ByLast /\ Indexed /\ Tombstoned

-----------------------------------------------------------------------------
(* What an action does to one request or one worker. *)

\* A request keeps its type when it moves on.
LEMMA ReqStep ==
  ASSUME ReqsOK, NEW r \in Request, NEW x, ReqOK(x), req' = [req EXCEPT ![r] = x]
  PROVE  ReqsOK'
<1>1. x \in ReqRec
  BY DEF ReqOK
<1>2. req' \in [Request -> ReqRec]
  BY <1>1 DEF ReqsOK
<1>3. \A q \in Request : req'[q] = IF q = r THEN x ELSE req[q]
  BY DEF ReqsOK
<1>4. \A q \in Request : ReqOK(req'[q])
  BY <1>3 DEF ReqsOK
<1> QED
  BY <1>2, <1>4 DEF ReqsOK, ReqOK

\* The idle request is one.
LEMMA IdleOK == ReqOK(Idle)
  BY RagAssumption DEF ReqOK, ReqRec, Idle, ReqAt

\* A worker keeps its type when it moves on.
LEMMA RunStep ==
  ASSUME RunsOK, NEW w \in Worker, NEW x, RunOK(x), run' = [run EXCEPT ![w] = x]
  PROVE  /\ RunsOK'
         /\ run'[w] = x
         /\ \A u \in Worker : u # w => run'[u] = run[u]
<1>1. x \in RunRec
  BY DEF RunOK
<1>2. run' \in [Worker -> RunRec]
  BY <1>1 DEF RunsOK
<1>3. \A q \in Worker : run'[q] = IF q = w THEN x ELSE run[q]
  BY DEF RunsOK
<1>4. \A q \in Worker : RunOK(run'[q])
  BY <1>3 DEF RunsOK
<1> QED
  BY <1>2, <1>3, <1>4 DEF RunsOK, RunOK

\* Step changes where a worker is, and nothing else of it.
LEMMA StepRun ==
  ASSUME RunsOK, NEW w \in Worker, NEW to \in RunAt \ {"free"}, run[w].at # "free",
         Step(w, to)
  PROVE  /\ RunsOK'
         /\ run'[w].at = to
         /\ run'[w].o = run[w].o /\ run'[w].v = run[w].v /\ run'[w].g = run[w].g
         /\ run'[w].lease = run[w].lease
         /\ \A u \in Worker : u # w => run'[u] = run[u]
<1> DEFINE x == [run[w] EXCEPT !.at = to]
<1>1. run[w] \in RunRec /\ RunOK(run[w])
  BY DEF RunsOK
<1>2. x \in RunRec /\ x.at = to /\ x.o = run[w].o /\ x.v = run[w].v /\ x.g = run[w].g
        /\ x.lease = run[w].lease
  BY <1>1 DEF RunRec
<1>3. RunOK(x)
  BY <1>1, <1>2 DEF RunOK
<1>4. run' = [run EXCEPT ![w] = x]
  BY DEF Step
<1> HIDE DEF x
<1> QED
  BY <1>2, <1>3, <1>4, RunStep

\* The free worker is one.
LEMMA FreeOK == RunOK(Free)
  BY RagAssumption DEF RunOK, RunRec, Free, RunAt, Working

\* A worker at work has a job and a lease.
LEMMA RunJob ==
  ASSUME RunsOK, NEW w \in Worker, run[w].at # "free"
  PROVE  /\ JobOf(run[w]) \in Job
         /\ run[w].lease \in 1..MaxLeases
         /\ run[w].o \in Object /\ run[w].v \in Version /\ run[w].g \in Generation
<1>1. RunOK(run[w]) /\ run[w] \in RunRec
  BY DEF RunsOK
<1>2. /\ run[w].lease \in 1..MaxLeases
      /\ run[w].o \in Object /\ run[w].v \in Version /\ run[w].g \in Generation
  BY <1>1, RagAssumption DEF RunOK, RunRec, Object, Version, Generation
<1> QED
  BY <1>2 DEF JobOf, Job

-----------------------------------------------------------------------------
(* What the queue does: a spent job stays spent and has its last lease. *)

KeepsSpent(i) == Spent(i) => Spent(i)' /\ leases'[i] = leases[i]
Grows == \A i \in Job : leases'[i] >= leases[i]

\* The steps of the contract that no worker's release is.
QueueStep(j) ==
  \/ Q!Submit(j) \/ Q!Lease(j) \/ Q!Dispatch(j) \/ Q!Publish(j)
  \/ (Q!GiveUp(j) /\ phase'[j] = "failed")
  \/ Q!Lose({j}) \/ Q!Withdraw(j) \/ Q!Remove(j)

LEMMA QueueStepKeeps ==
  ASSUME QueueOK, NEW j \in Job, QueueStep(j)
  PROVE  QueueOK' /\ Grows /\ \A i \in Job : KeepsSpent(i)
<1> USE RagAssumption
<1>1. CASE Q!Submit(j)
  BY <1>1 DEF Q!Submit, QueueOK, Q!Phase, Q!Settled, Grows, KeepsSpent, Spent, Done
<1>2. CASE Q!Lease(j)
  BY <1>2 DEF Q!Lease, QueueOK, Q!Phase, Q!Settled, Grows, KeepsSpent, Spent, Done
<1>3. CASE Q!Dispatch(j)
  BY <1>3 DEF Q!Dispatch, QueueOK, Q!Phase, Q!Settled, Grows, KeepsSpent, Spent, Done
<1>4. CASE Q!Publish(j)
  BY <1>4 DEF Q!Publish, QueueOK, Q!Phase, Q!Settled, Grows, KeepsSpent, Spent, Done
<1>5. CASE Q!GiveUp(j) /\ phase'[j] = "failed"
  BY <1>5 DEF Q!GiveUp, QueueOK, Q!Phase, Q!Settled, Grows, KeepsSpent, Spent, Done
<1>6. CASE Q!Lose({j})
  BY <1>6 DEF Q!Lose, QueueOK, Q!Phase, Q!Settled, Grows, KeepsSpent, Spent, Done
<1>7. CASE Q!Withdraw(j)
  BY <1>7 DEF Q!Withdraw, QueueOK, Q!Phase, Q!Settled, Grows, KeepsSpent, Spent, Done
<1>8. CASE Q!Remove(j)
  BY <1>8 DEF Q!Remove, QueueOK, Q!Phase, Q!Settled, Grows, KeepsSpent, Spent, Done
<1> QED
  BY <1>1, <1>2, <1>3, <1>4, <1>5, <1>6, <1>7, <1>8 DEF QueueStep

\* A release gives no lease and touches its own job alone.
LEMMA ReleaseKeeps ==
  ASSUME QueueOK, NEW j \in Job, Q!GiveUp(j), phase'[j] = "pending"
  PROVE  QueueOK' /\ Grows /\ \A i \in Job \ {j} : KeepsSpent(i)
BY RagAssumption DEF Q!GiveUp, QueueOK, Q!Phase, Q!Settled, Grows, KeepsSpent, Spent, Done

\* Nothing happens to the queue.
LEMMA QueueStutter ==
  ASSUME QueueOK, UNCHANGED queue
  PROVE  QueueOK' /\ Grows /\ \A i \in Job : KeepsSpent(i)
BY RagAssumption DEF queue, QueueOK, Grows, KeepsSpent, Spent

-----------------------------------------------------------------------------
(* Types. *)

\* What TypeOK says of everything but the queue and the processes.
LEMMA RequestTypes ==
  ASSUME Types, NEW r \in Request, RequestNext(r)
  PROVE  Types'
<1> USE RagAssumption
<1>0. ReqOK(req[r]) /\ req[r] \in ReqRec /\ ReqOK(Idle) /\ Idle \in ReqRec
  BY IdleOK DEF Types, ReqsOK, ReqOK
<1>f. Fault => faults' \in 0..MaxFaults /\ writes' = writes
  BY DEF Fault, Types, TypeOK
<1>b. BeginWrite => writes' \in 0..MaxWrites /\ faults' = faults
  BY DEF BeginWrite, Types, TypeOK
<1>m. ASSUME NEW to \in ReqAt, Move(r, to),
             to \in {"item", "number", "enqueue", "tombstone", "rows"},
             \/ req[r].at = "insert" /\ to = "item"
             \/ req[r].at = "item" /\ to = "number"
             \/ req[r].at = "stage" /\ to = "enqueue"
             \/ req[r].at = "purge" /\ to = "tombstone"
             \/ req[r].at = "tombstone" /\ to = "rows"
      PROVE  ReqsOK'
  <2> DEFINE x == [req[r] EXCEPT !.at = to]
  <2>1. x \in ReqRec /\ x.at = to /\ x.o = req[r].o /\ x.v = req[r].v /\ x.g = req[r].g
    BY <1>0 DEF ReqRec
  <2>2. ReqOK(x)
    BY <1>0, <1>m, <2>1 DEF ReqOK
  <2>3. req' = [req EXCEPT ![r] = x]
    BY <1>m DEF Move
  <2> HIDE DEF x
  <2> QED BY <2>2, <2>3, ReqStep DEF Types
<1>1. CASE EndRequest(r)
  BY <1>0, <1>1, <1>f, ReqStep
  DEF EndRequest, Types, TypeOK, RunsOK, QueueOK, rows, index, queue, budget
<1>2. CASE UpsertObject(r)
  <2>1. /\ obj' \in [id : 0..MaxObjects, seq : 0..MaxVersions, dead : BOOLEAN]
        /\ obj'.id # 0 /\ obj'.id <= made' /\ made' \in 0..MaxObjects
    <3>1. CASE obj.id = 0
      <4>1. /\ made < MaxObjects /\ made' = made + 1
            /\ obj' = [id |-> made + 1, seq |-> 0, dead |-> FALSE]
        BY <1>2, <3>1 DEF UpsertObject
      <4>2. made \in Nat /\ made' \in 0..MaxObjects /\ 0 \in 0..MaxVersions
        BY <4>1 DEF Types, TypeOK
      <4> QED BY <4>1, <4>2
    <3>2. CASE obj.id # 0
      BY <1>2, <3>2 DEF UpsertObject, Types, TypeOK
    <3> QED BY <3>1, <3>2
  <2> DEFINE x == [Idle EXCEPT !.at = "read", !.o = obj'.id]
  <2>2. x \in ReqRec /\ x.at = "read" /\ x.o = obj'.id
    BY <1>0, <2>1 DEF ReqRec, ReqAt
  <2>3. ReqOK(x)
    BY <2>1, <2>2 DEF ReqOK
  <2> HIDE DEF x
  <2>4. ReqsOK'
    BY <1>2, <2>3, ReqStep DEF UpsertObject, Types, x
  <2> QED BY <1>2, <1>b, <2>1, <2>4
          DEF UpsertObject, Types, TypeOK, RunsOK, QueueOK, index, queue
<1>3. CASE ReadObject(r)
  <2> DEFINE x == [req[r] EXCEPT !.at = "insert", !.v = obj.seq + 1]
  <2>1. obj.seq + 1 \in 1..MaxVersions
    BY <1>3 DEF ReadObject, Types, TypeOK
  <2>2. x \in ReqRec /\ x.at = "insert" /\ x.o = req[r].o /\ x.v = obj.seq + 1
    <3>1. req[r] \in ReqRec /\ obj.seq + 1 \in 0..MaxVersions /\ "insert" \in ReqAt
      BY <1>0, <2>1 DEF ReqAt
    <3> QED BY <3>1 DEF ReqRec
  <2>3. ReqOK(x)
    BY <1>0, <1>3, <2>1, <2>2 DEF ReqOK, ReadObject
  <2>4. req' = [req EXCEPT ![r] = x]
    BY <1>3 DEF ReadObject
  <2> HIDE DEF x
  <2>5. ReqsOK'
    BY <2>3, <2>4, ReqStep DEF Types
  <2> QED BY <1>3, <2>5
          DEF ReadObject, Types, TypeOK, RunsOK, QueueOK, rows, index, queue, budget
<1>4. CASE InsertObjectVersion(r)
  <2>1. ReqsOK'
    BY <1>4, <1>m DEF InsertObjectVersion, ReqAt
  <2>2. req[r].v \in 0..MaxVersions
    BY <1>0 DEF ReqRec
  <2> QED BY <1>4, <2>1, <2>2
          DEF InsertObjectVersion, Types, TypeOK, RunsOK, QueueOK, index, queue, budget
<1>5. CASE AddCollectionItem(r)
  <2>1. ReqsOK'
    BY <1>5, <1>m DEF AddCollectionItem, ReqAt
  <2> QED BY <1>5, <2>1
          DEF AddCollectionItem, Types, TypeOK, RunsOK, QueueOK, index, queue, budget
<1>6. CASE Reprocess(r)
  <2> DEFINE x == [Idle EXCEPT !.at = "number", !.o = obj.id, !.v = obj.seq]
  <2>1. x \in ReqRec /\ x.at = "number" /\ x.o = obj.id /\ x.v = obj.seq
    BY <1>0, <1>6 DEF ReqRec, ReqAt, Types, TypeOK
  <2>2. ReqOK(x)
    BY <1>6, <2>1 DEF ReqOK, Reprocess, HasDocument
  <2>3. req' = [req EXCEPT ![r] = x]
    BY <1>6 DEF Reprocess
  <2> HIDE DEF x
  <2>4. ReqsOK'
    BY <2>2, <2>3, ReqStep DEF Types
  <2> QED BY <1>6, <1>b, <2>4
          DEF Reprocess, Types, TypeOK, RunsOK, QueueOK, rows, index, queue
<1>7. CASE NextGeneration(r)
  <2>1. PICK g \in Generation : req' = [req EXCEPT ![r].at = "stage", ![r].g = g]
    BY <1>7 DEF NextGeneration
  <2> DEFINE x == [req[r] EXCEPT !.at = "stage", !.g = g]
  <2>2. x \in ReqRec /\ x.at = "stage" /\ x.o = req[r].o /\ x.v = req[r].v /\ x.g = g
    <3>1. req[r] \in ReqRec /\ g \in 0..MaxGenerations /\ "stage" \in ReqAt
      BY <1>0 DEF ReqAt, Generation
    <3> QED BY <3>1 DEF ReqRec
  <2>3. ReqOK(x)
    BY <1>0, <1>7, <2>2 DEF ReqOK, NextGeneration, Generation
  <2>4. req' = [req EXCEPT ![r] = x]
    BY <2>1
  <2> HIDE DEF x
  <2>5. ReqsOK'
    BY <2>3, <2>4, ReqStep DEF Types
  <2> QED BY <1>7, <2>5
          DEF NextGeneration, Types, TypeOK, RunsOK, QueueOK, rows, index, queue, budget
<1>8. CASE StageGeneration(r)
  <2>1. ReqsOK'
    BY <1>8, <1>m DEF StageGeneration, ReqAt
  <2>2. gens' \in [Version -> [Generation -> {"none", "staging", "published", "superseded"}]]
    BY <1>8 DEF StageGeneration, Types, TypeOK
  <2> QED BY <1>8, <2>1, <2>2
          DEF StageGeneration, Types, TypeOK, RunsOK, QueueOK, index, queue, budget
<1>9. CASE EnqueueEmbed(r)
  <2>1. JobOf(req[r]) \in Job
    BY <1>0, <1>9 DEF EnqueueEmbed, ReqOK, ReqRec, JobOf, Job, Object, Version, Generation
  <2>2. QueueOK'
    BY <1>9, <2>1, QueueStepKeeps, QueueStutter DEF EnqueueEmbed, QueueStep, Types
  <2> QED BY <1>0, <1>9, <2>2, ReqStep
          DEF EnqueueEmbed, Types, TypeOK, RunsOK, rows, index, budget
<1>10. CASE ReadForDelete(r)
  <2> DEFINE x == [Idle EXCEPT !.at = "purge", !.o = obj.id]
  <2>1. x \in ReqRec /\ x.at = "purge" /\ x.o = obj.id
    BY <1>0, <1>10 DEF ReqRec, ReqAt, Types, TypeOK
  <2>2. ReqOK(x)
    BY <1>10, <2>1 DEF ReqOK, ReadForDelete, HasDocument
  <2>3. req' = [req EXCEPT ![r] = x]
    BY <1>10 DEF ReadForDelete
  <2> HIDE DEF x
  <2>4. ReqsOK'
    BY <2>2, <2>3, ReqStep DEF Types
  <2> QED BY <1>10, <1>b, <2>4
          DEF ReadForDelete, Types, TypeOK, RunsOK, QueueOK, rows, index, queue
<1>11. CASE DeleteDocumentPoints(r)
  <2>1. ReqsOK'
    BY <1>11, <1>m DEF DeleteDocumentPoints, ReqAt
  <2>2. req[r].o \in Object
    BY <1>0, <1>11 DEF DeleteDocumentPoints, ReqOK, ReqRec, Object
  <2> QED BY <1>11, <2>1, <2>2
          DEF DeleteDocumentPoints, Types, TypeOK, RunsOK, QueueOK, rows, queue, budget
<1>12. CASE TombstoneObject(r)
  <2>1. ReqsOK'
    BY <1>12, <1>m DEF TombstoneObject, ReqAt
  <2>2. req[r].o \in Object
    BY <1>0, <1>12 DEF TombstoneObject, ReqOK, ReqRec, Object
  <2> QED BY <1>12, <2>1, <2>2
          DEF TombstoneObject, Types, TypeOK, RunsOK, QueueOK, index, queue, budget
<1>13. CASE DeleteObjectRows(r)
  <2>1. ReqsOK'
    BY <1>0, <1>13, ReqStep DEF DeleteObjectRows, Types
  <2>2. /\ obj' \in [id : 0..MaxObjects, seq : 0..MaxVersions, dead : BOOLEAN]
        /\ obj'.id <= made /\ item' \in BOOLEAN
        /\ gens' \in [Version -> [Generation -> {"none", "staging", "published", "superseded"}]]
        /\ chunks' \in [Version -> (0..MaxGenerations) \X (0..MaxLeases)]
    <3>1. CASE obj.id = req[r].o /\ parsed = {}
      <4>1. /\ obj' = [id |-> 0, seq |-> 0, dead |-> FALSE] /\ item' = FALSE
            /\ gens' = [v \in Version |-> [g \in Generation |-> "none"]]
            /\ chunks' = [v \in Version |-> NoChunks]
        BY <1>13, <3>1 DEF DeleteObjectRows
      <4>2. made \in Nat
        BY DEF Types, TypeOK
      <4>3. NoChunks \in (0..MaxGenerations) \X (0..MaxLeases)
        BY DEF NoChunks
      <4>4. /\ obj' \in [id : 0..MaxObjects, seq : 0..MaxVersions, dead : BOOLEAN]
            /\ obj'.id <= made
        BY <4>1, <4>2
      <4>5. gens' \in [Version -> [Generation -> {"none", "staging", "published", "superseded"}]]
        BY <4>1
      <4>6. chunks' \in [Version -> (0..MaxGenerations) \X (0..MaxLeases)]
        BY <4>1, <4>3
      <4> QED BY <4>1, <4>4, <4>5, <4>6
    <3>2. CASE ~(obj.id = req[r].o /\ parsed = {})
      BY <1>13, <3>2 DEF DeleteObjectRows, Types, TypeOK
    <3> QED BY <3>1, <3>2
  <2> QED BY <1>13, <2>1, <2>2
          DEF DeleteObjectRows, Types, TypeOK, RunsOK, QueueOK, index, queue, budget
<1>14. CASE DropIndex(r)
  <2> DEFINE x == [Idle EXCEPT !.at = "drop"]
  <2>1. x \in ReqRec /\ x.at = "drop"
    BY <1>0 DEF ReqRec, ReqAt
  <2>2. ReqOK(x)
    BY <2>1 DEF ReqOK
  <2>3. req' = [req EXCEPT ![r] = x]
    BY <1>14 DEF DropIndex
  <2> HIDE DEF x
  <2>4. ReqsOK'
    BY <2>2, <2>3, ReqStep DEF Types
  <2>5. \A p \in points : p[1] \in Object
    BY DEF Types, TypeOK, Point
  <2>6. points' \subseteq Point /\ purged' \subseteq Object
    BY <1>14, <2>5 DEF DropIndex, Types, TypeOK
  <2> QED BY <1>14, <1>b, <2>4, <2>6
          DEF DropIndex, Types, TypeOK, RunsOK, QueueOK, rows, queue
<1>15. CASE DropCollection(r)
  <2>1. ReqsOK'
    BY <1>0, <1>15, ReqStep DEF DropCollection, Types
  <2> QED BY <1>15, <2>1
          DEF DropCollection, Types, TypeOK, RunsOK, QueueOK, index, queue, budget
<1>16. CASE ResolveSearch(r)
  <2> DEFINE x == [Idle EXCEPT !.at = "search", !.o = obj.id, !.v = obj.seq, !.old = gone]
  <2>1. x \in ReqRec /\ x.at = "search" /\ x.o = obj.id
    BY <1>0, <1>16 DEF ReqRec, ReqAt, Types, TypeOK
  <2>2. ReqOK(x)
    BY <1>16, <2>1 DEF ReqOK, ResolveSearch, Ready, HasDocument
  <2>3. req' = [req EXCEPT ![r] = x]
    BY <1>16 DEF ResolveSearch
  <2> HIDE DEF x
  <2>4. ReqsOK'
    BY <2>2, <2>3, ReqStep DEF Types
  <2> QED BY <1>16, <2>4
          DEF ResolveSearch, Types, TypeOK, RunsOK, QueueOK, rows, index, queue, budget
<1>17. CASE SearchHybrid(r)
  <2> DEFINE x == [req[r] EXCEPT !.at = "answer", !.hits = Matches(req[r])]
  <2>1. x \in ReqRec /\ x.at = "answer"
    BY <1>0, <1>17 DEF ReqRec, ReqAt, Matches, Types, TypeOK
  <2>2. ReqOK(x)
    BY <2>1 DEF ReqOK
  <2>3. req' = [req EXCEPT ![r] = x]
    BY <1>17 DEF SearchHybrid
  <2> HIDE DEF x
  <2>4. ReqsOK'
    BY <2>2, <2>3, ReqStep DEF Types
  <2> QED BY <1>17, <2>4
          DEF SearchHybrid, Types, TypeOK, RunsOK, QueueOK, rows, index, queue, budget
<1> QED
  BY <1>1, <1>2, <1>3, <1>4, <1>5, <1>6, <1>7, <1>8, <1>9, <1>10, <1>11, <1>12, <1>13,
     <1>14, <1>15, <1>16, <1>17 DEF RequestNext

\* The steps of an attempt.
LEMMA AttemptTypes ==
  ASSUME Types, NEW w \in Worker, AttemptNext(w)
  PROVE  Types'
<1> USE RagAssumption
<1>f. Fault => faults' \in 0..MaxFaults /\ writes' = writes
  BY DEF Fault, Types, TypeOK
<1>s. ASSUME NEW to \in RunAt \ {"free"}, run[w].at # "free", Step(w, to)
      PROVE  RunsOK'
  BY <1>s, StepRun DEF Types
<1>r. RunsOK /\ QueueOK
  BY DEF Types
<1>1. CASE \E j \in Job : Lease(w, j)
  <2>1. PICK j \in Job : Lease(w, j)
    BY <1>1
  <2>2. QueueOK'
    BY <1>r, <2>1, QueueStepKeeps DEF Lease, QueueStep
  <2> DEFINE x == [at |-> "load", o |-> j[1], v |-> j[2], g |-> j[3], lease |-> leases[j] + 1]
  <2>3. leases[j] + 1 \in 1..MaxLeases
    BY <1>r, <2>1 DEF Lease, Q!Lease, QueueOK
  <2>4. RunOK(x)
    BY <2>3 DEF RunOK, RunRec, RunAt, Working, Job, Object, Version, Generation
  <2>5. run' = [run EXCEPT ![w] = x]
    BY <2>1 DEF Lease
  <2> HIDE DEF x
  <2>6. RunsOK'
    BY <1>r, <2>4, <2>5, RunStep
  <2> QED BY <2>1, <2>2, <2>6, <1>f
          DEF Lease, Types, TypeOK, ReqsOK, rows, index, budget
<1>2. CASE LoadVersion(w)
  <2>1. RunsOK'
    BY <1>2, <1>s DEF LoadVersion, RunAt, Working
  <2> QED BY <1>2, <2>1
          DEF LoadVersion, Types, TypeOK, ReqsOK, QueueOK, rows, index, queue, budget
<1>3. CASE CheckLatest(w)
  <2>1. PICK to \in {"supersede", "parse", "dispatch"} : Step(w, to)
    BY <1>3 DEF CheckLatest
  <2>2. RunsOK'
    BY <1>3, <2>1, <1>s DEF CheckLatest, RunAt, Working
  <2> QED BY <1>3, <2>2
          DEF CheckLatest, Types, TypeOK, ReqsOK, QueueOK, rows, index, queue, budget
<1>4. CASE MarkSuperseded(w)
  <2>1. RunsOK'
    BY <1>4, <1>s DEF MarkSuperseded, RunAt, Working
  <2>2. gens' \in [Version -> [Generation -> {"none", "staging", "published", "superseded"}]]
    <3>1. \/ gens' = [gens EXCEPT ![run[w].v][run[w].g] = "superseded"]
          \/ gens' = gens
      BY <1>4 DEF MarkSuperseded
    <3>2. CASE gens' = [gens EXCEPT ![run[w].v][run[w].g] = "superseded"]
      BY <3>2 DEF Types, TypeOK
    <3>3. CASE gens' = gens
      BY <3>3 DEF Types, TypeOK
    <3> QED BY <3>1, <3>2, <3>3
  <2> QED BY <1>4, <2>1, <2>2
          DEF MarkSuperseded, Types, TypeOK, ReqsOK, QueueOK, index, queue, budget
<1>5. CASE SaveParsedDocument(w)
  <2>1. RunsOK'
    BY <1>5, <1>s DEF SaveParsedDocument, RunAt, Working
  <2>2. run[w].v \in Version
    BY <1>5, <1>r, RunJob DEF SaveParsedDocument
  <2> QED BY <1>5, <2>1, <2>2
          DEF SaveParsedDocument, Types, TypeOK, ReqsOK, QueueOK, index, queue, budget
<1>6. CASE MarkDispatched(w)
  <2>1. RunsOK'
    BY <1>6, <1>s DEF MarkDispatched, RunAt, Working
  <2>2. QueueOK'
    BY <1>6, <1>r, RunJob, QueueStepKeeps DEF MarkDispatched, QueueStep
  <2> QED BY <1>6, <2>1, <2>2, <1>f
          DEF MarkDispatched, Types, TypeOK, ReqsOK, rows, index, budget
<1>7. CASE ReplaceChunks(w)
  <2>1. RunsOK'
    BY <1>7, <1>s DEF ReplaceChunks, RunAt, Working
  <2>2. gens' \in [Version -> [Generation -> {"none", "staging", "published", "superseded"}]]
    BY <1>7 DEF ReplaceChunks, Types, TypeOK
  <2>3. run[w].g \in 0..MaxGenerations /\ run[w].lease \in 0..MaxLeases
    BY <1>7, <1>r, RunJob DEF ReplaceChunks, Generation
  <2>4. <<run[w].g, run[w].lease>> \in (0..MaxGenerations) \X (0..MaxLeases)
    BY <2>3
  <2>5. chunks' \in [Version -> (0..MaxGenerations) \X (0..MaxLeases)]
    BY <1>7, <2>4 DEF ReplaceChunks, Types, TypeOK
  <2> QED BY <1>7, <2>1, <2>2, <2>5
          DEF ReplaceChunks, Types, TypeOK, ReqsOK, QueueOK, index, queue, budget
<1>8. CASE UpsertPoints(w)
  <2>1. RunsOK'
    BY <1>8, <1>s DEF UpsertPoints, RunAt, Working
  <2>2. <<run[w].o, run[w].v, run[w].g, run[w].lease>> \in Point
    BY <1>8, <1>r, RunJob DEF UpsertPoints, Point
  <2>3. points' \subseteq Point
    BY <1>8, <2>2 DEF UpsertPoints, Types, TypeOK
  <2> QED BY <1>8, <2>1, <2>3, <1>f
          DEF UpsertPoints, Types, TypeOK, ReqsOK, QueueOK, rows, queue, budget
<1>9. CASE MarkPublished(w)
  <2>1. RunsOK'
    BY <1>9, <1>s DEF MarkPublished, RunAt, Working
  <2>2. gens' \in [Version -> [Generation -> {"none", "staging", "published", "superseded"}]]
    BY <1>9 DEF MarkPublished, Types, TypeOK
  <2> QED BY <1>9, <2>1, <2>2
          DEF MarkPublished, Types, TypeOK, ReqsOK, QueueOK, index, queue, budget
<1>10. CASE Err(w)
  <2>1. RunsOK'
    BY <1>10, <1>s DEF Err, RunAt, Working
  <2> QED BY <1>10, <2>1, <1>f
          DEF Err, Types, TypeOK, ReqsOK, QueueOK, rows, index, queue, budget
<1>e. ASSUME run' = [run EXCEPT ![w] = Free]
      PROVE  RunsOK'
  BY <1>e, <1>r, FreeOK, RunStep
<1>11. CASE Complete(w)
  <2>1. QueueOK'
    BY <1>11, <1>r, RunJob, QueueStepKeeps, QueueStutter DEF Complete, Settle, QueueStep
  <2> QED BY <1>11, <1>e, <2>1
          DEF Complete, Settle, Types, TypeOK, ReqsOK, rows, index, budget
<1>12. CASE Fail(w)
  <2>1. QueueOK'
    BY <1>12, <1>r, RunJob, QueueStepKeeps, QueueStutter DEF Fail, Settle, QueueStep
  <2> QED BY <1>12, <1>e, <2>1
          DEF Fail, Settle, Types, TypeOK, ReqsOK, rows, index, budget
<1>13. CASE ContextDone(w)
  <2>0. JobOf(run[w]) \in Job
    BY <1>13, <1>r, RunJob DEF ContextDone, Working
  <2>1. QueueOK'
    BY <1>13, <1>r, <2>0, QueueStepKeeps, ReleaseKeeps, QueueStutter
    DEF ContextDone, Settle, QueueStep
  <2> QED BY <1>13, <1>e, <1>f, <2>1
          DEF ContextDone, Settle, Types, TypeOK, ReqsOK, rows, index
<1>14. CASE Crash(w)
  BY <1>14, <1>e, <1>f
  DEF Crash, Types, TypeOK, ReqsOK, QueueOK, rows, index, queue
<1> QED
  BY <1>1, <1>2, <1>3, <1>4, <1>5, <1>6, <1>7, <1>8, <1>9, <1>10, <1>11, <1>12, <1>13,
     <1>14 DEF AttemptNext

\* Every step.
LEMMA TypeStep ==
  ASSUME Types, [Next]_vars
  PROVE  Types'
<1>1. ASSUME NEW j \in Job, Sweep(j) \/ CancelJob(j) PROVE Types'
  <2>1. QueueOK'
    BY <1>1, QueueStepKeeps DEF Sweep, CancelJob, QueueStep, Types
  <2>2. faults' \in 0..MaxFaults /\ writes' = writes
    BY <1>1, RagAssumption DEF Sweep, CancelJob, Fault, Types, TypeOK
  <2> QED BY <1>1, <2>1, <2>2
          DEF Sweep, CancelJob, Types, TypeOK, ReqsOK, RunsOK, rows, index
<1>2. CASE UNCHANGED vars
  BY <1>2 DEF vars, Types, TypeOK, ReqsOK, RunsOK, QueueOK, rows, index, queue, budget
<1> QED
  BY <1>1, <1>2, RequestTypes, AttemptTypes DEF Next

-----------------------------------------------------------------------------
(* What a step leaves of the workers. *)

\* Nobody gets a claim, begins to write, or goes back to before the dispatch.
SameClaim(w) ==
  run'[w].at # "free" =>
    /\ run[w].at # "free"
    /\ run'[w].o = run[w].o /\ run'[w].v = run[w].v /\ run'[w].g = run[w].g
    /\ run'[w].lease = run[w].lease
SamePlace(w) ==
  /\ run'[w].at \in Writing => run[w].at \in Writing
  /\ run'[w].at \in Before => run[w].at \in Before
  /\ run'[w].at = "publish" => run[w].at = "publish"

\* A step of one worker.
LEMMA StepKeeps ==
  ASSUME RunsOK, NEW w \in Worker, NEW to \in RunAt \ {"free"}, run[w].at # "free",
         Step(w, to)
  PROVE  /\ \A u \in Worker : SameClaim(u)
         /\ \A u \in Worker \ {w} : SamePlace(u)
         /\ run'[w].at = to
         /\ \/ to \notin Writing \cup Before
            \/ to \in Before /\ run[w].at \in Before
            \/ to \in {"chunks", "points"} /\ run[w].at \in Writing
            => SamePlace(w)
<1>1. /\ run'[w].at = to
      /\ run'[w].o = run[w].o /\ run'[w].v = run[w].v /\ run'[w].g = run[w].g
      /\ run'[w].lease = run[w].lease
      /\ \A u \in Worker : u # w => run'[u] = run[u]
  BY StepRun
<1> QED BY <1>1 DEF SameClaim, SamePlace, Writing, Before

\* The end of an attempt.
LEMMA FreeKeeps ==
  ASSUME RunsOK, NEW w \in Worker, run' = [run EXCEPT ![w] = Free]
  PROVE  \A u \in Worker : SameClaim(u) /\ SamePlace(u)
<1>1. /\ run'[w] = Free
      /\ \A u \in Worker : u # w => run'[u] = run[u]
  BY FreeOK, RunStep
<1>2. run'[w].at = "free"
  BY <1>1 DEF Free
<1> QED BY <1>1, <1>2 DEF SameClaim, SamePlace, Writing, Before

\* Only Lease gives a claim; only MarkDispatched and UpsertPoints move on to write or
\* to publish.
LEMMA RunKeeps ==
  ASSUME Types, [Next]_vars
  PROVE  /\ \/ \E w \in Worker, j \in Job : Lease(w, j)
            \/ \A u \in Worker : SameClaim(u)
         /\ \/ \E w \in Worker, j \in Job : Lease(w, j)
            \/ \E w \in Worker : MarkDispatched(w) \/ UpsertPoints(w)
            \/ \A u \in Worker : SamePlace(u)
<1>r. RunsOK
  BY DEF Types
<1>0. ASSUME UNCHANGED run PROVE \A u \in Worker : SameClaim(u) /\ SamePlace(u)
  BY <1>0 DEF SameClaim, SamePlace
<1>1. ASSUME NEW r \in Request, RequestNext(r) PROVE UNCHANGED run
  BY <1>1 DEF RequestNext, EndRequest, UpsertObject, ReadObject, InsertObjectVersion,
     AddCollectionItem, Reprocess, NextGeneration, StageGeneration, EnqueueEmbed,
     ReadForDelete, DeleteDocumentPoints, TombstoneObject, DeleteObjectRows, DropIndex,
     DropCollection, ResolveSearch, SearchHybrid
<1>2. ASSUME NEW j \in Job, Sweep(j) \/ CancelJob(j) PROVE UNCHANGED run
  BY <1>2 DEF Sweep, CancelJob
<1>3. CASE UNCHANGED vars
  BY <1>0, <1>3 DEF vars
<1>4. ASSUME NEW w \in Worker, AttemptNext(w), \A j \in Job : ~Lease(w, j)
      PROVE  /\ \A u \in Worker : SameClaim(u)
             /\ MarkDispatched(w) \/ UpsertPoints(w) \/ \A u \in Worker : SamePlace(u)
  <2>1. CASE \E to \in RunAt \ {"free"} : run[w].at # "free" /\ Step(w, to)
                /\ (\/ MarkDispatched(w) \/ UpsertPoints(w)
                    \/ to \notin Writing \cup Before
                    \/ to \in Before /\ run[w].at \in Before
                    \/ to \in {"chunks", "points"} /\ run[w].at \in Writing)
    <3>1. PICK to \in RunAt \ {"free"} : run[w].at # "free" /\ Step(w, to)
                /\ (\/ MarkDispatched(w) \/ UpsertPoints(w)
                    \/ to \notin Writing \cup Before
                    \/ to \in Before /\ run[w].at \in Before
                    \/ to \in {"chunks", "points"} /\ run[w].at \in Writing)
      BY <2>1
    <3> QED BY <1>r, <3>1, StepKeeps
  <2>2. CASE run' = [run EXCEPT ![w] = Free]
    BY <1>r, <2>2, FreeKeeps
  <2>3. CASE LoadVersion(w)
    BY <2>1, <2>3 DEF LoadVersion, RunAt, Working, Before
  <2>4. CASE CheckLatest(w)
    BY <2>1, <2>4 DEF CheckLatest, RunAt, Working, Before
  <2>5. CASE MarkSuperseded(w)
    BY <2>1, <2>5 DEF MarkSuperseded, RunAt, Working, Before, Writing
  <2>6. CASE SaveParsedDocument(w)
    BY <2>1, <2>6 DEF SaveParsedDocument, RunAt, Working, Before
  <2>7. CASE MarkDispatched(w)
    BY <2>1, <2>7 DEF MarkDispatched, RunAt, Working
  <2>8. CASE ReplaceChunks(w)
    BY <2>1, <2>8 DEF ReplaceChunks, RunAt, Working, Writing
  <2>9. CASE UpsertPoints(w)
    BY <2>1, <2>9 DEF UpsertPoints, RunAt, Working
  <2>10. CASE MarkPublished(w)
    BY <2>1, <2>10 DEF MarkPublished, RunAt, Working, Before, Writing
  <2>11. CASE Err(w)
    BY <2>1, <2>11 DEF Err, RunAt, Working, Before, Writing
  <2>12. CASE Complete(w) \/ Fail(w) \/ ContextDone(w) \/ Crash(w)
    BY <2>2, <2>12 DEF Complete, Fail, ContextDone, Crash, Settle
  <2> QED BY <1>4, <2>3, <2>4, <2>5, <2>6, <2>7, <2>8, <2>9, <2>10, <2>11, <2>12
          DEF AttemptNext
<1> QED
  BY <1>0, <1>1, <1>2, <1>3, <1>4 DEF Next

-----------------------------------------------------------------------------
(* What a step does to the queue. *)

\* An attempt that did not dispatch gives its job back.
Releases(w) ==
  /\ ContextDone(w) /\ Holds(w) /\ run[w].at \in Before
  /\ Q!GiveUp(JobOf(run[w])) /\ phase'[JobOf(run[w])] = "pending"

\* Only a release makes a spent job leasable again.
LEMMA QueueKeeps ==
  ASSUME Types, [Next]_vars
  PROVE  /\ Grows
         /\ \/ \A i \in Job : KeepsSpent(i)
            \/ \E w \in Worker : Releases(w) /\ \A i \in Job \ {JobOf(run[w])} : KeepsSpent(i)
<1>q. QueueOK /\ RunsOK
  BY DEF Types
<1>1. ASSUME UNCHANGED queue \/ \E j \in Job : QueueStep(j)
      PROVE  Grows /\ \A i \in Job : KeepsSpent(i)
  BY <1>1, <1>q, QueueStutter, QueueStepKeeps
<1>2. ASSUME NEW r \in Request, RequestNext(r)
      PROVE  UNCHANGED queue \/ \E j \in Job : QueueStep(j)
  <2>1. CASE EnqueueEmbed(r)
    <3>1. req[r] \in ReqRec /\ ReqOK(req[r]) /\ req[r].at = "enqueue"
      BY <2>1 DEF EnqueueEmbed, Types, ReqsOK
    <3>2. JobOf(req[r]) \in Job
      BY <3>1, RagAssumption DEF ReqOK, ReqRec, JobOf, Job, Object, Version, Generation
    <3> QED BY <2>1, <3>2 DEF EnqueueEmbed, QueueStep
  <2>2. CASE ~EnqueueEmbed(r)
    BY <1>2, <2>2 DEF RequestNext, EndRequest, UpsertObject, ReadObject, InsertObjectVersion,
       AddCollectionItem, Reprocess, NextGeneration, StageGeneration,
       ReadForDelete, DeleteDocumentPoints, TombstoneObject, DeleteObjectRows, DropIndex,
       DropCollection, ResolveSearch, SearchHybrid
  <2> QED BY <2>1, <2>2
<1>3. ASSUME NEW j \in Job, Sweep(j) \/ CancelJob(j) PROVE QueueStep(j)
  BY <1>3 DEF Sweep, CancelJob, QueueStep
<1>4. ASSUME NEW w \in Worker, AttemptNext(w)
      PROVE  \/ UNCHANGED queue
             \/ \E j \in Job : QueueStep(j)
             \/ Releases(w) /\ JobOf(run[w]) \in Job
  <2>1. CASE \E j \in Job : Lease(w, j)
    BY <2>1 DEF Lease, QueueStep
  <2>2. CASE MarkDispatched(w) \/ Complete(w) \/ Fail(w)
    <3>1. JobOf(run[w]) \in Job
      BY <1>q, <2>2, RunJob DEF MarkDispatched, Complete, Fail
    <3> QED BY <2>2, <3>1 DEF MarkDispatched, Complete, Fail, Settle, QueueStep
  <2>3. CASE ContextDone(w)
    <3>1. JobOf(run[w]) \in Job
      BY <1>q, <2>3, RunJob DEF ContextDone, Working
    <3>2. run[w].at \in Before \/ Dispatching(w)
      BY <2>3 DEF ContextDone, Working, Before, Dispatching
    <3> QED BY <2>3, <3>1, <3>2 DEF ContextDone, Settle, QueueStep, Releases
  <2>4. CASE LoadVersion(w) \/ CheckLatest(w) \/ MarkSuperseded(w) \/ SaveParsedDocument(w)
             \/ ReplaceChunks(w) \/ UpsertPoints(w) \/ MarkPublished(w) \/ Err(w) \/ Crash(w)
    BY <2>4 DEF LoadVersion, CheckLatest, MarkSuperseded, SaveParsedDocument, ReplaceChunks,
       UpsertPoints, MarkPublished, Err, Crash
  <2> QED BY <1>4, <2>1, <2>2, <2>3, <2>4 DEF AttemptNext
<1>5. ASSUME NEW w \in Worker, Releases(w), JobOf(run[w]) \in Job
      PROVE  Grows /\ \A i \in Job \ {JobOf(run[w])} : KeepsSpent(i)
  BY <1>5, <1>q, ReleaseKeeps DEF Releases
<1>6. CASE UNCHANGED vars
  BY <1>1, <1>6 DEF vars
<1> QED
  BY <1>1, <1>2, <1>3, <1>4, <1>5, <1>6 DEF Next

-----------------------------------------------------------------------------
(* A lease belongs to one worker. *)

LEMMA OwnedStep ==
  ASSUME Types, Owned, [Next]_vars
  PROVE  Owned'
<1>t. Types' /\ RunsOK /\ RunsOK' /\ QueueOK /\ QueueOK' /\ Grows
  BY TypeStep, QueueKeeps DEF Types
<1>j. \A w \in Worker : run'[w].at # "free" => JobOf(run'[w]) \in Job /\ run'[w].lease \in Nat
  BY <1>t, RunJob, RagAssumption DEF RunsOK, RunOK, RunRec, JobOf, Job, Object, Version,
     Generation
<1>i. \A w \in Worker : run[w].at # "free" => JobOf(run[w]) \in Job /\ run[w].lease \in Nat
  BY <1>t, RunJob
<1>n. \A i \in Job : leases[i] \in Nat /\ leases'[i] \in Nat /\ leases'[i] >= leases[i]
  BY <1>t, RagAssumption DEF QueueOK, Grows
<1>1. CASE \A u \in Worker : SameClaim(u)
  <2>1. \A u \in Worker : run'[u].at # "free" =>
           run[u].at # "free" /\ JobOf(run'[u]) = JobOf(run[u]) /\ run'[u].lease = run[u].lease
    BY <1>1 DEF SameClaim, JobOf
  <2>2. \A w \in Worker : run'[w].at # "free" => run'[w].lease <= leases'[JobOf(run'[w])]
    BY <2>1, <1>i, <1>n DEF Owned
  <2>3. \A w, u \in Worker :
          run'[w].at # "free" /\ run'[u].at # "free" /\ JobOf(run'[w]) = JobOf(run'[u])
            /\ run'[w].lease = run'[u].lease => w = u
    BY <2>1 DEF Owned
  <2> QED BY <2>2, <2>3 DEF Owned, JobOf
<1>2. CASE \E w \in Worker, j \in Job : Lease(w, j)
  <2>1. PICK w \in Worker, j \in Job : Lease(w, j)
    BY <1>2
  <2> DEFINE x == [at |-> "load", o |-> j[1], v |-> j[2], g |-> j[3], lease |-> leases[j] + 1]
  <2>2. run' = [run EXCEPT ![w] = x] /\ x.lease = leases[j] + 1 /\ JobOf(x) = j
    BY <2>1 DEF Lease, JobOf, Job
  <2> HIDE DEF x
  <2>3. run'[w] = x /\ \A u \in Worker \ {w} : run'[u] = run[u]
    BY <2>2, <1>t DEF RunsOK
  <2>4. leases'[j] = leases[j] + 1
    BY <2>1, <1>t DEF Lease, Q!Lease, QueueOK
  <2>5. \A u \in Worker : run'[u].at # "free" => run'[u].lease <= leases'[JobOf(run'[u])]
    BY <2>2, <2>3, <2>4, <1>i, <1>n DEF Owned
  <2>6. \A u \in Worker \ {w} : run'[u].at # "free" /\ JobOf(run'[u]) = j
           => run'[u].lease # leases[j] + 1
    BY <2>3, <1>i, <1>n DEF Owned
  <2>7. \A y, u \in Worker :
          run'[y].at # "free" /\ run'[u].at # "free" /\ JobOf(run'[y]) = JobOf(run'[u])
            /\ run'[y].lease = run'[u].lease => y = u
    BY <2>2, <2>3, <2>6 DEF Owned
  <2> QED BY <2>5, <2>7 DEF Owned, JobOf
<1> QED
  BY <1>1, <1>2, RunKeeps

-----------------------------------------------------------------------------
(* Who wrote what. *)

Claim(r) == <<r.o, r.v, r.g, r.lease>>

\* Nothing of a new object has been written.
LEMMA AuthorsKept ==
  ASSUME points' \subseteq points,
         \/ chunks' = chunks /\ obj'.id = obj.id
         \/ \A v \in Version : chunks'[v] = NoChunks
  PROVE  Authors' \subseteq Authors
BY DEF Authors, NoChunks

\* Only ReplaceChunks and UpsertPoints write, and they write what their worker claims.
LEMMA AuthorsStep ==
  ASSUME Types, Indexed, [Next]_vars
  PROVE  \/ Authors' \subseteq Authors
         \/ \E w \in Worker : /\ ReplaceChunks(w) \/ UpsertPoints(w)
                             /\ Authors' \subseteq Authors \cup {Claim(run[w])}
<1>1. ASSUME NEW r \in Request, RequestNext(r) PROVE Authors' \subseteq Authors
  <2>1. CASE UpsertObject(r)
    <3>1. points' = points /\ chunks' = chunks
      BY <2>1 DEF UpsertObject, index
    <3>2. CASE obj.id = 0
      <4>1. \A v \in Version : chunks'[v] = NoChunks
        BY <3>1, <3>2 DEF Indexed
      <4> QED BY <3>1, <4>1, AuthorsKept
    <3>3. CASE obj.id # 0
      <4>1. obj' = obj
        BY <2>1, <3>3 DEF UpsertObject
      <4> QED BY <3>1, <4>1, AuthorsKept
    <3> QED BY <3>2, <3>3
  <2>2. CASE InsertObjectVersion(r)
    <3>1. points' = points /\ chunks' = chunks /\ obj'.id = obj.id
      BY <2>2 DEF InsertObjectVersion, index, Types, TypeOK
    <3> QED BY <3>1, AuthorsKept
  <2>3. CASE TombstoneObject(r)
    <3>1. points' = points /\ chunks' = chunks /\ obj'.id = obj.id
      BY <2>3 DEF TombstoneObject, index, Types, TypeOK
    <3> QED BY <3>1, AuthorsKept
  <2>4. CASE DeleteObjectRows(r)
    <3>1. points' = points /\ (\/ chunks' = chunks /\ obj'.id = obj.id
                              \/ \A v \in Version : chunks'[v] = NoChunks)
      BY <2>4 DEF DeleteObjectRows, index
    <3> QED BY <3>1, AuthorsKept
  <2>5. CASE DeleteDocumentPoints(r) \/ DropIndex(r)
    <3>1. points' \subseteq points /\ chunks' = chunks /\ obj' = obj
      BY <2>5 DEF DeleteDocumentPoints, DropIndex, rows
    <3> QED BY <3>1, AuthorsKept
  <2>6. CASE \/ EndRequest(r) \/ ReadObject(r) \/ AddCollectionItem(r)
             \/ Reprocess(r) \/ NextGeneration(r) \/ StageGeneration(r) \/ EnqueueEmbed(r)
             \/ ReadForDelete(r) \/ DropCollection(r) \/ ResolveSearch(r) \/ SearchHybrid(r)
    <3>1. points' = points /\ chunks' = chunks /\ obj' = obj
      BY <2>6 DEF EndRequest, ReadObject, AddCollectionItem, Reprocess, NextGeneration,
         StageGeneration, EnqueueEmbed, ReadForDelete, DropCollection, ResolveSearch,
         SearchHybrid, rows, index
    <3> QED BY <3>1, AuthorsKept
  <2> QED BY <1>1, <2>1, <2>2, <2>3, <2>4, <2>5, <2>6 DEF RequestNext
<1>2. ASSUME NEW w \in Worker, AttemptNext(w), ~ReplaceChunks(w), ~UpsertPoints(w)
      PROVE  Authors' \subseteq Authors
  <2>1. points' = points /\ chunks' = chunks /\ obj' = obj
    BY <1>2 DEF AttemptNext, Lease, LoadVersion, CheckLatest, MarkSuperseded,
       SaveParsedDocument, MarkDispatched, MarkPublished, Err, Complete, Fail, ContextDone,
       Crash, Settle, rows, index
  <2> QED BY <2>1, AuthorsKept
<1>3. ASSUME NEW w \in Worker, ReplaceChunks(w)
      PROVE  Authors' \subseteq Authors \cup {Claim(run[w])}
  <2>1. points' = points /\ obj' = obj /\ obj.id = run[w].o
    BY <1>3 DEF ReplaceChunks, index, HasVersion
  <2>2. \A v \in Version :
          chunks'[v] = IF v = run[w].v THEN <<run[w].g, run[w].lease>> ELSE chunks[v]
    BY <1>3 DEF ReplaceChunks, Types, TypeOK
  <2>3. \A v \in Version : chunks'[v] # NoChunks =>
          \/ chunks[v] # NoChunks /\ chunks'[v] = chunks[v]
          \/ <<obj'.id, v, chunks'[v][1], chunks'[v][2]>> = Claim(run[w])
    BY <2>1, <2>2 DEF Claim
  <2> QED BY <2>1, <2>3 DEF Authors, NoChunks
<1>4. ASSUME NEW w \in Worker, UpsertPoints(w)
      PROVE  Authors' \subseteq Authors \cup {Claim(run[w])}
  <2>1. points' = points \cup {Claim(run[w])} /\ obj' = obj /\ chunks' = chunks
    BY <1>4 DEF UpsertPoints, rows, Claim
  <2> QED BY <2>1 DEF Authors, NoChunks
<1>5. ASSUME NEW j \in Job, Sweep(j) \/ CancelJob(j) PROVE Authors' \subseteq Authors
  BY <1>5, AuthorsKept DEF Sweep, CancelJob, rows, index
<1>6. CASE UNCHANGED vars
  BY <1>6, AuthorsKept DEF vars, rows, index
<1> QED
  BY <1>1, <1>2, <1>3, <1>4, <1>5, <1>6 DEF Next

\* The parts of ByLast.
Writers == \A w \in Worker : run[w].at \in Writing =>
             run[w].lease = leases[JobOf(run[w])] /\ Spent(JobOf(run[w]))
Unwritten == \A w \in Worker : run[w].at \in Before => Claim(run[w]) \notin Authors

LEMMA ByLastStep ==
  ASSUME Types, Owned, ByLast, Indexed, [Next]_vars
  PROVE  ByLast'
<1>t. RunsOK /\ QueueOK /\ RunsOK'
  BY TypeStep DEF Types
<1>b. Writers /\ Unwritten /\ \A a \in Authors : Author(a)
  BY DEF ByLast, Writers, Unwritten, Claim
<1>q. ByLast' <=> Writers' /\ Unwritten' /\ (\A a \in Authors : Author(a))'
  BY DEF ByLast, Writers, Unwritten, Claim
<1>j. \A w \in Worker : run[w].at # "free" => JobOf(run[w]) \in Job
  BY <1>t, RunJob
<1>f. "free" \notin Writing /\ "free" \notin Before /\ Writing \cap Before = {}
  BY DEF Writing, Before
(* A job with an author or a writer keeps its last lease and stays spent. *)
<1>k. /\ \A a \in Authors : KeepsSpent(<<a[1], a[2], a[3]>>)
      /\ \A w \in Worker, i \in Job :
           run[w].at \in Writing /\ JobOf(run[w]) = i => KeepsSpent(i)
  <2>1. CASE \A i \in Job : KeepsSpent(i)
    BY <2>1, <1>b, <1>j, <1>f DEF Author
  <2>2. CASE \E w \in Worker : Releases(w) /\ \A i \in Job \ {JobOf(run[w])} : KeepsSpent(i)
    <3>1. PICK w \in Worker : Releases(w) /\ \A i \in Job \ {JobOf(run[w])} : KeepsSpent(i)
      BY <2>2
    <3>2. run[w].lease = leases[JobOf(run[w])] /\ run[w].at \in Before
      BY <3>1 DEF Releases, Holds
    <3>3. ASSUME NEW a \in Authors PROVE <<a[1], a[2], a[3]>> # JobOf(run[w])
      <4>1. SUFFICES ASSUME <<a[1], a[2], a[3]>> = JobOf(run[w]) PROVE FALSE
        OBVIOUS
      <4>2. a[4] = run[w].lease /\ a[1] = run[w].o /\ a[2] = run[w].v /\ a[3] = run[w].g
        BY <1>b, <3>2, <4>1 DEF Author, JobOf
      <4>3. a = <<a[1], a[2], a[3], a[4]>>
        BY DEF Authors, Types, TypeOK, Point
      <4>4. a = Claim(run[w])
        BY <4>2, <4>3 DEF Claim
      <4> QED BY <4>4, <3>2, <1>b DEF Unwritten
    <3>4. ASSUME NEW u \in Worker, run[u].at \in Writing PROVE JobOf(run[u]) # JobOf(run[w])
      BY <1>b, <1>f, <3>2, <3>4 DEF Writers, Owned
    <3> QED BY <3>1, <3>3, <3>4, <1>b, <1>j, <1>f DEF Author
  <2> QED BY <2>1, <2>2, QueueKeeps
<1>a. \A a \in Authors : /\ <<a[1], a[2], a[3]>> \in Job
                        /\ leases'[<<a[1], a[2], a[3]>>] = a[4]
                        /\ Spent(<<a[1], a[2], a[3]>>)'
  BY <1>b, <1>k DEF Author, KeepsSpent
<1>w. \A w \in Worker, i \in Job : run[w].at \in Writing /\ JobOf(run[w]) = i =>
        run[w].lease = leases'[i] /\ Spent(i)'
  BY <1>b, <1>k DEF Writers, KeepsSpent
(* Where the workers are. *)
<1>l. ASSUME NEW w \in Worker, NEW j \in Job, Lease(w, j)
      PROVE  /\ run'[w].at = "load" /\ JobOf(run'[w]) = j /\ run'[w].lease = leases[j] + 1
             /\ \A u \in Worker \ {w} : run'[u] = run[u]
             /\ Authors' \subseteq Authors
  <2> DEFINE x == [at |-> "load", o |-> j[1], v |-> j[2], g |-> j[3], lease |-> leases[j] + 1]
  <2>1. /\ run' = [run EXCEPT ![w] = x] /\ x.lease = leases[j] + 1 /\ JobOf(x) = j
        /\ x.at = "load"
    BY <1>l DEF Lease, JobOf, Job
  <2> HIDE DEF x
  <2>2. run'[w] = x /\ \A u \in Worker \ {w} : run'[u] = run[u]
    BY <2>1, <1>t DEF RunsOK
  <2>3. Authors' \subseteq Authors
    BY <1>l, AuthorsKept DEF Lease, rows, index
  <2> QED BY <2>1, <2>2, <2>3
<1>d. ASSUME NEW w \in Worker, MarkDispatched(w)
      PROVE  /\ \A u \in Worker : SameClaim(u)
             /\ \A u \in Worker \ {w} : SamePlace(u)
             /\ run[w].at \in Before /\ run'[w].at \in {"chunks", "lost"}
  BY <1>d, <1>t, StepKeeps DEF MarkDispatched, RunAt, Working, Before
<1>u. ASSUME NEW w \in Worker, UpsertPoints(w)
      PROVE  /\ \A u \in Worker : SameClaim(u)
             /\ \A u \in Worker \ {w} : SamePlace(u)
             /\ run[w].at \in Writing /\ run'[w].at \in {"publish", "error"}
  BY <1>u, <1>t, StepKeeps DEF UpsertPoints, RunAt, Working, Writing
<1>c. ASSUME NEW u \in Worker, run'[u].at \in Writing
      PROVE  /\ SameClaim(u) /\ run[u].at # "free"
             /\ run[u].at \in Writing \/ MarkDispatched(u)
  <2>1. CASE \E w \in Worker, j \in Job : Lease(w, j)
    BY <2>1, <1>c, <1>l, <1>f DEF SameClaim, Writing
  <2>2. CASE \E w \in Worker : MarkDispatched(w)
    BY <2>2, <1>c, <1>d, <1>f DEF SameClaim, SamePlace
  <2>3. CASE \E w \in Worker : UpsertPoints(w)
    BY <2>3, <1>c, <1>u, <1>f DEF SameClaim, SamePlace
  <2>4. CASE (\A w \in Worker : SameClaim(w)) /\ (\A w \in Worker : SamePlace(w))
    BY <2>4, <1>c, <1>f DEF SameClaim, SamePlace
  <2> QED BY <2>1, <2>2, <2>3, <2>4, RunKeeps
<1>e. ASSUME NEW u \in Worker, run'[u].at \in Before
      PROVE  (SameClaim(u) /\ run[u].at \in Before) \/ \E j \in Job : Lease(u, j)
  <2>1. CASE \E w \in Worker, j \in Job : Lease(w, j)
    BY <2>1, <1>e, <1>l, <1>f DEF SameClaim
  <2>2. CASE \E w \in Worker : MarkDispatched(w)
    BY <2>2, <1>e, <1>d, <1>f DEF SameClaim, SamePlace
  <2>3. CASE \E w \in Worker : UpsertPoints(w)
    BY <2>3, <1>e, <1>u, <1>f DEF SameClaim, SamePlace, Before
  <2>4. CASE (\A w \in Worker : SameClaim(w)) /\ (\A w \in Worker : SamePlace(w))
    BY <2>4, <1>e, <1>f DEF SameClaim, SamePlace
  <2> QED BY <2>1, <2>2, <2>3, <2>4, RunKeeps
(* The three parts. *)
<1>1. ASSUME NEW u \in Worker, run'[u].at \in Writing
      PROVE  run'[u].lease = leases'[JobOf(run'[u])] /\ Spent(JobOf(run[u]))'
  <2>1. PICK i \in Job : i = JobOf(run[u])
    BY <1>1, <1>c, <1>j
  <2>2. JobOf(run'[u]) = i /\ run'[u].lease = run[u].lease
    BY <1>1, <1>c, <1>f, <2>1 DEF SameClaim, JobOf
  <2>3. run[u].lease = leases'[i] /\ Spent(i)'
    <3>1. CASE run[u].at \in Writing
      BY <3>1, <2>1, <1>w
    <3>2. CASE MarkDispatched(u)
      BY <3>2, <2>1, <1>t DEF MarkDispatched, Holds, Q!Dispatch, Spent, QueueOK
    <3> QED BY <1>1, <1>c, <3>1, <3>2
  <2> QED BY <2>2, <2>3 DEF Spent, JobOf
<1>2. ASSUME NEW u \in Worker, run'[u].at \in Before
      PROVE  Claim(run'[u]) \notin Authors'
  <2>1. CASE SameClaim(u) /\ run[u].at \in Before
    <3>1. Claim(run'[u]) = Claim(run[u]) /\ Claim(run[u]) \notin Authors
      BY <1>2, <2>1, <1>b, <1>f DEF SameClaim, Claim, Unwritten
    <3>2. ASSUME NEW w \in Worker, ReplaceChunks(w) \/ UpsertPoints(w),
                 Claim(run[u]) = Claim(run[w])
          PROVE  FALSE
      <4>1. run[w].at \in Writing
        BY <3>2 DEF ReplaceChunks, UpsertPoints, Writing
      <4>2. JobOf(run[w]) = JobOf(run[u]) /\ run[w].lease = run[u].lease
        BY <3>2 DEF Claim, JobOf
      <4> QED BY <2>1, <4>1, <4>2, <1>f DEF Owned
    <3> QED BY <3>1, <3>2, AuthorsStep
  <2>2. CASE \E j \in Job : Lease(u, j)
    <3>1. PICK j \in Job : Lease(u, j)
      BY <2>2
    <3>2. /\ JobOf(run'[u]) = j /\ run'[u].lease = leases[j] + 1 /\ Authors' \subseteq Authors
      BY <3>1, <1>l
    <3>3. leases[j] \in Nat
      BY <1>t DEF QueueOK
    <3>4. SUFFICES ASSUME NEW a \in Authors, a = Claim(run'[u]) PROVE FALSE
      BY <3>2
    <3>5. <<a[1], a[2], a[3]>> = j /\ a[4] = leases[j] + 1
      BY <3>2, <3>4 DEF Claim, JobOf
    <3> QED BY <3>3, <3>5, <1>b DEF Author
  <2> QED BY <1>2, <1>e, <2>1, <2>2
<1>3. ASSUME NEW a \in Authors'
      PROVE  /\ <<a[1], a[2], a[3]>> \in Job
             /\ leases'[<<a[1], a[2], a[3]>>] = a[4]
             /\ Spent(<<a[1], a[2], a[3]>>)'
  <2>1. CASE a \in Authors
    BY <2>1, <1>a
  <2>2. CASE \E w \in Worker : (ReplaceChunks(w) \/ UpsertPoints(w)) /\ a = Claim(run[w])
    <3>1. PICK w \in Worker : (ReplaceChunks(w) \/ UpsertPoints(w)) /\ a = Claim(run[w])
      BY <2>2
    <3>2. run[w].at \in Writing
      BY <3>1 DEF ReplaceChunks, UpsertPoints, Writing
    <3>3. PICK i \in Job : i = JobOf(run[w])
      BY <3>2, <1>j, <1>f
    <3>4. <<a[1], a[2], a[3]>> = i /\ a[4] = run[w].lease
      BY <3>1, <3>3 DEF Claim, JobOf
    <3> QED BY <3>2, <3>3, <3>4, <1>w
  <2> QED BY <2>1, <2>2, AuthorsStep
<1>4. Writers'
  BY <1>1 DEF Writers, Spent, JobOf
<1>5. Unwritten'
  BY <1>2 DEF Unwritten, Claim
<1>6. (\A a \in Authors : Author(a))'
  BY <1>3 DEF Author
<1> QED
  BY <1>q, <1>4, <1>5, <1>6

-----------------------------------------------------------------------------
(* What is published is indexed. *)

\* Points that go away leave their object purged, and no object is purged twice over.
LEMMA PointsStep ==
  ASSUME Types, [Next]_vars
  PROVE  purged \subseteq purged' /\ \A p \in points : p \in points' \/ p[1] \in purged'
<1>1. ASSUME NEW r \in Request, RequestNext(r)
      PROVE  purged \subseteq purged' /\ \A p \in points : p \in points' \/ p[1] \in purged'
  <2>1. CASE DeleteDocumentPoints(r)
    BY <2>1 DEF DeleteDocumentPoints
  <2>2. CASE DropIndex(r)
    BY <2>2 DEF DropIndex
  <2>3. CASE ~DeleteDocumentPoints(r) /\ ~DropIndex(r)
    BY <1>1, <2>3 DEF RequestNext, EndRequest, UpsertObject, ReadObject, InsertObjectVersion,
       AddCollectionItem, Reprocess, NextGeneration, StageGeneration, EnqueueEmbed,
       ReadForDelete, TombstoneObject, DeleteObjectRows, DropCollection, ResolveSearch,
       SearchHybrid, index
  <2> QED BY <2>1, <2>2, <2>3
<1>2. ASSUME NEW w \in Worker, AttemptNext(w)
      PROVE  purged' = purged /\ points \subseteq points'
  BY <1>2 DEF AttemptNext, Lease, LoadVersion, CheckLatest, MarkSuperseded,
     SaveParsedDocument, MarkDispatched, ReplaceChunks, UpsertPoints, MarkPublished, Err,
     Complete, Fail, ContextDone, Crash, Settle, index
<1>3. ASSUME NEW j \in Job, Sweep(j) \/ CancelJob(j) PROVE UNCHANGED index
  BY <1>3 DEF Sweep, CancelJob
<1>4. CASE UNCHANGED vars
  BY <1>4 DEF vars, index
<1> QED
  BY <1>1, <1>2, <1>3, <1>4 DEF Next, index

\* The object's row, its generations and its chunk rows.
RowsKept == obj'.id = obj.id /\ gens' = gens /\ chunks' = chunks
Cleared ==
  /\ \A v \in Version, g \in Generation : gens'[v][g] = "none"
  /\ \A v \in Version : chunks'[v] = NoChunks
Marks(w, state) ==
  /\ obj.id # 0 /\ obj'.id = obj.id /\ run[w].o = obj.id
  /\ gens' = [gens EXCEPT ![run[w].v][run[w].g] = state]
Stages ==
  /\ obj.id # 0 /\ obj'.id = obj.id
  /\ \E v \in Version, g \in Generation : gens' = [gens EXCEPT ![v][g] = "staging"]

\* A step keeps the rows, clears them, stages a generation or records how an attempt ended.
LEMMA RowsStep ==
  ASSUME Types, Indexed, [Next]_vars
  PROVE  \/ RowsKept
         \/ Cleared
         \/ Stages
         \/ \E w \in Worker : run[w].at = "supersede" /\ Marks(w, "superseded")
         \/ \E w \in Worker : run[w].at = "publish" /\ Marks(w, "published")
<1>1. ASSUME NEW r \in Request, RequestNext(r)
      PROVE  RowsKept \/ Cleared \/ Stages
  <2>1. CASE UpsertObject(r)
    <3>1. gens' = gens /\ chunks' = chunks
      BY <2>1 DEF UpsertObject
    <3>2. CASE obj.id = 0
      BY <3>1, <3>2 DEF Indexed, Cleared
    <3>3. CASE obj.id # 0
      BY <2>1, <3>1, <3>3 DEF UpsertObject, RowsKept
    <3> QED BY <3>2, <3>3
  <2>2. CASE InsertObjectVersion(r)
    BY <2>2 DEF InsertObjectVersion, RowsKept, Types, TypeOK
  <2>3. CASE TombstoneObject(r)
    BY <2>3 DEF TombstoneObject, RowsKept, Types, TypeOK
  <2>4. CASE DeleteObjectRows(r)
    <3>1. CASE obj.id = req[r].o /\ parsed = {}
      BY <2>4, <3>1 DEF DeleteObjectRows, Cleared
    <3>2. CASE ~(obj.id = req[r].o /\ parsed = {})
      BY <2>4, <3>2 DEF DeleteObjectRows, RowsKept
    <3> QED BY <3>1, <3>2
  <2>5. CASE StageGeneration(r)
    <3>1. /\ obj.id # 0 /\ obj' = obj
          /\ gens' = [gens EXCEPT ![req[r].v][req[r].g] = "staging"]
      BY <2>5 DEF StageGeneration, HasVersion
    <3>2. req[r] \in ReqRec /\ ReqOK(req[r]) /\ req[r].at = "stage"
      BY <2>5 DEF StageGeneration, Types, ReqsOK
    <3>3. req[r].v \in Version /\ req[r].g \in Generation
      BY <3>2, RagAssumption DEF ReqOK, ReqRec, Version, Generation
    <3> QED BY <3>1, <3>3 DEF Stages
  <2>6. CASE \/ EndRequest(r) \/ ReadObject(r) \/ AddCollectionItem(r) \/ Reprocess(r)
             \/ NextGeneration(r) \/ EnqueueEmbed(r) \/ DeleteDocumentPoints(r) \/ DropIndex(r)
             \/ ReadForDelete(r) \/ DropCollection(r) \/ ResolveSearch(r) \/ SearchHybrid(r)
    BY <2>6 DEF EndRequest, ReadObject, AddCollectionItem, Reprocess, NextGeneration,
       EnqueueEmbed, DeleteDocumentPoints, DropIndex, ReadForDelete, DropCollection,
       ResolveSearch, SearchHybrid, rows, RowsKept
  <2> QED BY <1>1, <2>1, <2>2, <2>3, <2>4, <2>5, <2>6 DEF RequestNext
<1>2. ASSUME NEW w \in Worker, AttemptNext(w)
      PROVE  \/ RowsKept \/ Stages
             \/ run[w].at = "supersede" /\ Marks(w, "superseded")
             \/ run[w].at = "publish" /\ Marks(w, "published")
  <2>1. CASE ReplaceChunks(w)
    <3>1. /\ obj.id # 0 /\ obj' = obj
          /\ gens' = [gens EXCEPT ![run[w].v][run[w].g] = "staging"]
      BY <2>1 DEF ReplaceChunks, HasVersion
    <3>2. run[w].v \in Version /\ run[w].g \in Generation
      BY <2>1, RunJob DEF ReplaceChunks, Types
    <3> QED BY <3>1, <3>2 DEF Stages
  <2>2. CASE MarkSuperseded(w)
    BY <2>2 DEF MarkSuperseded, HasGeneration, HasVersion, Marks, RowsKept
  <2>3. CASE MarkPublished(w)
    BY <2>3 DEF MarkPublished, HasGeneration, HasVersion, Marks
  <2>4. CASE \/ \E j \in Job : Lease(w, j)
             \/ LoadVersion(w) \/ CheckLatest(w) \/ SaveParsedDocument(w)
             \/ MarkDispatched(w) \/ UpsertPoints(w)
             \/ Err(w) \/ Complete(w) \/ Fail(w) \/ ContextDone(w) \/ Crash(w)
    BY <2>4 DEF Lease, LoadVersion, CheckLatest, SaveParsedDocument, MarkDispatched,
       UpsertPoints, Err, Complete, Fail, ContextDone, Crash, Settle, rows, RowsKept
  <2> QED BY <1>2, <2>1, <2>2, <2>3, <2>4 DEF AttemptNext
<1>3. ASSUME NEW j \in Job, Sweep(j) \/ CancelJob(j) PROVE RowsKept
  BY <1>3 DEF Sweep, CancelJob, rows, RowsKept
<1>4. CASE UNCHANGED vars
  BY <1>4 DEF vars, rows, RowsKept
<1> QED
  BY <1>1, <1>2, <1>3, <1>4 DEF Next

\* An attempt about to publish has written its points, or they were deleted since.
PublisherIndexed(w) ==
  run[w].at = "publish" => Claim(run[w]) \in points \/ run[w].o \in purged
NoneLeft ==
  obj.id = 0 => /\ \A v \in Version, g \in Generation : gens[v][g] = "none"
                /\ \A v \in Version : chunks[v] = NoChunks

LEMMA IndexedStep ==
  ASSUME Types, Indexed, [Next]_vars
  PROVE  Indexed'
<1>t. RunsOK /\ gens \in [Version -> [Generation ->
                             {"none", "staging", "published", "superseded"}]]
  BY DEF Types, TypeOK
<1>a. NoneLeft /\ PublishedIsIndexed /\ \A w \in Worker : PublisherIndexed(w)
  BY DEF Indexed, NoneLeft, PublisherIndexed, Claim
<1>q. Indexed' <=> NoneLeft' /\ PublishedIsIndexed' /\ (\A w \in Worker : PublisherIndexed(w))'
  BY DEF Indexed, NoneLeft, PublisherIndexed, Claim
<1>p. purged \subseteq purged' /\ \A p \in points : p \in points' \/ p[1] \in purged'
  BY PointsStep
<1>k. \A w \in Worker : run[w].at # "free" =>
        run[w].v \in Version /\ run[w].g \in Generation /\ run[w].lease \in 1..MaxLeases
  BY <1>t, RunJob
<1>1. NoneLeft'
  <2>1. CASE RowsKept
    BY <2>1, <1>a DEF RowsKept, NoneLeft
  <2>2. CASE Cleared
    BY <2>2 DEF Cleared, NoneLeft, NoChunks
  <2>3. CASE obj.id # 0 /\ obj'.id = obj.id
    BY <2>3 DEF NoneLeft
  <2> QED BY <2>1, <2>2, <2>3, RowsStep DEF Stages, Marks
<1>2. ASSUME NEW w \in Worker, run'[w].at = "publish"
      PROVE  Claim(run'[w]) \in points' \/ run'[w].o \in purged'
  <2>1. CASE SameClaim(w) /\ run[w].at = "publish"
    <3>1. Claim(run'[w]) = Claim(run[w]) /\ run'[w].o = run[w].o
      BY <2>1, <1>2 DEF SameClaim, Claim
    <3> QED BY <2>1, <3>1, <1>a, <1>p DEF PublisherIndexed, Claim
  <2>2. CASE UpsertPoints(w)
    <3>1. Claim(run'[w]) = Claim(run[w])
      BY <2>2, <1>2, <1>t, StepKeeps DEF UpsertPoints, SameClaim, RunAt, Working, Claim
    <3> QED BY <2>2, <3>1 DEF UpsertPoints, Claim
  <2>3. CASE \E u \in Worker, j \in Job : Lease(u, j)
    <3>1. PICK u \in Worker, j \in Job : Lease(u, j)
      BY <2>3
    <3>2. u # w /\ run'[w] = run[w]
      BY <3>1, <1>2, <1>t DEF Lease, RunsOK
    <3> QED BY <3>2, <2>1, <1>2 DEF SameClaim
  <2>4. CASE \E u \in Worker : MarkDispatched(u)
    <3>1. PICK u \in Worker : MarkDispatched(u)
      BY <2>4
    <3>2. SameClaim(w) /\ (u # w => SamePlace(w)) /\ run'[u].at \in {"chunks", "lost"}
      BY <3>1, <1>t, StepKeeps DEF MarkDispatched, RunAt, Working
    <3> QED BY <3>2, <2>1, <1>2 DEF SamePlace
  <2>5. CASE \E u \in Worker \ {w} : UpsertPoints(u)
    <3>1. PICK u \in Worker \ {w} : UpsertPoints(u)
      BY <2>5
    <3>2. SameClaim(w) /\ SamePlace(w)
      BY <3>1, <1>t, StepKeeps DEF UpsertPoints, RunAt, Working
    <3> QED BY <3>2, <2>1, <1>2 DEF SamePlace
  <2>6. CASE (\A u \in Worker : SameClaim(u)) /\ (\A u \in Worker : SamePlace(u))
    BY <2>6, <2>1, <1>2 DEF SamePlace
  <2> QED BY <2>2, <2>3, <2>4, <2>5, <2>6, RunKeeps
<1>3. ASSUME NEW v \in Version, NEW g \in Generation, gens'[v][g] = "published",
             obj'.id \notin purged'
      PROVE  \E l \in 1..MaxLeases : <<obj'.id, v, g, l>> \in points'
  <2>1. ASSUME gens[v][g] = "published", obj'.id = obj.id
        PROVE  \E l \in 1..MaxLeases : <<obj'.id, v, g, l>> \in points'
    <3>1. PICK l \in 1..MaxLeases : <<obj.id, v, g, l>> \in points
      BY <2>1, <1>3, <1>a, <1>p DEF PublishedIsIndexed
    <3> QED BY <3>1, <2>1, <1>3, <1>p
  <2>2. CASE \E w \in Worker : run[w].at = "publish" /\ Marks(w, "published")
    <3>1. PICK w \in Worker : run[w].at = "publish" /\ Marks(w, "published")
      BY <2>2
    <3>2. CASE v = run[w].v /\ g = run[w].g
      <4>1. Claim(run[w]) \in points /\ run[w].o = obj'.id
        BY <3>1, <1>a, <1>p, <1>3 DEF Marks, PublisherIndexed
      <4>2. Claim(run[w]) \in points'
        BY <4>1, <1>p, <1>3 DEF Claim
      <4> QED BY <4>1, <4>2, <3>1, <3>2, <1>k DEF Claim
    <3>3. CASE ~(v = run[w].v /\ g = run[w].g)
      <4>1. gens[v][g] = "published" /\ obj'.id = obj.id
        BY <3>1, <3>3, <1>3, <1>t, <1>k DEF Marks
      <4> QED BY <4>1, <2>1
    <3> QED BY <3>2, <3>3
  <2>3. CASE \E w \in Worker : run[w].at = "supersede" /\ Marks(w, "superseded")
    BY <2>1, <2>3, <1>3, <1>t, <1>k DEF Marks
  <2>4. CASE Stages
    BY <2>1, <2>4, <1>3, <1>t DEF Stages
  <2>5. CASE RowsKept
    BY <2>1, <2>5, <1>3 DEF RowsKept
  <2>6. CASE Cleared
    BY <2>6, <1>3 DEF Cleared
  <2> QED BY <2>2, <2>3, <2>4, <2>5, <2>6, RowsStep
<1>4. PublishedIsIndexed'
  BY <1>3 DEF PublishedIsIndexed
<1>5. (\A w \in Worker : PublisherIndexed(w))'
  BY <1>2 DEF PublisherIndexed, Claim
<1> QED
  BY <1>q, <1>1, <1>4, <1>5

-----------------------------------------------------------------------------
(* What was deleted is not served. *)

\* A request finds nothing, and does not begin to search.
ReqKept(q) ==
  /\ req'[q].at = "search" =>
       req[q].at = "search" /\ req'[q].o = req[q].o /\ req'[q].old = req[q].old
  /\ req'[q].hits = {} \/ (req'[q].hits = req[q].hits /\ req'[q].old = req[q].old)

\* A request that begins or ends has found nothing.
LEMMA FreshKept ==
  ASSUME ReqsOK, NEW r \in Request, NEW x, x.hits = {}, x.at # "search",
         req' = [req EXCEPT ![r] = x]
  PROVE  \A q \in Request : ReqKept(q)
<1>1. \A q \in Request : req'[q] = IF q = r THEN x ELSE req[q]
  BY DEF ReqsOK
<1> QED BY <1>1 DEF ReqKept

LEMMA MoveKept ==
  ASSUME ReqsOK, NEW r \in Request, NEW to, to # "search", Move(r, to)
  PROVE  \A q \in Request : ReqKept(q)
<1> DEFINE x == [req[r] EXCEPT !.at = to]
<1>1. req[r] \in ReqRec
  BY DEF ReqsOK
<1>2. x.at = to /\ x.hits = req[r].hits /\ x.old = req[r].old
  BY <1>1 DEF ReqRec
<1>3. req' = [req EXCEPT ![r] = x]
  BY DEF Move
<1> HIDE DEF x
<1>4. \A q \in Request : req'[q] = IF q = r THEN x ELSE req[q]
  BY <1>3 DEF ReqsOK
<1> QED BY <1>2, <1>4 DEF ReqKept

\* Every step but those of a search keeps what the requests found.
LEMMA SearchStep ==
  ASSUME Types, [Next]_vars
  PROVE  \/ \A q \in Request : ReqKept(q)
         \/ \E r \in Request : ResolveSearch(r) \/ SearchHybrid(r)
<1>r. ReqsOK
  BY DEF Types
<1>0. ASSUME UNCHANGED req PROVE \A q \in Request : ReqKept(q)
  BY <1>0 DEF ReqKept
<1>1. ASSUME NEW r \in Request, RequestNext(r), ~ResolveSearch(r), ~SearchHybrid(r)
      PROVE  \A q \in Request : ReqKept(q)
  <2>1. CASE EndRequest(r) \/ EnqueueEmbed(r) \/ DeleteObjectRows(r) \/ DropCollection(r)
    <3>1. req' = [req EXCEPT ![r] = Idle]
      BY <2>1 DEF EndRequest, EnqueueEmbed, DeleteObjectRows, DropCollection
    <3>2. Idle.hits = {} /\ Idle.at # "search"
      BY DEF Idle
    <3> QED BY <1>r, <3>1, <3>2, FreshKept
  <2>2. CASE InsertObjectVersion(r) \/ AddCollectionItem(r) \/ StageGeneration(r)
             \/ DeleteDocumentPoints(r) \/ TombstoneObject(r)
    BY <1>r, <2>2, MoveKept DEF InsertObjectVersion, AddCollectionItem, StageGeneration,
       DeleteDocumentPoints, TombstoneObject
  <2>3. CASE UpsertObject(r)
    <3> DEFINE x == [Idle EXCEPT !.at = "read", !.o = obj'.id]
    <3>1. x.hits = {} /\ x.at # "search" /\ req' = [req EXCEPT ![r] = x]
      BY <2>3 DEF UpsertObject, Idle
    <3> HIDE DEF x
    <3> QED BY <1>r, <3>1, FreshKept
  <2>4. CASE Reprocess(r)
    <3> DEFINE x == [Idle EXCEPT !.at = "number", !.o = obj.id, !.v = obj.seq]
    <3>1. x.hits = {} /\ x.at # "search" /\ req' = [req EXCEPT ![r] = x]
      BY <2>4 DEF Reprocess, Idle
    <3> HIDE DEF x
    <3> QED BY <1>r, <3>1, FreshKept
  <2>5. CASE ReadForDelete(r)
    <3> DEFINE x == [Idle EXCEPT !.at = "purge", !.o = obj.id]
    <3>1. x.hits = {} /\ x.at # "search" /\ req' = [req EXCEPT ![r] = x]
      BY <2>5 DEF ReadForDelete, Idle
    <3> HIDE DEF x
    <3> QED BY <1>r, <3>1, FreshKept
  <2>6. CASE DropIndex(r)
    <3> DEFINE x == [Idle EXCEPT !.at = "drop"]
    <3>1. x.hits = {} /\ x.at # "search" /\ req' = [req EXCEPT ![r] = x]
      BY <2>6 DEF DropIndex, Idle
    <3> HIDE DEF x
    <3> QED BY <1>r, <3>1, FreshKept
  <2>7. CASE ReadObject(r)
    <3> DEFINE x == [req[r] EXCEPT !.at = "insert", !.v = obj.seq + 1]
    <3>1. req' = [req EXCEPT ![r] = x]
      BY <2>7 DEF ReadObject
    <3>2. x.at = "insert" /\ x.hits = req[r].hits /\ x.old = req[r].old
      BY <1>r DEF ReqsOK, ReqRec
    <3> HIDE DEF x
    <3>3. \A q \in Request : req'[q] = IF q = r THEN x ELSE req[q]
      BY <1>r, <3>1 DEF ReqsOK
    <3> QED BY <3>2, <3>3 DEF ReqKept
  <2>8. CASE NextGeneration(r)
    <3>1. PICK g \in Generation : req' = [req EXCEPT ![r].at = "stage", ![r].g = g]
      BY <2>8 DEF NextGeneration
    <3> DEFINE x == [req[r] EXCEPT !.at = "stage", !.g = g]
    <3>2. req' = [req EXCEPT ![r] = x]
      BY <3>1
    <3>3. x.at = "stage" /\ x.hits = req[r].hits /\ x.old = req[r].old
      BY <1>r DEF ReqsOK, ReqRec
    <3> HIDE DEF x
    <3>4. \A q \in Request : req'[q] = IF q = r THEN x ELSE req[q]
      BY <1>r, <3>2 DEF ReqsOK
    <3> QED BY <3>3, <3>4 DEF ReqKept
  <2> QED BY <1>1, <2>1, <2>2, <2>3, <2>4, <2>5, <2>6, <2>7, <2>8 DEF RequestNext
<1>2. ASSUME NEW w \in Worker, AttemptNext(w) PROVE UNCHANGED req
  BY <1>2 DEF AttemptNext, Lease, LoadVersion, CheckLatest, MarkSuperseded,
     SaveParsedDocument, MarkDispatched, ReplaceChunks, UpsertPoints, MarkPublished, Err,
     Complete, Fail, ContextDone, Crash, Settle
<1>3. ASSUME NEW j \in Job, Sweep(j) \/ CancelJob(j) PROVE UNCHANGED req
  BY <1>3 DEF Sweep, CancelJob
<1>4. CASE UNCHANGED vars
  BY <1>0, <1>4 DEF vars
<1> QED
  BY <1>0, <1>1, <1>2, <1>3, <1>4 DEF Next

\* Tombstones are of identifiers given out, and a new object's is fresh.
LEMMA GoneStep ==
  ASSUME Types, gone \subseteq 1..made, obj.id \in gone => obj.dead, [Next]_vars
  PROVE  gone' \subseteq 1..made' /\ (obj'.id \in gone' => obj'.dead)
<1>t. made \in Nat /\ obj.id \in Nat /\ obj.id <= made
      /\ obj \in [id : 0..MaxObjects, seq : 0..MaxVersions, dead : BOOLEAN]
  BY RagAssumption DEF Types, TypeOK
<1>0. ASSUME gone' = gone, made' = made, obj'.id = obj.id, obj'.dead = obj.dead
      PROVE  gone' \subseteq 1..made' /\ (obj'.id \in gone' => obj'.dead)
  BY <1>0
<1>1. ASSUME NEW r \in Request, RequestNext(r)
      PROVE  gone' \subseteq 1..made' /\ (obj'.id \in gone' => obj'.dead)
  <2>1. CASE UpsertObject(r)
    <3>1. CASE obj.id = 0
      <4>1. obj'.id = made + 1 /\ made' = made + 1 /\ gone' = gone
        BY <2>1, <3>1 DEF UpsertObject
      <4> QED BY <4>1, <1>t
    <3>2. CASE obj.id # 0
      BY <2>1, <3>2, <1>0 DEF UpsertObject
    <3> QED BY <3>1, <3>2
  <2>2. CASE InsertObjectVersion(r)
    BY <2>2, <1>0, <1>t DEF InsertObjectVersion
  <2>3. CASE TombstoneObject(r)
    <3>1. /\ obj.id = req[r].o /\ made' = made /\ gone' = gone \cup {req[r].o}
          /\ obj' = [obj EXCEPT !.dead = TRUE]
      BY <2>3 DEF TombstoneObject
    <3>2. ReqOK(req[r]) /\ req[r].at = "tombstone"
      BY <2>3 DEF TombstoneObject, Types, ReqsOK
    <3>3. req[r].o # 0
      BY <3>2 DEF ReqOK
    <3> QED BY <3>1, <3>3, <1>t
  <2>4. CASE DeleteObjectRows(r)
    <3>1. CASE obj.id = req[r].o /\ parsed = {}
      <4>1. obj'.id = 0 /\ made' = made /\ gone' = gone
        BY <2>4, <3>1 DEF DeleteObjectRows
      <4> QED BY <4>1, <1>t
    <3>2. CASE ~(obj.id = req[r].o /\ parsed = {})
      BY <2>4, <3>2, <1>0 DEF DeleteObjectRows
    <3> QED BY <3>1, <3>2
  <2>5. CASE \/ EndRequest(r) \/ ReadObject(r) \/ AddCollectionItem(r) \/ Reprocess(r)
             \/ NextGeneration(r) \/ StageGeneration(r) \/ EnqueueEmbed(r)
             \/ DeleteDocumentPoints(r) \/ DropIndex(r)
             \/ ReadForDelete(r) \/ DropCollection(r) \/ ResolveSearch(r) \/ SearchHybrid(r)
    <3>1. gone' = gone /\ made' = made /\ obj' = obj
      BY <2>5 DEF EndRequest, ReadObject, AddCollectionItem, Reprocess, NextGeneration,
         StageGeneration, EnqueueEmbed, DeleteDocumentPoints, DropIndex, ReadForDelete,
         DropCollection, ResolveSearch, SearchHybrid, rows
    <3> QED BY <3>1, <1>0
  <2> QED BY <1>1, <2>1, <2>2, <2>3, <2>4, <2>5 DEF RequestNext
<1>2. ASSUME NEW w \in Worker, AttemptNext(w)
      PROVE  gone' = gone /\ made' = made /\ obj' = obj
  BY <1>2 DEF AttemptNext, Lease, LoadVersion, CheckLatest, MarkSuperseded,
     SaveParsedDocument, MarkDispatched, ReplaceChunks, UpsertPoints, MarkPublished, Err,
     Complete, Fail, ContextDone, Crash, Settle, rows
<1>3. ASSUME NEW j \in Job, Sweep(j) \/ CancelJob(j)
      PROVE  gone' = gone /\ made' = made /\ obj' = obj
  BY <1>3 DEF Sweep, CancelJob, rows
<1>4. CASE UNCHANGED vars
  BY <1>0, <1>4 DEF vars, rows
<1> QED
  BY <1>0, <1>1, <1>2, <1>3, <1>4 DEF Next

LEMMA TombstonedStep ==
  ASSUME Types, Tombstoned, [Next]_vars
  PROVE  Tombstoned'
<1>1. gone' \subseteq 1..made' /\ (obj'.id \in gone' => obj'.dead)
  BY GoneStep DEF Tombstoned
<1>r. ReqsOK
  BY DEF Types
<1>2. /\ \A r \in Request : req'[r].at = "search" => req'[r].o \notin req'[r].old
      /\ \A r \in Request : \A p \in req'[r].hits : p[1] \notin req'[r].old
  <2>1. CASE \A q \in Request : ReqKept(q)
    BY <2>1 DEF ReqKept, Tombstoned, DeletedNotServed
  <2>2. CASE \E r \in Request : ResolveSearch(r)
    <3>1. PICK r \in Request : ResolveSearch(r)
      BY <2>2
    <3> DEFINE x == [Idle EXCEPT !.at = "search", !.o = obj.id, !.v = obj.seq, !.old = gone]
    <3>2. x.o = obj.id /\ x.old = gone /\ x.hits = {} /\ req' = [req EXCEPT ![r] = x]
      BY <3>1 DEF ResolveSearch, Idle
    <3>3. obj.id \notin gone
      BY <3>1 DEF ResolveSearch, Ready, HasDocument, Tombstoned
    <3> HIDE DEF x
    <3>4. \A q \in Request : req'[q] = IF q = r THEN x ELSE req[q]
      BY <1>r, <3>2 DEF ReqsOK
    <3> QED BY <3>2, <3>3, <3>4 DEF Tombstoned, DeletedNotServed
  <2>3. CASE \E r \in Request : SearchHybrid(r)
    <3>1. PICK r \in Request : SearchHybrid(r)
      BY <2>3
    <3> DEFINE x == [req[r] EXCEPT !.at = "answer", !.hits = Matches(req[r])]
    <3>2. req' = [req EXCEPT ![r] = x]
      BY <3>1 DEF SearchHybrid
    <3>3. x.at = "answer" /\ x.hits = Matches(req[r]) /\ x.old = req[r].old
      BY <1>r DEF ReqsOK, ReqRec
    <3> HIDE DEF x
    <3>4. \A q \in Request : req'[q] = IF q = r THEN x ELSE req[q]
      BY <1>r, <3>2 DEF ReqsOK
    <3>5. \A p \in x.hits : p[1] = req[r].o
      BY <3>3 DEF Matches
    <3>6. req[r].o \notin req[r].old
      BY <3>1 DEF SearchHybrid, Tombstoned
    <3> QED BY <3>3, <3>4, <3>5, <3>6 DEF Tombstoned, DeletedNotServed
  <2> QED BY <2>1, <2>2, <2>3, SearchStep
<1> QED
  BY <1>1, <1>2 DEF Tombstoned, DeletedNotServed

-----------------------------------------------------------------------------
(* The theorems. *)

LEMMA InitIInv == Init => IInv
<1> SUFFICES ASSUME Init PROVE IInv
  OBVIOUS
<1> USE RagAssumption
<1>1. Types
  <2>1. ReqsOK
    <3>1. \A r \in Request : req[r] = Idle
      BY DEF Init
    <3>2. Idle \in ReqRec
      BY IdleOK DEF ReqOK
    <3> QED BY <3>1, <3>2, IdleOK DEF ReqsOK, ReqOK, Init
  <2>2. RunsOK
    <3>1. \A w \in Worker : run[w] = Free
      BY DEF Init
    <3>2. Free \in RunRec
      BY FreeOK DEF RunOK
    <3> QED BY <3>1, <3>2, FreeOK DEF RunsOK, RunOK, Init
  <2>3. QueueOK
    BY DEF Init, Q!CInit, QueueOK, Q!Phase, Q!Settled
  <2>4. chunks \in [Version -> (0..MaxGenerations) \X (0..MaxLeases)]
    <3>1. NoChunks \in (0..MaxGenerations) \X (0..MaxLeases)
      BY DEF NoChunks
    <3> QED BY <3>1 DEF Init
  <2>5. gens \in [Version -> [Generation -> {"none", "staging", "published", "superseded"}]]
    BY DEF Init
  <2>6. TypeOK /\ obj.id <= made
    <3>1. /\ obj \in [id : 0..MaxObjects, seq : 0..MaxVersions, dead : BOOLEAN]
          /\ obj.id <= made
      BY DEF Init
    <3>2. made \in 0..MaxObjects /\ writes \in 0..MaxWrites /\ faults \in 0..MaxFaults
      BY DEF Init
    <3> QED BY <2>4, <2>5, <3>1, <3>2 DEF Init, TypeOK
  <2> QED BY <2>1, <2>2, <2>3, <2>6 DEF Types
<1>2. \A w \in Worker : run[w].at = "free"
  BY DEF Init, Free
<1>3. Authors = {}
  BY DEF Init, Authors
<1>4. Owned
  BY <1>2 DEF Owned
<1>5. ByLast
  BY <1>2, <1>3 DEF ByLast, Writing, Before
<1>6. Indexed
  BY <1>2 DEF Indexed, PublishedIsIndexed, Init
<1>7. Tombstoned
  BY DEF Tombstoned, DeletedNotServed, Init, Idle
<1> QED
  BY <1>1, <1>4, <1>5, <1>6, <1>7 DEF IInv

LEMMA Inductive == Spec => []IInv
<1>1. IInv /\ [Next]_vars => IInv'
  BY TypeStep, OwnedStep, ByLastStep, IndexedStep, TombstonedStep DEF IInv
<1> QED
  BY InitIInv, <1>1, PTL DEF Spec

\* The rows, the index and the bounds keep their types.
THEOREM RagTypes == Spec => []TypeOK
<1>1. IInv => TypeOK
  BY DEF IInv, Types
<1> QED
  BY Inductive, <1>1, PTL

\* What a published generation's document is searched by is in the index.
THEOREM PublishedAreIndexed == Spec => []PublishedIsIndexed
<1>1. IInv => PublishedIsIndexed
  BY DEF IInv, Indexed
<1> QED
  BY Inductive, <1>1, PTL

\* However leases expire and attempts overlap, one attempt of a job writes to the index.
THEOREM AuthorIsUnique == Spec => []OneAuthor
<1>1. IInv => OneAuthor
  <2> SUFFICES ASSUME IInv, NEW p \in points, NEW q \in points,
                      p[1] = q[1], p[2] = q[2], p[3] = q[3]
               PROVE  p[4] = q[4]
    BY DEF OneAuthor
  <2>1. Author(p) /\ Author(q)
    BY DEF IInv, ByLast, Authors
  <2> QED BY <2>1 DEF Author
<1> QED
  BY Inductive, <1>1, PTL

\* The chunk rows a published generation shows are those it indexed: the lease that wrote
\* its points is the lease that wrote them.
THEOREM PublishedRowsAreIndexed == Spec => []PublishedRowsIndexed
<1>1. IInv => PublishedRowsIndexed
  <2> SUFFICES ASSUME IInv, NEW v \in Version, NEW g \in Generation,
                      gens[v][g] = "published", chunks[v][1] = g, obj.id \notin purged
               PROVE  <<obj.id, v, g, chunks[v][2]>> \in points
    BY DEF PublishedRowsIndexed
  <2>1. PICK l \in 1..MaxLeases : <<obj.id, v, g, l>> \in points
    BY DEF IInv, Indexed, PublishedIsIndexed
  <2>2. chunks[v] # NoChunks
    BY DEF NoChunks, Generation
  <2>3. <<obj.id, v, g, l>> \in Authors /\ <<obj.id, v, g, chunks[v][2]>> \in Authors
    BY <2>1, <2>2 DEF Authors
  <2>4. Author(<<obj.id, v, g, l>>) /\ Author(<<obj.id, v, g, chunks[v][2]>>)
    BY <2>3 DEF IInv, ByLast
  <2>5. l = chunks[v][2]
    BY <2>4 DEF Author
  <2> QED BY <2>1, <2>5
<1> QED
  BY Inductive, <1>1, PTL

\* A search returns nothing that was tombstoned when it began.
THEOREM DeletedAreNotServed == Spec => []DeletedNotServed
<1>1. IInv => DeletedNotServed
  BY DEF IInv, Tombstoned
<1> QED
  BY Inductive, <1>1, PTL
=============================================================================
