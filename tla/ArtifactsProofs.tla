-------------------------- MODULE ArtifactsProofs --------------------------
(***************************************************************************)
(* Theorems about the artifact store, for every set of artifacts and        *)
(* processes, every lease and every clock.                                  *)
(***************************************************************************)
EXTENDS Artifacts, TLAPS

-----------------------------------------------------------------------------
(* Types. *)

RowRecord == [state : State, reason : Reason, lease : Nat, finalizedAt : Nat \cup {Null}]
PassRecord == [pc : RecPC, now : Nat, todo : SUBSET Artifact, on : Artifact \cup {None},
               finals : SUBSET Artifact, errs : BOOLEAN, left : SUBSET Artifact]

LEMMA TombstonedType ==
  ASSUME NEW r \in RowRecord, NEW reason \in Reason
  PROVE  Tombstoned(r, reason) \in RowRecord
BY DEF Tombstoned, RowRecord, State

LEMMA UpdateStateType ==
  ASSUME TypeOK, NEW a, NEW reason \in Reason, UpdateState(a, reason)
  PROVE  row' \in [Artifact -> RowRecord]
<1>1. row \in [Artifact -> RowRecord]
  BY DEF TypeOK, RowRecord
<1>2. a \in Artifact => Tombstoned(row[a], reason) \in RowRecord
  BY <1>1, TombstonedType
<1> QED BY <1>1, <1>2 DEF UpdateState

LEMMA RemoveType ==
  ASSUME TypeOK, NEW a, NEW place \in Place,
         Remove(a, place) \/ UNCHANGED files
  PROVE  disk' \in [Artifact -> SUBSET Place] /\ dirty' \in SUBSET Artifact
BY DEF TypeOK, Remove, files

LEMMA GotoType ==
  ASSUME TypeOK, NEW a \in Artifact, NEW pc \in WriterPC, Goto(a, pc)
  PROVE  writer' \in [Artifact -> [pc : WriterPC, lease : Nat]]
BY DEF TypeOK, Goto

LEMMA SetType ==
  ASSUME TypeOK, NEW p \in Process, NEW r \in PassRecord, Set(p, r)
  PROVE  rec' \in [Process -> PassRecord]
BY DEF TypeOK, Set, PassRecord

\* A step of a writer.
LEMMA WriteType ==
  ASSUME TypeOK, NEW a \in Artifact, Write(a)
  PROVE  TypeOK'
<1> USE DEF WriterPC
<1>1. CASE Begin(a)
  BY <1>1, ClockAssumption DEF Begin, TypeOK
<1>2. CASE BeginInsert(a)
  <2>1. writer' \in [Artifact -> [pc : WriterPC, lease : Nat]]
    BY <1>2, GotoType DEF BeginInsert
  <2>2. row' \in [Artifact -> RowRecord]
    BY <1>2 DEF BeginInsert, Inserted, TypeOK, RowRecord, State, Reason
  <2> QED BY <1>2, <2>1, <2>2 DEF BeginInsert, TypeOK, RowRecord
<1>3. CASE Create(a)
  <2>1. writer' \in [Artifact -> [pc : WriterPC, lease : Nat]]
    BY <1>3, GotoType DEF Create
  <2>2. disk' \in [Artifact -> SUBSET Place]
    BY <1>3 DEF Create, TypeOK, Place
  <2> QED BY <1>3, <2>1, <2>2 DEF Create, TypeOK
<1>4. CASE GiveUp(a) \/ Verify(a)
  <2>1. writer' \in [Artifact -> [pc : WriterPC, lease : Nat]]
    BY <1>4, GotoType DEF GiveUp, Verify
  <2> QED BY <1>4, <2>1 DEF GiveUp, Verify, TypeOK
<1>5. CASE Rename(a)
  <2>1. writer' \in [Artifact -> [pc : WriterPC, lease : Nat]]
    BY <1>5, GotoType DEF Rename
  <2>2. disk' \in [Artifact -> SUBSET Place] /\ dirty' \in SUBSET Artifact
    BY <1>5 DEF Rename, files, TypeOK, Place
  <2> QED BY <1>5, <2>1, <2>2 DEF Rename, TypeOK
<1>6. CASE SyncDir(a)
  <2>1. writer' \in [Artifact -> [pc : WriterPC, lease : Nat]]
    BY <1>6, GotoType DEF SyncDir
  <2> QED BY <1>6, <2>1 DEF SyncDir, TypeOK
<1>7. CASE FinalizeCommit(a)
  <2>1. writer' \in [Artifact -> [pc : WriterPC, lease : Nat]]
    BY <1>7, GotoType DEF FinalizeCommit
  <2>2. row' \in [Artifact -> RowRecord]
    BY <1>7, ClockAssumption DEF FinalizeCommit, Committed, TypeOK, RowRecord, State
  <2> QED BY <1>7, <2>1, <2>2 DEF FinalizeCommit, TypeOK, RowRecord
<1>8. CASE Rollback(a) \/ AbortPart(a) \/ AbortDurable(a)
  <2>1. writer' \in [Artifact -> [pc : WriterPC, lease : Nat]]
    BY <1>8, GotoType DEF Rollback, AbortPart, AbortDurable
  <2>2. disk' \in [Artifact -> SUBSET Place] /\ dirty' \in SUBSET Artifact
    BY <1>8, RemoveType DEF Rollback, AbortPart, AbortDurable, TryRemove, Place
  <2> QED BY <1>8, <2>1, <2>2 DEF Rollback, AbortPart, AbortDurable, TypeOK
<1>9. CASE AbortRow(a)
  <2>1. writer' \in [Artifact -> [pc : WriterPC, lease : Nat]]
    BY <1>9, GotoType DEF AbortRow
  <2>2. row' \in [Artifact -> RowRecord]
    BY <1>9, UpdateStateType DEF AbortRow, TypeOK, RowRecord, Reason
  <2> QED BY <1>9, <2>1, <2>2 DEF AbortRow, TypeOK, RowRecord
<1> QED BY <1>1, <1>2, <1>3, <1>4, <1>5, <1>6, <1>7, <1>8, <1>9 DEF Write

\* A step of a reader or a deleter.
LEMMA UseType ==
  ASSUME TypeOK, NEW a \in Artifact, Use(a)
  PROVE  TypeOK'
<1>1. CASE Lookup(a) \/ Open(a) \/ CloseRead(a)
  BY <1>1 DEF Lookup, Open, CloseRead, TypeOK
<1>2. CASE Delete(a)
  <2>1. row' \in [Artifact -> RowRecord]
    BY <1>2, UpdateStateType DEF Delete, Reason
  <2> QED BY <1>2, <2>1 DEF Delete, TypeOK, RowRecord
<1>3. CASE DeleteDurable(a) \/ DeletePart(a)
  <2>1. disk' \in [Artifact -> SUBSET Place] /\ dirty' \in SUBSET Artifact
    BY <1>3, RemoveType DEF DeleteDurable, DeletePart, TryRemove, Place
  <2> QED BY <1>3, <2>1 DEF DeleteDurable, DeletePart, TypeOK
<1> QED BY <1>1, <1>2, <1>3 DEF Use

\* A step of a pass.
LEMMA ReconcileType ==
  ASSUME TypeOK, NEW p \in Process, Reconcile(p)
  PROVE  TypeOK'
<1> USE DEF RecPC
<1>0. rec[p] \in PassRecord /\ Down \in PassRecord
  BY DEF TypeOK, PassRecord, Down
<1>d. \A a \in Artifact : /\ Done(p, a) \in PassRecord
                          /\ [Done(p, a) EXCEPT !.errs = TRUE] \in PassRecord
  BY <1>0 DEF Done, PassRecord
<1>e. ASSUME NEW r \in PassRecord, NEW a \in Artifact, NEW pc \in RecPC
      PROVE  [r EXCEPT !.pc = pc, !.on = a] \in PassRecord
  BY DEF PassRecord
<1>1. CASE Start(p)
  <2>a. now \in Nat /\ Leftover \in SUBSET Artifact
    BY ClockAssumption DEF TypeOK, Leftover
  <2>1. [Down EXCEPT !.pc = "listing", !.now = now, !.left = Leftover] \in PassRecord
    BY <1>0, <2>a DEF PassRecord
  <2> QED BY <1>1, <2>1, SetType DEF Start, TypeOK, PassRecord
<1>2. CASE ListExpired(p)
  <2>1. [rec[p] EXCEPT !.pc = "fencing", !.todo = Expired(rec[p].now)] \in PassRecord
    BY <1>0 DEF PassRecord, Expired, Writing
  <2> QED BY <1>2, <2>1, SetType DEF ListExpired, TypeOK, PassRecord
<1>3. ASSUME NEW a \in Artifact, Fence(p, a)
      PROVE  TypeOK'
  <2>1. [Done(p, a) EXCEPT !.pc = "reapDurable", !.on = a] \in PassRecord
    BY <1>d, <1>e
  <2>2. rec' \in [Process -> PassRecord]
    BY <1>3, <1>d, <2>1, SetType DEF Fence
  <2>3. row' \in [Artifact -> RowRecord]
    BY <1>3, UpdateStateType DEF Fence, TypeOK, RowRecord, Reason
  <2> QED BY <1>3, <2>2, <2>3 DEF Fence, TypeOK, RowRecord, PassRecord
<1>4. ASSUME NEW a, NEW place \in Place, NEW next \in PassRecord,
             RemoveFile(p, a, place, next)
      PROVE  /\ rec' \in [Process -> PassRecord]
             /\ disk' \in [Artifact -> SUBSET Place] /\ dirty' \in SUBSET Artifact
  <2>1. [next EXCEPT !.errs = TRUE] \in PassRecord
    BY DEF PassRecord
  <2> QED BY <1>4, <2>1, SetType, RemoveType DEF RemoveFile
<1>5. CASE ReapDurable(p)
  <2>1. [rec[p] EXCEPT !.pc = "reapPart"] \in PassRecord
    BY <1>0 DEF PassRecord
  <2> QED BY <1>5, <1>4, <2>1 DEF ReapDurable, TypeOK, PassRecord, Place
<1>6. CASE ReapPart(p)
  <2>1. [rec[p] EXCEPT !.pc = "fencing", !.on = None] \in PassRecord
    BY <1>0 DEF PassRecord
  <2> QED BY <1>6, <1>4, <2>1 DEF ReapPart, TypeOK, PassRecord, Place
<1>7. CASE Walk(p)
  <2>1. [rec[p] EXCEPT !.pc = "walking", !.todo = {a \in Artifact : "durable" \in disk[a]}]
          \in PassRecord
    BY <1>0 DEF PassRecord
  <2>2. [rec[p] EXCEPT !.pc = "walking", !.errs = TRUE] \in PassRecord
    BY <1>0 DEF PassRecord
  <2> QED BY <1>7, <2>1, <2>2, SetType DEF Walk, TypeOK, PassRecord
<1>8. ASSUME NEW a \in Artifact, LookAt(p, a)
      PROVE  TypeOK'
  <2>1. [Done(p, a) EXCEPT !.pc = "removing", !.on = a] \in PassRecord
    BY <1>d, <1>e
  <2>2. rec' \in [Process -> PassRecord]
    BY <1>8, <1>d, <2>1, SetType DEF LookAt
  <2> QED BY <1>8, <2>2 DEF LookAt, TypeOK, PassRecord
<1>9. CASE RemoveWalked(p)
  <2>1. [rec[p] EXCEPT !.pc = "walking", !.on = None] \in PassRecord
    BY <1>0 DEF PassRecord
  <2> QED BY <1>9, <1>4, <2>1 DEF RemoveWalked, TypeOK, PassRecord, Place
<1>10. CASE ListFinalPaths(p)
  <2>1. /\ [rec[p] EXCEPT !.pc = "repairing", !.finals = InState("final"),
                          !.todo = InState("final") \cup InState("tombstoned")] \in PassRecord
        /\ [rec[p] EXCEPT !.pc = "repairing", !.errs = TRUE] \in PassRecord
    BY <1>0 DEF PassRecord, InState
  <2> QED BY <1>10, <2>1, SetType DEF ListFinalPaths, TypeOK, PassRecord
<1>11. ASSUME NEW a \in Artifact, RepairTombstoned(p, a)
       PROVE  TypeOK'
  BY <1>11, <1>4, <1>d DEF RepairTombstoned, TypeOK, PassRecord, Place
<1>12. ASSUME NEW a \in Artifact, RepairFinal(p, a)
       PROVE  TypeOK'
  <2>1. [Done(p, a) EXCEPT !.pc = "missing", !.on = a] \in PassRecord
    BY <1>d, <1>e
  <2>2. rec' \in [Process -> PassRecord]
    BY <1>12, <1>d, <2>1, SetType DEF RepairFinal
  <2> QED BY <1>12, <2>2 DEF RepairFinal, TypeOK, PassRecord
<1>13. CASE TombstoneMissing(p)
  <2> DEFINE next == [rec[p] EXCEPT !.pc = "repairing", !.on = None]
  <2>1. next \in PassRecord /\ [next EXCEPT !.errs = TRUE] \in PassRecord
    BY <1>0 DEF PassRecord
  <2>2. rec' \in [Process -> PassRecord]
    BY <1>13, <2>1, SetType DEF TombstoneMissing
  <2>3. row' \in [Artifact -> RowRecord]
    BY <1>13, UpdateStateType DEF TombstoneMissing, TypeOK, RowRecord, Reason
  <2> QED BY <1>13, <2>2, <2>3 DEF TombstoneMissing, TypeOK, RowRecord, PassRecord
<1>14. CASE Finish(p)
  <2>1. [Down EXCEPT !.pc = "serving", !.left = rec[p].left] \in PassRecord
    BY <1>0 DEF PassRecord, Down
  <2>2. rec' \in [Process -> PassRecord]
    BY <1>14, <1>0, <2>1, SetType DEF Finish
  <2> QED BY <1>14, <2>2 DEF Finish, TypeOK, PassRecord
<1> QED BY <1>1, <1>2, <1>3, <1>5, <1>6, <1>7, <1>8, <1>9, <1>10, <1>11, <1>12, <1>13,
           <1>14 DEF Reconcile

LEMMA FailType ==
  ASSUME TypeOK, Fail
  PROVE  TypeOK'
<1>1. ASSUME NEW a \in Artifact, WriterDies(a)
      PROVE  TypeOK'
  <2>1. writer' \in [Artifact -> [pc : WriterPC, lease : Nat]]
    BY <1>1, GotoType DEF WriterDies, WriterPC
  <2> QED BY <1>1, <2>1 DEF WriterDies, TypeOK
<1>2. ASSUME NEW a \in Artifact, DeleterDies(a)
      PROVE  TypeOK'
  BY <1>2 DEF DeleterDies, TypeOK
<1>3. Down \in PassRecord
  BY DEF Down, PassRecord, RecPC
<1>4. ASSUME NEW p \in Process, Stop(p)
      PROVE  TypeOK'
  BY <1>3, <1>4, SetType DEF Stop, TypeOK, PassRecord
<1>5. CASE PowerLoss
  <2>1. disk' \in [Artifact -> SUBSET Place]
    BY <1>5 DEF PowerLoss, TypeOK, Place
  <2>2. writer' \in [Artifact -> [pc : WriterPC, lease : Nat]]
    <3>1. \A a \in Artifact : writer[a] \in [pc : WriterPC, lease : Nat]
      BY DEF TypeOK
    <3>2. \A a \in Artifact :
            [writer[a] EXCEPT !.pc = "failed"] \in [pc : WriterPC, lease : Nat]
      BY <3>1 DEF WriterPC
    <3> QED BY <1>5, <3>1, <3>2 DEF PowerLoss
  <2> QED BY <1>3, <1>5, <2>1, <2>2 DEF PowerLoss, TypeOK, PassRecord
<1> QED BY <1>1, <1>2, <1>4, <1>5 DEF Fail

LEMMA TypeStep ==
  ASSUME TypeOK, [Next]_vars
  PROVE  TypeOK'
<1>1. CASE Tick
  BY <1>1, ClockAssumption DEF Tick, TypeOK
<1>2. CASE UNCHANGED vars
  BY <1>2 DEF vars, TypeOK
<1> QED BY <1>1, <1>2, WriteType, UseType, ReconcileType, FailType DEF Next

LEMMA TypeInit == Init => TypeOK
BY ClockAssumption DEF Init, TypeOK, State, Reason, WriterPC, RecPC, Down



-----------------------------------------------------------------------------
(* The inductive invariant. *)

Begun(a) == writer[a].pc \notin {"none", "begin"}

\* Row, file and writer of an artifact agree.  Until its lease runs out, a writer
\* that renamed finds its bytes in place, and what it commits has reached the disk;
\* a Delete that removes files has tombstoned the row.
Good(a) ==
  /\ ~Begun(a) => row[a].state = "none" /\ disk[a] = {} /\ a \notin dirty
  /\ row[a].state = "writing" => row[a].lease = writer[a].lease
  /\ writer[a].pc \in {"create", "open", "verified", "renamed", "synced"} =>
       row[a].state \in {"writing", "tombstoned"}
  /\ writer[a].pc \in {"rollback", "abortPart", "abortDurable", "abortRow"} =>
       row[a].state # "none"
  /\ writer[a].pc = "done" => row[a].state \in {"final", "tombstoned"}
  /\ writer[a].pc \in {"renamed", "synced"} /\ row[a].state = "writing"
       /\ now < writer[a].lease => "durable" \in disk[a]
  /\ writer[a].pc \in {"synced", "done"} => a \notin dirty
  /\ deleter[a] # "none" => row[a].state = "tombstoned"
  /\ writer[a].pc = "done" /\ row[a].finalizedAt < writer[a].lease =>
       (row[a].state = "final" /\ "durable" \in disk[a]) \/ Deleted(a)

\* No commit within the lease can still need, or have needed, the file.
Doomed(a, t) ==
  /\ Begun(a)
  /\ row[a].state \in {"writing", "final"} => writer[a].lease <= t
  /\ row[a].state = "final" => row[a].finalizedAt >= writer[a].lease

\* What a pass has read is still good when it acts on it.
Pass(p) ==
  /\ rec[p].now <= now
  /\ rec[p].pc \in {"reapDurable", "reapPart", "removing", "missing"} =>
       rec[p].on \in Artifact
  /\ rec[p].pc \in {"reapDurable", "reapPart"} => row[rec[p].on].state = "tombstoned"
  /\ rec[p].pc \in {"walking", "removing"} => \A a \in rec[p].todo : Begun(a)
  /\ rec[p].pc = "removing" => Doomed(rec[p].on, rec[p].now)
  /\ rec[p].pc = "missing" =>
       /\ row[rec[p].on].state \in {"final", "tombstoned"}
       /\ row[rec[p].on].state = "final" => "durable" \notin disk[rec[p].on]
  /\ rec[p].pc \in {"repairing", "missing"} =>
       \A a \in rec[p].todo :
         /\ row[a].state \in {"final", "tombstoned"}
         /\ a \notin rec[p].finals => row[a].state = "tombstoned"

Inv ==
  /\ TypeOK
  /\ \A a \in Artifact : Good(a)
  /\ \A p \in Process : Pass(p)

\* What a step may do to an artifact that has been begun.
Grows(a) ==
  /\ Begun(a) => Begun(a)' /\ writer'[a].lease = writer[a].lease
  /\ Begun(a) /\ row[a].state = "none" => row'[a].state = "none"
  /\ row[a].state = "tombstoned" => row'[a] = row[a]
  /\ row[a].state = "writing" =>
       \/ row'[a] = row[a]
       \/ row'[a].state = "tombstoned"
       \/ row'[a].state = "final" /\ row'[a].finalizedAt = now
  /\ row[a].state = "final" => row'[a] = row[a] \/ row'[a].state = "tombstoned"
  /\ row[a].state = "final" /\ "durable" \notin disk[a] => "durable" \notin disk'[a]

\* Nothing changes but, perhaps, readers and passes.
Untouched == UNCHANGED <<row, disk, dirty, writer, deleter, now>>

LEMMA UntouchedStep ==
  ASSUME NEW a \in Artifact, Good(a), Untouched
  PROVE  Good(a)' /\ Grows(a)
BY DEF Untouched, Good, Grows, Begun, Deleted

\* What UpdateState does to a row.
LEMMA UpdateStateRow ==
  ASSUME TypeOK, NEW a \in Artifact, NEW reason, UpdateState(a, reason)
  PROVE  /\ \A b \in Artifact : b # a => row'[b] = row[b]
         /\ row[a].state = "tombstoned" => row'[a] = row[a]
         /\ row[a].state # "tombstoned" =>
              /\ row'[a].state = "tombstoned" /\ row'[a].reason = reason
              /\ row'[a].finalizedAt = row[a].finalizedAt
BY DEF TypeOK, UpdateState, Tombstoned

-----------------------------------------------------------------------------
(* Steps of a writer. *)

\* The writer's own steps, one by one: only its own artifact changes.
LEMMA WriteElsewhere ==
  ASSUME TypeOK, NEW a \in Artifact, Write(a), NEW b \in Artifact, b # a
  PROVE  /\ row'[b] = row[b] /\ disk'[b] = disk[b] /\ writer'[b] = writer[b]
         /\ (b \in dirty' <=> b \in dirty)
<1> USE DEF TypeOK, Goto
<1>1. CASE Begin(a)
  BY <1>1 DEF Begin
<1>2. CASE BeginInsert(a)
  BY <1>2 DEF BeginInsert, Inserted
<1>3. CASE Create(a) \/ GiveUp(a) \/ Verify(a) \/ SyncDir(a)
  BY <1>3 DEF Create, GiveUp, Verify, SyncDir
<1>4. CASE Rename(a)
  BY <1>4 DEF Rename, files
<1>5. CASE FinalizeCommit(a)
  BY <1>5 DEF FinalizeCommit, Committed
<1>6. CASE Rollback(a) \/ AbortPart(a) \/ AbortDurable(a)
  BY <1>6 DEF Rollback, AbortPart, AbortDurable, TryRemove, Remove, files
<1>7. CASE AbortRow(a)
  BY <1>7 DEF AbortRow, UpdateState
<1> QED BY <1>1, <1>2, <1>3, <1>4, <1>5, <1>6, <1>7 DEF Write

LEMMA WriteHere ==
  ASSUME TypeOK, NEW a \in Artifact, Write(a), Good(a)
  PROVE  Good(a)' /\ Grows(a)
<1> USE DEF TypeOK, Goto, Good, Grows, Begun, Deleted
<1>1. CASE Begin(a)
  BY <1>1 DEF Begin
<1>2. CASE BeginInsert(a)
  BY <1>2 DEF BeginInsert, Inserted
<1>3. CASE Create(a)
  BY <1>3 DEF Create
<1>4. CASE GiveUp(a) \/ Verify(a)
  BY <1>4 DEF GiveUp, Verify
<1>5. CASE SyncDir(a)
  BY <1>5 DEF SyncDir
<1>6. CASE Rename(a)
  BY <1>6 DEF Rename, files
<1>7. CASE FinalizeCommit(a)
  BY <1>7 DEF FinalizeCommit, Committed
<1>8. CASE Rollback(a) \/ AbortPart(a) \/ AbortDurable(a)
  BY <1>8 DEF Rollback, AbortPart, AbortDurable, TryRemove, Remove, files
<1>9. CASE AbortRow(a)
  <2>1. /\ writer'[a].pc = "failed" /\ writer'[a].lease = writer[a].lease
        /\ UNCHANGED <<disk, dirty, deleter, now>>
    BY <1>9 DEF AbortRow
  <2>2. CASE UNCHANGED row
    BY <1>9, <2>1, <2>2 DEF AbortRow
  <2>3. CASE UpdateState(a, "write_aborted")
    <3> HIDE DEF TypeOK
    <3>1. /\ row[a].state = "tombstoned" => row'[a] = row[a]
          /\ row[a].state # "tombstoned" => row'[a].state = "tombstoned"
      BY <2>3, UpdateStateRow
    <3> QED BY <1>9, <2>1, <3>1 DEF AbortRow
  <2> QED BY <1>9, <2>2, <2>3 DEF AbortRow
<1> QED BY <1>1, <1>2, <1>3, <1>4, <1>5, <1>6, <1>7, <1>8, <1>9 DEF Write

LEMMA WriteGood ==
  ASSUME TypeOK, NEW a \in Artifact, Write(a), NEW b \in Artifact, Good(b)
  PROVE  Good(b)' /\ Grows(b)
<1>1. CASE b = a
  BY <1>1, WriteHere
<1>2. CASE b # a
  <2>1. now' = now /\ deleter' = deleter
    BY DEF Write, Begin, BeginInsert, Create, GiveUp, Verify, Rename, SyncDir,
           FinalizeCommit, Rollback, AbortPart, AbortDurable, AbortRow
  <2> QED BY <1>2, <2>1, WriteElsewhere DEF Good, Grows, Begun, Deleted
<1> QED BY <1>1, <1>2

-----------------------------------------------------------------------------
(* Steps of others on an artifact. *)

\* Removing files is harmless for an artifact that is tombstoned or doomed.
LEMMA RemoveGood ==
  ASSUME TypeOK, NEW a \in Artifact, NEW place \in Place, TryRemove(a, place),
         UNCHANGED <<row, writer, now>>,
         \A c \in Artifact : deleter'[c] # "none" => deleter[c] # "none",
         place = "durable" => row[a].state = "tombstoned" \/ Doomed(a, now),
         NEW b \in Artifact, Good(b)
  PROVE  Good(b)' /\ Grows(b)
<1>1. /\ disk'[b] \subseteq disk[b] /\ dirty' \subseteq dirty
      /\ (b = a /\ place = "durable") \/ ("durable" \in disk'[b] <=> "durable" \in disk[b])
  BY DEF TryRemove, Remove, files, TypeOK, Place
<1>2. now \in Nat /\ writer[b].lease \in Nat
  BY ClockAssumption DEF TypeOK
<1>3. CASE "durable" \in disk'[b] <=> "durable" \in disk[b]
  BY <1>1, <1>3 DEF Good, Grows, Begun, Deleted
<1>4. CASE b = a /\ row[a].state = "tombstoned"
  BY <1>1, <1>4 DEF Good, Grows, Begun, Deleted
<1>5. CASE b = a /\ Doomed(a, now)
  <2>1. row[a].finalizedAt \in Int
    BY DEF TypeOK, Null
  <2> QED BY <1>1, <1>2, <1>5, <2>1 DEF Good, Grows, Begun, Deleted, Doomed
<1> QED BY <1>1, <1>3, <1>4, <1>5

\* A tombstone is harmless unless the artifact was committed within its lease, its
\* bytes are in place and nobody asked to delete it.
LEMMA TombstoneGood ==
  ASSUME TypeOK, NEW a \in Artifact, NEW reason, UpdateState(a, reason),
         UNCHANGED <<disk, dirty, writer, now>>,
         \A c \in Artifact : deleter'[c] # "none" => deleter[c] # "none" \/ c = a,
         row[a].state # "none",
         row[a].state = "final" => reason = "deleted" \/ "durable" \notin disk[a],
         NEW b \in Artifact, Good(b)
  PROVE  Good(b)' /\ Grows(b)
<1>1. CASE b # a
  BY <1>1, UpdateStateRow DEF Good, Grows, Begun, Deleted
<1>2. CASE b = a
  BY <1>2, UpdateStateRow DEF Good, Grows, Begun, Deleted
<1> QED BY <1>1, <1>2

LEMMA UseGood ==
  ASSUME TypeOK, NEW a \in Artifact, Use(a), Good(a), NEW b \in Artifact, Good(b)
  PROVE  Good(b)' /\ Grows(b)
<1>1. CASE Lookup(a) \/ Open(a) \/ CloseRead(a)
  BY <1>1, UntouchedStep DEF Lookup, Open, CloseRead, Untouched
<1>2. CASE Delete(a)
  BY <1>2, TombstoneGood DEF Delete, TypeOK
<1>3. CASE DeleteDurable(a)
  BY <1>3, RemoveGood DEF DeleteDurable, TypeOK, Good, Place
<1>4. CASE DeletePart(a)
  BY <1>4, RemoveGood DEF DeletePart, TypeOK, Place
<1> QED BY <1>1, <1>2, <1>3, <1>4 DEF Use

LEMMA FailGood ==
  ASSUME TypeOK, Fail, NEW b \in Artifact, Good(b)
  PROVE  Good(b)' /\ Grows(b)
<1>1. ASSUME NEW a \in Artifact, WriterDies(a)
      PROVE  Good(b)' /\ Grows(b)
  BY <1>1 DEF WriterDies, Goto, Ended, TypeOK, Good, Grows, Begun, Deleted
<1>2. ASSUME NEW a \in Artifact, DeleterDies(a)
      PROVE  Good(b)' /\ Grows(b)
  BY <1>2 DEF DeleterDies, TypeOK, Good, Grows, Begun, Deleted
<1>3. ASSUME NEW p \in Process, Stop(p)
      PROVE  Good(b)' /\ Grows(b)
  BY <1>3, UntouchedStep DEF Stop, Untouched
<1>4. CASE PowerLoss
  <2>1. /\ b \notin dirty => disk'[b] = disk[b]
        /\ disk'[b] = disk[b] \/ disk'[b] = {"part"}
        /\ dirty' = {} /\ deleter'[b] = "none" /\ row' = row /\ now' = now
    BY <1>4 DEF PowerLoss
  <2>2. /\ writer[b].pc \in {"none", "done", "failed"} => writer'[b] = writer[b]
        /\ writer[b].pc \notin {"none", "done", "failed"} =>
             writer'[b].pc = "failed" /\ writer'[b].lease = writer[b].lease
    BY <1>4 DEF PowerLoss, Ended, TypeOK
  <2> QED BY <2>1, <2>2 DEF Good, Grows, Begun, Deleted
<1> QED BY <1>1, <1>2, <1>3, <1>4 DEF Fail

-----------------------------------------------------------------------------
(* Steps of a pass. *)

\* On rows and files.
LEMMA ReconcileGood ==
  ASSUME Inv, NEW p \in Process, Reconcile(p), NEW b \in Artifact
  PROVE  Good(b)' /\ Grows(b)
<1>0. TypeOK /\ Good(b) /\ Pass(p)
  BY DEF Inv
<1>1. CASE \/ Start(p) \/ ListExpired(p) \/ Walk(p) \/ ListFinalPaths(p) \/ Finish(p)
           \/ \E a \in Artifact : LookAt(p, a) \/ RepairFinal(p, a)
  BY <1>0, <1>1, UntouchedStep
     DEF Start, ListExpired, Walk, ListFinalPaths, Finish, LookAt, RepairFinal, Untouched
<1>2. ASSUME NEW a \in Artifact, Fence(p, a)
      PROVE  Good(b)' /\ Grows(b)
  <2>1. CASE UNCHANGED row
    BY <1>0, <1>2, <2>1, UntouchedStep DEF Fence, Untouched
  <2>2. CASE a \in Writing /\ UpdateState(a, "expired_write_lease")
    BY <1>0, <1>2, <2>2, TombstoneGood DEF Fence, Writing
  <2> QED BY <1>2, <2>1, <2>2 DEF Fence
<1>3. CASE ReapDurable(p) \/ ReapPart(p)
  BY <1>0, <1>3, RemoveGood DEF ReapDurable, ReapPart, RemoveFile, TryRemove, Pass, Place
<1>4. CASE RemoveWalked(p)
  <2>1. Doomed(rec[p].on, now)
    <3>1. now \in Nat /\ rec[p].now \in Nat /\ writer[rec[p].on].lease \in Nat
      BY <1>0, <1>4, ClockAssumption DEF TypeOK, Pass, RemoveWalked
    <3> QED BY <1>0, <1>4, <3>1 DEF Pass, RemoveWalked, Doomed
  <2> QED BY <1>0, <1>4, <2>1, RemoveGood DEF RemoveWalked, RemoveFile, TryRemove, Pass, Place
<1>5. ASSUME NEW a \in Artifact, RepairTombstoned(p, a)
      PROVE  Good(b)' /\ Grows(b)
  BY <1>0, <1>5, RemoveGood DEF RepairTombstoned, RemoveFile, TryRemove, Pass, Place
<1>6. CASE TombstoneMissing(p)
  <2>1. CASE UNCHANGED row
    BY <1>0, <1>6, <2>1, UntouchedStep DEF TombstoneMissing, Untouched
  <2>2. CASE UpdateState(rec[p].on, "missing_final_bytes")
    BY <1>0, <1>6, <2>2, TombstoneGood DEF TombstoneMissing, Pass
  <2> QED BY <1>6, <2>1, <2>2 DEF TombstoneMissing
<1> QED BY <1>1, <1>2, <1>3, <1>4, <1>5, <1>6 DEF Reconcile

\* A step of any kind.
LEMMA StepGood ==
  ASSUME Inv, [Next]_vars
  PROVE  now <= now' /\ \A b \in Artifact : Good(b)' /\ Grows(b)
<1>1. TypeOK /\ \A b \in Artifact : Good(b)
  BY DEF Inv
<1>7. now \in Nat
  BY <1>1, ClockAssumption DEF TypeOK
<1>2. CASE Tick
  <2>1. now \in Nat /\ now' = now + 1 /\ \A b \in Artifact : writer[b].lease \in Nat
    BY <1>1, <1>2, ClockAssumption DEF Tick, TypeOK
  <2>2. UNCHANGED <<row, disk, dirty, writer, deleter>>
    BY <1>2 DEF Tick
  <2> QED BY <1>1, <2>1, <2>2 DEF Good, Grows, Begun, Deleted
<1>3. CASE UNCHANGED vars
  <2>1. Untouched
    BY <1>3 DEF vars, Untouched
  <2>2. now' = now
    BY <1>3 DEF vars
  <2> QED BY <1>1, <1>7, <2>1, <2>2, UntouchedStep
<1>4. ASSUME NEW a \in Artifact, Write(a) \/ Use(a)
      PROVE  now' = now /\ \A b \in Artifact : Good(b)' /\ Grows(b)
  <2>1. now' = now
    BY <1>4 DEF Write, Begin, BeginInsert, Create, GiveUp, Verify, Rename, SyncDir,
                FinalizeCommit, Rollback, AbortPart, AbortDurable, AbortRow,
                Use, Lookup, Open, CloseRead, Delete, DeleteDurable, DeletePart
  <2> QED BY <1>1, <1>4, <2>1, WriteGood, UseGood
<1>5. ASSUME NEW p \in Process, Reconcile(p)
      PROVE  now' = now /\ \A b \in Artifact : Good(b)' /\ Grows(b)
  <2>1. now' = now
    BY <1>5 DEF Reconcile, Start, ListExpired, Fence, ReapDurable, ReapPart, Walk, LookAt,
                RemoveWalked, ListFinalPaths, RepairTombstoned, RepairFinal,
                TombstoneMissing, Finish
  <2> QED BY <1>5, <2>1, ReconcileGood
<1>6. CASE Fail
  <2>1. now' = now
    BY <1>6 DEF Fail, WriterDies, DeleterDies, Stop, PowerLoss
  <2> QED BY <1>1, <1>6, <1>7, <2>1, FailGood
<1> QED BY <1>2, <1>3, <1>4, <1>5, <1>6, <1>7 DEF Next

\* What a pass has read stays true while others act.
LEMMA PassKeeps ==
  ASSUME Inv, [Next]_vars, NEW p \in Process, rec'[p] = rec[p]
  PROVE  Pass(p)'
<1>1. TypeOK /\ Pass(p) /\ TypeOK'
  BY TypeStep DEF Inv
<1>2. now <= now' /\ \A b \in Artifact : Grows(b)
  BY StepGood
<1>3. /\ now \in Nat /\ now' \in Nat /\ rec[p].now \in Nat
      /\ rec[p].todo \subseteq Artifact
      /\ \A b \in Artifact : writer[b].lease \in Nat /\ row[b].finalizedAt \in Int
  BY <1>1, ClockAssumption DEF TypeOK, Null
<1>4. ASSUME NEW b \in Artifact, NEW t \in Nat, t <= now, Doomed(b, t)
      PROVE  Doomed(b, t)'
  <2>1. row[b].state \in State /\ row'[b].state \in State
    BY <1>1 DEF TypeOK
  <2> QED BY <1>2, <1>3, <1>4, <2>1 DEF Doomed, Grows, Begun, State
<1>5. rec[p].pc = "removing" => Doomed(rec[p].on, rec[p].now)'
  BY <1>1, <1>3, <1>4 DEF Pass, Doomed, Begun
<1>6. \A b \in rec[p].todo : Begun(b) => Begun(b)'
  BY <1>2, <1>3 DEF Grows
<1> QED BY <1>1, <1>2, <1>3, <1>5, <1>6 DEF Pass, Grows

LEMMA SetHere ==
  ASSUME TypeOK, NEW p \in Process, NEW r, Set(p, r)
  PROVE  rec'[p] = r
BY DEF TypeOK, Set

\* The record of a pass after a change of phase, and with an error collected.
At(r, pc, on) == [r EXCEPT !.pc = pc, !.on = on]
Erred(r) == [r EXCEPT !.errs = TRUE]

LEMMA AtFields ==
  ASSUME NEW r \in PassRecord, NEW pc \in RecPC, NEW on \in Artifact \cup {None}
  PROVE  /\ At(r, pc, on) \in PassRecord
         /\ At(r, pc, on).pc = pc /\ At(r, pc, on).on = on
         /\ At(r, pc, on).now = r.now /\ At(r, pc, on).todo = r.todo
         /\ At(r, pc, on).finals = r.finals
BY DEF PassRecord, At

LEMMA ErredFields ==
  ASSUME NEW r \in PassRecord
  PROVE  /\ Erred(r).pc = r.pc /\ Erred(r).on = r.on /\ Erred(r).now = r.now
         /\ Erred(r).todo = r.todo /\ Erred(r).finals = r.finals
BY DEF PassRecord, Erred

LEMMA DoneFields ==
  ASSUME TypeOK, NEW p \in Process, NEW a \in Artifact
  PROVE  /\ Done(p, a) \in PassRecord
         /\ Done(p, a).pc = rec[p].pc /\ Done(p, a).now = rec[p].now
         /\ Done(p, a).todo = rec[p].todo \ {a}
         /\ Done(p, a).finals = rec[p].finals
<1>1. rec[p] \in PassRecord
  BY DEF TypeOK, PassRecord
<1> QED BY <1>1 DEF Done, PassRecord

LEMMA RemoveFileHere ==
  ASSUME TypeOK, NEW p \in Process, NEW a, NEW place, NEW next, RemoveFile(p, a, place, next)
  PROVE  rec'[p] = next \/ rec'[p] = Erred(next)
BY SetHere DEF RemoveFile, Erred

LEMMA PassStep ==
  ASSUME Inv, [Next]_vars, NEW p \in Process
  PROVE  Pass(p)'
<1>1. TypeOK /\ TypeOK' /\ Pass(p)
  BY TypeStep DEF Inv
<1>2. now <= now' /\ \A b \in Artifact : Good(b) /\ Good(b)' /\ Grows(b)
  BY StepGood DEF Inv
<1>3. /\ now \in Nat /\ now' \in Nat /\ rec[p].now \in Nat
      /\ rec[p].todo \subseteq Artifact
      /\ \A b \in Artifact : writer[b].lease \in Nat /\ row[b].lease \in Nat
  BY <1>1, ClockAssumption DEF TypeOK
<1>4. CASE rec'[p] = rec[p]
  BY <1>4, PassKeeps
<1>5. CASE rec'[p] = Down
  BY <1>3, <1>5 DEF Down, Pass
<1>6. ASSUME Reconcile(p)
      PROVE  Pass(p)'
  <2>0. rec[p] \in PassRecord
    BY <1>1 DEF TypeOK, PassRecord
  <2>1. CASE Start(p)
    <3>1. rec'[p].pc = "listing" /\ rec'[p].now = now
      BY <1>1, <2>1 DEF Start, Set, Down, TypeOK
    <3> QED BY <1>2, <3>1 DEF Pass
  <2>2. CASE ListExpired(p)
    <3>1. rec'[p].pc = "fencing" /\ rec'[p].now = rec[p].now
      BY <1>1, <2>0, <2>2 DEF ListExpired, Set, TypeOK, PassRecord
    <3> QED BY <1>1, <1>2, <1>3, <3>1 DEF Pass
  <2>3. ASSUME NEW a \in Artifact, Fence(p, a)
        PROVE  Pass(p)'
    <3>1. /\ rec'[p].now = rec[p].now
          /\ \/ rec'[p].pc = "fencing"
             \/ rec'[p].pc = "reapDurable" /\ rec'[p].on = a /\ a \in Writing
                /\ UpdateState(a, "expired_write_lease")
      <4>1. \/ rec'[p] = At(Done(p, a), "reapDurable", a)
               /\ a \in Writing /\ UpdateState(a, "expired_write_lease")
            \/ rec'[p] = Done(p, a)
            \/ rec'[p] = Erred(Done(p, a))
        BY <1>1, <2>3, SetHere DEF Fence, At, Erred
      <4>2. rec[p].pc = "fencing"
        BY <2>3 DEF Fence
      <4>3. /\ Done(p, a) \in PassRecord
            /\ Done(p, a).pc = rec[p].pc /\ Done(p, a).now = rec[p].now
            /\ Done(p, a).todo = rec[p].todo \ {a} /\ Done(p, a).finals = rec[p].finals
        BY <1>1, DoneFields
      <4>4. "reapDurable" \in RecPC /\ a \in Artifact \cup {None}
        BY DEF RecPC
      <4>5. /\ At(Done(p, a), "reapDurable", a).pc = "reapDurable"
            /\ At(Done(p, a), "reapDurable", a).on = a
            /\ At(Done(p, a), "reapDurable", a).now = Done(p, a).now
            /\ At(Done(p, a), "reapDurable", a).todo = Done(p, a).todo
            /\ At(Done(p, a), "reapDurable", a).finals = Done(p, a).finals
        BY <4>3, <4>4, AtFields
      <4> QED BY <4>1, <4>2, <4>3, <4>5, ErredFields
    <3>2. a \in Writing /\ UpdateState(a, "expired_write_lease") => row'[a].state = "tombstoned"
      BY <1>1, UpdateStateRow DEF Writing
    <3> QED BY <1>1, <1>2, <1>3, <3>1, <3>2 DEF Pass
  <2>4. CASE ReapDurable(p)
    <3>1. rec'[p].now = rec[p].now /\ rec'[p].pc = "reapPart" /\ rec'[p].on = rec[p].on
      <4> DEFINE next == [rec[p] EXCEPT !.pc = "reapPart"]
      <4>1. /\ next \in PassRecord
            /\ next.now = rec[p].now /\ next.pc = "reapPart" /\ next.on = rec[p].on
        BY <2>0 DEF PassRecord, RecPC
      <4>2. rec'[p] = next \/ rec'[p] = Erred(next)
        BY <1>1, <2>4, RemoveFileHere DEF ReapDurable
      <4> HIDE DEF next
      <4> QED BY <4>1, <4>2, ErredFields
    <3> QED BY <1>1, <1>2, <1>3, <2>4, <3>1 DEF Pass, ReapDurable
  <2>5. CASE ReapPart(p)
    <3>1. rec'[p].now = rec[p].now /\ rec'[p].pc = "fencing"
      <4>1. \/ rec'[p] = At(rec[p], "fencing", None)
            \/ rec'[p] = Erred(At(rec[p], "fencing", None))
        BY <1>1, <2>5, RemoveFileHere DEF ReapPart, At
      <4> QED BY <2>0, <4>1, AtFields, ErredFields DEF RecPC
    <3> QED BY <1>1, <1>2, <1>3, <3>1 DEF Pass
  <2>6. CASE Walk(p)
    <3>1. /\ rec'[p].now = rec[p].now /\ rec'[p].pc = "walking"
          /\ \/ rec'[p].todo = {}
             \/ rec'[p].todo = {a \in Artifact : "durable" \in disk[a]}
      <4> DEFINE r1 == [rec[p] EXCEPT !.pc = "walking",
                                      !.todo = {a \in Artifact : "durable" \in disk[a]}]
                 r2 == [rec[p] EXCEPT !.pc = "walking", !.errs = TRUE]
      <4>1. /\ r1.now = rec[p].now /\ r1.pc = "walking"
            /\ r1.todo = {a \in Artifact : "durable" \in disk[a]}
            /\ r2.now = rec[p].now /\ r2.pc = "walking" /\ r2.todo = rec[p].todo
        BY <2>0 DEF PassRecord
      <4>2. (rec'[p] = r1 \/ rec'[p] = r2) /\ rec[p].todo = {}
        BY <1>1, <2>6, SetHere DEF Walk
      <4> QED BY <4>1, <4>2
    <3>2. \A a \in rec'[p].todo : Begun(a) /\ Begun(a)'
      BY <1>2, <3>1 DEF Good, Grows
    <3> QED BY <1>1, <1>2, <1>3, <3>1, <3>2 DEF Pass
  <2>7. ASSUME NEW a \in Artifact, LookAt(p, a)
        PROVE  Pass(p)'
    <3>1. /\ rec'[p].now = rec[p].now /\ rec'[p].todo = rec[p].todo \ {a}
          /\ \/ rec'[p].pc = "walking"
             \/ rec'[p].pc = "removing" /\ rec'[p].on = a /\ ~Keeps(a, rec[p].now)
      <4>1. \/ rec'[p] = At(Done(p, a), "removing", a)
               /\ ~Keeps(a, rec[p].now)
            \/ rec'[p] = Done(p, a)
            \/ rec'[p] = Erred(Done(p, a))
        BY <1>1, <2>7, SetHere DEF LookAt, At, Erred
      <4>2. rec[p].pc = "walking"
        BY <2>7 DEF LookAt
      <4>3. /\ Done(p, a) \in PassRecord
            /\ Done(p, a).pc = rec[p].pc /\ Done(p, a).now = rec[p].now
            /\ Done(p, a).todo = rec[p].todo \ {a} /\ Done(p, a).finals = rec[p].finals
        BY <1>1, DoneFields
      <4>4. "removing" \in RecPC /\ a \in Artifact \cup {None}
        BY DEF RecPC
      <4>5. /\ At(Done(p, a), "removing", a).pc = "removing"
            /\ At(Done(p, a), "removing", a).on = a
            /\ At(Done(p, a), "removing", a).now = Done(p, a).now
            /\ At(Done(p, a), "removing", a).todo = Done(p, a).todo
            /\ At(Done(p, a), "removing", a).finals = Done(p, a).finals
        BY <4>3, <4>4, AtFields
      <4> QED BY <4>1, <4>2, <4>3, <4>5, ErredFields
    <3>2. UNCHANGED <<row, writer>>
      BY <2>7 DEF LookAt
    <3>3. \A b \in rec[p].todo : Begun(b)'
      BY <1>1, <2>7, <3>2 DEF Pass, LookAt, Begun
    <3>4. ~Keeps(a, rec[p].now) => Doomed(a, rec[p].now)'
      <4>1. row[a].state \in State
        BY <1>1 DEF TypeOK
      <4>2. Begun(a)' /\ (row[a].state = "writing" => row[a].lease = writer[a].lease)
        BY <1>2, <2>7, <3>3 DEF LookAt, Good
      <4> QED BY <1>3, <3>1, <3>2, <4>1, <4>2 DEF Keeps, Doomed, State
    <3>5. rec'[p].pc = "removing" => Doomed(rec[p].on, rec[p].now)'
      BY <3>1, <3>2, <3>4 DEF Doomed, Begun
    <3> QED BY <1>1, <1>2, <1>3, <3>1, <3>3, <3>5 DEF Pass
  <2>8. CASE RemoveWalked(p)
    <3>1. /\ rec'[p].now = rec[p].now /\ rec'[p].pc = "walking"
          /\ rec'[p].todo = rec[p].todo
      <4>1. \/ rec'[p] = At(rec[p], "walking", None)
            \/ rec'[p] = Erred(At(rec[p], "walking", None))
        BY <1>1, <2>8, RemoveFileHere DEF RemoveWalked, At
      <4> QED BY <2>0, <4>1, AtFields, ErredFields DEF RecPC
    <3>2. \A b \in rec[p].todo : Begun(b)'
      BY <1>1, <1>2, <1>3, <2>8 DEF Pass, RemoveWalked, Grows
    <3> QED BY <1>1, <1>2, <1>3, <3>1, <3>2 DEF Pass
  <2>9. CASE ListFinalPaths(p)
    <3>1. /\ rec'[p].now = rec[p].now /\ rec'[p].pc = "repairing"
          /\ \/ rec'[p].todo = {}
             \/ /\ rec'[p].todo = InState("final") \cup InState("tombstoned")
                /\ rec'[p].finals = InState("final")
      <4> DEFINE listed == InState("final") \cup InState("tombstoned")
                 r1 == [rec[p] EXCEPT !.pc = "repairing", !.finals = InState("final"),
                                      !.todo = listed]
                 r2 == [rec[p] EXCEPT !.pc = "repairing", !.errs = TRUE]
      <4>1. /\ r1.pc = "repairing" /\ r1.now = rec[p].now /\ r1.todo = listed
            /\ r1.finals = InState("final")
            /\ r2.pc = "repairing" /\ r2.now = rec[p].now /\ r2.todo = rec[p].todo
        BY <2>0 DEF PassRecord
      <4>2. (rec'[p] = r1 \/ rec'[p] = r2) /\ rec[p].todo = {}
        BY <1>1, <2>9, SetHere DEF ListFinalPaths
      <4> QED BY <4>1, <4>2
    <3>2. row' = row
      BY <2>9 DEF ListFinalPaths
    <3> QED BY <1>1, <1>2, <1>3, <3>1, <3>2 DEF Pass, InState
  <2>10. ASSUME NEW a \in Artifact, RepairTombstoned(p, a)
         PROVE  Pass(p)'
    <3>1. /\ rec'[p].now = rec[p].now /\ rec'[p].pc = "repairing"
          /\ rec'[p].todo = rec[p].todo \ {a} /\ rec'[p].finals = rec[p].finals
      <4>1. rec'[p] = Done(p, a) \/ rec'[p] = Erred(Done(p, a))
        BY <1>1, <2>10, RemoveFileHere DEF RepairTombstoned
      <4>2. rec[p].pc = "repairing"
        BY <2>10 DEF RepairTombstoned
      <4> QED BY <1>1, <4>1, <4>2, DoneFields, ErredFields
    <3>2. row' = row
      BY <2>10 DEF RepairTombstoned
    <3> QED BY <1>1, <1>2, <1>3, <2>10, <3>1, <3>2 DEF Pass, RepairTombstoned
  <2>11. ASSUME NEW a \in Artifact, RepairFinal(p, a)
         PROVE  Pass(p)'
    <3>1. /\ rec'[p].now = rec[p].now
          /\ rec'[p].todo = rec[p].todo \ {a} /\ rec'[p].finals = rec[p].finals
          /\ \/ rec'[p].pc = "repairing"
             \/ rec'[p].pc = "missing" /\ rec'[p].on = a /\ "durable" \notin disk[a]
      <4>1. \/ rec'[p] = At(Done(p, a), "missing", a)
               /\ "durable" \notin disk[a]
            \/ rec'[p] = Done(p, a)
            \/ rec'[p] = Erred(Done(p, a))
        BY <1>1, <2>11, SetHere DEF RepairFinal, At, Erred
      <4>2. rec[p].pc = "repairing"
        BY <2>11 DEF RepairFinal
      <4>3. /\ Done(p, a) \in PassRecord
            /\ Done(p, a).pc = rec[p].pc /\ Done(p, a).now = rec[p].now
            /\ Done(p, a).todo = rec[p].todo \ {a} /\ Done(p, a).finals = rec[p].finals
        BY <1>1, DoneFields
      <4>4. "missing" \in RecPC /\ a \in Artifact \cup {None}
        BY DEF RecPC
      <4>5. /\ At(Done(p, a), "missing", a).pc = "missing"
            /\ At(Done(p, a), "missing", a).on = a
            /\ At(Done(p, a), "missing", a).now = Done(p, a).now
            /\ At(Done(p, a), "missing", a).todo = Done(p, a).todo
            /\ At(Done(p, a), "missing", a).finals = Done(p, a).finals
        BY <4>3, <4>4, AtFields
      <4> QED BY <4>1, <4>2, <4>3, <4>5, ErredFields
    <3>2. row' = row /\ disk' = disk
      BY <2>11 DEF RepairFinal
    <3> QED BY <1>1, <1>2, <1>3, <2>11, <3>1, <3>2 DEF Pass, RepairFinal
  <2>12. CASE TombstoneMissing(p)
    <3>1. /\ rec'[p].now = rec[p].now /\ rec'[p].pc = "repairing"
          /\ rec'[p].todo = rec[p].todo /\ rec'[p].finals = rec[p].finals
      <4> DEFINE next == At(rec[p], "repairing", None)
      <4>1. rec'[p] = next \/ rec'[p] = Erred(next)
        BY <1>1, <2>12, SetHere DEF TombstoneMissing, At, Erred
      <4> QED BY <2>0, <4>1, AtFields, ErredFields DEF RecPC
    <3>2. \A b \in rec[p].todo :
            /\ row'[b].state \in {"final", "tombstoned"}
            /\ b \notin rec[p].finals => row'[b].state = "tombstoned"
      BY <1>1, <1>2, <1>3, <2>12 DEF Pass, TombstoneMissing, Grows
    <3> QED BY <1>1, <1>2, <1>3, <3>1, <3>2 DEF Pass
  <2>13. CASE Finish(p)
    <3>1. rec'[p] = Down \/ (rec'[p].pc = "serving" /\ rec'[p].now = 0)
      BY <1>1, <2>13 DEF Finish, Set, Down, TypeOK
    <3> QED BY <1>3, <1>5, <3>1 DEF Pass
  <2> QED BY <1>6, <2>1, <2>2, <2>3, <2>4, <2>5, <2>6, <2>7, <2>8, <2>9, <2>10, <2>11,
             <2>12, <2>13 DEF Reconcile
<1>7. ASSUME NEW q \in Process, q # p, Reconcile(q) \/ Stop(q)
      PROVE  rec'[p] = rec[p]
  <2> USE <1>1 DEF TypeOK, Set
  <2>1. CASE \/ Start(q) \/ ListExpired(q) \/ Walk(q) \/ ListFinalPaths(q) \/ Finish(q)
             \/ Stop(q) \/ TombstoneMissing(q)
    BY <1>7, <2>1 DEF Start, ListExpired, Walk, ListFinalPaths, Finish, Stop, TombstoneMissing
  <2>2. CASE ReapDurable(q) \/ ReapPart(q) \/ RemoveWalked(q)
    BY <1>7, <2>2 DEF ReapDurable, ReapPart, RemoveWalked, RemoveFile
  <2>3. CASE \E a \in Artifact : Fence(q, a) \/ LookAt(q, a) \/ RepairTombstoned(q, a)
                                 \/ RepairFinal(q, a)
    BY <1>7, <2>3 DEF Fence, LookAt, RepairTombstoned, RepairFinal, RemoveFile
  <2> QED BY <1>7, <2>1, <2>2, <2>3 DEF Reconcile
<1>8. CASE \/ Tick \/ UNCHANGED vars
           \/ \E a \in Artifact : Write(a) \/ Use(a) \/ WriterDies(a) \/ DeleterDies(a)
  <2>1. rec' = rec
    BY <1>8 DEF Tick, vars, Write, Begin, BeginInsert, Create, GiveUp, Verify, Rename, SyncDir,
                FinalizeCommit, Rollback, AbortPart, AbortDurable, AbortRow,
                Use, Lookup, Open, CloseRead, Delete, DeleteDurable, DeletePart,
                WriterDies, DeleterDies
  <2> QED BY <1>4, <2>1
<1>9. CASE Stop(p) \/ PowerLoss
  <2>1. rec'[p] = Down
    BY <1>1, <1>9 DEF Stop, PowerLoss, Set, TypeOK
  <2> QED BY <1>5, <2>1
<1> QED BY <1>4, <1>6, <1>7, <1>8, <1>9 DEF Next, Fail

-----------------------------------------------------------------------------
(* Theorems. *)

LEMMA InvInit == Init => Inv
<1>1. Init => \A a \in Artifact : Good(a)
  BY DEF Init, Good, Begun, Deleted
<1>2. Init => \A p \in Process : Pass(p)
  BY DEF Init, Pass, Down
<1> QED BY <1>1, <1>2, TypeInit DEF Inv

LEMMA InvStep == Inv /\ [Next]_vars => Inv'
BY TypeStep, StepGood, PassStep DEF Inv

\* Rows, files, writers and passes keep their types.
THEOREM ArtifactTypes == Spec => []TypeOK
BY TypeInit, TypeStep, PTL DEF Spec

\* What Finalize acknowledged within the lease keeps its row and its bytes until it is
\* deleted: for any number of artifacts and of processes that reconcile, and whatever
\* statements, file operations, processes and machines fail.
THEOREM NoDataLoss == Spec => []LeaseProtects
<1>1. Inv => LeaseProtects
  BY DEF Inv, Good, LeaseProtects
<1> QED BY <1>1, InvInit, InvStep, PTL DEF Spec

\* A tombstone is final: a fenced, aborted or deleted artifact is never committed.
THEOREM FenceIsFinal == Spec => FencedStaysFenced
<1>1. Inv /\ [Next]_vars =>
        [\A a \in Artifact : row[a].state = "tombstoned" => row'[a] = row[a]]_vars
  BY StepGood DEF Grows
<1> QED BY <1>1, InvInit, InvStep, PTL DEF Spec, FencedStaysFenced

-----------------------------------------------------------------------------
(* What a pass clears. *)

\* What was left behind, p finds in its walk or has an error; with none it is gone.
Clears(p, a) ==
  a \in rec[p].left =>
    /\ writer[a].pc \in Ended
    /\ rec[p].pc # "serving" =>
         row[a].state = "tombstoned" \/ (row[a].state = "writing" /\ row[a].lease < rec[p].now)
    /\ rec[p].pc = "walking" => rec[p].errs \/ "durable" \notin disk[a] \/ a \in rec[p].todo
    /\ rec[p].pc = "removing" =>
         rec[p].errs \/ "durable" \notin disk[a] \/ a \in rec[p].todo \/ a = rec[p].on
    /\ rec[p].pc \in {"repairing", "missing"} => rec[p].errs \/ "durable" \notin disk[a]
    /\ rec[p].pc = "serving" => "durable" \notin disk[a]

ClearInv == Inv /\ \A p \in Process, a \in Artifact : Clears(p, a)

\* Where the writer has ended nobody commits or renames.
LEMMA EndedStays ==
  ASSUME Inv, [Next]_vars, NEW a \in Artifact, writer[a].pc \in Ended
  PROVE  /\ writer'[a].pc \in Ended
         /\ "durable" \notin disk[a] => "durable" \notin disk'[a]
         /\ row[a].state = "tombstoned" => row'[a].state = "tombstoned"
         /\ row[a].state = "writing" => row'[a] = row[a] \/ row'[a].state = "tombstoned"
<1>. USE DEF Ended
<1>1. TypeOK
  BY DEF Inv
<1>2. ASSUME NEW b \in Artifact, NEW place \in Place, Remove(b, place) \/ UNCHANGED files
      PROVE  disk'[a] \subseteq disk[a]
  BY <1>1, <1>2 DEF Remove, files, TypeOK
<1>3. ASSUME NEW b \in Artifact, NEW reason, UpdateState(b, reason) \/ UNCHANGED row
      PROVE  row'[a] = row[a] \/ row'[a].state = "tombstoned"
  BY <1>1, <1>3, UpdateStateRow
<1>4. ASSUME NEW b \in Artifact, Write(b)
      PROVE  writer'[a] = writer[a] /\ disk'[a] = disk[a] /\ row'[a] = row[a]
  <2>1. b # a
    BY <1>4 DEF Write, Begin, BeginInsert, Create, GiveUp, Verify, Rename, SyncDir,
       FinalizeCommit, Rollback, AbortPart, AbortDurable, AbortRow
  <2>. QED  BY <1>1, <1>4, <2>1, WriteElsewhere
<1>5. ASSUME NEW b \in Artifact, Use(b)
      PROVE  writer' = writer /\ disk'[a] \subseteq disk[a]
             /\ (row'[a] = row[a] \/ row'[a].state = "tombstoned")
  BY <1>2, <1>3, <1>5 DEF Use, Lookup, Open, CloseRead, Delete, DeleteDurable, DeletePart,
     TryRemove, Place
<1>6. ASSUME NEW p \in Process, Reconcile(p)
      PROVE  writer' = writer /\ disk'[a] \subseteq disk[a]
             /\ (row'[a] = row[a] \/ row'[a].state = "tombstoned")
  <2>1. CASE UNCHANGED <<row, disk, dirty, writer>>
    BY <2>1
  <2>2. CASE ~UNCHANGED <<row, disk, dirty, writer>>
    <3>1. rec[p].pc \in {"reapDurable", "reapPart", "removing", "missing"} => rec[p].on \in Artifact
      BY DEF Inv, Pass
    <3>2. \/ \E b \in Artifact : Fence(p, b) \/ RepairTombstoned(p, b)
          \/ ReapDurable(p) \/ ReapPart(p) \/ RemoveWalked(p) \/ TombstoneMissing(p)
      BY <1>6, <2>2 DEF Reconcile, Start, ListExpired, Walk, LookAt, ListFinalPaths, RepairFinal,
         Finish
    <3>3. CASE \E b \in Artifact : Fence(p, b)
      BY <1>3, <3>3 DEF Fence
    <3>4. CASE \E b \in Artifact : RepairTombstoned(p, b)
      BY <1>2, <3>4 DEF RepairTombstoned, RemoveFile, Place
    <3>5. CASE ReapDurable(p) \/ ReapPart(p) \/ RemoveWalked(p)
      BY <1>2, <3>1, <3>5 DEF ReapDurable, ReapPart, RemoveWalked, RemoveFile, Place
    <3>6. CASE TombstoneMissing(p)
      BY <1>3, <3>1, <3>6 DEF TombstoneMissing
    <3>. QED  BY <3>2, <3>3, <3>4, <3>5, <3>6
  <2>. QED  BY <2>1, <2>2
<1>7. CASE Fail
  <2>1. writer'[a] = writer[a] /\ row' = row
    BY <1>1, <1>7 DEF Fail, WriterDies, DeleterDies, Stop, PowerLoss, Goto, TypeOK
  <2>2. disk'[a] = disk[a] \/ disk'[a] = {"part"}
    BY <1>1, <1>7 DEF Fail, WriterDies, DeleterDies, Stop, PowerLoss, TypeOK
  <2>. QED  BY <2>1, <2>2
<1>8. CASE Tick \/ UNCHANGED vars
  BY <1>8 DEF Tick, vars
<1>. QED  BY <1>4, <1>5, <1>6, <1>7, <1>8 DEF Next

\* A pass moves by its own steps, or it dies.
LEMMA OwnPass ==
  ASSUME TypeOK, [Next]_vars, NEW p \in Process, ~Reconcile(p)
  PROVE  rec'[p] = rec[p] \/ rec'[p] = Down
<1>1. ASSUME NEW q \in Process, q # p, Reconcile(q) \/ Stop(q)
      PROVE  rec'[p] = rec[p]
  <2>. USE DEF TypeOK, Set
  <2>1. CASE \/ Start(q) \/ ListExpired(q) \/ Walk(q) \/ ListFinalPaths(q) \/ Finish(q)
             \/ Stop(q) \/ TombstoneMissing(q)
    BY <1>1, <2>1 DEF Start, ListExpired, Walk, ListFinalPaths, Finish, Stop, TombstoneMissing
  <2>2. CASE ReapDurable(q) \/ ReapPart(q) \/ RemoveWalked(q)
    BY <1>1, <2>2 DEF ReapDurable, ReapPart, RemoveWalked, RemoveFile
  <2>3. CASE \E a \in Artifact : Fence(q, a) \/ LookAt(q, a) \/ RepairTombstoned(q, a)
                                 \/ RepairFinal(q, a)
    BY <1>1, <2>3 DEF Fence, LookAt, RepairTombstoned, RepairFinal, RemoveFile
  <2>. QED  BY <1>1, <2>1, <2>2, <2>3 DEF Reconcile
<1>2. CASE \/ Tick \/ UNCHANGED vars
           \/ \E a \in Artifact : Write(a) \/ Use(a) \/ WriterDies(a) \/ DeleterDies(a)
  BY <1>2 DEF Tick, vars, Write, Begin, BeginInsert, Create, GiveUp, Verify, Rename, SyncDir,
     FinalizeCommit, Rollback, AbortPart, AbortDurable, AbortRow,
     Use, Lookup, Open, CloseRead, Delete, DeleteDurable, DeletePart, WriterDies, DeleterDies
<1>3. CASE Stop(p) \/ PowerLoss
  BY <1>3 DEF Stop, PowerLoss, Set, TypeOK
<1>. QED  BY <1>1, <1>2, <1>3 DEF Next, Fail

\* What the pass has to clear, and its errors, over a change of phase and with an error.
LEMMA AtLeft ==
  ASSUME NEW r \in PassRecord, NEW pc \in RecPC, NEW on \in Artifact \cup {None}
  PROVE  At(r, pc, on).left = r.left /\ At(r, pc, on).errs = r.errs
BY DEF At, PassRecord

\* An error changes neither.
LEMMA ErredLeft ==
  ASSUME NEW r \in PassRecord
  PROVE  Erred(r).left = r.left /\ Erred(r).errs /\ Erred(r) \in PassRecord
BY DEF Erred, PassRecord

\* Nor does one artifact less to do.
LEMMA DoneLeft ==
  ASSUME TypeOK, NEW p \in Process, NEW b \in Artifact
  PROVE  Done(p, b).left = rec[p].left /\ Done(p, b).errs = rec[p].errs
<1>1. rec[p] \in PassRecord
  BY DEF TypeOK, PassRecord
<1>. QED  BY <1>1 DEF Done, PassRecord

\* Nothing but the pass of p moves.
LEMMA ClearsKept ==
  ASSUME Inv, [Next]_vars, NEW p \in Process, NEW a \in Artifact, Clears(p, a), rec'[p] = rec[p]
  PROVE  Clears(p, a)'
<1>1. CASE a \in rec[p].left
  BY <1>1, EndedStays DEF Clears
<1>2. CASE a \notin rec[p].left
  BY <1>2 DEF Clears
<1>. QED  BY <1>1, <1>2

\* One step of the pass, by what it does to its record, x.
LEMMA ClearsMoved ==
  ASSUME Inv, [Next]_vars, NEW p \in Process, NEW a \in Artifact, Clears(p, a),
         NEW x \in PassRecord, rec'[p] = x, x.left = rec[p].left, rec[p].pc # "serving",
         x.pc # "serving" => x.now = rec[p].now,
         a \in x.left /\ x.pc = "walking" =>
           x.errs \/ "durable" \notin disk'[a] \/ a \in x.todo,
         a \in x.left /\ x.pc = "removing" =>
           x.errs \/ "durable" \notin disk'[a] \/ a \in x.todo \/ a = x.on,
         a \in x.left /\ x.pc \in {"repairing", "missing"} => x.errs \/ "durable" \notin disk'[a],
         a \in x.left /\ x.pc = "serving" => "durable" \notin disk'[a]
  PROVE  Clears(p, a)'
<1>1. CASE a \in x.left
  <2>1. writer'[a].pc \in Ended
        /\ \/ row'[a].state = "tombstoned"
           \/ row'[a].state = "writing" /\ row'[a].lease < rec[p].now
    BY <1>1, EndedStays DEF Clears
  <2>. QED  BY <1>1, <2>1 DEF Clears
<1>2. CASE a \notin x.left
  BY <1>2 DEF Clears
<1>. QED  BY <1>1, <1>2

\* The walk finds the bytes; a tombstone or an expired lease does not keep them.
LEMMA WalkClears ==
  ASSUME Inv, [Next]_vars, NEW p \in Process, NEW a \in Artifact, Clears(p, a),
         Walk(p) \/ (\E b \in Artifact : LookAt(p, b)) \/ RemoveWalked(p)
  PROVE  Clears(p, a)'
<1>1. TypeOK /\ rec[p] \in PassRecord /\ rec[p].pc \in {"fencing", "walking", "removing"}
  BY DEF Inv, TypeOK, PassRecord, Walk, LookAt, RemoveWalked
<1>2. "durable" \notin disk[a] /\ a \in rec[p].left => "durable" \notin disk'[a]
  BY EndedStays DEF Clears
<1>3. CASE Walk(p)
  <2>1. PICK x : x = rec'[p]
    OBVIOUS
  <2>2. /\ x \in PassRecord /\ x.left = rec[p].left /\ x.now = rec[p].now /\ x.pc = "walking"
        /\ x.errs \/ x.todo = {b \in Artifact : "durable" \in disk[b]}
    <3>1. \/ x = [rec[p] EXCEPT !.pc = "walking", !.todo = {b \in Artifact : "durable" \in disk[b]}]
          \/ x = [rec[p] EXCEPT !.pc = "walking", !.errs = TRUE]
      BY <1>1, <1>3, <2>1, SetHere DEF Walk
    <3>2. "walking" \in RecPC /\ {b \in Artifact : "durable" \in disk[b]} \in SUBSET Artifact
      BY DEF RecPC
    <3>. QED  BY <1>1, <3>1, <3>2 DEF PassRecord
  <2>3. x.errs \/ "durable" \notin disk[a] \/ a \in x.todo
    BY <2>2
  <2>. QED  BY <1>1, <1>2, <2>1, <2>2, <2>3, ClearsMoved
<1>4. ASSUME NEW b \in Artifact, LookAt(p, b) PROVE Clears(p, a)'
  <2>1. PICK d : d = Done(p, b) /\ d \in PassRecord /\ d.pc = "walking" /\ d.now = rec[p].now
          /\ d.todo = rec[p].todo \ {b} /\ d.left = rec[p].left /\ d.errs = rec[p].errs
    <3>1. rec[p].pc = "walking"
      BY <1>4 DEF LookAt
    <3>. QED  BY <1>1, <3>1, DoneFields, DoneLeft
  <2>2. PICK x : x = rec'[p]
    OBVIOUS
  <2>3. \/ Keeps(b, rec[p].now) /\ x = d
        \/ x = At(d, "removing", b)
        \/ x = Erred(d)
    BY <1>1, <1>4, <2>1, <2>2, SetHere DEF LookAt, At, Erred
  <2>4. CASE Keeps(b, rec[p].now) /\ x = d
    <3>1. a \in rec[p].left => a # b
      <4>1. a \in rec[p].left =>
              \/ row[a].state = "tombstoned"
              \/ row[a].state = "writing" /\ row[a].lease < rec[p].now
        BY <1>1 DEF Clears
      <4>2. row[a].lease \in Nat /\ rec[p].now \in Nat
        BY <1>1 DEF TypeOK, PassRecord
      <4>. QED  BY <2>4, <4>1, <4>2 DEF Keeps
    <3>2. a \in x.left => x.errs \/ "durable" \notin disk'[a] \/ a \in x.todo
      BY <1>2, <1>4, <2>1, <2>4, <3>1 DEF Clears, LookAt
    <3>. QED  BY <1>1, <2>1, <2>2, <2>4, <3>2, ClearsMoved
  <2>5. CASE x = At(d, "removing", b)
    <3>1. /\ x \in PassRecord /\ x.pc = "removing" /\ x.on = b /\ x.now = d.now
          /\ x.todo = d.todo /\ x.left = d.left /\ x.errs = d.errs
      <4>1. "removing" \in RecPC /\ b \in Artifact \cup {None}
        BY DEF RecPC
      <4>. QED  BY <2>1, <2>5, <4>1, AtFields, AtLeft
    <3>2. a \in x.left =>
            x.errs \/ "durable" \notin disk'[a] \/ a \in x.todo \/ a = x.on
      BY <1>2, <1>4, <2>1, <3>1 DEF Clears, LookAt
    <3>. QED  BY <1>1, <2>1, <2>2, <3>1, <3>2, ClearsMoved
  <2>6. CASE x = Erred(d)
    <3>1. x \in PassRecord /\ x.pc = d.pc /\ x.now = d.now /\ x.left = d.left /\ x.errs
      BY <2>1, <2>6, ErredFields, ErredLeft
    <3>. QED  BY <1>1, <2>1, <2>2, <3>1, ClearsMoved
  <2>. QED  BY <2>3, <2>4, <2>5, <2>6
<1>5. CASE RemoveWalked(p)
  <2>1. PICK d : d = At(rec[p], "walking", None) /\ d \in PassRecord /\ d.pc = "walking"
          /\ d.now = rec[p].now /\ d.todo = rec[p].todo /\ d.left = rec[p].left
          /\ d.errs = rec[p].errs
    <3>1. "walking" \in RecPC /\ None \in Artifact \cup {None}
      BY DEF RecPC
    <3>. QED  BY <1>1, <3>1, AtFields, AtLeft
  <2>2. PICK x : x = rec'[p]
    OBVIOUS
  <2>3. \/ Remove(rec[p].on, "durable") /\ x = d
        \/ x = Erred(d)
    BY <1>1, <1>5, <2>1, <2>2, SetHere DEF RemoveWalked, RemoveFile, At, Erred
  <2>4. CASE Remove(rec[p].on, "durable") /\ x = d
    <3>1. a = rec[p].on => "durable" \notin disk'[a]
      BY <1>1, <2>4 DEF Remove, TypeOK
    <3>2. a \in x.left => x.errs \/ "durable" \notin disk'[a] \/ a \in x.todo
      BY <1>2, <1>5, <2>1, <2>4, <3>1 DEF Clears, RemoveWalked
    <3>. QED  BY <1>1, <2>1, <2>2, <2>4, <3>2, ClearsMoved
  <2>5. CASE x = Erred(d)
    <3>1. x \in PassRecord /\ x.pc = d.pc /\ x.now = d.now /\ x.left = d.left /\ x.errs
      BY <2>1, <2>5, ErredFields, ErredLeft
    <3>. QED  BY <1>1, <2>1, <2>2, <3>1, ClearsMoved
  <2>. QED  BY <2>3, <2>4, <2>5
<1>. QED  BY <1>3, <1>4, <1>5

\* Reaping leaves the walk to find what it could not remove.
LEMMA ReapClears ==
  ASSUME Inv, [Next]_vars, NEW p \in Process, NEW a \in Artifact, Clears(p, a),
         \/ ListExpired(p) \/ (\E b \in Artifact : Fence(p, b)) \/ ReapDurable(p) \/ ReapPart(p)
  PROVE  Clears(p, a)'
<1>1. TypeOK /\ rec[p] \in PassRecord
      /\ rec[p].pc \in {"listing", "fencing", "reapDurable", "reapPart"}
  BY DEF Inv, TypeOK, PassRecord, ListExpired, Fence, ReapDurable, ReapPart
<1>2. ASSUME NEW x \in PassRecord, rec'[p] = x, x.left = rec[p].left, x.now = rec[p].now,
             x.pc \in {"fencing", "reapDurable", "reapPart"}
      PROVE  Clears(p, a)'
  BY <1>1, <1>2, ClearsMoved
<1>3. ASSUME NEW d \in PassRecord, rec'[p] = d \/ rec'[p] = Erred(d), d.left = rec[p].left,
             d.now = rec[p].now, d.pc \in {"fencing", "reapDurable", "reapPart"}
      PROVE  Clears(p, a)'
  BY <1>2, <1>3, ErredFields, ErredLeft
<1>4. CASE ListExpired(p)
  <2>1. [rec[p] EXCEPT !.pc = "fencing", !.todo = Expired(rec[p].now)] \in PassRecord
    BY <1>1 DEF PassRecord, RecPC, Expired, Writing
  <2>. QED  BY <1>1, <1>2, <1>4, <2>1, SetHere DEF ListExpired, PassRecord
<1>5. ASSUME NEW b \in Artifact, Fence(p, b) PROVE Clears(p, a)'
  <2>1. PICK d : d = Done(p, b) /\ d \in PassRecord /\ d.pc = "fencing" /\ d.now = rec[p].now
          /\ d.left = rec[p].left
    <3>1. rec[p].pc = "fencing"
      BY <1>5 DEF Fence
    <3>. QED  BY <1>1, <3>1, DoneFields, DoneLeft
  <2>2. PICK e : e = At(d, "reapDurable", b) /\ e \in PassRecord /\ e.pc = "reapDurable"
          /\ e.now = rec[p].now /\ e.left = rec[p].left
    <3>1. "reapDurable" \in RecPC /\ b \in Artifact \cup {None}
      BY DEF RecPC
    <3>. QED  BY <2>1, <3>1, AtFields, AtLeft
  <2>3. rec'[p] = e \/ rec'[p] = d \/ rec'[p] = Erred(d)
    BY <1>1, <1>5, <2>1, <2>2, SetHere DEF Fence, At, Erred
  <2>. QED  BY <1>3, <2>1, <2>2, <2>3
<1>6. CASE ReapDurable(p)
  <2>1. PICK d : d = [rec[p] EXCEPT !.pc = "reapPart"]
    OBVIOUS
  <2>2. d \in PassRecord /\ d.pc = "reapPart" /\ d.now = rec[p].now /\ d.left = rec[p].left
    BY <1>1, <2>1 DEF PassRecord, RecPC
  <2>3. rec'[p] = d \/ rec'[p] = Erred(d)
    BY <1>1, <1>6, <2>1, RemoveFileHere DEF ReapDurable
  <2>. QED  BY <1>3, <2>2, <2>3
<1>7. CASE ReapPart(p)
  <2>1. PICK d : d = At(rec[p], "fencing", None) /\ d \in PassRecord /\ d.pc = "fencing"
          /\ d.now = rec[p].now /\ d.left = rec[p].left
    <3>1. "fencing" \in RecPC /\ None \in Artifact \cup {None}
      BY DEF RecPC
    <3>. QED  BY <1>1, <3>1, AtFields, AtLeft
  <2>2. rec'[p] = d \/ rec'[p] = Erred(d)
    BY <1>1, <1>7, <2>1, RemoveFileHere DEF ReapPart, At
  <2>. QED  BY <1>3, <2>1, <2>2
<1>. QED  BY <1>4, <1>5, <1>6, <1>7

\* The walk is over without an error only when all it found is gone, and so it stays.
LEMMA RepairClears ==
  ASSUME Inv, [Next]_vars, NEW p \in Process, NEW a \in Artifact, Clears(p, a),
         \/ ListFinalPaths(p) \/ TombstoneMissing(p) \/ Finish(p)
         \/ \E b \in Artifact : RepairTombstoned(p, b) \/ RepairFinal(p, b)
  PROVE  Clears(p, a)'
<1>1. TypeOK /\ rec[p] \in PassRecord /\ rec[p].pc \in {"walking", "repairing", "missing"}
  BY DEF Inv, TypeOK, PassRecord, ListFinalPaths, TombstoneMissing, Finish, RepairTombstoned,
     RepairFinal
<1>2. rec[p].pc = "walking" => rec[p].todo = {}
  BY DEF ListFinalPaths, TombstoneMissing, Finish, RepairTombstoned, RepairFinal
<1>3. a \in rec[p].left => rec[p].errs \/ "durable" \notin disk'[a]
  BY <1>1, <1>2, EndedStays DEF Clears
<1>4. ASSUME NEW x \in PassRecord, rec'[p] = x, x.left = rec[p].left, x.now = rec[p].now,
             rec[p].errs => x.errs, x.pc \in {"repairing", "missing"}
      PROVE  Clears(p, a)'
  BY <1>1, <1>3, <1>4, ClearsMoved
<1>5. ASSUME NEW d \in PassRecord, rec'[p] = d \/ rec'[p] = Erred(d), d.left = rec[p].left,
             d.now = rec[p].now, rec[p].errs => d.errs, d.pc \in {"repairing", "missing"}
      PROVE  Clears(p, a)'
  BY <1>4, <1>5, ErredFields, ErredLeft
<1>6. CASE ListFinalPaths(p)
  <2>1. PICK x : x = rec'[p]
    OBVIOUS
  <2>2. InState("final") \in SUBSET Artifact /\ InState("tombstoned") \in SUBSET Artifact
        /\ "repairing" \in RecPC
    BY DEF InState, RecPC
  <2>3. \/ x = [rec[p] EXCEPT !.pc = "repairing", !.finals = InState("final"),
                              !.todo = InState("final") \cup InState("tombstoned")]
        \/ x = [rec[p] EXCEPT !.pc = "repairing", !.errs = TRUE]
    BY <1>1, <1>6, <2>1, SetHere DEF ListFinalPaths
  <2>4. PICK f \in SUBSET Artifact, t \in SUBSET Artifact :
          f = InState("final") /\ t = InState("final") \cup InState("tombstoned")
    BY <2>2
  <2>5. CASE x = [rec[p] EXCEPT !.pc = "repairing", !.finals = f, !.todo = t]
    <3>1. x \in PassRecord /\ x.left = rec[p].left /\ x.now = rec[p].now /\ x.pc = "repairing"
          /\ x.errs = rec[p].errs
      BY <1>1, <2>2, <2>5 DEF PassRecord
    <3>. QED  BY <1>4, <2>1, <3>1
  <2>6. CASE x = [rec[p] EXCEPT !.pc = "repairing", !.errs = TRUE]
    <3>1. x \in PassRecord /\ x.left = rec[p].left /\ x.now = rec[p].now /\ x.pc = "repairing"
          /\ x.errs = TRUE
      BY <1>1, <2>2, <2>6 DEF PassRecord
    <3>. QED  BY <1>4, <2>1, <3>1
  <2>. QED  BY <2>3, <2>4, <2>5, <2>6
<1>7. ASSUME NEW b \in Artifact, RepairTombstoned(p, b) \/ RepairFinal(p, b)
      PROVE  Clears(p, a)'
  <2>1. PICK d : d = Done(p, b) /\ d \in PassRecord /\ d.pc = "repairing" /\ d.now = rec[p].now
          /\ d.left = rec[p].left /\ d.errs = rec[p].errs
    <3>1. rec[p].pc = "repairing"
      BY <1>7 DEF RepairTombstoned, RepairFinal
    <3>. QED  BY <1>1, <3>1, DoneFields, DoneLeft
  <2>2. PICK e : e = At(d, "missing", b) /\ e \in PassRecord /\ e.pc = "missing"
          /\ e.now = rec[p].now /\ e.left = rec[p].left /\ e.errs = rec[p].errs
    <3>1. "missing" \in RecPC /\ b \in Artifact \cup {None}
      BY DEF RecPC
    <3>. QED  BY <2>1, <3>1, AtFields, AtLeft
  <2>3. rec'[p] = e \/ rec'[p] = d \/ rec'[p] = Erred(d)
    BY <1>1, <1>7, <2>1, <2>2, SetHere DEF RepairTombstoned, RepairFinal, RemoveFile, At, Erred
  <2>. QED  BY <1>5, <2>1, <2>2, <2>3
<1>8. CASE TombstoneMissing(p)
  <2>1. PICK d : d = At(rec[p], "repairing", None) /\ d \in PassRecord /\ d.pc = "repairing"
          /\ d.now = rec[p].now /\ d.left = rec[p].left /\ d.errs = rec[p].errs
    <3>1. "repairing" \in RecPC /\ None \in Artifact \cup {None}
      BY DEF RecPC
    <3>. QED  BY <1>1, <3>1, AtFields, AtLeft
  <2>2. rec'[p] = d \/ rec'[p] = Erred(d)
    BY <1>1, <1>8, <2>1, SetHere DEF TombstoneMissing, At, Erred
  <2>. QED  BY <1>5, <2>1, <2>2
<1>9. CASE Finish(p)
  <2>1. CASE rec'[p] = Down
    BY <2>1 DEF Clears, Down
  <2>2. CASE ~rec[p].errs /\ rec'[p] = [Down EXCEPT !.pc = "serving", !.left = rec[p].left]
    <3>1. PICK x : x = [Down EXCEPT !.pc = "serving", !.left = rec[p].left]
      OBVIOUS
    <3>2. x \in PassRecord /\ x.left = rec[p].left /\ x.pc = "serving"
      BY <1>1, <3>1 DEF PassRecord, Down, RecPC
    <3>. QED  BY <1>1, <1>3, <2>2, <3>1, <3>2, ClearsMoved
  <2>. QED  BY <1>1, <1>9, <2>1, <2>2, SetHere DEF Finish
<1>. QED  BY <1>6, <1>7, <1>8, <1>9

\* ClearInv is inductive.
LEMMA ClearStep == ASSUME ClearInv, [Next]_vars PROVE ClearInv'
<1>1. Inv /\ Inv' /\ TypeOK
  BY InvStep DEF ClearInv, Inv
<1>2. ASSUME NEW p \in Process, NEW a \in Artifact PROVE Clears(p, a)'
  <2>1. Clears(p, a)
    BY DEF ClearInv
  <2>2. CASE ~Reconcile(p)
    <3>1. CASE rec'[p] = rec[p]
      BY <1>1, <2>1, <3>1, ClearsKept
    <3>2. CASE rec'[p] = Down
      BY <3>2 DEF Clears, Down
    <3>. QED  BY <1>1, <2>2, <3>1, <3>2, OwnPass
  <2>3. CASE Start(p)
    <3>1. rec'[p] = [Down EXCEPT !.pc = "listing", !.now = now, !.left = Leftover]
          /\ row' = row /\ writer' = writer
      BY <1>1, <2>3, SetHere DEF Start
    <3>2. rec'[p].pc = "listing" /\ rec'[p].now = now /\ rec'[p].left = Leftover
      BY <3>1 DEF Down
    <3>. QED  BY <3>1, <3>2 DEF Clears, Leftover
  <2>4. CASE Reconcile(p) /\ ~Start(p)
    BY <1>1, <2>1, <2>4, WalkClears, ReapClears, RepairClears DEF Reconcile
  <2>. QED  BY <2>2, <2>3, <2>4
<1>. QED  BY <1>1, <1>2 DEF ClearInv

\* Reconcile: a process does not serve before what crashes had left in the durable tree when
\* it started is gone, however many reconcile at once and whatever fails them.
THEOREM StartupClears == Spec => []PassClears
<1>1. Init => ClearInv
  BY InvInit DEF Init, ClearInv, Clears, Down
<1>2. ClearInv => PassClears
  BY DEF ClearInv, Clears, PassClears
<1>. QED  BY <1>1, <1>2, ClearStep, PTL DEF Spec
=============================================================================
