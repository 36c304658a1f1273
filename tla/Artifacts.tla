------------------------------ MODULE Artifacts ------------------------------
(***************************************************************************)
(* The artifact store: internal/artifacts/store.go and reconcile.go over    *)
(* internal/store/postgres/artifact_repo.go.                                *)
(*                                                                         *)
(* An artifact is a row and a file, in two stores that no transaction       *)
(* spans.  A writer holds a lease, moves its bytes into place and commits;  *)
(* readers and deleters look at the row first; every process that starts    *)
(* runs Reconcile beside the writers of the others.  One action is one      *)
(* statement, one file operation, or one step between them; any of them     *)
(* may fail, statements also after they took effect, and processes and the  *)
(* machine may die between any two.                                         *)
(*                                                                         *)
(* Begin draws the identifier and the fence of an artifact, so it has one   *)
(* writer, and lease_owner and fence_token of its row are that writer's as  *)
(* long as its state is writing.  All processes read one clock.             *)
(***************************************************************************)
EXTENDS Integers, FiniteSets

CONSTANTS
  Artifact,   \* (tenant, id) of the artifacts that are begun
  Process,    \* processes that start, and reconcile
  TTL,        \* leaseTTL of Begin
  MaxNow,     \* bound: the clock
  None        \* no artifact

ASSUME ArtifactAssumption == None \notin Artifact
ASSUME ClockAssumption == TTL \in Nat /\ MaxNow \in Nat

VARIABLES
  row,      \* artifacts
  disk,     \* where the bytes of an artifact are
  dirty,    \* artifacts whose rename has not reached the disk
  writer,   \* Writer, and the clock it read in Begin
  deleter,  \* the progress of a Delete
  reader,   \* the progress of a Read
  rec,      \* the Reconcile of each process
  now       \* the clock

vars == <<row, disk, dirty, writer, deleter, reader, rec, now>>

State == {"none", "writing", "final", "tombstoned"}  \* nothing sets "deleting"
Reason == {"none", "deleted", "write_aborted", "expired_write_lease",
           "missing_final_bytes"}
Place == {"part", "durable"}
Null == -1  \* finalized_at of an artifact that was never final

WriterPC == {"none", "begin", "create", "open", "verified", "renamed", "synced",
             "rollback", "abortPart", "abortDurable", "abortRow", "done", "failed"}
Ended == {"done", "failed"}

RecPC == {"down", "listing", "fencing", "reapDurable", "reapPart", "walking",
          "removing", "repairing", "missing", "serving"}
Down == [pc |-> "down", now |-> 0, todo |-> {}, on |-> None, finals |-> {},
         errs |-> FALSE, left |-> {}]

TypeOK ==
  /\ row \in [Artifact -> [state : State, reason : Reason, lease : Nat,
                           finalizedAt : Nat \cup {Null}]]
  /\ disk \in [Artifact -> SUBSET Place]
  /\ dirty \in SUBSET Artifact
  /\ writer \in [Artifact -> [pc : WriterPC, lease : Nat]]
  /\ deleter \in [Artifact -> {"none", "durable", "part"}]
  /\ reader \in [Artifact -> {"none", "found", "open"}]
  /\ rec \in [Process -> [pc : RecPC, now : Nat, todo : SUBSET Artifact,
                          on : Artifact \cup {None}, finals : SUBSET Artifact,
                          errs : BOOLEAN,
                          left : SUBSET Artifact]]  \* history: what crashes had left behind
  /\ now \in 0..MaxNow

Init ==
  /\ row = [a \in Artifact |-> [state |-> "none", reason |-> "none", lease |-> 0,
                                finalizedAt |-> Null]]
  /\ disk = [a \in Artifact |-> {}]
  /\ dirty = {}
  /\ writer = [a \in Artifact |-> [pc |-> "none", lease |-> 0]]
  /\ deleter = [a \in Artifact |-> "none"]
  /\ reader = [a \in Artifact |-> "none"]
  /\ rec = [p \in Process |-> Down]
  /\ now = 0

-----------------------------------------------------------------------------
(* The statements and file operations. *)

\* UpdateState to tombstoned: any row, and the first reason stays.
Tombstoned(r, reason) ==
  IF r.state = "tombstoned" THEN r ELSE [r EXCEPT !.state = "tombstoned", !.reason = reason]

UpdateState(a, reason) == row' = [row EXCEPT ![a] = Tombstoned(@, reason)]

\* os.Remove.
Remove(a, place) ==
  /\ disk' = [disk EXCEPT ![a] = @ \ {place}]
  /\ dirty' = IF place = "durable" THEN dirty \ {a} ELSE dirty

files == <<disk, dirty>>

\* os.Remove whose error is ignored.
TryRemove(a, place) == Remove(a, place) \/ UNCHANGED files

-----------------------------------------------------------------------------
(* A writer. *)

Goto(a, pc) == writer' = [writer EXCEPT ![a].pc = pc]

\* The lease is computed before the row is inserted.
Begin(a) ==
  /\ writer[a].pc = "none"
  /\ writer' = [writer EXCEPT ![a] = [pc |-> "begin", lease |-> now + TTL]]
  /\ UNCHANGED <<row, disk, dirty, deleter, reader, rec, now>>

Inserted(a) ==
  row' = [row EXCEPT ![a] = [state |-> "writing", reason |-> "none",
                             lease |-> writer[a].lease, finalizedAt |-> Null]]

BeginInsert(a) ==
  /\ writer[a].pc = "begin"
  /\ \/ Inserted(a) /\ Goto(a, "create")
     \/ Goto(a, "failed") /\ (Inserted(a) \/ UNCHANGED row)
  /\ UNCHANGED <<disk, dirty, deleter, reader, rec, now>>

\* The .part file, after the row.
Create(a) ==
  /\ writer[a].pc = "create"
  /\ \/ disk' = [disk EXCEPT ![a] = @ \cup {"part"}] /\ Goto(a, "open")
     \/ UNCHANGED disk /\ Goto(a, "failed")
  /\ UNCHANGED <<row, dirty, deleter, reader, rec, now>>

\* Over the limit, a failed write, a wrong checksum, Abort or Close by the caller,
\* and every error of Finalize before its commit.
GiveUp(a) ==
  /\ writer[a].pc \in {"open", "verified", "renamed"}
  /\ Goto(a, "abortPart")
  /\ UNCHANGED <<row, disk, dirty, deleter, reader, rec, now>>

\* Finalize reads the row: is it still this writer's?
Verify(a) ==
  /\ writer[a].pc = "open"
  /\ Goto(a, IF row[a].state = "writing" THEN "verified" ELSE "abortPart")
  /\ UNCHANGED <<row, disk, dirty, deleter, reader, rec, now>>

\* Sync, Close and Rename; a .part that was reaped cannot be renamed.
Rename(a) ==
  /\ writer[a].pc = "verified"
  /\ IF "part" \in disk[a]
     THEN /\ disk' = [disk EXCEPT ![a] = {"durable"}]
          /\ dirty' = dirty \cup {a}
          /\ Goto(a, "renamed")
     ELSE /\ Goto(a, "abortPart")
          /\ UNCHANGED files
  /\ UNCHANGED <<row, deleter, reader, rec, now>>

\* fsyncDir.
SyncDir(a) ==
  /\ writer[a].pc = "renamed"
  /\ dirty' = dirty \ {a}
  /\ Goto(a, "synced")
  /\ UNCHANGED <<row, disk, deleter, reader, rec, now>>

Committed(a) ==
  row' = [row EXCEPT ![a].state = "final", ![a].finalizedAt = now]

\* Faulty variant: FinalizeCommit by (tenant, id) alone.
FinalizeCommitAlways(a) ==
  /\ writer[a].pc = "synced"
  /\ Committed(a) /\ Goto(a, "done")
  /\ UNCHANGED <<disk, dirty, deleter, reader, rec, now>>

\* FinalizeCommit: the lease's age is not asked, only that the row is writing.
FinalizeCommit(a) ==
  /\ writer[a].pc = "synced"
  /\ \/ row[a].state = "writing" /\ Committed(a) /\ Goto(a, "done")
     \/ row[a].state # "writing" /\ UNCHANGED row /\ Goto(a, "rollback")
     \/ row[a].state = "writing" /\ Committed(a) /\ Goto(a, "rollback")
     \/ UNCHANGED row /\ Goto(a, "rollback")
  /\ UNCHANGED <<disk, dirty, deleter, reader, rec, now>>

\* The commit returned an error: the bytes go, then abort.
Rollback(a) ==
  /\ writer[a].pc = "rollback"
  /\ TryRemove(a, "durable")
  /\ Goto(a, "abortPart")
  /\ UNCHANGED <<row, deleter, reader, rec, now>>

\* abort, its two removals and its UpdateState, whose errors are ignored.
AbortPart(a) ==
  /\ writer[a].pc = "abortPart"
  /\ TryRemove(a, "part")
  /\ Goto(a, "abortDurable")
  /\ UNCHANGED <<row, deleter, reader, rec, now>>

AbortDurable(a) ==
  /\ writer[a].pc = "abortDurable"
  /\ TryRemove(a, "durable")
  /\ Goto(a, "abortRow")
  /\ UNCHANGED <<row, deleter, reader, rec, now>>

AbortRow(a) ==
  /\ writer[a].pc = "abortRow"
  /\ UpdateState(a, "write_aborted") \/ UNCHANGED row
  /\ Goto(a, "failed")
  /\ UNCHANGED <<disk, dirty, deleter, reader, rec, now>>

-----------------------------------------------------------------------------
(* Readers and deleters. *)

\* Read: the row, then the file.  Rows that are not final are refused.
Lookup(a) ==
  /\ reader[a] = "none"
  /\ row[a].state = "final"
  /\ reader' = [reader EXCEPT ![a] = "found"]
  /\ UNCHANGED <<row, disk, dirty, writer, deleter, rec, now>>

Open(a) ==
  /\ reader[a] = "found"
  /\ reader' = [reader EXCEPT ![a] = IF "durable" \in disk[a] THEN "open" ELSE "none"]
  /\ UNCHANGED <<row, disk, dirty, writer, deleter, rec, now>>

CloseRead(a) ==
  /\ reader[a] = "open"
  /\ reader' = [reader EXCEPT ![a] = "none"]
  /\ UNCHANGED <<row, disk, dirty, writer, deleter, rec, now>>

\* Delete tombstones whatever state the row is in, then removes both files.
Delete(a) ==
  /\ deleter[a] = "none"
  /\ row[a].state # "none"
  /\ UpdateState(a, "deleted")
  /\ deleter' = [deleter EXCEPT ![a] = "durable"]
  /\ UNCHANGED <<disk, dirty, writer, reader, rec, now>>

DeleteDurable(a) ==
  /\ deleter[a] = "durable"
  /\ TryRemove(a, "durable")
  /\ deleter' = [deleter EXCEPT ![a] = "part"]
  /\ UNCHANGED <<row, writer, reader, rec, now>>

DeletePart(a) ==
  /\ deleter[a] = "part"
  /\ TryRemove(a, "part")
  /\ deleter' = [deleter EXCEPT ![a] = "none"]
  /\ UNCHANGED <<row, writer, reader, rec, now>>

-----------------------------------------------------------------------------
(* Reconcile. *)

Set(p, r) == rec' = [rec EXCEPT ![p] = r]

\* Bytes a pass that begins now is to clear: their writer is gone, and their row is
\* tombstoned or its lease has run out.
Leftover ==
  {a \in Artifact : /\ writer[a].pc \in Ended
                    /\ \/ row[a].state = "tombstoned"
                       \/ row[a].state = "writing" /\ row[a].lease < now}

\* The clock is read once.
Start(p) ==
  /\ rec[p].pc = "down"
  /\ Set(p, [Down EXCEPT !.pc = "listing", !.now = now, !.left = Leftover])
  /\ UNCHANGED <<row, disk, dirty, writer, deleter, reader, now>>

Writing == {a \in Artifact : row[a].state = "writing"}

Expired(t) == {a \in Writing : row[a].lease < t}

\* ListExpiredWriting; its error ends the pass and the process.
ListExpired(p) ==
  /\ rec[p].pc = "listing"
  /\ Set(p, [rec[p] EXCEPT !.pc = "fencing", !.todo = Expired(rec[p].now)])
  /\ UNCHANGED <<row, disk, dirty, writer, deleter, reader, now>>

Done(p, a) == [rec[p] EXCEPT !.todo = @ \ {a}]

\* InvalidateWriting, conditional on the row being as listed: the winner goes on to
\* reap.  Its error, with or without effect, leaves the bytes and the pass goes on.
Fence(p, a) ==
  /\ rec[p].pc = "fencing"
  /\ a \in rec[p].todo
  /\ \/ /\ a \in Writing
        /\ UpdateState(a, "expired_write_lease")
        /\ Set(p, [Done(p, a) EXCEPT !.pc = "reapDurable", !.on = a])
     \/ /\ a \notin Writing
        /\ UNCHANGED row
        /\ Set(p, Done(p, a))
     \/ /\ (a \in Writing /\ UpdateState(a, "expired_write_lease")) \/ UNCHANGED row
        /\ Set(p, [Done(p, a) EXCEPT !.errs = TRUE])
  /\ UNCHANGED <<disk, dirty, writer, deleter, reader, now>>

\* Faulty variant: errors are dropped.
RemoveFileQuietly(p, a, place, next) == TryRemove(a, place) /\ Set(p, next)

\* removeFile: an error other than "not there" is collected.
RemoveFile(p, a, place, next) ==
  \/ Remove(a, place) /\ Set(p, next)
  \/ UNCHANGED files /\ Set(p, [next EXCEPT !.errs = TRUE])

\* removeOwned.
ReapDurable(p) ==
  /\ rec[p].pc = "reapDurable"
  /\ RemoveFile(p, rec[p].on, "durable", [rec[p] EXCEPT !.pc = "reapPart"])
  /\ UNCHANGED <<row, writer, deleter, reader, now>>

ReapPart(p) ==
  /\ rec[p].pc = "reapPart"
  /\ RemoveFile(p, rec[p].on, "part", [rec[p] EXCEPT !.pc = "fencing", !.on = None])
  /\ UNCHANGED <<row, writer, deleter, reader, now>>

\* WalkDir reads the directory, or cannot; .tmp is skipped.
Walk(p) ==
  /\ rec[p].pc = "fencing"
  /\ rec[p].todo = {}
  /\ \/ Set(p, [rec[p] EXCEPT !.pc = "walking",
                              !.todo = {a \in Artifact : "durable" \in disk[a]}])
     \/ Set(p, [rec[p] EXCEPT !.pc = "walking", !.errs = TRUE])
  /\ UNCHANGED <<row, disk, dirty, writer, deleter, reader, now>>

\* Faulty variant: only committed artifacts are kept.
KeepsFinal(a, t) == row[a].state = "final"

Keeps(a, t) ==
  \/ row[a].state = "final"
  \/ row[a].state = "writing" /\ row[a].lease > t

\* rowForFile: keep the file, remove it, or leave it to the next pass on an error.
LookAt(p, a) ==
  /\ rec[p].pc = "walking"
  /\ a \in rec[p].todo
  /\ \/ Keeps(a, rec[p].now) /\ Set(p, Done(p, a))
     \/ ~Keeps(a, rec[p].now) /\ Set(p, [Done(p, a) EXCEPT !.pc = "removing", !.on = a])
     \/ Set(p, [Done(p, a) EXCEPT !.errs = TRUE])
  /\ UNCHANGED <<row, disk, dirty, writer, deleter, reader, now>>

RemoveWalked(p) ==
  /\ rec[p].pc = "removing"
  /\ RemoveFile(p, rec[p].on, "durable", [rec[p] EXCEPT !.pc = "walking", !.on = None])
  /\ UNCHANGED <<row, writer, deleter, reader, now>>

InState(state) == {a \in Artifact : row[a].state = state}

\* ListFinalPaths, or its error.
ListFinalPaths(p) ==
  /\ rec[p].pc = "walking"
  /\ rec[p].todo = {}
  /\ \/ Set(p, [rec[p] EXCEPT !.pc = "repairing", !.finals = InState("final"),
                              !.todo = InState("final") \cup InState("tombstoned")])
     \/ Set(p, [rec[p] EXCEPT !.pc = "repairing", !.errs = TRUE])
  /\ UNCHANGED <<row, disk, dirty, writer, deleter, reader, now>>

\* A listed tombstone: the file goes.
RepairTombstoned(p, a) ==
  /\ rec[p].pc = "repairing"
  /\ a \in rec[p].todo \ rec[p].finals
  /\ RemoveFile(p, a, "durable", Done(p, a))
  /\ UNCHANGED <<row, writer, deleter, reader, now>>

\* A row listed as final: is the file there?
RepairFinal(p, a) ==
  /\ rec[p].pc = "repairing"
  /\ a \in rec[p].todo \cap rec[p].finals
  /\ \/ "durable" \in disk[a] /\ Set(p, Done(p, a))
     \/ "durable" \notin disk[a] /\ Set(p, [Done(p, a) EXCEPT !.pc = "missing", !.on = a])
     \/ Set(p, [Done(p, a) EXCEPT !.errs = TRUE])
  /\ UNCHANGED <<row, disk, dirty, writer, deleter, reader, now>>

TombstoneMissing(p) ==
  /\ rec[p].pc = "missing"
  /\ LET next == [rec[p] EXCEPT !.pc = "repairing", !.on = None]
     IN \/ UpdateState(rec[p].on, "missing_final_bytes") /\ Set(p, next)
        \/ /\ UpdateState(rec[p].on, "missing_final_bytes") \/ UNCHANGED row
           /\ Set(p, [next EXCEPT !.errs = TRUE])
  /\ UNCHANGED <<disk, dirty, writer, deleter, reader, now>>

\* A pass with errors fails the start of the process.
Finish(p) ==
  /\ rec[p].pc = "repairing"
  /\ rec[p].todo = {}
  /\ Set(p, IF rec[p].errs THEN Down ELSE [Down EXCEPT !.pc = "serving", !.left = rec[p].left])
  /\ UNCHANGED <<row, disk, dirty, writer, deleter, reader, now>>

-----------------------------------------------------------------------------
(* Failures and time. *)

\* The process of a writer, a deleter or a reconciler dies.
WriterDies(a) ==
  /\ writer[a].pc \notin {"none"} \cup Ended
  /\ Goto(a, "failed")
  /\ UNCHANGED <<row, disk, dirty, deleter, reader, rec, now>>

DeleterDies(a) ==
  /\ deleter[a] # "none"
  /\ deleter' = [deleter EXCEPT ![a] = "none"]
  /\ UNCHANGED <<row, disk, dirty, writer, reader, rec, now>>

Stop(p) ==
  /\ rec[p].pc # "down"
  /\ Set(p, Down)
  /\ UNCHANGED <<row, disk, dirty, writer, deleter, reader, now>>

\* The machine dies: with the processes go renames that have not reached the disk.
PowerLoss ==
  /\ \E undone \in SUBSET dirty :
       disk' = [a \in Artifact |-> IF a \in undone THEN {"part"} ELSE disk[a]]
  /\ dirty' = {}
  /\ writer' = [a \in Artifact |->
                  IF writer[a].pc \in {"none"} \cup Ended THEN writer[a]
                  ELSE [writer[a] EXCEPT !.pc = "failed"]]
  /\ deleter' = [a \in Artifact |-> "none"]
  /\ reader' = [a \in Artifact |-> "none"]
  /\ rec' = [p \in Process |-> Down]
  /\ UNCHANGED <<row, now>>

Tick ==
  /\ now < MaxNow
  /\ now' = now + 1
  /\ UNCHANGED <<row, disk, dirty, writer, deleter, reader, rec>>

Write(a) ==
  \/ Begin(a) \/ BeginInsert(a) \/ Create(a) \/ GiveUp(a)
  \/ Verify(a) \/ Rename(a) \/ SyncDir(a) \/ FinalizeCommit(a) \/ Rollback(a)
  \/ AbortPart(a) \/ AbortDurable(a) \/ AbortRow(a)

Use(a) ==
  \/ Lookup(a) \/ Open(a) \/ CloseRead(a)
  \/ Delete(a) \/ DeleteDurable(a) \/ DeletePart(a)

Reconcile(p) ==
  \/ Start(p) \/ ListExpired(p) \/ (\E a \in Artifact : Fence(p, a))
  \/ ReapDurable(p) \/ ReapPart(p)
  \/ Walk(p) \/ (\E a \in Artifact : LookAt(p, a)) \/ RemoveWalked(p)
  \/ ListFinalPaths(p)
  \/ (\E a \in Artifact : RepairTombstoned(p, a) \/ RepairFinal(p, a))
  \/ TombstoneMissing(p) \/ Finish(p)

Fail ==
  \/ \E a \in Artifact : WriterDies(a) \/ DeleterDies(a)
  \/ \E p \in Process : Stop(p)
  \/ PowerLoss

Next ==
  \/ \E a \in Artifact : Write(a) \/ Use(a)
  \/ \E p \in Process : Reconcile(p)
  \/ Fail
  \/ Tick

Spec == Init /\ [][Next]_vars

-----------------------------------------------------------------------------
Deleted(a) == row[a].state = "tombstoned" /\ row[a].reason = "deleted"

\* An artifact whose Finalize returned within the lease keeps its bytes and its row
\* until Delete is called, whatever Reconcile passes, failed statements, crashes and
\* power losses come before or after (store.go:3-6, "without data loss").
LeaseProtects ==
  \A a \in Artifact :
    writer[a].pc = "done" /\ row[a].finalizedAt < writer[a].lease =>
      (row[a].state = "final" /\ "durable" \in disk[a]) \/ Deleted(a)

\* A fenced, aborted or deleted artifact never becomes readable again: tombstoned is
\* final, with its first reason, although a writer may still be renaming and
\* committing ("a fenced writer can never complete", store.go:261).
FencedStaysFenced ==
  [][\A a \in Artifact : row[a].state = "tombstoned" => row'[a] = row[a]]_vars

\* A process that serves has cleared what crashes had left in the durable tree when
\* its pass began, though other processes reconcile at the same time and each loses
\* some of the fences (reconcile.go:17-31, main.go:83-87).
PassClears ==
  \A p \in Process, a \in Artifact :
    rec[p].pc = "serving" /\ a \in rec[p].left => "durable" \notin disk[a]
=============================================================================
