------------------------------- MODULE Documents -------------------------------
(***************************************************************************)
(* One uploaded document: api_server/app/routers/documents.py on one side, *)
(* the worker's analyze_document_task (document_tasks.py) on the other.    *)
(*                                                                         *)
(* The document is a file in a bucket, a row of table documents and the    *)
(* chunks of its analyses.  Every analyze request sends a task, whatever   *)
(* the row says, so several tasks work at once.                            *)
(*                                                                         *)
(* A task changes a copy of the row it read earlier and saves the whole    *)
(* copy.  Saving (SQLAlchemy merge) reads the row once more and writes     *)
(* each column in which the copy differs from that second read: a column   *)
(* the task never meant to change goes back to what it was when the copy   *)
(* was made.  A row that is gone at the second read is inserted again; one *)
(* that comes or goes after it fails the save.                             *)
(***************************************************************************)
EXTENDS Naturals, Merge

CONSTANTS Tasks,     \* 1 .. n, in the order they are sent
          NoTask, NoDoc

ASSUME DocumentsAssumption == Tasks \subseteq Nat /\ NoTask \notin Tasks

VARIABLES docRow,    \* the row: status, the task its blocks are from, and (history)
                     \* the task that wrote RUNNING last
          docFile,   \* the file is in the bucket
          chunks,    \* the tasks whose chunks are stored
          task,      \* Tasks -> the analysis: the blocks of its copy of the row,
                     \* (history) the blocks the row had when the copy was made,
                     \* and, during a save, the columns it will write and
                     \* whether merge found a row
          uploading, \* "no", or what the upload request has done
          deleting   \* a delete request has removed the file, not yet the row

docVars == <<docRow, docFile, chunks, task, uploading, deleting>>

Statuses == {"pending", "running", "completed", "failed"}

DocRow == [status : Statuses, blocks : Tasks \cup {NoTask}, by : Tasks \cup {NoTask}]

TaskPcs == {"unsent", "queued", "begin", "beginning", "parse", "save", "saving",
            "fail", "mark", "marking", "done", "silent"}

Task == [pc : TaskPcs, blocks : Tasks \cup {NoTask}, had : Tasks \cup {NoTask},
         cols : SUBSET {"status", "blocks"}, found : BOOLEAN]

TaskAt(pc, blocks, had) ==
  [pc |-> pc, blocks |-> blocks, had |-> had, cols |-> {}, found |-> FALSE]

DocumentsInit ==
  /\ docRow = NoDoc /\ docFile = FALSE /\ chunks = {}
  /\ task = [t \in Tasks |-> TaskAt("unsent", NoTask, NoTask)]
  /\ uploading = "start" /\ deleting = FALSE

(* Without a copy of the row, and with one just made.                      *)
Go(t, pc) == task' = [task EXCEPT ![t] = TaskAt(pc, NoTask, NoTask)]
Copy(t, pc, blocks) == task' = [task EXCEPT ![t] = TaskAt(pc, blocks, docRow.blocks)]

RequestsUnchanged == UNCHANGED <<docFile, uploading, deleting>>

-----------------------------------------------------------------------------
(* The file first, then the row; the client may have to try again under a  *)
(* new id when the second fails.                                           *)
UploadFile ==
  /\ uploading = "start" /\ uploading' = "file" /\ docFile' = TRUE
  /\ UNCHANGED <<docRow, chunks, task, deleting>>

InsertRow ==
  /\ uploading = "file" /\ uploading' = "no"
  /\ docRow' = [status |-> "pending", blocks |-> NoTask, by |-> NoTask]
  /\ UNCHANGED <<docFile, chunks, task, deleting>>

(* POST analyze, of a row with any status.                                 *)
Analyze(t) ==
  /\ docRow # NoDoc /\ task[t].pc = "unsent" /\ \A u \in Tasks : u < t => task[u].pc # "unsent"
  /\ Go(t, "queued")
  /\ UNCHANGED <<docRow, chunks>> /\ RequestsUnchanged

(* DELETE: the file, present or not, then in one transaction chunks and row*)
DeleteFile ==
  /\ docRow # NoDoc /\ ~deleting
  /\ deleting' = TRUE /\ docFile' = FALSE
  /\ UNCHANGED <<docRow, chunks, task, uploading>>

DeleteRows ==
  /\ deleting /\ deleting' = FALSE
  /\ \/ docRow' = NoDoc /\ chunks' = {}
     \/ UNCHANGED <<docRow, chunks>>
  /\ UNCHANGED <<docFile, task, uploading>>

-----------------------------------------------------------------------------
(* The task reads the row; without one it is over.                         *)
ReadDocument(t) ==
  /\ task[t].pc = "queued"
  /\ IF docRow = NoDoc THEN Go(t, "done") ELSE Copy(t, "begin", docRow.blocks)
  /\ UNCHANGED <<docRow, chunks>> /\ RequestsUnchanged

(* The three saves, and the status each of them is for.                    *)
Saves == {[at |-> "begin", to |-> "beginning", status |-> "running"],
          [at |-> "save",  to |-> "saving",    status |-> "completed"],
          [at |-> "mark",  to |-> "marking",   status |-> "failed"]}

(* A save begins: merge reads the row.  Blocks just parsed have new ids.   *)
MergeReads(t) ==
  /\ \E save \in Saves :
       /\ task[t].pc = save.at
       /\ task' = [task EXCEPT
            ![t].pc = save.to, ![t].found = (docRow # NoDoc),
            ![t].cols = IF docRow = NoDoc THEN {}
                        ELSE Marked("status", save.status, docRow.status) \cup
                             IF save.at = "save" THEN {"blocks"}
                             ELSE Marked("blocks", task[t].blocks, docRow.blocks)]
  /\ UNCHANGED <<docRow, chunks>> /\ RequestsUnchanged

(* And ends: the row is inserted, or the columns that differ are written.  *)
Flush(t, status) ==
  \/ /\ ~task[t].found /\ docRow = NoDoc
     /\ docRow' = [status |-> status, blocks |-> task[t].blocks,
                   by |-> IF status = "running" THEN t ELSE NoTask]
  \/ /\ task[t].found /\ docRow # NoDoc
     /\ docRow' =
          [status |-> Written("status", task[t].cols, status, docRow.status),
           blocks |-> Written("blocks", task[t].cols, task[t].blocks, docRow.blocks),
           by |-> IF status = "running" /\ "status" \in task[t].cols THEN t ELSE docRow.by]

(* The copy with another status; without a difference nothing is written,  *)
(* so that nobody notices a row that has gone.                             *)
SaveStatus(t, status) ==
  \/ Flush(t, status)
  \/ task[t].found /\ task[t].cols = {} /\ docRow = NoDoc /\ UNCHANGED docRow

(* The RUNNING mark.  A failure here is outside of the try that marks the  *)
(* row: the row stays as it is.                                            *)
BeginTask(t) ==
  /\ task[t].pc = "beginning"
  /\ \/ SaveStatus(t, "running") /\ Go(t, "parse")
     \/ UNCHANGED docRow /\ Go(t, "silent")
  /\ UNCHANGED chunks /\ RequestsUnchanged

(* Fault: the failure of the analysis is only logged.                      *)
ParseUnmarked(t) ==
  /\ task[t].pc = "parse"
  /\ \/ docFile /\ task' = [task EXCEPT ![t] = TaskAt("save", t, NoTask)]
     \/ Go(t, "done")
  /\ UNCHANGED <<docRow, chunks>> /\ RequestsUnchanged

(* Download and parse; the file may be gone, and the parser may fail.      *)
Parse(t) ==
  /\ task[t].pc = "parse"
  /\ \/ docFile /\ task' = [task EXCEPT ![t] = TaskAt("save", t, NoTask)]
     \/ Go(t, "fail")
  /\ UNCHANGED <<docRow, chunks>> /\ RequestsUnchanged

(* The result with blocks of its own, the chunks next to the ones of       *)
(* earlier analyses, and the quality log: one transaction.  The worker may *)
(* die before it acknowledges the message, which is delivered again.       *)
SaveResult(t) ==
  /\ task[t].pc = "saving"
  /\ \/ /\ Flush(t, "completed")
        /\ chunks' = chunks \cup {t}
        /\ Go(t, "done") \/ Go(t, "queued")
     \/ Go(t, "fail") /\ UNCHANGED <<docRow, chunks>>
  /\ RequestsUnchanged

(* Fault: the copy is the one the task began with, which had no blocks.    *)
MarkReadsNothing(t) ==
  /\ task[t].pc = "fail"
  /\ IF docRow = NoDoc THEN Go(t, "done") ELSE Copy(t, "mark", NoTask)
  /\ UNCHANGED <<docRow, chunks>> /\ RequestsUnchanged

(* _mark_failed reads the row anew: its copy has the blocks of now.        *)
MarkReads(t) ==
  /\ task[t].pc = "fail"
  /\ IF docRow = NoDoc THEN Go(t, "done") ELSE Copy(t, "mark", docRow.blocks)
  /\ UNCHANGED <<docRow, chunks>> /\ RequestsUnchanged

MarkFailed(t) ==
  /\ task[t].pc = "marking"
  /\ SaveStatus(t, "failed")
  /\ Go(t, "done") \/ Go(t, "queued")
  /\ UNCHANGED chunks /\ RequestsUnchanged

(* The mark itself fails: logged, and the row keeps its status.            *)
MarkFails(t) ==
  /\ task[t].pc \in {"fail", "mark", "marking"} /\ Go(t, "silent")
  /\ UNCHANGED <<docRow, chunks>> /\ RequestsUnchanged

(* The worker dies: the message is delivered again, or lost as well.       *)
WorkerDies(t) ==
  /\ task[t].pc \in TaskPcs \ {"unsent", "queued", "done", "silent"}
  /\ Go(t, "queued") \/ Go(t, "silent")
  /\ UNCHANGED <<docRow, chunks>> /\ RequestsUnchanged

DocumentsNext ==
  \/ UploadFile \/ InsertRow \/ DeleteFile \/ DeleteRows
  \/ \E t \in Tasks : \/ Analyze(t) \/ ReadDocument(t) \/ MergeReads(t)
                      \/ BeginTask(t) \/ Parse(t)
                      \/ SaveResult(t) \/ MarkReads(t) \/ MarkFailed(t)
                      \/ MarkFails(t) \/ WorkerDies(t)

DocumentsSpec == DocumentsInit /\ [][DocumentsNext]_docVars

-----------------------------------------------------------------------------
DocumentsTypeOK ==
  /\ docRow \in DocRow \cup {NoDoc} /\ docFile \in BOOLEAN /\ chunks \subseteq Tasks
  /\ task \in [Tasks -> Task]
  /\ uploading \in {"start", "file", "no"} /\ deleting \in BOOLEAN

(* A browser polls a RUNNING row: the task that wrote it is still at work  *)
(* and will write another status, unless it ended without a word (worker   *)
(* and message lost, its second begin or its mark failed), whatever other  *)
(* tasks and deletions, and copies saved over the row, did meanwhile.      *)
RunningIsWatched ==
  docRow # NoDoc /\ docRow.status = "running" =>
    task[docRow.by].pc \in TaskPcs \ {"unsent", "done"}

(* Task t is marking the row with a copy made before the blocks of now came*)
Overtaken(t) ==
  task[t].pc \in {"beginning", "marking"} /\ task[t].had # docRow.blocks

(* What an analysis found, blocks and chunks, is there until the document  *)
(* is deleted or a newer result replaces it.  The one other way to lose it *)
(* is a task that made its copy before the result came and marks the row   *)
(* after it; a task that began or failed later leaves the result alone.    *)
ResultsKept ==
  [][docRow # NoDoc /\ docRow.blocks \in chunks /\ docRow' # NoDoc =>
       /\ chunks \subseteq chunks'
       /\ \/ docRow'.blocks \in chunks'
          \/ \E t \in Tasks : Overtaken(t) /\ docRow'.blocks = task[t].blocks]_docVars
=============================================================================
