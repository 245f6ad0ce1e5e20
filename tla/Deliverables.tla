----------------------------- MODULE Deliverables -----------------------------
(***************************************************************************)
(* The evidence of a task (app/services/artifact_service.py,               *)
(* deliverable_materializer.py, completion_service.py): artifacts that     *)
(* vouch for files and texts of an execution, the final delivery file that *)
(* completion writes, and the report that names valid artifacts.           *)
(*                                                                         *)
(* A run works on a copy of the task and stores it once, at its end; files *)
(* are written at once and are not undone.  Between any two steps of a     *)
(* completion the process may die, and somebody else (a tool of another    *)
(* task or of a rerun, an operator) may change a file.                     *)
(***************************************************************************)
EXTENDS Naturals

CONSTANTS
  Contents,    \* what a file or an output may hold
  Empty,       \* an empty file, an empty output
  Gone,        \* no file
  None,        \* no artifact, no report
  MaxAttempts, \* bound: executions of the task
  MaxChanges   \* bound: changes somebody else makes to the files

ASSUME ContentsAssumption ==
  Empty \notin Contents /\ Gone \notin Contents \cup {Empty}
ASSUME BoundsAssumption == MaxAttempts \in Nat \ {0} /\ MaxChanges \in Nat

VARIABLES
  contract,  \* deliverable_kind is "file"; the file_write tool uses its file name
  active,    \* attempt_no of the active execution
  disk,      \* the delivery file of every attempt, and the file of the tool
  artifacts, \* of the active execution, as stored
  report,    \* of the active execution
  paused,    \* the task waits at human_intervention
  earlier,   \* the delivery that earlier executions registered
  job,       \* the run or request under way on the task
  outside,   \* delivery files that somebody else has changed
  changes    \* how often somebody else changed a file

vars == <<contract, active, disk, artifacts, report, paused, earlier, job, outside, changes>>
task == <<contract, active, earlier>>
files == <<disk, outside, changes>>
stored == <<artifacts, report, paused>>
-----------------------------------------------------------------------------
(* Types *)

Attempts == 1..MaxAttempts
FileSource == {"managed", "tool"}
Source == FileSource \cup {"text"}  \* source_type and source_id
Data == Contents \cup {Empty}

\* The content, or the checksum of a file.
Artifact == [valid : BOOLEAN, content : Contents]
ToolArtifact == [valid : BOOLEAN, content : Data]
Artifacts == [managed : Artifact \cup {None}, tool : ToolArtifact \cup {None},
              text : Artifact \cup {None}]

Report == [status : {"running", "succeeded", "failed"}, output : Data,
           ids : SUBSET Source, gap : BOOLEAN]

ASSUME NoneAssumption == None \notin ToolArtifact \cup Report

Job == [pc : {"none", "flow", "written", "check", "write", "read", "revalidate"},
        artifacts : Artifacts, candidate : {"succeeded", "failed"}, output : Data,
        all : BOOLEAN,        \* no artifact_ids were given
        ids : SUBSET Source,  \* requested
        accepted : BOOLEAN, gap : BOOLEAN,
        todo : SUBSET FileSource,      \* still to be revalidated
        touched : SUBSET FileSource]   \* changed since they were revalidated

NoArtifacts == [managed |-> None, tool |-> None, text |-> None]
NoJob == [pc |-> "none", artifacts |-> NoArtifacts, candidate |-> "failed",
          output |-> Empty, all |-> FALSE, ids |-> {}, accepted |-> FALSE,
          gap |-> FALSE, todo |-> {}, touched |-> {}]

Init ==
  /\ contract \in [file : BOOLEAN, fits : BOOLEAN] /\ (contract.fits => contract.file)
  /\ active = 1
  /\ disk = [managed |-> [e \in Attempts |-> Gone], tool |-> Gone]
  /\ artifacts = NoArtifacts
  /\ report = None
  /\ paused = FALSE
  /\ earlier = [e \in Attempts |-> None]
  /\ job = NoJob
  /\ outside = {}
  /\ changes = 0
-----------------------------------------------------------------------------
(* Helpers *)

\* Variant: one directory for all executions.
OneDirectory(e) == 1

\* The delivery file of an execution is its own: output_root/task/execution/filename.
DeliveryFile(e) == e

OnDisk(s) == IF s = "tool" THEN disk.tool ELSE disk.managed[DeliveryFile(active)]

Known(arts) == {s \in Source : arts[s] # None}

\* Variant: the content is not compared with the registration.
ExistsOnly(s, a) == OnDisk(s) \notin {Gone, Empty}

\* What revalidation asks of the file of an artifact.
Matches(s, a) == OnDisk(s) \notin {Gone, Empty} /\ OnDisk(s) = a.content

\* A tool's file may come back, a managed one that was found invalid does not.
StillValid(s, a) == Matches(s, a) /\ (s = "tool" \/ a.valid)

\* The artifact with its file looked at once more.
Revalidated(s, arts) == [arts EXCEPT ![s].valid = StillValid(s, arts[s])]

\* _register: a source that has an artifact keeps the one it has.
Register(arts, s, a) == IF arts[s] # None THEN arts ELSE [arts EXCEPT ![s] = a]

\* register_task_file_output replaces the one it finds.
RegisterDelivery(arts, content) ==
  [arts EXCEPT !["managed"] = [valid |-> TRUE, content |-> content]]

RegisterText(arts, output) ==
  IF output = Empty THEN arts ELSE Register(arts, "text", [valid |-> TRUE, content |-> output])

Goes(j) == job' = j /\ UNCHANGED task
-----------------------------------------------------------------------------
(* The flow: a tool writes a file, its result is registered at the end of the round *)

StartFlow ==
  /\ job.pc = "none" /\ report = None
  /\ Goes([NoJob EXCEPT !.pc = "flow", !.artifacts = artifacts])
  /\ UNCHANGED <<files, stored>>

(* write_text truncates the file and writes it: a process that dies in      *)
(* between leaves it empty.  Bound: one file per execution.                 *)
ToolWrites ==
  /\ job.pc = "flow" /\ job.artifacts.tool = None
  /\ \E c \in Data : disk' = [disk EXCEPT !.tool = c]
  /\ Goes([job EXCEPT !.pc = "written"])
  /\ UNCHANGED <<outside, changes, stored>>

\* register_tool_result takes the checksum of what the file holds by now.
RegisterToolResult ==
  LET a == IF disk.tool = Gone THEN [valid |-> FALSE, content |-> Empty]
                               ELSE [valid |-> TRUE, content |-> disk.tool]
  IN  /\ job.pc = "written"
      /\ Goes([job EXCEPT !.pc = "flow", !.artifacts = Register(@, "tool", a)])
      /\ UNCHANGED <<files, stored>>

\* The flow pauses for a human or for its loop limit.
Pause ==
  /\ job.pc = "flow"
  /\ artifacts' = job.artifacts
  /\ paused' = TRUE
  /\ Goes(NoJob)
  /\ UNCHANGED <<files, report>>
-----------------------------------------------------------------------------
(* CompletionService.finalize *)

Finalize(arts, candidate, output, all, ids, unknown) ==
  /\ Goes([NoJob EXCEPT !.pc = "check", !.artifacts = arts, !.candidate = candidate,
             !.output = output, !.all = all, !.ids = ids, !.gap = unknown])
  /\ UNCHANGED <<files, stored>>

\* The flow completes the task, or fails it.
FlowFinalizes ==
  /\ job.pc = "flow"
  /\ \E candidate \in {"succeeded", "failed"}, output \in Data :
       Finalize(job.artifacts, candidate, output, TRUE, {}, FALSE)

(* submit_result on a paused task may name its evidence, and unknown ids    *)
(* too; a failure without an output reports its status.                     *)
ResultFinalizes ==
  /\ job.pc = "none" /\ paused /\ report = None
  /\ \E candidate \in {"succeeded", "failed"}, output \in Data,
        all \in BOOLEAN, ids \in SUBSET Known(artifacts), unknown \in BOOLEAN :
       /\ candidate = "failed" => output # Empty
       /\ all => ids = {} /\ ~unknown
       /\ Finalize(artifacts, candidate, output, all, ids, unknown)

\* The output under review stands, if there is one.
VerdictOutput(posted) == IF report.output # Empty THEN report.output ELSE posted

\* submit_result while completion waits for a human decision.
VerdictFinalizes ==
  /\ job.pc = "none" /\ paused /\ report # None
  /\ \E candidate \in {"succeeded", "failed"}, posted \in Data :
       /\ candidate = "failed" => VerdictOutput(posted) # Empty
       /\ Goes([NoJob EXCEPT !.pc = "check", !.artifacts = artifacts,
                  !.candidate = candidate, !.output = VerdictOutput(posted),
                  !.ids = report.ids, !.accepted = candidate = "succeeded"])
  /\ UNCHANGED <<files, stored>>

\* Without artifact_ids all artifacts of the execution are requested.
Select(j) ==
  LET known == Known(j.artifacts)
      ids == IF j.all THEN known ELSE j.ids \cap known
  IN  [j EXCEPT !.pc = "revalidate", !.ids = ids, !.accepted = FALSE,
                !.todo = ids \cap FileSource]

(* What there is to deliver: a file under review is kept, a valid file of   *)
(* the tool will do, else the delivery is written; a text is registered.    *)
CheckDelivery ==
  LET wanted == job.candidate = "succeeded" /\ contract.file
      looked == IF wanted /\ job.artifacts.tool # None
                THEN Revalidated("tool", job.artifacts) ELSE job.artifacts
      toolFile == looked.tool # None /\ looked.tool.valid /\ contract.fits
      reviewed == job.accepted /\ looked.managed # None
      checked == [job EXCEPT !.artifacts =
                    IF wanted THEN looked ELSE RegisterText(looked, job.output)]
  IN  /\ job.pc = "check"
      /\ Goes(IF wanted /\ ~reviewed /\ ~toolFile
              THEN [checked EXCEPT !.pc = "write"] ELSE Select(checked))
      /\ UNCHANGED <<files, stored>>

\* Variant: a delivery that cannot be written is not mentioned.
NotWrittenSilently(j) == Select(j)

NotWritten(j) == Select([j EXCEPT !.gap = TRUE])

(* materialize writes a temporary file of its own, flushes it and renames   *)
(* it: whoever looks finds the old file or the whole new one.  What fails   *)
(* (an empty output, a name, the disk) becomes a gap.                       *)
Materialize ==
  /\ job.pc = "write"
  /\ \/ /\ job.output # Empty
        /\ disk' = [disk EXCEPT !.managed[DeliveryFile(active)] = job.output]
        /\ outside' = outside \ {DeliveryFile(active)}
        /\ Goes([job EXCEPT !.pc = "read"])
     \/ Goes(NotWritten(job)) /\ UNCHANGED <<disk, outside>>
  /\ UNCHANGED <<changes, stored>>

(* The file is registered only if it reads back as it was written.  (A       *)
(* ValueError of the read-back would register it unread.  Each check that   *)
(* raises one has passed in materialize, for the same task and path.)       *)
ReadBack ==
  /\ job.pc = "read"
  /\ Goes(IF OnDisk("managed") = job.output
          THEN Select([job EXCEPT !.artifacts = RegisterDelivery(@, job.output)])
          ELSE NotWritten(job))
  /\ UNCHANGED <<files, stored>>

Revalidate(s) ==
  /\ job.pc = "revalidate" /\ s \in job.todo
  /\ Goes([job EXCEPT !.todo = @ \ {s}, !.touched = @ \ {s},
                      !.artifacts = Revalidated(s, @)])
  /\ UNCHANGED <<files, stored>>

(* What is not valid leaves the selection and a gap behind.  The criteria   *)
(* are judged by the model while the files lie there: one that is not met   *)
(* (or an empty output) makes a success wait, artifact gaps do not.         *)
WriteReport ==
  LET valid == {s \in job.ids : job.artifacts[s].valid} IN
  /\ job.pc = "revalidate" /\ job.todo = {}
  /\ \E status \in IF job.candidate = "failed" THEN {"failed"}
                   ELSE IF job.output = Empty THEN {"running"} ELSE {"running", "succeeded"} :
       /\ report' = [status |-> status, output |-> job.output, ids |-> valid,
                     gap |-> job.gap \/ valid # job.ids]
       /\ paused' = (status = "running")
  /\ artifacts' = job.artifacts
  /\ Goes(NoJob)
  /\ UNCHANGED files
-----------------------------------------------------------------------------
\* A rerun opens an execution without artifacts.
Rerun ==
  /\ job.pc = "none" /\ report # None /\ report.status # "running"
  /\ active < MaxAttempts
  /\ active' = active + 1
  /\ earlier' = [earlier EXCEPT ![active] = artifacts.managed]
  /\ artifacts' = NoArtifacts /\ report' = None /\ paused' = FALSE
  /\ UNCHANGED <<contract, job, files>>

\* The process dies, or the run raises: what it had not stored is lost.
Dies ==
  /\ job.pc # "none"
  /\ Goes(NoJob)
  /\ UNCHANGED <<files, stored>>

Touched(s) ==
  Goes(IF job.pc = "revalidate" THEN [job EXCEPT !.touched = @ \cup {s}] ELSE job)

\* Somebody else writes or deletes a file.
SomebodyElse ==
  /\ changes < MaxChanges
  /\ changes' = changes + 1
  /\ \E c \in Contents \cup {Gone} :
       \/ /\ disk' = [disk EXCEPT !.tool = c]
          /\ Touched("tool")
          /\ UNCHANGED outside
       \/ \E e \in Attempts :
            /\ disk.managed[e] # Gone
            /\ disk' = [disk EXCEPT !.managed[e] = c]
            /\ outside' = outside \cup {e}
            /\ IF e = active THEN Touched("managed") ELSE Goes(job)
  /\ UNCHANGED stored

Next ==
  \/ StartFlow \/ ToolWrites \/ RegisterToolResult \/ Pause
  \/ FlowFinalizes \/ ResultFinalizes \/ VerdictFinalizes
  \/ CheckDelivery \/ Materialize \/ ReadBack
  \/ (\E s \in FileSource : Revalidate(s)) \/ WriteReport
  \/ Rerun \/ Dies \/ SomebodyElse

Spec == Init /\ [][Next]_vars
-----------------------------------------------------------------------------
(* Properties *)

TypeOK ==
  /\ contract \in [file : BOOLEAN, fits : BOOLEAN]
  /\ active \in Attempts
  /\ disk \in [managed : [Attempts -> Data \cup {Gone}], tool : Data \cup {Gone}]
  /\ artifacts \in Artifacts
  /\ report \in Report \cup {None}
  /\ paused \in BOOLEAN
  /\ earlier \in [Attempts -> Artifact \cup {None}]
  /\ job \in Job
  /\ outside \in SUBSET Attempts
  /\ changes \in 0..MaxChanges

(* A report vouches for what is there: a file it selects holds what the     *)
(* artifact says unless it was changed after its last look at it (the       *)
(* criteria are judged in between), and the text it selects is the output   *)
(* it reports, although _register keeps the first text of an execution.     *)
EvidenceStands ==
  [][report' # report /\ report' # None => \A s \in report'.ids :
       IF s = "text" THEN artifacts'.text.content = report'.output
       ELSE OnDisk(s) = artifacts'[s].content \/ s \in job.touched]_vars

Delivery(e) == IF e = active THEN artifacts.managed ELSE earlier[e]

(* A delivery file that was registered stays as it was registered: no later *)
(* completion, rerun, retry after a crash or verdict of this task writes    *)
(* over it, only somebody else can.                                         *)
DeliveryStands ==
  \A e \in Attempts :
    Delivery(e) # None =>
      ~Delivery(e).valid \/ disk.managed[e] = Delivery(e).content \/ e \in outside

(* A file task that completes without evidence named for it has a valid     *)
(* delivery file in its report, or says in it what went wrong with the file. *)
NoSilentLoss ==
  [][report' # report /\ report' # None /\ report'.status = "succeeded"
       /\ contract.file /\ job.all =>
     \/ report'.gap \/ "managed" \in report'.ids
     \/ "tool" \in report'.ids /\ contract.fits]_vars
=============================================================================
