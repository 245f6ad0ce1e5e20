--------------------------- MODULE DeliverablesProofs ---------------------------
(***************************************************************************)
(* What a report may be relied on for, for any number of executions, of    *)
(* contents and of changes by others.                                      *)
(*                                                                         *)
(* A completion writes a delivery file only where none is registered       *)
(* (JobOK at "write"), what it has looked at is as it saw it or was        *)
(* touched since (Looked), and it selects a file or notes a gap (Promise). *)
(***************************************************************************)
EXTENDS Deliverables, TLAPS

\* The artifact vouches for the delivery file of the execution.
Stands(a, e) ==
  a # None => ~a.valid \/ disk.managed[e] = a.content \/ e \in outside

Looked(s, a) ==
  s \in job.ids \ job.todo /\ a.valid => OnDisk(s) = a.content \/ s \in job.touched

\* There is something to deliver, or a gap says that there is not.
Promise ==
  \/ job.gap \/ "managed" \in job.ids
  \/ "tool" \in job.ids /\ contract.fits

StoredOK ==
  /\ report = None => artifacts.managed = None
  /\ artifacts.text # None => report # None /\ report.output = artifacts.text.content

JobOK ==
  /\ job.pc # "none" =>
       /\ Stands(job.artifacts.managed, active)
       /\ job.artifacts.text # None => job.artifacts.text.content = job.output
  /\ job.pc \in {"flow", "written"} =>
       report = None /\ job.artifacts.managed = None /\ job.artifacts.text = None
  /\ job.pc = "check" =>
       /\ job.artifacts.managed = artifacts.managed
       /\ artifacts.managed # None => job.accepted \/ job.candidate = "failed"
       /\ job.all => ~job.accepted
  /\ job.pc \in {"write", "read"} => artifacts.managed = None /\ job.artifacts.managed = None
  /\ job.pc = "read" => job.output \in Contents
  /\ job.pc = "revalidate" =>
       /\ job.ids \subseteq Known(job.artifacts) /\ job.todo \subseteq job.ids
       /\ Looked("managed", job.artifacts.managed)
       /\ Looked("tool", job.artifacts.tool)
       /\ job.all /\ job.candidate = "succeeded" /\ contract.file => Promise

Clean == DeliveryStands /\ StoredOK /\ JobOK

IInv == TypeOK /\ Clean

Arts(managed, tool, text) == [managed |-> managed, tool |-> tool, text |-> text]

LEMMA ArtsType ==
  ASSUME NEW managed \in Artifact \cup {None}, NEW tool \in ToolArtifact \cup {None},
         NEW text \in Artifact \cup {None}
  PROVE  /\ Arts(managed, tool, text) \in Artifacts
         /\ Arts(managed, tool, text).managed = managed
         /\ Arts(managed, tool, text).tool = tool
         /\ Arts(managed, tool, text).text = text
BY DEF Arts, Artifacts

LEMMA IsArts ==
  ASSUME NEW arts \in Artifacts
  PROVE  /\ arts = Arts(arts.managed, arts.tool, arts.text)
         /\ arts.managed \in Artifact \cup {None}
         /\ arts.tool \in ToolArtifact \cup {None}
         /\ arts.text \in Artifact \cup {None}
BY DEF Arts, Artifacts

LEMMA NoArtifactsType == NoArtifacts \in Artifacts /\ NoArtifacts = Arts(None, None, None)
BY DEF NoArtifacts, Artifacts, Arts

\* Looking at a file changes what is said of its validity only.
LEMMA LookedAtTool ==
  ASSUME NEW arts \in Artifacts, arts.tool # None
  PROVE  \E valid \in BOOLEAN :
           /\ valid = StillValid("tool", arts.tool)
           /\ [valid |-> valid, content |-> arts.tool.content] \in ToolArtifact
           /\ Revalidated("tool", arts) =
                Arts(arts.managed, [valid |-> valid, content |-> arts.tool.content], arts.text)
<1>1. /\ StillValid("tool", arts.tool) \in BOOLEAN
      /\ \A v : v = StillValid("tool", arts.tool) =>
           Revalidated("tool", arts) = [arts EXCEPT !["tool"].valid = v]
  BY Zenon DEF StillValid, Matches, Revalidated
<1>2. PICK v \in BOOLEAN : /\ v = StillValid("tool", arts.tool)
                           /\ Revalidated("tool", arts) = [arts EXCEPT !["tool"].valid = v]
  BY <1>1, Zenon
<1>3. arts.tool \in ToolArtifact
  BY IsArts
<1>4. [arts EXCEPT !["tool"].valid = v]
        = Arts(arts.managed, [valid |-> v, content |-> arts.tool.content], arts.text)
  BY <1>3, IsArts DEF Arts, Artifacts, ToolArtifact
<1> QED BY <1>2, <1>3, <1>4 DEF ToolArtifact

LEMMA LookedAtManaged ==
  ASSUME NEW arts \in Artifacts, arts.managed # None
  PROVE  \E valid \in BOOLEAN :
           /\ valid = StillValid("managed", arts.managed)
           /\ [valid |-> valid, content |-> arts.managed.content] \in Artifact
           /\ Revalidated("managed", arts) =
                Arts([valid |-> valid, content |-> arts.managed.content], arts.tool, arts.text)
<1>1. /\ StillValid("managed", arts.managed) \in BOOLEAN
      /\ \A v : v = StillValid("managed", arts.managed) =>
           Revalidated("managed", arts) = [arts EXCEPT !["managed"].valid = v]
  BY Zenon DEF StillValid, Matches, Revalidated
<1>2. PICK v \in BOOLEAN : /\ v = StillValid("managed", arts.managed)
                           /\ Revalidated("managed", arts) = [arts EXCEPT !["managed"].valid = v]
  BY <1>1, Zenon
<1>3. arts.managed \in Artifact
  BY IsArts
<1>4. [arts EXCEPT !["managed"].valid = v]
        = Arts([valid |-> v, content |-> arts.managed.content], arts.tool, arts.text)
  BY <1>3, IsArts DEF Arts, Artifacts, Artifact
<1> QED BY <1>2, <1>3, <1>4 DEF Artifact

LEMMA KnownSources ==
  ASSUME NEW arts \in Artifacts
  PROVE  /\ Known(arts) \in SUBSET Source
         /\ "managed" \in Known(arts) <=> arts.managed # None
         /\ "tool" \in Known(arts) <=> arts.tool # None
         /\ "text" \in Known(arts) <=> arts.text # None
BY DEF Known, Source, FileSource, Artifacts

LEMMA Registering ==
  ASSUME NEW arts \in Artifacts, NEW output \in Data
  PROVE  /\ RegisterText(arts, output) \in Artifacts
         /\ RegisterText(arts, output).managed = arts.managed
         /\ RegisterText(arts, output).tool = arts.tool
         /\ \/ RegisterText(arts, output).text = arts.text
            \/ /\ arts.text = None /\ output \in Contents
               /\ RegisterText(arts, output).text = [valid |-> TRUE, content |-> output]
<1>1. CASE output = Empty \/ arts.text # None
  <2>1. RegisterText(arts, output) = arts
    BY <1>1 DEF RegisterText, Register
  <2> QED BY <2>1
<1>2. CASE output # Empty /\ arts.text = None
  <2>1. output \in Contents
    BY <1>2 DEF Data
  <2>2. RegisterText(arts, output) = [arts EXCEPT !["text"] = [valid |-> TRUE, content |-> output]]
    BY <1>2 DEF RegisterText, Register
  <2>3. [valid |-> TRUE, content |-> output] \in Artifact
    BY <2>1 DEF Artifact
  <2> QED BY <1>2, <2>1, <2>2, <2>3 DEF Artifacts
<1> QED BY <1>1, <1>2

LEMMA Delivering ==
  ASSUME NEW arts \in Artifacts, NEW output \in Contents
  PROVE  /\ RegisterDelivery(arts, output) \in Artifacts
         /\ RegisterDelivery(arts, output).managed = [valid |-> TRUE, content |-> output]
         /\ RegisterDelivery(arts, output).tool = arts.tool
         /\ RegisterDelivery(arts, output).text = arts.text
BY DEF RegisterDelivery, Artifacts, Artifact

LEMMA RegisteringTool ==
  ASSUME NEW arts \in Artifacts, NEW a \in ToolArtifact
  PROVE  /\ Register(arts, "tool", a) \in Artifacts
         /\ Register(arts, "tool", a).managed = arts.managed
         /\ Register(arts, "tool", a).text = arts.text
BY DEF Register, Artifacts

\* A job whose artifacts are replaced.
LEMMA WithArtifacts ==
  ASSUME NEW j \in Job, NEW arts \in Artifacts
  PROVE  \E c \in Job :
           /\ c = [j EXCEPT !.artifacts = arts]
           /\ c.artifacts = arts /\ c.output = j.output
           /\ c.candidate = j.candidate /\ c.all = j.all
<1> DEFINE c == [j EXCEPT !.artifacts = arts]
<1>1. c \in Job
  BY DEF Job
<1>2. c.artifacts = arts /\ c.output = j.output /\ c.candidate = j.candidate /\ c.all = j.all
  BY DEF Job
<1> HIDE DEF c
<1>3. c = [j EXCEPT !.artifacts = arts]
  BY DEF c
<1> QED BY <1>1, <1>2, <1>3

\* A job that has a gap to report.
LEMMA WithGap ==
  ASSUME NEW j \in Job
  PROVE  \E c \in Job :
           /\ c = [j EXCEPT !.gap = TRUE]
           /\ c.artifacts = j.artifacts /\ c.output = j.output /\ c.gap = TRUE
<1> DEFINE c == [j EXCEPT !.gap = TRUE]
<1>1. c \in Job
  BY DEF Job
<1>2. c.artifacts = j.artifacts /\ c.output = j.output /\ c.gap = TRUE
  BY DEF Job
<1> HIDE DEF c
<1>3. c = [j EXCEPT !.gap = TRUE]
  BY DEF c
<1> QED BY <1>1, <1>2, <1>3

LEMMA Selected ==
  ASSUME NEW j \in Job
  PROVE  /\ Select(j) \in Job
         /\ Select(j).pc = "revalidate" /\ Select(j).artifacts = j.artifacts
         /\ Select(j).candidate = j.candidate /\ Select(j).output = j.output
         /\ Select(j).all = j.all /\ Select(j).gap = j.gap
         /\ Select(j).ids = IF j.all THEN Known(j.artifacts) ELSE j.ids \cap Known(j.artifacts)
         /\ Select(j).todo = Select(j).ids \cap FileSource
         /\ Select(j).touched = j.touched
<1>1. j.artifacts \in Artifacts
  BY DEF Job
<1>2. Known(j.artifacts) \in SUBSET Source
  BY <1>1, KnownSources
<1> DEFINE ids == IF j.all THEN Known(j.artifacts) ELSE j.ids \cap Known(j.artifacts)
<1>3. ids \in SUBSET Source /\ ids \cap FileSource \in SUBSET FileSource
  BY <1>2 DEF Job
<1>4. Select(j) = [j EXCEPT !.pc = "revalidate", !.ids = ids, !.accepted = FALSE,
                           !.todo = ids \cap FileSource]
  BY DEF Select
<1> HIDE DEF ids
<1>5. /\ [j EXCEPT !.pc = "revalidate", !.ids = ids, !.accepted = FALSE,
                   !.todo = ids \cap FileSource] \in Job
  BY <1>3 DEF Job
<1>6. Select(j) \in Job
  BY <1>4, <1>5
<1>7. Select(j).ids = ids /\ Select(j).todo = ids \cap FileSource /\ Select(j).pc = "revalidate"
  BY <1>4 DEF Job
<1>8. /\ Select(j).artifacts = j.artifacts /\ Select(j).candidate = j.candidate
      /\ Select(j).output = j.output /\ Select(j).all = j.all /\ Select(j).gap = j.gap
      /\ Select(j).touched = j.touched
  BY <1>4 DEF Job
<1> QED BY <1>6, <1>7, <1>8 DEF ids
-----------------------------------------------------------------------------
(* The steps *)

LEMMA NoJobType ==
  NoJob \in Job /\ NoJob.pc = "none"
BY NoArtifactsType DEF NoJob, Job, Data

LEMMA InitOK == Init => IInv
<1> SUFFICES ASSUME Init PROVE IInv
  OBVIOUS
<1>1. TypeOK
  <2>1. 1 \in Attempts /\ 0 \in 0..MaxChanges
    BY BoundsAssumption DEF Attempts
  <2>2. disk \in [managed : [Attempts -> Data \cup {Gone}], tool : Data \cup {Gone}]
    BY DEF Init
  <2> QED BY <2>1, <2>2, NoJobType, NoArtifactsType DEF Init, TypeOK
<1>2. \A e \in Attempts : Delivery(e) = None
  BY DEF Init, Delivery, NoArtifacts
<1>3. artifacts.text = None /\ artifacts.managed = None /\ job.pc = "none"
  BY NoJobType DEF Init, NoArtifacts
<1> QED BY <1>1, <1>2, <1>3 DEF IInv, Clean, DeliveryStands, StoredOK, JobOK

\* What is stored and what is on disk stays as it is.
LEMMA OnlyTheJob ==
  ASSUME IInv, UNCHANGED task, UNCHANGED files, UNCHANGED stored, job' \in Job, JobOK'
  PROVE  IInv'
<1>1. DeliveryStands' /\ StoredOK'
  BY DEF IInv, Clean, DeliveryStands, StoredOK, Delivery, task, files, stored
<1>2. TypeOK'
  BY DEF IInv, TypeOK, task, files, stored
<1> QED BY <1>1, <1>2 DEF IInv, Clean

LEMMA CheckStarts ==
  ASSUME IInv, UNCHANGED task, UNCHANGED files, UNCHANGED stored, job' \in Job,
         job'.pc = "check",
         job'.artifacts.managed = artifacts.managed,
         artifacts.managed # None => job'.accepted \/ job'.candidate = "failed",
         job'.all => ~job'.accepted,
         job'.artifacts.text # None => job'.artifacts.text.content = job'.output
  PROVE  IInv'
<1>1. Stands(job.artifacts.managed, active)'
  <2>1. active \in Attempts /\ Delivery(active) = artifacts.managed /\ DeliveryStands
    BY DEF IInv, TypeOK, Clean, Delivery
  <2> QED BY <2>1 DEF Stands, DeliveryStands, task, files
<1>2. JobOK'
  BY <1>1 DEF JobOK, stored
<1> QED BY <1>2, OnlyTheJob

Finalized(arts, candidate, output, all, ids, gap) ==
  [NoJob EXCEPT !.pc = "check", !.artifacts = arts, !.candidate = candidate,
     !.output = output, !.all = all, !.ids = ids, !.gap = gap]

LEMMA Finalizing ==
  ASSUME NEW arts \in Artifacts, NEW candidate \in {"succeeded", "failed"}, NEW output \in Data,
         NEW all \in BOOLEAN, NEW ids \in SUBSET Source, NEW gap \in BOOLEAN
  PROVE  Finalized(arts, candidate, output, all, ids, gap) \in Job
BY DEF Finalized, NoJob, Job

Decided(arts, candidate, output, ids, accepted) ==
  [NoJob EXCEPT !.pc = "check", !.artifacts = arts, !.candidate = candidate,
     !.output = output, !.ids = ids, !.accepted = accepted]

LEMMA Deciding ==
  ASSUME NEW arts \in Artifacts, NEW candidate \in {"succeeded", "failed"}, NEW output \in Data,
         NEW ids \in SUBSET Source, NEW accepted \in BOOLEAN
  PROVE  Decided(arts, candidate, output, ids, accepted) \in Job
BY DEF Decided, NoJob, Job

LEMMA FlowSteps ==
  ASSUME IInv, StartFlow \/ ToolWrites \/ RegisterToolResult PROVE IInv'
<1> USE DEF IInv, TypeOK, Clean
<1>1. CASE StartFlow
  <2>1. job' \in Job /\ job'.pc = "flow" /\ job'.artifacts = artifacts
    BY <1>1, NoJobType DEF StartFlow, Goes, Job
  <2>2. report = None /\ artifacts.managed = None /\ artifacts.text = None
    BY <1>1 DEF StartFlow, StoredOK
  <2>3. UNCHANGED task /\ UNCHANGED files /\ UNCHANGED stored
    BY <1>1 DEF StartFlow, Goes
  <2>4. JobOK'
    BY <2>1, <2>2, <2>3 DEF JobOK, Stands, stored
  <2> QED BY <2>1, <2>3, <2>4, OnlyTheJob
<1>2. CASE ToolWrites
  <2>1. job.pc = "flow" /\ job' = [job EXCEPT !.pc = "written"]
    BY <1>2 DEF ToolWrites, Goes
  <2>2. job' \in Job /\ job'.pc = "written" /\ job'.artifacts = job.artifacts
    BY <2>1 DEF Job
  <2>3. UNCHANGED task /\ UNCHANGED <<outside, changes, artifacts, report, paused>>
    BY <1>2 DEF ToolWrites, Goes, stored
  <2>4. PICK c \in Data : disk' = [disk EXCEPT !.tool = c]
    BY <1>2 DEF ToolWrites
  <2>5. /\ disk'.managed = disk.managed
        /\ disk' \in [managed : [Attempts -> Data \cup {Gone}], tool : Data \cup {Gone}]
    BY <2>4
  <2>6. JobOK'
    BY <2>1, <2>2, <2>3 DEF JobOK, Stands
  <2>7. DeliveryStands' /\ StoredOK'
    BY <2>3, <2>5 DEF DeliveryStands, StoredOK, Delivery, task
  <2>8. TypeOK'
    BY <2>2, <2>3, <2>5 DEF task
  <2> QED BY <2>6, <2>7, <2>8
<1>3. CASE RegisterToolResult
  <2> DEFINE a == IF disk.tool = Gone THEN [valid |-> FALSE, content |-> Empty]
                                      ELSE [valid |-> TRUE, content |-> disk.tool]
  <2>1. a \in ToolArtifact
    BY DEF ToolArtifact, Data
  <2>2. job.artifacts \in Artifacts
    BY DEF Job
  <2>3. job' = [job EXCEPT !.pc = "flow", !.artifacts = Register(job.artifacts, "tool", a)]
    BY <1>3 DEF RegisterToolResult, Goes
  <2> HIDE DEF a
  <2>4. /\ job' \in Job /\ job'.pc = "flow"
        /\ job'.artifacts = Register(job.artifacts, "tool", a)
    BY <2>1, <2>2, <2>3, RegisteringTool DEF Job
  <2>5. UNCHANGED task /\ UNCHANGED files /\ UNCHANGED stored /\ job.pc = "written"
    BY <1>3 DEF RegisterToolResult, Goes
  <2>6. JobOK'
    BY <2>1, <2>2, <2>4, <2>5, RegisteringTool DEF JobOK, Stands, stored
  <2> QED BY <2>4, <2>5, <2>6, OnlyTheJob
<1> QED BY <1>1, <1>2, <1>3

LEMMA PauseKeeps ==
  ASSUME IInv, Pause PROVE IInv'
<1> USE DEF IInv, TypeOK, Clean
<1>1. /\ job.pc = "flow" /\ job' = NoJob /\ artifacts' = job.artifacts /\ paused' = TRUE
      /\ UNCHANGED <<contract, active, earlier, disk, outside, changes, report>>
  BY DEF Pause, Goes, task, files
<1>2. /\ artifacts' \in Artifacts /\ job' \in Job /\ job'.pc = "none"
      /\ report = None /\ artifacts'.managed = None /\ artifacts'.text = None
  BY <1>1, NoJobType DEF Job, JobOK
<1>3. DeliveryStands'
  BY <1>1, <1>2 DEF DeliveryStands, Delivery
<1>4. StoredOK' /\ JobOK'
  BY <1>1, <1>2 DEF StoredOK, JobOK
<1>5. TypeOK'
  BY <1>1, <1>2
<1> QED BY <1>3, <1>4, <1>5

LEMMA FinalizesKeep ==
  ASSUME IInv, FlowFinalizes \/ ResultFinalizes \/ VerdictFinalizes PROVE IInv'
<1> USE DEF IInv, TypeOK, Clean
<1>1. CASE FlowFinalizes
  <2>1. PICK candidate \in {"succeeded", "failed"}, output \in Data :
          Finalize(job.artifacts, candidate, output, TRUE, {}, FALSE)
    BY <1>1 DEF FlowFinalizes
  <2>2. job.artifacts \in Artifacts
    BY DEF Job
  <2>3. UNCHANGED task /\ UNCHANGED files /\ UNCHANGED stored
    BY <2>1 DEF Finalize, Goes
  <2>4. job' = Finalized(job.artifacts, candidate, output, TRUE, {}, FALSE)
    BY <2>1, Zenon DEF Finalize, Finalized, Goes
  <2>5. /\ job' \in Job /\ job'.pc = "check" /\ job'.artifacts = job.artifacts
        /\ job'.accepted = FALSE
    <3>1. Finalized(job.artifacts, candidate, output, TRUE, {}, FALSE) \in Job
      BY <2>2, Finalizing
    <3> QED BY <2>4, <3>1 DEF Finalized, NoJob
  <2>6. report = None /\ job.artifacts.managed = None /\ job.artifacts.text = None
    BY <1>1 DEF FlowFinalizes, JobOK
  <2>7. artifacts.managed = None
    BY <2>6 DEF StoredOK
  <2> QED BY <2>3, <2>5, <2>6, <2>7, CheckStarts
<1>2. CASE ResultFinalizes
  <2>1. PICK candidate \in {"succeeded", "failed"}, output \in Data,
             all \in BOOLEAN, ids \in SUBSET Known(artifacts), unknown \in BOOLEAN :
          Finalize(artifacts, candidate, output, all, ids, unknown)
    BY <1>2 DEF ResultFinalizes
  <2>2. ids \in SUBSET Source
    BY KnownSources
  <2>3. UNCHANGED task /\ UNCHANGED files /\ UNCHANGED stored
    BY <2>1 DEF Finalize, Goes
  <2>4. job' = Finalized(artifacts, candidate, output, all, ids, unknown)
    BY <2>1, Zenon DEF Finalize, Finalized, Goes
  <2>5. /\ job' \in Job /\ job'.pc = "check" /\ job'.artifacts = artifacts
        /\ job'.accepted = FALSE
    <3>1. Finalized(artifacts, candidate, output, all, ids, unknown) \in Job
      BY <2>2, Finalizing
    <3> QED BY <2>4, <3>1 DEF Finalized, NoJob
  <2>6. artifacts.managed = None /\ artifacts.text = None
    BY <1>2 DEF ResultFinalizes, StoredOK
  <2> QED BY <2>3, <2>5, <2>6, CheckStarts
<1>3. CASE VerdictFinalizes
  <2>1. PICK candidate \in {"succeeded", "failed"}, posted \in Data :
          job' = [NoJob EXCEPT !.pc = "check", !.artifacts = artifacts,
                    !.candidate = candidate, !.output = VerdictOutput(posted),
                    !.ids = report.ids, !.accepted = (candidate = "succeeded")]
    BY <1>3 DEF VerdictFinalizes, Goes
  <2>2. PICK accepted \in BOOLEAN : accepted = (candidate = "succeeded")
    BY Zenon
  <2>3. report \in Report
    BY <1>3 DEF VerdictFinalizes
  <2>4. VerdictOutput(posted) \in Data /\ report.ids \in SUBSET Source
    BY <2>3 DEF VerdictOutput, Report
  <2>5. UNCHANGED task /\ UNCHANGED files /\ UNCHANGED stored
    BY <1>3 DEF VerdictFinalizes, Goes
  <2>6. job' = Decided(artifacts, candidate, VerdictOutput(posted), report.ids, accepted)
    BY <2>1, <2>2, Zenon DEF Decided
  <2>7. /\ job' \in Job /\ job'.pc = "check" /\ job'.artifacts = artifacts
        /\ job'.accepted = accepted /\ job'.candidate = candidate /\ job'.all = FALSE
        /\ job'.output = VerdictOutput(posted)
    <3>1. Decided(artifacts, candidate, VerdictOutput(posted), report.ids, accepted) \in Job
      BY <2>4, Deciding
    <3> QED BY <2>6, <3>1 DEF Decided, NoJob
  <2>8. job'.artifacts.text # None => job'.artifacts.text.content = job'.output
    <3>1. SUFFICES ASSUME artifacts.text # None PROVE artifacts.text.content = VerdictOutput(posted)
      BY <2>7
    <3>2. artifacts.text \in Artifact
      BY <3>1, IsArts
    <3>3. report.output = artifacts.text.content /\ report.output \in Contents
      BY <3>1, <3>2 DEF StoredOK, Artifact
    <3> QED BY <3>3, ContentsAssumption DEF VerdictOutput
  <2>9. accepted \/ candidate = "failed"
    BY <2>2
  <2> QED BY <2>5, <2>7, <2>8, <2>9, CheckStarts
<1> QED BY <1>1, <1>2, <1>3

\* What is selected has still to be looked at.
LEMMA SelectStarts ==
  ASSUME IInv, UNCHANGED task, UNCHANGED files, UNCHANGED stored,
         NEW c \in Job, job' = Select(c),
         Stands(c.artifacts.managed, active),
         c.artifacts.text # None => c.artifacts.text.content = c.output,
         c.all /\ c.candidate = "succeeded" /\ contract.file =>
           \/ c.gap \/ c.artifacts.managed # None
           \/ c.artifacts.tool # None /\ contract.fits
  PROVE  IInv'
<1>1. /\ job' \in Job /\ job'.pc = "revalidate" /\ job'.artifacts = c.artifacts
      /\ job'.candidate = c.candidate /\ job'.output = c.output
      /\ job'.all = c.all /\ job'.gap = c.gap
      /\ job'.ids = IF c.all THEN Known(c.artifacts) ELSE c.ids \cap Known(c.artifacts)
      /\ job'.todo = job'.ids \cap FileSource
  BY Selected
<1>2. c.artifacts \in Artifacts /\ c.output \in Data
  BY DEF Job
<1>3. /\ job'.ids \subseteq Known(job'.artifacts) /\ job'.todo \subseteq job'.ids
      /\ "managed" \notin job'.ids \ job'.todo /\ "tool" \notin job'.ids \ job'.todo
  BY <1>1 DEF FileSource
<1>4. job'.all /\ job'.candidate = "succeeded" /\ contract'.file => Promise'
  <2>1. SUFFICES ASSUME c.all, c.candidate = "succeeded", contract.file
                 PROVE  \/ job'.gap \/ "managed" \in job'.ids
                        \/ "tool" \in job'.ids /\ contract.fits
    BY <1>1 DEF Promise, task
  <2>2. /\ "managed" \in job'.ids <=> c.artifacts.managed # None
        /\ "tool" \in job'.ids <=> c.artifacts.tool # None
    BY <1>1, <1>2, <2>1, KnownSources
  <2> QED BY <1>1, <2>1, <2>2
<1>5. Stands(job.artifacts.managed, active)'
  BY <1>1 DEF Stands, task, files
<1>6. JobOK'
  <2>1. /\ Looked("managed", job.artifacts.managed)'
        /\ Looked("tool", job.artifacts.tool)'
        /\ (job.ids \subseteq Known(job.artifacts))'
    BY <1>3 DEF Looked, Known
  <2> QED BY <1>1, <1>3, <1>4, <1>5, <2>1 DEF JobOK
<1> QED BY <1>1, <1>6, OnlyTheJob

LEMMA CheckKeeps ==
  ASSUME IInv, CheckDelivery PROVE IInv'
<1> USE DEF IInv, TypeOK, Clean
<1>1. job \in Job /\ job.pc = "check" /\ job.artifacts \in Artifacts /\ job.output \in Data
  BY DEF CheckDelivery, Job
<1>2. UNCHANGED task /\ UNCHANGED files /\ UNCHANGED stored
  BY DEF CheckDelivery, Goes
<1>3. PICK wanted \in BOOLEAN : wanted <=> job.candidate = "succeeded" /\ contract.file
  BY Zenon
<1>4. PICK looked \in Artifacts :
        /\ looked = IF wanted /\ job.artifacts.tool # None
                    THEN Revalidated("tool", job.artifacts) ELSE job.artifacts
        /\ looked.managed = job.artifacts.managed
        /\ looked.text = job.artifacts.text
  <2>1. CASE wanted /\ job.artifacts.tool # None
    <3>1. PICK t \in ToolArtifact :
            Revalidated("tool", job.artifacts) =
              Arts(job.artifacts.managed, t, job.artifacts.text)
      BY <1>1, <2>1, LookedAtTool
    <3>2. /\ job.artifacts.managed \in Artifact \cup {None}
          /\ job.artifacts.text \in Artifact \cup {None}
      BY <1>1, IsArts
    <3>3. Arts(job.artifacts.managed, t, job.artifacts.text) \in Artifacts
      BY <3>2, ArtsType
    <3>4. /\ Arts(job.artifacts.managed, t, job.artifacts.text).managed = job.artifacts.managed
          /\ Arts(job.artifacts.managed, t, job.artifacts.text).text = job.artifacts.text
      BY DEF Arts
    <3> QED BY <2>1, <3>1, <3>3, <3>4
  <2>2. CASE ~(wanted /\ job.artifacts.tool # None)
    BY <1>1, <2>2
  <2> QED BY <2>1, <2>2
<1>5. /\ job.artifacts.managed = artifacts.managed
      /\ artifacts.managed # None => job.accepted \/ job.candidate = "failed"
      /\ job.all => ~job.accepted
      /\ Stands(job.artifacts.managed, active)
      /\ job.artifacts.text # None => job.artifacts.text.content = job.output
  BY <1>1 DEF JobOK
<1>6. CASE ~wanted
  <2> DEFINE arts == RegisterText(looked, job.output)
  <2>1. job' = Select([job EXCEPT !.artifacts = arts])
    BY <1>3, <1>4, <1>6 DEF CheckDelivery, Goes
  <2>2. arts \in Artifacts /\ arts.managed = looked.managed
    BY <1>1, Registering
  <2>3. arts.text # None => arts.text.content = job.output
    <3>1. \/ arts.text = looked.text
          \/ arts.text = [valid |-> TRUE, content |-> job.output]
      BY <1>1, Registering
    <3>2. CASE arts.text = looked.text
      BY <1>4, <1>5, <3>2
    <3>3. CASE arts.text = [valid |-> TRUE, content |-> job.output]
      BY <3>3
    <3> QED BY <3>1, <3>2, <3>3
  <2> HIDE DEF arts
  <2>4. PICK c \in Job : /\ c = [job EXCEPT !.artifacts = arts]
                         /\ c.artifacts = arts /\ c.output = job.output
                         /\ c.candidate = job.candidate
    BY <1>1, <2>2, WithArtifacts
  <2>5. Stands(c.artifacts.managed, active)
    BY <1>4, <1>5, <2>2, <2>4
  <2> QED BY <1>2, <1>3, <1>6, <2>1, <2>3, <2>4, <2>5, SelectStarts
<1>7. CASE wanted
  <2>1. PICK c \in Job : /\ c = [job EXCEPT !.artifacts = looked]
                         /\ c.artifacts = looked /\ c.output = job.output
                         /\ c.candidate = job.candidate /\ c.all = job.all
    BY <1>1, WithArtifacts
  <2>2. Stands(c.artifacts.managed, active)
    BY <1>4, <1>5, <2>1
  <2>3. \/ /\ ~(job.accepted /\ looked.managed # None)
           /\ job' = [c EXCEPT !.pc = "write"]
        \/ /\ (job.accepted /\ looked.managed # None) \/ (looked.tool # None /\ contract.fits)
           /\ job' = Select(c)
    BY <1>3, <1>4, <1>7, <2>1 DEF CheckDelivery, Goes
  <2>4. CASE /\ ~(job.accepted /\ looked.managed # None)
             /\ job' = [c EXCEPT !.pc = "write"]
    <3>1. /\ job' \in Job /\ job'.pc = "write" /\ job'.artifacts = looked
          /\ job'.output = job.output
      BY <2>1, <2>4 DEF Job
    <3>2. artifacts.managed = None /\ looked.managed = None
      BY <1>3, <1>4, <1>5, <1>7, <2>4
    <3>3. Stands(job.artifacts.managed, active)'
      BY <3>1, <3>2 DEF Stands
    <3>4. JobOK'
      BY <1>2, <1>4, <1>5, <3>1, <3>2, <3>3 DEF JobOK, stored
    <3> QED BY <1>2, <3>1, <3>4, OnlyTheJob
  <2>5. CASE /\ (job.accepted /\ looked.managed # None) \/ (looked.tool # None /\ contract.fits)
             /\ job' = Select(c)
    <3>1. c.artifacts.text # None => c.artifacts.text.content = c.output
      BY <1>4, <1>5, <2>1
    <3>2. c.all => c.artifacts.tool # None /\ contract.fits
      BY <1>5, <2>1, <2>5
    <3> QED BY <1>2, <2>1, <2>2, <2>5, <3>1, <3>2, SelectStarts
  <2> QED BY <2>3, <2>4, <2>5
<1> QED BY <1>6, <1>7

\* A delivery that could not be written leaves a gap.
LEMMA NotWrittenKeeps ==
  ASSUME IInv, job.pc \in {"write", "read"}, job' = NotWritten(job),
         UNCHANGED task, UNCHANGED files, UNCHANGED stored
  PROVE  IInv'
<1> USE DEF IInv, TypeOK, Clean
<1>1. PICK c \in Job : /\ c = [job EXCEPT !.gap = TRUE]
                       /\ c.artifacts = job.artifacts /\ c.output = job.output /\ c.gap = TRUE
  BY WithGap
<1>2. job' = Select(c)
  BY <1>1 DEF NotWritten
<1>3. /\ Stands(c.artifacts.managed, active)
      /\ c.artifacts.text # None => c.artifacts.text.content = c.output
  BY <1>1 DEF JobOK
<1> QED BY <1>1, <1>2, <1>3, SelectStarts

LEMMA MaterializeKeeps ==
  ASSUME IInv, Materialize PROVE IInv'
<1> USE DEF IInv, TypeOK, Clean
<1>1. job \in Job /\ job.pc = "write" /\ UNCHANGED task /\ UNCHANGED stored /\ changes' = changes
  BY DEF Materialize, Goes
<1>2. CASE job' = NotWritten(job) /\ UNCHANGED <<disk, outside>>
  BY <1>1, <1>2, NotWrittenKeeps DEF files
<1>3. CASE /\ job.output # Empty
           /\ disk' = [disk EXCEPT !.managed[DeliveryFile(active)] = job.output]
           /\ outside' = outside \ {DeliveryFile(active)}
           /\ job' = [job EXCEPT !.pc = "read"]
  <2>1. /\ job' \in Job /\ job'.pc = "read" /\ job'.artifacts = job.artifacts
        /\ job'.output = job.output /\ job.output \in Data
    BY <1>1, <1>3 DEF Job
  <2>2. /\ disk'.managed = [disk.managed EXCEPT ![active] = job.output]
        /\ disk'.tool = disk.tool /\ outside' = outside \ {active}
        /\ disk' \in [managed : [Attempts -> Data \cup {Gone}], tool : Data \cup {Gone}]
    BY <1>3, <2>1 DEF DeliveryFile
  <2>3. artifacts.managed = None /\ job.artifacts.managed = None
    BY <1>1 DEF JobOK
  <2>4. JobOK'
    BY <1>1, <1>3, <2>1, <2>3 DEF JobOK, Stands, stored, Data
  <2>5. ASSUME NEW e \in Attempts
        PROVE  (Delivery(e) # None =>
                 ~Delivery(e).valid \/ disk.managed[e] = Delivery(e).content \/ e \in outside)'
    <3>1. Delivery(e)' = Delivery(e)
      BY <1>1 DEF Delivery, task, stored
    <3>2. CASE e = active
      BY <2>3, <3>1, <3>2 DEF Delivery
    <3>3. CASE e # active
      BY <2>2, <3>1, <3>3 DEF DeliveryStands
    <3> QED BY <3>2, <3>3
  <2>6. DeliveryStands' /\ StoredOK'
    BY <1>1, <2>5 DEF DeliveryStands, StoredOK, stored
  <2> QED BY <1>1, <2>1, <2>2, <2>4, <2>6 DEF task, stored
<1> QED BY <1>2, <1>3 DEF Materialize, Goes

LEMMA ReadBackKeeps ==
  ASSUME IInv, ReadBack PROVE IInv'
<1> USE DEF IInv, TypeOK, Clean
<1>1. /\ job \in Job /\ job.pc = "read" /\ job.artifacts \in Artifacts
      /\ UNCHANGED task /\ UNCHANGED files /\ UNCHANGED stored
  BY DEF ReadBack, Goes, Job
<1>2. CASE job' = NotWritten(job)
  BY <1>1, <1>2, NotWrittenKeeps
<1>3. CASE /\ OnDisk("managed") = job.output
           /\ job' = Select([job EXCEPT !.artifacts = RegisterDelivery(job.artifacts, job.output)])
  <2> DEFINE arts == RegisterDelivery(job.artifacts, job.output)
  <2>1. job.output \in Contents
    BY <1>1 DEF JobOK
  <2>2. /\ arts \in Artifacts /\ arts.managed = [valid |-> TRUE, content |-> job.output]
        /\ arts.text = job.artifacts.text
    BY <1>1, <2>1, Delivering
  <2> HIDE DEF arts
  <2>3. PICK c \in Job : /\ c = [job EXCEPT !.artifacts = arts]
                         /\ c.artifacts = arts /\ c.output = job.output
    BY <1>1, <2>2, WithArtifacts
  <2>4. Stands(c.artifacts.managed, active)
    BY <1>3, <2>2, <2>3 DEF Stands, OnDisk, DeliveryFile
  <2>5. c.artifacts.text # None => c.artifacts.text.content = c.output
    BY <1>1, <2>2, <2>3 DEF JobOK
  <2>6. c.artifacts.managed # None
    <3>1. [valid |-> TRUE, content |-> job.output] \in ToolArtifact
      BY <2>1 DEF ToolArtifact, Data
    <3> QED BY <2>2, <2>3, <3>1, NoneAssumption
  <2> QED BY <1>1, <1>3, <2>3, <2>4, <2>5, <2>6, SelectStarts DEF arts
<1> QED BY <1>2, <1>3 DEF ReadBack, Goes

\* The job after a look at the file of s.
LookedOn(j, s, arts) ==
  [j EXCEPT !.todo = j.todo \ {s}, !.touched = j.touched \ {s}, !.artifacts = arts]

LEMMA RevalidateKeeps ==
  ASSUME IInv, NEW s \in FileSource, Revalidate(s) PROVE IInv'
<1> USE DEF IInv, TypeOK, Clean
<1>1. /\ job \in Job /\ job.pc = "revalidate" /\ job.artifacts \in Artifacts /\ s \in job.todo
      /\ UNCHANGED task /\ UNCHANGED files /\ UNCHANGED stored
      /\ job' = [job EXCEPT !.todo = job.todo \ {s}, !.touched = job.touched \ {s},
                           !.artifacts = Revalidated(s, job.artifacts)]
  BY DEF Revalidate, Goes, Job
<1>2. /\ job.ids \subseteq Known(job.artifacts) /\ job.todo \subseteq job.ids
      /\ Looked("managed", job.artifacts.managed)
      /\ Looked("tool", job.artifacts.tool)
      /\ job.all /\ job.candidate = "succeeded" /\ contract.file => Promise
      /\ Stands(job.artifacts.managed, active)
      /\ job.artifacts.text # None => job.artifacts.text.content = job.output
  BY <1>1 DEF JobOK
<1>3. /\ "managed" \in job.ids => job.artifacts.managed # None
      /\ "tool" \in job.ids => job.artifacts.tool # None
      /\ "text" \in job.ids => job.artifacts.text # None
  BY <1>1, <1>2, KnownSources
<1>4. /\ job.artifacts.managed \in Artifact \cup {None}
      /\ job.artifacts.tool \in ToolArtifact \cup {None}
      /\ job.artifacts.text \in Artifact \cup {None}
  BY <1>1, IsArts
<1>5. \A x \in {"managed", "tool"} : OnDisk(x)' = OnDisk(x)
  BY <1>1 DEF OnDisk, DeliveryFile, files, task
<1>6. ASSUME NEW arts \in Artifacts, Revalidated(s, job.artifacts) = arts,
             \A x \in {"managed", "tool", "text"} : x \in job.ids => arts[x] # None,
             arts.managed # None => /\ job.artifacts.managed # None
                                    /\ arts.managed.content = job.artifacts.managed.content
                                    /\ arts.managed.valid => job.artifacts.managed.valid,
             arts.text = job.artifacts.text,
             "managed" \in job.ids \ (job.todo \ {s}) /\ arts.managed.valid =>
               OnDisk("managed") = arts.managed.content \/ "managed" \in job.touched \ {s},
             "tool" \in job.ids \ (job.todo \ {s}) /\ arts.tool.valid =>
               OnDisk("tool") = arts.tool.content \/ "tool" \in job.touched \ {s}
      PROVE  IInv'
  <2>1. /\ job' \in Job /\ job'.pc = job.pc /\ job'.artifacts = arts
        /\ job'.candidate = job.candidate /\ job'.output = job.output
        /\ job'.all = job.all /\ job'.ids = job.ids /\ job'.gap = job.gap
        /\ job'.todo = job.todo \ {s} /\ job'.touched = job.touched \ {s}
    <3>1. job' = LookedOn(job, s, arts)
      BY <1>1, <1>6, Zenon DEF LookedOn
    <3>2. job' \in Job
      BY <1>1, <3>1 DEF LookedOn, Job
    <3>3. /\ job'.pc = job.pc /\ job'.artifacts = arts /\ job'.candidate = job.candidate
          /\ job'.output = job.output /\ job'.all = job.all
      BY <1>1, <3>1 DEF LookedOn, Job
    <3>4. /\ job'.ids = job.ids /\ job'.gap = job.gap
          /\ job'.todo = job.todo \ {s} /\ job'.touched = job.touched \ {s}
      BY <1>1, <3>1 DEF LookedOn, Job
    <3> QED BY <3>2, <3>3, <3>4
  <2>2. (job.ids \subseteq Known(job.artifacts))' /\ (job.todo \subseteq job.ids)'
    <3>1. job.ids \subseteq Source /\ Source = {"managed", "tool", "text"}
      BY <1>1 DEF Job, Source, FileSource
    <3> QED BY <1>2, <1>6, <2>1, <3>1 DEF Known
  <2>3. Looked("managed", job.artifacts.managed)' /\ Looked("tool", job.artifacts.tool)'
    BY <1>5, <1>6, <2>1 DEF Looked
  <2>4. (job.all /\ job.candidate = "succeeded" /\ contract.file => Promise)'
    BY <1>1, <1>2, <2>1 DEF Promise, task
  <2>5. Stands(job.artifacts.managed, active)'
    BY <1>1, <1>2, <1>6, <2>1 DEF Stands, files, task
  <2>6. JobOK'
    BY <1>1, <1>2, <1>6, <2>1, <2>2, <2>3, <2>4, <2>5 DEF JobOK
  <2> QED BY <1>1, <2>1, <2>6, OnlyTheJob
<1>7. CASE s = "tool"
  <2>1. job.artifacts.tool # None
    BY <1>1, <1>2, <1>3, <1>7
  <2>2. PICK valid \in BOOLEAN :
          /\ valid = StillValid("tool", job.artifacts.tool)
          /\ [valid |-> valid, content |-> job.artifacts.tool.content] \in ToolArtifact
          /\ Revalidated("tool", job.artifacts) =
               Arts(job.artifacts.managed, [valid |-> valid, content |-> job.artifacts.tool.content],
                    job.artifacts.text)
    BY <1>1, <2>1, LookedAtTool
  <2>3. PICK t \in ToolArtifact : t = [valid |-> valid, content |-> job.artifacts.tool.content]
    BY <2>2
  <2>4. t.valid => OnDisk("tool") = t.content
    BY <2>2, <2>3 DEF StillValid, Matches
  <2>5. PICK arts \in Artifacts :
          arts = [managed |-> job.artifacts.managed, tool |-> t, text |-> job.artifacts.text]
    BY <1>4 DEF Artifacts
  <2>6. Revalidated(s, job.artifacts) = arts
    BY <1>7, <2>2, <2>3, <2>5 DEF Arts
  <2>7. t # None
    BY NoneAssumption
  <2> QED BY <1>2, <1>3, <1>6, <1>7, <2>4, <2>5, <2>6, <2>7 DEF Looked
<1>8. CASE s = "managed"
  <2>1. job.artifacts.managed # None
    BY <1>1, <1>2, <1>3, <1>8
  <2>2. PICK valid \in BOOLEAN :
          /\ valid = StillValid("managed", job.artifacts.managed)
          /\ [valid |-> valid, content |-> job.artifacts.managed.content] \in Artifact
          /\ Revalidated("managed", job.artifacts) =
               Arts([valid |-> valid, content |-> job.artifacts.managed.content],
                    job.artifacts.tool, job.artifacts.text)
    BY <1>1, <2>1, LookedAtManaged
  <2>3. PICK m \in Artifact : m = [valid |-> valid, content |-> job.artifacts.managed.content]
    BY <2>2
  <2>4. /\ m.valid => OnDisk("managed") = m.content /\ job.artifacts.managed.valid
        /\ m.content = job.artifacts.managed.content
    BY <2>2, <2>3 DEF StillValid, Matches
  <2>5. PICK arts \in Artifacts :
          arts = [managed |-> m, tool |-> job.artifacts.tool, text |-> job.artifacts.text]
    BY <1>4 DEF Artifacts
  <2>6. Revalidated(s, job.artifacts) = arts
    BY <1>8, <2>2, <2>3, <2>5 DEF Arts
  <2>7. m # None
    BY NoneAssumption DEF Artifact, ToolArtifact, Data
  <2> QED BY <1>2, <1>3, <1>6, <1>8, <2>1, <2>4, <2>5, <2>6, <2>7 DEF Looked
<1> QED BY <1>7, <1>8 DEF FileSource

LEMMA WriteReportKeeps ==
  ASSUME IInv, WriteReport PROVE IInv'
<1> USE DEF IInv, TypeOK, Clean
<1>1. /\ job \in Job /\ job.pc = "revalidate" /\ job.artifacts \in Artifacts
      /\ artifacts' = job.artifacts /\ job' = NoJob /\ UNCHANGED task /\ UNCHANGED files
  BY DEF WriteReport, Goes, Job
<1> DEFINE valid == {s \in job.ids : job.artifacts[s].valid}
<1>2. valid \in SUBSET Source /\ job.output \in Data
  BY <1>1 DEF Job
<1>3. PICK status \in {"running", "succeeded", "failed"} :
        /\ report' = [status |-> status, output |-> job.output, ids |-> valid,
                      gap |-> (job.gap \/ valid # job.ids)]
        /\ paused' = (status = "running")
  BY DEF WriteReport
<1> HIDE DEF valid
<1>4. PICK gap \in BOOLEAN : report' = [status |-> status, output |-> job.output, ids |-> valid,
                                       gap |-> gap]
  <2>1. (job.gap \/ valid # job.ids) \in BOOLEAN
    BY Zenon
  <2> QED BY <1>3, <2>1, Zenon
<1>5. report' \in Report /\ report'.output = job.output /\ report' # None
  BY <1>2, <1>4, NoneAssumption DEF Report
<1>6. paused' \in BOOLEAN
  BY <1>3
<1>7. Stands(job.artifacts.managed, active)
      /\ (job.artifacts.text # None => job.artifacts.text.content = job.output)
  BY <1>1 DEF JobOK
<1>8. DeliveryStands'
  BY <1>1, <1>7 DEF DeliveryStands, Delivery, Stands, task, files
<1>9. StoredOK' /\ JobOK' /\ job' \in Job
  BY <1>1, <1>5, <1>7, NoJobType DEF StoredOK, JobOK
<1>10. TypeOK'
  BY <1>1, <1>5, <1>6, <1>9 DEF task, files
<1> QED BY <1>8, <1>9, <1>10

LEMMA RerunKeeps ==
  ASSUME IInv, Rerun PROVE IInv'
<1> USE DEF IInv, TypeOK, Clean
<1>1. /\ job.pc = "none" /\ active' = active + 1 /\ active < MaxAttempts
      /\ earlier' = [earlier EXCEPT ![active] = artifacts.managed]
      /\ artifacts' = NoArtifacts /\ report' = None /\ paused' = FALSE
      /\ UNCHANGED <<contract, job, disk, outside, changes>>
  BY DEF Rerun, files
<1>2. active' \in Attempts /\ active \in Attempts /\ active' # active
  BY <1>1, BoundsAssumption DEF Attempts
<1>3. /\ artifacts' \in Artifacts /\ artifacts'.managed = None /\ artifacts'.text = None
  BY <1>1, NoArtifactsType DEF NoArtifacts
<1>4. earlier' \in [Attempts -> Artifact \cup {None}]
  BY <1>1, <1>2, IsArts
<1>5. DeliveryStands'
  BY <1>1, <1>2, <1>3 DEF DeliveryStands, Delivery
<1>6. StoredOK' /\ JobOK'
  BY <1>1, <1>3 DEF StoredOK, JobOK
<1> QED BY <1>1, <1>2, <1>3, <1>4, <1>5, <1>6

LEMMA DiesKeeps ==
  ASSUME IInv, Dies PROVE IInv'
<1>1. /\ job' = NoJob /\ UNCHANGED task /\ UNCHANGED files /\ UNCHANGED stored
  BY DEF Dies, Goes
<1>2. JobOK'
  BY <1>1, NoJobType DEF JobOK
<1> QED BY <1>1, <1>2, NoJobType, OnlyTheJob

LEMMA TouchedJob ==
  ASSUME job \in Job, NEW s \in FileSource, Touched(s) \/ job' = job
  PROVE  /\ job' \in Job
         /\ job'.pc = job.pc /\ job'.artifacts = job.artifacts /\ job'.candidate = job.candidate
         /\ job'.output = job.output /\ job'.all = job.all /\ job'.ids = job.ids
         /\ job'.accepted = job.accepted /\ job'.gap = job.gap /\ job'.todo = job.todo
         /\ job.touched \subseteq job'.touched
         /\ Touched(s) /\ job.pc = "revalidate" => s \in job'.touched
<1>1. CASE job' = job
  BY <1>1 DEF Touched, Goes, Job
<1>2. CASE job' = [job EXCEPT !.touched = job.touched \cup {s}]
  BY <1>2 DEF Job
<1> QED BY <1>1, <1>2 DEF Touched, Goes

LEMMA SomebodyKeeps ==
  ASSUME IInv, SomebodyElse PROVE IInv'
<1> USE DEF IInv, TypeOK, Clean
<1>1. /\ changes' = changes + 1 /\ changes < MaxChanges /\ UNCHANGED stored
  BY DEF SomebodyElse
<1>2. changes' \in 0..MaxChanges
  BY <1>1, BoundsAssumption
<1>3. PICK c \in Contents \cup {Gone} :
        \/ disk' = [disk EXCEPT !.tool = c] /\ Touched("tool") /\ outside' = outside
        \/ \E e \in Attempts :
             /\ disk' = [disk EXCEPT !.managed[e] = c]
             /\ outside' = outside \cup {e}
             /\ IF e = active THEN Touched("managed") ELSE Goes(job)
  BY DEF SomebodyElse
<1>4. UNCHANGED task
  BY <1>3 DEF Touched, Goes
<1>5. job \in Job /\ "tool" \in FileSource /\ "managed" \in FileSource
  BY DEF FileSource
<1>6. ASSUME disk' \in [managed : [Attempts -> Data \cup {Gone}], tool : Data \cup {Gone}],
             outside' \in SUBSET Attempts, outside \subseteq outside',
             \A e \in Attempts : disk'.managed[e] = disk.managed[e] \/ e \in outside',
             NEW s \in FileSource, Touched(s) \/ job' = job,
             \A x \in FileSource : OnDisk(x)' = OnDisk(x) \/ (x = s /\ Touched(s))
      PROVE  IInv'
  <2>1. /\ job' \in Job
        /\ job'.pc = job.pc /\ job'.artifacts = job.artifacts /\ job'.candidate = job.candidate
        /\ job'.output = job.output /\ job'.all = job.all /\ job'.ids = job.ids
        /\ job'.accepted = job.accepted /\ job'.gap = job.gap /\ job'.todo = job.todo
        /\ job.touched \subseteq job'.touched
        /\ Touched(s) /\ job.pc = "revalidate" => s \in job'.touched
    BY <1>5, <1>6, TouchedJob
  <2>2. \A e \in Attempts : Delivery(e)' = Delivery(e)
    BY <1>1, <1>4 DEF Delivery, task, stored
  <2>3. DeliveryStands'
    BY <1>6, <2>2 DEF DeliveryStands
  <2>4. StoredOK'
    BY <1>1 DEF StoredOK, stored
  <2>5. job.pc # "none" => Stands(job.artifacts.managed, active)'
    <3>1. job.pc # "none" => Stands(job.artifacts.managed, active)
      BY DEF JobOK
    <3> QED BY <1>4, <1>6, <2>1, <3>1 DEF Stands, task
  <2>6. job.pc = "revalidate" => /\ Looked("managed", job.artifacts.managed)'
                                 /\ Looked("tool", job.artifacts.tool)'
    <3>1. job.pc = "revalidate" => /\ Looked("managed", job.artifacts.managed)
                                   /\ Looked("tool", job.artifacts.tool)
      BY DEF JobOK
    <3> QED BY <1>5, <1>6, <2>1, <3>1 DEF Looked
  <2>7. (job.ids \subseteq Known(job.artifacts))' <=> job.ids \subseteq Known(job.artifacts)
    BY <2>1 DEF Known
  <2>8. Promise' <=> Promise
    BY <1>4, <2>1 DEF Promise, task
  <2>9. JobOK'
    BY <1>1, <1>4, <2>1, <2>5, <2>6, <2>7, <2>8 DEF JobOK, stored, task
  <2> QED BY <1>1, <1>2, <1>4, <1>6, <2>1, <2>3, <2>4, <2>9 DEF stored, task
<1>7. CASE disk' = [disk EXCEPT !.tool = c] /\ Touched("tool") /\ outside' = outside
  <2>1. /\ disk' \in [managed : [Attempts -> Data \cup {Gone}], tool : Data \cup {Gone}]
        /\ disk'.managed = disk.managed
    BY <1>7 DEF Data
  <2>2. \A x \in FileSource : OnDisk(x)' = OnDisk(x) \/ x = "tool"
    BY <1>4, <2>1 DEF OnDisk, DeliveryFile, task
  <2> QED BY <1>5, <1>6, <1>7, <2>1, <2>2
<1>8. ASSUME NEW e \in Attempts, disk' = [disk EXCEPT !.managed[e] = c],
             outside' = outside \cup {e},
             IF e = active THEN Touched("managed") ELSE Goes(job)
      PROVE  IInv'
  <2>1. /\ disk' \in [managed : [Attempts -> Data \cup {Gone}], tool : Data \cup {Gone}]
        /\ disk'.managed = [disk.managed EXCEPT ![e] = c] /\ disk'.tool = disk.tool
    BY <1>8 DEF Data
  <2>2. \A x \in FileSource : OnDisk(x)' = OnDisk(x) \/ (x = "managed" /\ e = active)
    BY <1>4, <2>1 DEF OnDisk, DeliveryFile, task, FileSource
  <2>3. Touched("managed") \/ job' = job
    BY <1>8 DEF Goes
  <2> QED BY <1>5, <1>6, <1>8, <2>1, <2>2, <2>3
<1> QED BY <1>3, <1>7, <1>8
-----------------------------------------------------------------------------
THEOREM Invariance == Spec => []IInv
<1>1. IInv /\ UNCHANGED vars => IInv'
  BY DEF IInv, TypeOK, Clean, DeliveryStands, Delivery, StoredOK, JobOK, Stands, Looked, OnDisk,
         DeliveryFile, Promise, Known, vars
<1>2. IInv /\ [Next]_vars => IInv'
  BY <1>1, FlowSteps, PauseKeeps, FinalizesKeep, CheckKeeps, MaterializeKeeps, ReadBackKeeps,
     RevalidateKeeps, WriteReportKeeps, RerunKeeps, DiesKeeps, SomebodyKeeps DEF Next
<1> QED BY InitOK, <1>2, PTL DEF Spec

\* The files, the artifacts, the report and the job keep their types.
THEOREM Typing == Spec => []TypeOK
<1>1. IInv => TypeOK
  BY DEF IInv
<1> QED BY <1>1, Invariance, PTL

(* No completion, rerun, retry after a crash or verdict of the task writes  *)
(* over a delivery file that was registered.                                *)
THEOREM DeliveriesStand == Spec => []DeliveryStands
<1>1. IInv => DeliveryStands
  BY DEF IInv, Clean
<1> QED BY <1>1, Invariance, PTL

\* Nothing but WriteReport writes a report.
LEMMA ReportWritten ==
  ASSUME TypeOK, [Next]_vars, report' # report, report' # None PROVE WriteReport
BY DEF Next, vars, StartFlow, ToolWrites, RegisterToolResult, Pause, FlowFinalizes,
       ResultFinalizes, VerdictFinalizes, Finalize, CheckDelivery, Materialize, ReadBack,
       Revalidate, Rerun, Dies, SomebodyElse, files, stored

LEMMA ReportOf ==
  ASSUME IInv, WriteReport
  PROVE  /\ job \in Job /\ job.pc = "revalidate" /\ JobOK
         /\ artifacts' = job.artifacts /\ UNCHANGED files /\ UNCHANGED task
         /\ report'.ids = {s \in job.ids : job.artifacts[s].valid}
         /\ report'.output = job.output
         /\ report'.status = "succeeded" => job.candidate = "succeeded"
         /\ report'.gap <=> job.gap \/ report'.ids # job.ids
<1>1. PICK status \in IF job.candidate = "failed" THEN {"failed"}
                     ELSE IF job.output = Empty THEN {"running"} ELSE {"running", "succeeded"} :
        report' = [status |-> status, output |-> job.output,
                   ids |-> {s \in job.ids : job.artifacts[s].valid},
                   gap |-> (job.gap \/ {s \in job.ids : job.artifacts[s].valid} # job.ids)]
  BY DEF WriteReport
<1>2. status = "succeeded" => job.candidate = "succeeded"
  BY DEF IInv, TypeOK, Job
<1>3. report'.gap <=> job.gap \/ {s \in job.ids : job.artifacts[s].valid} # job.ids
  BY <1>1, Zenon
<1>4. /\ report'.ids = {s \in job.ids : job.artifacts[s].valid}
      /\ report'.output = job.output /\ report'.status = status
  BY <1>1
<1> QED BY <1>2, <1>3, <1>4 DEF IInv, TypeOK, Clean, WriteReport, Goes

(* A report vouches for what is there: its files hold what the artifacts    *)
(* say unless they were changed after the last look, its text is its output. *)
THEOREM EvidenceIsThere == Spec => EvidenceStands
<1>1. ASSUME IInv, [Next]_vars, report' # report, report' # None, NEW s \in report'.ids
      PROVE  IF s = "text" THEN artifacts'.text.content = report'.output
             ELSE OnDisk(s) = artifacts'[s].content \/ s \in job.touched
  <2>1. WriteReport
    BY <1>1, ReportWritten DEF IInv
  <2>2. /\ job \in Job /\ job.pc = "revalidate" /\ JobOK /\ artifacts' = job.artifacts
        /\ s \in job.ids /\ job.artifacts[s].valid /\ report'.output = job.output
    BY <1>1, <2>1, ReportOf
  <2>3. job.todo = {}
    BY <2>1 DEF WriteReport
  <2>4. job.artifacts \in Artifacts /\ s \in {"managed", "tool", "text"}
    BY <2>2 DEF Job, Source, FileSource
  <2>5. s \in Known(job.artifacts)
    BY <2>2 DEF JobOK
  <2>6. CASE s = "text"
    <3>1. job.artifacts.text # None
      BY <2>4, <2>5, <2>6, KnownSources
    <3> QED BY <2>2, <2>6, <3>1 DEF JobOK
  <2>7. CASE s = "managed"
    BY <2>2, <2>3, <2>7 DEF JobOK, Looked
  <2>8. CASE s = "tool"
    BY <2>2, <2>3, <2>8 DEF JobOK, Looked
  <2> QED BY <2>4, <2>6, <2>7, <2>8
<1>2. IInv /\ [Next]_vars =>
        [report' # report /\ report' # None => \A s \in report'.ids :
           IF s = "text" THEN artifacts'.text.content = report'.output
           ELSE OnDisk(s) = artifacts'[s].content \/ s \in job.touched]_vars
  BY <1>1
<1> QED BY <1>2, Invariance, PTL DEF Spec, EvidenceStands

(* A file task completes with a valid delivery file in its report, or its   *)
(* report says that something went wrong with the file.                     *)
THEOREM LossIsReported == Spec => NoSilentLoss
<1>1. ASSUME IInv, [Next]_vars, report' # report, report' # None, report'.status = "succeeded",
             contract.file, job.all
      PROVE  \/ report'.gap \/ "managed" \in report'.ids
             \/ "tool" \in report'.ids /\ contract.fits
  <2>1. WriteReport
    BY <1>1, ReportWritten DEF IInv
  <2>2. /\ job.pc = "revalidate" /\ JobOK /\ job.candidate = "succeeded"
        /\ report'.gap <=> job.gap \/ report'.ids # job.ids
    BY <1>1, <2>1, ReportOf
  <2>3. Promise
    BY <1>1, <2>2 DEF JobOK
  <2> QED BY <2>2, <2>3 DEF Promise
<1>2. IInv /\ [Next]_vars =>
        [report' # report /\ report' # None /\ report'.status = "succeeded"
           /\ contract.file /\ job.all =>
         \/ report'.gap \/ "managed" \in report'.ids
         \/ "tool" \in report'.ids /\ contract.fits]_vars
  BY <1>1
<1> QED BY <1>2, Invariance, PTL DEF Spec, NoSilentLoss
=============================================================================
