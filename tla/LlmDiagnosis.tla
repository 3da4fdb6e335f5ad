---------------------------- MODULE LlmDiagnosis ----------------------------
(***************************************************************************)
(* analysis/llm_diagnosis.py and llm_investigation.py: the command that    *)
(* has a language model diagnose one step.  It selects a report from the   *)
(* journal that the diagnosis loop goes on writing, or reads a packet,     *)
(* asks the model for a draft and then for a review of it, checks both and *)
(* writes the result.  The server answers anything at any time, calls and  *)
(* disks fail, and the command may be killed and run again with the same   *)
(* output.                                                                 *)
(***************************************************************************)
EXTENDS LlmPacket

CONSTANTS
  Packets,        \* the packets that a file may hold
  Reported,       \* those of them that a report may hold
  Answers,        \* the answers of the model
  Timeout,        \* the time that one command has
  Cap,            \* the time that a question about the server has
  MaxReports,     \* bound of the model: reports of the step in the journal
  MaxAttempts     \* bound of the model: commands

VARIABLES
  journal,    \* the reports of the step, [revision, provisional, run, packet]
  pc,         \* where the command is
  attempt,    \* the commands so far
  mode,       \* "run" for a step of the journal, "file", or "collect" only
  chosen,     \* the report that was selected, or <<>>
  read,       \* history variable: the reports that were there at that time
  packet,     \* the packet, or <<>>
  left,       \* the time that is left
  draft,      \* the model's draft, or <<>>
  review,     \* [decision, answer], or <<>>
  output,     \* the file: the command that wrote it and what it is
  exit,       \* how the last command ended
  projected   \* the commands whose result is shown in Grafana

vars == <<journal, pc, attempt, mode, chosen, read, packet, left, draft, review, output, exit, projected>>
inputs == <<journal, attempt, mode, chosen, read, packet>>
results == <<output, exit, projected>>

-----------------------------------------------------------------------------
(* What a bug would do: the review's repaired answer is not checked.       *)
ReviewedUnchecked(decision, issues, answer, proposed, p) ==
  \/ decision = "accept" /\ ~issues /\ answer = proposed
  \/ decision = "revise" /\ issues /\ answer # proposed

(* What review_diagnosis takes: the draft as it is, or repaired with a     *)
(* reason, and worded as an observation.                                   *)
Reviewed(decision, issues, answer, proposed, p) ==
  /\ \/ decision = "accept" /\ ~issues /\ answer = proposed
     \/ decision = "revise" /\ issues /\ answer # proposed
  /\ Valid(answer, p) /\ ~answer.causal

(* selected_report: the latest of the highest revision.                    *)
Newer(best, report) == IF best = <<>> \/ report.revision >= best[1].revision THEN <<report>> ELSE best
Selected(reports) ==
  LET best[k \in 0..Len(reports)] == IF k = 0 THEN <<>> ELSE Newer(best[k - 1], reports[k])
  IN  best[Len(reports)]
Ambiguous(reports) == \E r, s \in Range(reports) : r.run # s.run

-----------------------------------------------------------------------------
Init ==
  /\ journal = <<>> /\ pc = "idle" /\ attempt = 0 /\ mode = "file" /\ chosen = <<>> /\ read = 0
  /\ packet = <<>> /\ left = 0 /\ draft = <<>> /\ review = <<>>
  /\ output = [attempt |-> 0, kind |-> "none"] /\ exit = "none" /\ projected = {}

(* The diagnosis loop, or that of another run with the same record's name. *)
(* What they append while a command runs is not read before the next one.  *)
Report ==
  /\ pc = "idle" /\ Len(journal) < MaxReports
  /\ \E n \in 1..2, provisional \in BOOLEAN, run \in {"own", "other"}, p \in Reported :
       journal' = Append(journal, [revision |-> n, provisional |-> provisional, run |-> run, packet |-> p])
  /\ UNCHANGED <<pc, attempt, mode, chosen, read, packet, left, draft, review, results>>

(* Whatever is raised ends in main, which records the failure.             *)
Raise == pc' = "failed" /\ UNCHANGED <<inputs, draft, review, results>>

Has(p) == packet' = <<p>> /\ pc' = IF ~WellFormed(p) THEN "failed" ELSE IF mode' = "collect" THEN "write" ELSE "tags"

Start ==
  /\ pc = "idle" /\ attempt < MaxAttempts
  /\ attempt' = attempt + 1 /\ left' = Timeout /\ read' = Len(journal)
  /\ exit' = "none" /\ draft' = <<>> /\ review' = <<>>
  /\ UNCHANGED <<journal, output, projected>>
  /\ \/ /\ mode' \in {"file", "collect"} /\ chosen' = <<>>
        /\ \E p \in Packets : Has(p)
     \/ /\ mode' = "run" /\ chosen' = Selected(journal)
        /\ IF Ambiguous(journal) \/ chosen' = <<>> \/ (chosen' # <<>> /\ chosen'[1].provisional)
           THEN pc' = "failed" /\ packet' = <<>>
           ELSE Has(chosen'[1].packet)

(* The command is held up wherever it is.                                  *)
Work ==
  /\ pc \in {"tags", "version", "draft", "review", "late"} /\ left > 0
  /\ left' = left - 1
  /\ UNCHANGED <<inputs, pc, draft, review, results>>

(* remaining, and a call that ends within what it returns.                 *)
Expired == left <= 0 /\ left' = left /\ Raise
Waits(cap) == left > 0 /\ \E d \in 0..(IF left < cap THEN left ELSE cap) : left' = left - d

(* The model's and the server's metadata.                                  *)
Ask(step, then) ==
  /\ pc = step
  /\ \/ Expired
     \/ Waits(Cap) /\ Raise
     \/ Waits(Cap) /\ pc' = then /\ UNCHANGED <<inputs, draft, review, results>>

(* The generation: one that fails, was cut off, is of another model or is  *)
(* not valid is raised.                                                    *)
Draft ==
  /\ pc = "draft"
  /\ \/ Expired
     \/ Waits(left) /\ Raise
     \/ /\ Waits(left)
        /\ \E answer \in {a \in Answers : Valid(a, packet[1])} :
             pc' = "review" /\ draft' = <<answer>> /\ UNCHANGED <<inputs, review, results>>

Review ==
  /\ pc = "review"
  /\ \/ Expired
     \/ Waits(left) /\ Raise
     \/ /\ Waits(left)
        /\ \E answer \in Answers, decision \in {"accept", "revise", "reject"}, issues \in BOOLEAN :
             /\ Reviewed(decision, issues, answer, draft[1], packet[1]) /\ left' > 0
             /\ pc' = "late" /\ review' = <<[decision |-> decision, answer |-> answer]>>
             /\ UNCHANGED <<inputs, draft, results>>

(* A late review cannot publish.                                           *)
Publish ==
  /\ pc = "late"
  /\ \/ Expired
     \/ left > 0 /\ left' = left /\ pc' = "write" /\ UNCHANGED <<inputs, draft, review, results>>

Ends(how) ==
  /\ pc' = "idle" /\ exit' = how
  /\ mode' = "file" /\ chosen' = <<>> /\ read' = 0 /\ packet' = <<>> /\ left' = 0
  /\ draft' = <<>> /\ review' = <<>>
  /\ UNCHANGED <<journal, attempt>>

(* write_result replaces the output or leaves it as it is.                 *)
Writes(kind) == output' = [attempt |-> attempt, kind |-> kind]
Write ==
  /\ pc = "write" /\ UNCHANGED projected
  /\ \/ Ends("traceback") /\ UNCHANGED output
     \/ mode = "collect" /\ Writes("packet") /\ Ends("success")
     \/ mode = "file" /\ Writes("diagnosis") /\ Ends("success")
     \/ mode = "run" /\ Writes("diagnosis") /\ pc' = "project" /\ UNCHANGED <<inputs, left, draft, review, exit>>

Project ==
  /\ pc = "project" /\ UNCHANGED output
  /\ \/ Ends("traceback") /\ UNCHANGED projected
     \/ Ends("success") /\ projected' = projected \cup {attempt}

RecordFailure ==
  /\ pc = "failed" /\ UNCHANGED projected
  /\ \/ Ends("traceback") /\ UNCHANGED output
     \/ Ends("failure") /\ Writes("failure")

Kill == pc # "idle" /\ Ends("killed") /\ UNCHANGED <<output, projected>>

Next ==
  \/ Report \/ Start \/ Work \/ Ask("tags", "version") \/ Ask("version", "draft")
  \/ Draft \/ Review \/ Publish \/ Write \/ Project \/ RecordFailure \/ Kill

-----------------------------------------------------------------------------
TypeOK ==
  /\ pc \in {"idle", "tags", "version", "draft", "review", "late", "write", "project", "failed"}
  /\ left \in 0..Timeout /\ read \in 0..Len(journal) /\ projected \subseteq 1..attempt
  /\ packet \in {<<>>} \cup {<<p>> : p \in Packets}
  /\ draft \in {<<>>} \cup {<<a>> : a \in Answers}
  /\ output \in [attempt : 0..attempt, kind : {"none", "packet", "diagnosis", "failure"}]

(* Whoever reads the output of a command that ended on its own finds that  *)
(* command's result: a failed one is never paired with the diagnosis of an *)
(* earlier one, and a step is shown only when its file has the diagnosis.  *)
OutputIsTheCommands ==
  pc = "idle" =>
    /\ exit = "success" => output.attempt = attempt /\ output.kind # "failure"
    /\ exit = "failure" => output = [attempt |-> attempt, kind |-> "failure"] /\ attempt \notin projected
    /\ attempt \in projected => output = [attempt |-> attempt, kind |-> "diagnosis"]

(* A diagnosis that is written, when the model may answer anything, was    *)
(* reviewed in time; each of its candidates rests on current measurements  *)
(* of its packet, no two of which are other signals of other entities, and *)
(* carries all their limits; and that of a step is of its final report,    *)
(* the newest when it was selected.                                        *)
PublishedIsGrounded ==
  pc \in {"write", "project"} /\ mode # "collect" =>
    /\ left > 0 /\ review # <<>>
    /\ review[1].decision = "accept" => review[1].answer = draft[1]
    /\ \A c \in Range(review[1].answer.candidates) :
         LET cited == Of(packet[1], Range(c.evidence) \cup Range(c.counter))
         IN  /\ TimingUsable(packet[1]) /\ cited # {}
             /\ \A o \in cited : o.status = "observed" /\ o.limits \subseteq c.missing
             /\ \A o, q \in Of(packet[1], Range(c.evidence)) : o.signal # q.signal =>
                  /\ \A label \in {"engine", "gpu"} : label \in DOMAIN o.labels \cap DOMAIN q.labels =>
                       <<o.node, o.labels[label]>> = <<q.node, q.labels[label]>>
                  /\ o.vllm /\ q.vllm /\ "" \notin {o.endpoint, q.endpoint} =>
                       <<o.node, o.endpoint>> = <<q.node, q.endpoint>>
    /\ mode = "run" =>
         /\ packet[1] = chosen[1].packet /\ ~chosen[1].provisional
         /\ \A i \in 1..read : journal[i].run = chosen[1].run /\ journal[i].revision <= chosen[1].revision
=============================================================================
