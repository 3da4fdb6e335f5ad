------------------------- MODULE DiagnosisSchedule --------------------------
(***************************************************************************)
(* When a step is diagnosed, and what of it is persisted (xlayer_telemetry *)
(* /analysis/diagnostics.py run_once and _prepare_batch, scheduling.py,    *)
(* diagnostic_artifacts.py).  A loop looks for steps of the history that   *)
(* have no final report, waits until their evidence has settled, analyses  *)
(* them, repeats that while evidence is incomplete, and leaves a journal,  *)
(* a latest report and one projection for each final report.  A finalizer  *)
(* does it once more when the workload has ended.  Either may be killed    *)
(* between any two writes; the host may reboot.                            *)
(*                                                                         *)
(* Only one process runs at a time (RunWrapper!FinalWorkIsAlone).  The     *)
(* journal is reduced to what a reader folds it to: the last report of     *)
(* each step.  Times count ticks up to the limits they are compared with.  *)
(***************************************************************************)
EXTENDS Naturals, Sequences, FiniteSets, FiniteSetsExt

CONSTANTS
  LastStep,      (* the steps of the history are 1..LastStep               *)
  Settle,        (* threefs.settle_seconds                                 *)
  Retry,         (* retry_seconds                                          *)
  Interval,      (* retry_interval_seconds                                 *)
  Budget,        (* the longest wait of a finalizer for evidence           *)
  MaxRecords,    (* steps of one batch of the loop                         *)
  Never,         (* no time: no deadline, no trusted first attempt         *)
  MaxFaults     (* bound of the model: kills, reboots, failed requests     *)

ASSUME ScheduleAssumption ==
  /\ LastStep \in Nat
  /\ Settle \in Nat /\ Retry \in Nat \ {0} /\ Interval \in Nat \ {0}
  /\ Budget \in Nat /\ MaxRecords \in Nat \ {0} /\ MaxFaults \in Nat
  /\ Never \notin Nat

Steps == 1..LastStep

VARIABLES
  reported, (* reported[s]: "absent" from the history; "new"; and of the    *)
            (* journal's last report of s "provisional" or "final"          *)
  age,      (* age[s]: time since the step's window ended, at most Settle   *)
  wait,     (* wait[s]: time until _settle_deadlines[s], or Never           *)
  since,    (* since[s]: time since the first attempt the journal tells of  *)
            (* on this boot, at most Retry or Settle, or Never              *)
  due,      (* due[s]: time until retry_at                                  *)
  finals,   (* history: final reports written of s                          *)
  fresh,    (* latest.json is the journal's last diagnosis                  *)
  projected,(* steps whose projection exists                                *)
  mode,     (* the process that runs: "off", "loop"; when the workload has  *)
            (* ended "ended", "final", "finished"                           *)
  at,       (* where run_once is                                            *)
  batch,    (* the steps it has yet to analyse                              *)
  missing,  (* the projections its plan repairs                             *)
  attempt,  (* time since the analysis in hand began                        *)
  left,     (* time the finalizer goes on waiting                           *)
  smooth,   (* history: no request of this process has failed               *)
  faults

journal == <<reported, since, due, finals>>
files   == <<fresh, projected>>
clocks  == <<age, wait>>
run     == <<at, batch, missing, attempt, left>>
schedule == <<journal, files, clocks, mode, run, smooth, faults>>

Longest == Max({Settle, Retry})
Less(t) == IF t = Never \/ t = 0 THEN t ELSE t - 1
More(t, limit) == IF t = Never \/ t = limit THEN t ELSE t + 1
AtMost(a, b) == IF a < b THEN a ELSE b

Fault == faults < MaxFaults /\ faults' = faults + 1

Idle == at = "idle" /\ mode \in {"loop", "final"}

ScheduleInit ==
  /\ reported = [s \in Steps |-> "absent"]
  /\ age = [s \in Steps |-> 0] /\ wait = [s \in Steps |-> Never]
  /\ since = [s \in Steps |-> Never] /\ due = [s \in Steps |-> 0]
  /\ finals = [s \in Steps |-> 0]
  /\ fresh = TRUE /\ projected = {}
  /\ mode = "off" /\ at = "idle" /\ batch = <<>> /\ missing = {}
  /\ attempt = 0 /\ left = 0 /\ smooth = TRUE /\ faults = 0

-----------------------------------------------------------------------------
(* The history grows, time passes.                                         *)

(* The bridge appends a step some time after its window has ended.         *)
Observe(s) ==
  /\ mode # "finished"
  /\ reported[s] = "absent" /\ \A earlier \in 1..(s - 1) : reported[earlier] # "absent"
  /\ reported' = [reported EXCEPT ![s] = "new"]
  /\ \E late \in 0..Settle : age' = [age EXCEPT ![s] = late]
  /\ UNCHANGED <<since, due, finals, files, wait, mode, run, smooth, faults>>

Tick ==
  /\ age' = [s \in Steps |-> IF reported[s] = "absent" THEN 0 ELSE More(age[s], Settle)]
  /\ wait' = [s \in Steps |-> Less(wait[s])]
  /\ since' = [s \in Steps |-> More(since[s], Longest)]
  /\ due' = [s \in Steps |-> Less(due[s])]
  /\ attempt' = IF at = "analyze" THEN More(attempt, Longest) ELSE attempt
  /\ left' = Less(left)
  /\ UNCHANGED <<reported, finals, files, mode, at, batch, missing, smooth, faults>>

-----------------------------------------------------------------------------
(* _prepare_batch, in the analysis worker.                                 *)

Unfinished == {s \in Steps : reported[s] \in {"new", "provisional"}}

(* Mutant: the age is added to the settling time.                          *)
SettleLeftAdds(s, sameAxis) == Settle + (IF sameAxis THEN age[s] ELSE 0)

(* scheduling.ready: how long the evidence of s must still settle.  Its    *)
(* age counts when both clocks have the same axis, and so does the first   *)
(* attempt, which was made when it had settled.                            *)
SettleLeft(s, sameAxis) ==
  LET byAge == Settle - (IF sameAxis THEN age[s] ELSE 0)
  IN IF since[s] = Never THEN byAge
     ELSE AtMost(byAge, IF since[s] < Settle THEN Settle - since[s] ELSE 0)

Deadlines(sameAxis) ==
  [s \in Steps |-> IF s \notin Unfinished \/ Settle = 0 THEN Never
                   ELSE IF wait[s] # Never THEN wait[s] ELSE SettleLeft(s, sameAxis)]

Ready(deadlines) == {s \in Unfinished : deadlines[s] \in {Never, 0}}

(* _projection_recovery: what final reports have no projection.            *)
Unprojected == {s \in Steps : reported[s] = "final"} \ projected

(* The members of S in their order: there is one such sequence.            *)
InOrder(S) ==
  {q \in [1..Cardinality(S) -> S] :
     Range(q) = S /\ \A i, j \in DOMAIN q : i < j => q[i] < q[j]}

Pending(deadlines) ==
  {s \in Ready(deadlines) : mode = "final" \/ due[s] = 0}

First(q) == IF mode = "final" \/ Len(q) <= MaxRecords THEN q ELSE SubSeq(q, 1, MaxRecords)

(* settle_wait_seconds.                                                     *)
Waits(deadlines) == {0} \cup ({deadlines[s] : s \in Steps} \ {Never})

(* The finalizer waits for what is not settled, and plans again.           *)
Await(longest) ==
  /\ at' = "waiting" /\ left' = AtMost(longest, Budget)
  /\ UNCHANGED <<batch, missing>>

Take(deadlines) ==
  /\ at' = "repair" /\ left' = 0
  /\ \E sorted \in InOrder(Pending(deadlines)) : batch' = First(sorted)
  /\ missing' = Unprojected

Prepare ==
  \E sameAxis \in BOOLEAN :
    LET deadlines == Deadlines(sameAxis) IN
    /\ Idle \/ (at = "waiting" /\ left = 0)
    /\ wait' = deadlines
    /\ \E longest \in Waits(deadlines) :
         /\ \A other \in Waits(deadlines) : other <= longest
         /\ IF mode = "final" /\ at = "idle" /\ longest > 0
              THEN Await(longest) ELSE Take(deadlines)
    /\ UNCHANGED <<journal, files, age, mode, attempt, smooth, faults>>

(* The worker fails or misses its deadline: it is replaced, its deadlines  *)
(* are gone, and the failure is reported as a diagnosis of no step.        *)
PrepareFails ==
  /\ Idle \/ (at = "waiting" /\ left = 0)
  /\ Fault
  /\ wait' = [s \in Steps |-> Never]
  /\ fresh' = FALSE /\ at' = "failed" /\ left' = 0 /\ smooth' = FALSE
  /\ UNCHANGED <<journal, projected, age, mode, batch, missing, attempt>>

-----------------------------------------------------------------------------
(* run_once, in the controller.                                            *)

(* repair_projections: the missing projections, then latest.json.          *)
Repair ==
  /\ at = "repair"
  /\ \/ \E s \in missing :
          /\ projected' = projected \cup {s} /\ missing' = missing \ {s}
          /\ UNCHANGED <<fresh, at>>
     \/ /\ missing = {} /\ fresh' = TRUE /\ at' = "next"
        /\ UNCHANGED <<projected, missing>>
  /\ UNCHANGED <<journal, clocks, mode, batch, attempt, left, smooth, faults>>

Analyze ==
  /\ at = "next" /\ batch # <<>>
  /\ at' = "analyze" /\ attempt' = 0
  /\ UNCHANGED <<journal, files, clocks, mode, batch, missing, left, smooth, faults>>

SinceFirst(s) == IF since[s] = Never THEN attempt ELSE since[s]

(* Mutant: a period of retries that begins with each attempt.              *)
RetryForever(s, retryable) == retryable /\ mode # "final"

(* Mutant: the finalizer leaves what may be retried.                       *)
RetryAtTheEnd(s, retryable) == retryable /\ SinceFirst(s) < Retry

Provisional(s, retryable) == retryable /\ mode # "final" /\ SinceFirst(s) < Retry

(* The analysis ends, or fails in its worker; write_report appends to the  *)
(* journal first.  A final report is due its projection.                   *)
Journal ==
  LET s == Head(batch) IN
  /\ at = "analyze"
  /\ \E retryable, failed \in BOOLEAN :
       /\ IF failed THEN retryable /\ Fault ELSE UNCHANGED faults
       /\ reported' = [reported EXCEPT ![s] =
            IF Provisional(s, retryable) THEN "provisional" ELSE "final"]
       /\ due' = [due EXCEPT ![s] =
            IF Provisional(s, retryable) THEN AtMost(Interval, Retry - SinceFirst(s)) ELSE 0]
       /\ wait' = IF failed THEN [t \in Steps |-> Never] ELSE wait
       /\ finals' = [finals EXCEPT ![s] = IF Provisional(s, retryable) THEN @ ELSE @ + 1]
  /\ since' = [since EXCEPT ![s] = SinceFirst(s)]
  /\ fresh' = FALSE
  /\ at' = "journaled" /\ attempt' = 0
  /\ UNCHANGED <<projected, age, mode, batch, missing, left, smooth>>

(* latest.json, then the projection of a final report.                     *)
Publish ==
  /\ at \in {"journaled", "periodic", "failed"}
  /\ fresh' = TRUE
  /\ at' = IF at = "journaled" THEN "published" ELSE "end"
  /\ UNCHANGED <<journal, projected, clocks, mode, batch, missing, attempt, left, smooth,
                 faults>>

Project ==
  /\ at = "published"
  /\ projected' = projected \cup (IF reported[Head(batch)] = "final" THEN {Head(batch)} ELSE {})
  /\ at' = "next" /\ batch' = Tail(batch)
  /\ UNCHANGED <<journal, fresh, clocks, mode, missing, attempt, left, smooth, faults>>

(* Nothing is unfinished: one report of no step, unless the process only   *)
(* takes pending steps.                                                    *)
BatchDone ==
  /\ at = "next" /\ batch = <<>>
  /\ IF mode = "loop" /\ Unfinished = {}
       THEN at' = "periodic" /\ fresh' = FALSE
       ELSE at' = "end" /\ UNCHANGED fresh
  /\ UNCHANGED <<journal, projected, clocks, mode, batch, missing, attempt, left, smooth,
                 faults>>

(* The loop sleeps; the finalizer, which runs once, ends.                  *)
EndRun ==
  /\ at = "end" /\ at' = "idle"
  /\ mode' = IF mode = "final" THEN "finished" ELSE mode
  /\ UNCHANGED <<journal, files, clocks, batch, missing, attempt, left, smooth, faults>>

-----------------------------------------------------------------------------
(* Processes come and go.                                                  *)

Begin(what) ==
  /\ mode = (IF what = "loop" THEN "off" ELSE "ended")
  /\ mode' = what /\ smooth' = TRUE
  /\ UNCHANGED <<journal, files, clocks, run, faults>>

(* Killed, or told to stop: what it held in memory is gone.                *)
Lose(next) ==
  /\ at' = "idle" /\ batch' = <<>> /\ missing' = {} /\ attempt' = 0 /\ left' = 0
  /\ wait' = [s \in Steps |-> Never]
  /\ mode' = next

Crash ==
  /\ mode \in {"loop", "final"} /\ Fault
  /\ Lose(IF mode = "final" THEN "ended" ELSE "off")
  /\ UNCHANGED <<journal, files, age, smooth>>

(* Another boot: no time of the journal is comparable any more.            *)
Reboot ==
  /\ mode # "finished" /\ Fault
  /\ Lose(IF mode \in {"off", "loop"} THEN "off" ELSE "ended")
  /\ since' = [s \in Steps |-> Never] /\ due' = [s \in Steps |-> 0]
  /\ UNCHANGED <<reported, finals, files, age, smooth>>

(* The workload has ended: the wrapper stops the loop, and finalizes.      *)
StopLoop ==
  /\ mode \in {"off", "loop"} /\ \A s \in Steps : reported[s] # "absent"
  /\ Lose("ended")
  /\ UNCHANGED <<journal, files, age, smooth, faults>>

Process ==
  \/ Prepare \/ PrepareFails \/ Repair \/ Analyze \/ Journal \/ Publish \/ Project
  \/ BatchDone \/ EndRun

ScheduleNext ==
  \/ \E s \in Steps : Observe(s)
  \/ Tick \/ Process
  \/ \E what \in {"loop", "final"} : Begin(what)
  \/ Crash \/ Reboot \/ StopLoop

ScheduleSpec == ScheduleInit /\ [][ScheduleNext]_schedule
-----------------------------------------------------------------------------
ScheduleTypeOK ==
  /\ reported \in [Steps -> {"absent", "new", "provisional", "final"}]
  /\ age \in [Steps -> 0..Settle]
  /\ wait \in [Steps -> 0..Settle \cup {Never}]
  /\ since \in [Steps -> 0..Longest \cup {Never}]
  /\ due \in [Steps -> 0..Interval]
  /\ finals \in [Steps -> Nat] /\ fresh \in BOOLEAN /\ projected \subseteq Steps
  /\ mode \in {"off", "loop", "ended", "final", "finished"}
  /\ at \in {"idle", "waiting", "repair", "next", "analyze", "journaled", "published",
             "periodic", "failed", "end"}
  /\ batch \in Seq(Steps) /\ missing \subseteq Steps
  /\ attempt \in 0..Longest /\ left \in Nat /\ smooth \in BOOLEAN /\ faults \in Nat

(* Whatever is retried, killed or rebooted, the journal has at most one    *)
(* final report of a step, and nothing after it; and no step is projected  *)
(* that has none.                                                          *)
FinalOnce ==
  /\ \A s \in Steps : finals[s] = (IF reported[s] = "final" THEN 1 ELSE 0)
  /\ projected \subseteq {s \in Steps : reported[s] = "final"}

(* No step is analysed before its evidence has settled, although engines   *)
(* are replaced and forget their deadlines, and clocks change.             *)
SettledFirst == at = "analyze" => age[Head(batch)] = Settle

(* When a batch is carried out, whatever an earlier process left undone    *)
(* between the journal and the files derived from it has been repaired.    *)
RepairedFirst ==
  at \in {"next", "analyze"} => fresh /\ Unprojected = {}

(* A finalizer that could wait for its evidence, and whose requests did    *)
(* not fail, leaves no step without its final report.                      *)
FinalizerLeavesNothing ==
  mode = "finished" /\ smooth /\ Budget >= Settle => Unfinished = {}

DiagnosisIsRight == FinalOnce /\ SettledFirst /\ RepairedFirst /\ FinalizerLeavesNothing

-----------------------------------------------------------------------------
(* The process is scheduled, its worker answers at last, and time passes.  *)
ScheduleFairness ==
  /\ SF_schedule(Prepare)
  /\ WF_schedule(Repair \/ Analyze \/ Journal \/ Publish \/ Project \/ BatchDone \/ EndRun)
  /\ WF_schedule(Tick)

(* Every step that a loop sees gets its final report while it runs on.     *)
StepsBecomeFinal ==
  \A s \in Steps :
    (reported[s] = "new" /\ mode = "loop") ~> (reported[s] = "final" \/ mode # "loop")
=============================================================================
