-------------------------- MODULE ClusterLifecycle --------------------------
(***************************************************************************)
(* xltel cluster up and down (xlayer_telemetry/operations/                 *)
(* cluster_lifecycle.py).  A controller goes through the managed roles of  *)
(* the inventory one by one, over ssh; on each host a worker takes the     *)
(* host's lifecycle lock, runs the launcher HostLifecycle models, and      *)
(* answers with a receipt for a service it started.  A failed up rolls     *)
(* back what it has receipts for.  Answers are lost or late while the      *)
(* worker goes on, services die, others start and stop them locally, and   *)
(* the controller is interrupted.                                          *)
(*                                                                         *)
(* The launcher is reduced to its outcomes.  A target is a role of a host, *)
(* numbered in the order of up: servers first.                             *)
(***************************************************************************)
EXTENDS Naturals, Sequences, FiniteSets

CONSTANTS
  Controllers,  (* invocations of xltel cluster                            *)
  Last,         (* number of targets                                       *)
  Hosts,
  HostOf,       (* HostOf[t]: the host of target t                         *)
  None,         (* no service, no holder, no answer                        *)
  Local,        (* who starts a service when no controller does            *)
  MaxLocal,     (* bound of the model: local starts and stops              *)
  MaxDeaths     (* bound of the model: services that die by themselves     *)

ASSUME ClusterAssumption ==
  /\ Last \in Nat \ {0} /\ HostOf \in [1..Last -> Hosts]
  /\ Local \notin Controllers /\ None \notin Nat \cup (Controllers \X (1..Last))
  /\ MaxLocal \in Nat /\ MaxDeaths \in Nat

Targets == 1..Last

VARIABLES
  service,  (* service[t]: None or [id, by, new]: its process identity,    *)
            (* who started it, and whether the role was down at the time   *)
  ids,      (* number of process identities so far                         *)
  lock,     (* lock[h]: holder of host h's lifecycle lock                  *)
  job,      (* job[c][t]: worker of controller c on target t, as           *)
            (* [phase, action, expected, before, ok, receipt]              *)
  pc,       (* pc[c]: where controller c is                                *)
  action,   (* action[c]: up or down                                       *)
  at,       (* at[c]: target, or receipt, being handled                    *)
  answer,   (* answer[c]: what the last ssh call returned: None or         *)
            (* [ok, unknown, receipt]                                      *)
  receipts, (* receipts[c]: the list `started' of [target, id]             *)
  failed, cancelled, unknown, (* what became of the invocation so far      *)
  report,   (* report[c]: None or [status, cleanup]                        *)
  undone,   (* history: what rollbacks stopped, as [by, of, new]           *)
  locals, deaths (* counters of the bounds                                 *)

hosts  == <<service, ids, lock>>
states == <<failed, cancelled, unknown>>
runs   == <<pc, action, at, answer, receipts, states, report>>
counts == <<locals, deaths>>
vars == <<hosts, job, runs, undone, counts>>

NoJob == [phase |-> "none", action |-> "up", expected |-> None, before |-> None,
          ok |-> FALSE, receipt |-> None]

Init ==
  /\ service = [t \in Targets |-> None]
  /\ ids = 0
  /\ lock = [h \in Hosts |-> None]
  /\ job = [c \in Controllers |-> [t \in Targets |-> NoJob]]
  /\ pc = [c \in Controllers |-> "idle"]
  /\ action = [c \in Controllers |-> "up"]
  /\ at = [c \in Controllers |-> 1]
  /\ answer = [c \in Controllers |-> None]
  /\ receipts = [c \in Controllers |-> <<>>]
  /\ failed = [c \in Controllers |-> FALSE]
  /\ cancelled = [c \in Controllers |-> FALSE]
  /\ unknown = [c \in Controllers |-> FALSE]
  /\ report = [c \in Controllers |-> None]
  /\ undone = {} /\ locals = 0 /\ deaths = 0

Id(t) == IF service[t] = None THEN None ELSE service[t].id

SetJob(c, t, new) == job' = [job EXCEPT ![c][t] = new]

Unknown == [ok |-> FALSE, unknown |-> TRUE, receipt |-> None]
-----------------------------------------------------------------------------
(* manage_host: the worker on the target's host.                           *)

Reply(c, t, ok, receipt) ==
  SetJob(c, t, [NoJob EXCEPT !.phase = "replied", !.ok = ok, !.receipt = receipt])

Busy(c, t) ==
  /\ job[c][t].phase = "sent"
  /\ lock[HostOf[t]] # None
  /\ Reply(c, t, FALSE, None)
  /\ UNCHANGED <<hosts, runs, undone, counts>>

(* Mutant: the identity a rollback expects is not compared.                *)
ChangedNever(c, t) == FALSE

(* The service is not, or no longer, the one the rollback is meant for.    *)
Changed(c, t) == job[c][t].expected # None /\ Id(t) # job[c][t].expected

RefuseChanged(c, t) ==
  /\ job[c][t].phase = "sent"
  /\ lock[HostOf[t]] = None
  /\ Changed(c, t)
  /\ Reply(c, t, FALSE, None)
  /\ UNCHANGED <<hosts, runs, undone, counts>>

Admit(c, t) ==
  /\ job[c][t].phase = "sent"
  /\ lock[HostOf[t]] = None
  /\ ~Changed(c, t)
  /\ lock' = [lock EXCEPT ![HostOf[t]] = <<c, t>>]
  /\ SetJob(c, t, [job[c][t] EXCEPT !.phase = "launch", !.before = Id(t)])
  /\ UNCHANGED <<service, ids, runs, undone, counts>>

(* The launcher finds the role running, or starts it.  It may fail before  *)
(* it runs, by its readiness checks, which stop what it started but for a  *)
(* service that does not end, or after it, by the version of Grafana,      *)
(* whether or not the role was running before.                             *)
LaunchUp(c, t) ==
  /\ job[c][t].phase = "launch" /\ job[c][t].action = "up"
  /\ \/ /\ service[t] # None
        /\ UNCHANGED <<service, ids>>
        /\ \E ok \in BOOLEAN : SetJob(c, t, [job[c][t] EXCEPT !.phase = "look", !.ok = ok])
     \/ /\ service[t] = None
        /\ service' = [service EXCEPT ![t] =
             [id |-> ids + 1, by |-> c, new |-> job[c][t].before = None]]
        /\ ids' = ids + 1
        /\ \E ok \in BOOLEAN : SetJob(c, t, [job[c][t] EXCEPT !.phase = "look", !.ok = ok])
     \/ /\ service[t] = None
        /\ UNCHANGED <<service, ids>>
        /\ SetJob(c, t, [job[c][t] EXCEPT !.phase = "look", !.ok = FALSE])
  /\ UNCHANGED <<lock, runs, undone, counts>>

LaunchDown(c, t) ==
  /\ job[c][t].phase = "launch" /\ job[c][t].action = "down"
  /\ \/ /\ service' = [service EXCEPT ![t] = None]
        /\ undone' = IF service[t] # None /\ job[c][t].expected # None
                       THEN undone \cup {[by |-> c, of |-> service[t].by, new |-> service[t].new]}
                       ELSE undone
        /\ SetJob(c, t, [job[c][t] EXCEPT !.phase = "look", !.ok = TRUE])
     \/ /\ UNCHANGED <<service, undone>>
        /\ SetJob(c, t, [job[c][t] EXCEPT !.phase = "look", !.ok = FALSE])
  /\ UNCHANGED <<ids, lock, runs, counts>>

(* What the worker calls started: running now, and not when it began.      *)
Started(c, t) ==
  IF job[c][t].action = "up" /\ job[c][t].before = None THEN Id(t) ELSE None

Done(c, t) ==
  job[c][t].ok /\ (job[c][t].action = "up" <=> service[t] # None)

(* Looked at after the launcher: an up that failed but left a service that *)
(* it started is followed by a local down.                                 *)
Finish(c, t) ==
  /\ job[c][t].phase = "look"
  /\ Done(c, t) \/ Started(c, t) = None
  /\ lock' = [lock EXCEPT ![HostOf[t]] = None]
  /\ Reply(c, t, Done(c, t), Started(c, t))
  /\ UNCHANGED <<service, ids, runs, undone, counts>>

CleanUp(c, t) ==
  /\ job[c][t].phase = "look"
  /\ ~Done(c, t) /\ Started(c, t) # None
  /\ \/ /\ service' = [service EXCEPT ![t] = None]
        /\ undone' = undone \cup {[by |-> c, of |-> service[t].by, new |-> service[t].new]}
     \/ UNCHANGED <<service, undone>>
  /\ SetJob(c, t, [job[c][t] EXCEPT !.phase = "leave", !.ok = FALSE])
  /\ UNCHANGED <<ids, lock, runs, counts>>

(* Mutant: the receipt is dropped whether or not the local down worked.    *)
LeaveWithout(c, t) ==
  /\ job[c][t].phase = "leave"
  /\ lock' = [lock EXCEPT ![HostOf[t]] = None]
  /\ Reply(c, t, FALSE, None)
  /\ UNCHANGED <<service, ids, runs, undone, counts>>

Leave(c, t) ==
  /\ job[c][t].phase = "leave"
  /\ lock' = [lock EXCEPT ![HostOf[t]] = None]
  /\ Reply(c, t, FALSE, Started(c, t))
  /\ UNCHANGED <<service, ids, runs, undone, counts>>

Worker(c, t) ==
  \/ Busy(c, t) \/ RefuseChanged(c, t) \/ Admit(c, t) \/ LaunchUp(c, t)
  \/ LaunchDown(c, t) \/ Finish(c, t) \/ CleanUp(c, t) \/ Leave(c, t)

(* The request never arrives, or the worker is killed.  A launcher that    *)
(* outlives its worker keeps the lock it inherited until it is done: the   *)
(* worker is then abandoned after the launch.                              *)
Abandon(c, t) ==
  /\ job[c][t].phase \in {"sent", "launch", "look", "leave"}
  /\ lock' = [lock EXCEPT ![HostOf[t]] = IF job[c][t].phase = "sent" THEN @ ELSE None]
  /\ SetJob(c, t, NoJob)
  /\ UNCHANGED <<service, ids, runs, undone, counts>>
-----------------------------------------------------------------------------
(* run: the controller.  up goes through the targets in order, down in     *)
(* reverse; at[c] counts them.                                             *)

Target(c) ==
  IF pc[c] \in {"loop", "undoing", "undid"} THEN receipts[c][at[c]].target
  ELSE IF action[c] = "up" THEN at[c] ELSE Last + 1 - at[c]

Begin(c, what) ==
  /\ pc[c] = "idle"
  /\ pc' = [pc EXCEPT ![c] = "call"]
  /\ action' = [action EXCEPT ![c] = what]
  /\ UNCHANGED <<hosts, job, at, answer, receipts, states, report, undone, counts>>

Send(c, from, to, what, expected) ==
  /\ pc[c] = from
  /\ pc' = [pc EXCEPT ![c] = to]
  /\ SetJob(c, Target(c), [NoJob EXCEPT !.phase = "sent", !.action = what,
                                        !.expected = expected])
  /\ answer' = [answer EXCEPT ![c] = None]
  /\ UNCHANGED <<hosts, action, at, receipts, states, report, undone, counts>>

Call(c) == Send(c, "call", "calling", action[c], None)

(* Of a failed up, the receipts are rolled back in reverse order.          *)
ToUndo(c) == action[c] = "up" /\ failed[c] /\ at[c] > 0

CallUndo(c) ==
  pc[c] = "loop" /\ ToUndo(c) /\ Send(c, "loop", "undoing", "down", receipts[c][at[c]].id)

Return(c, value) ==
  /\ pc[c] \in {"calling", "undoing"}
  /\ pc' = [pc EXCEPT ![c] = IF @ = "calling" THEN "called" ELSE "undid"]
  /\ answer' = [answer EXCEPT ![c] = value]
  /\ UNCHANGED <<hosts, action, at, receipts, failed, unknown, report, undone, counts>>

Receive(c) ==
  LET t == Target(c) IN
  /\ pc[c] \in {"calling", "undoing"} /\ job[c][t].phase = "replied"
  /\ Return(c, [ok |-> job[c][t].ok, unknown |-> FALSE, receipt |-> job[c][t].receipt])
  /\ SetJob(c, t, NoJob)
  /\ UNCHANGED cancelled

(* Mutant: an ssh call ends only with its worker.                          *)
TimeOutLate(c) ==
  /\ pc[c] \in {"calling", "undoing"} /\ job[c][Target(c)].phase = "none"
  /\ Return(c, Unknown)
  /\ UNCHANGED <<job, cancelled>>

(* A deadline, a broken connection or an invalid reply; the worker may     *)
(* still be at work.                                                       *)
TimeOut(c) == Return(c, Unknown) /\ UNCHANGED <<job, cancelled>>

(* The report's `cleanup'.                                                 *)

(* Mutant: only the rollback's own answers count as unconfirmed.           *)
UnconfirmedUndoOnly(c) ==
  pc[c] = "undid" /\ unknown[c]

Unconfirmed(c) == unknown[c]

Cleanup(c) ==
  IF action[c] = "up" /\ failed[c] /\ Unconfirmed(c) THEN "unconfirmed"
  ELSE IF action[c] = "up" /\ failed[c] /\ receipts[c] # <<>> THEN "completed"
  ELSE "not_needed"

(* The loop's bookkeeping for one answer.                                  *)
Book(c) ==
  LET ok == answer[c].ok IN
  /\ pc[c] = "called"
  /\ receipts' = [receipts EXCEPT ![c] =
       IF answer[c].receipt = None THEN @
       ELSE Append(@, [target |-> Target(c), id |-> answer[c].receipt])]
  /\ failed' = [failed EXCEPT ![c] = @ \/ ~ok]
  /\ unknown' = [unknown EXCEPT ![c] = @ \/ answer[c].unknown]
  /\ IF (~ok /\ (action[c] = "up" \/ cancelled[c])) \/ at[c] = Last
       THEN /\ pc' = [pc EXCEPT ![c] = "loop"]
            /\ at' = [at EXCEPT ![c] = Len(receipts'[c])]
       ELSE /\ pc' = [pc EXCEPT ![c] = "call"]
            /\ at' = [at EXCEPT ![c] = @ + 1]
  /\ UNCHANGED <<hosts, job, action, answer, cancelled, report, undone, counts>>

BookUndo(c) ==
  /\ pc[c] = "undid"
  /\ pc' = [pc EXCEPT ![c] = "loop"]
  /\ at' = [at EXCEPT ![c] = @ - 1]
  /\ unknown' = [unknown EXCEPT ![c] = @ \/ ~answer[c].ok]
  /\ UNCHANGED <<hosts, job, action, answer, receipts, failed, cancelled, report, undone,
                 counts>>

(* run returns or is left: its variables are gone, its workers are not.    *)
EndRun(c, label) ==
  /\ pc' = [pc EXCEPT ![c] = label]
  /\ at' = [at EXCEPT ![c] = 1]
  /\ answer' = [answer EXCEPT ![c] = None]
  /\ receipts' = [receipts EXCEPT ![c] = <<>>]
  /\ failed' = [failed EXCEPT ![c] = FALSE]
  /\ cancelled' = [cancelled EXCEPT ![c] = FALSE]
  /\ unknown' = [unknown EXCEPT ![c] = FALSE]
  /\ UNCHANGED <<hosts, job, action, undone, counts>>

Report(c) ==
  /\ pc[c] = "loop"
  /\ ~ToUndo(c)
  /\ report' = [report EXCEPT ![c] =
       [status |-> IF cancelled[c] THEN "interrupted"
                   ELSE IF failed[c] THEN "partial_failure" ELSE "ok",
        cleanup |-> Cleanup(c)]]
  /\ EndRun(c, "done")

(* INT or TERM in an ssh call of the first pass ends the pass.             *)
Interrupt(c) ==
  /\ pc[c] = "calling"
  /\ Return(c, Unknown)
  /\ cancelled' = [cancelled EXCEPT ![c] = TRUE]
  /\ UNCHANGED job

(* Anywhere else it ends the invocation: nothing catches _Cancelled.       *)
Escape(c) ==
  /\ pc[c] \in {"call", "called", "loop", "undoing", "undid"}
  /\ EndRun(c, "escaped")
  /\ UNCHANGED report

Controller(c) ==
  \/ Call(c) \/ CallUndo(c) \/ Receive(c) \/ TimeOut(c) \/ Book(c)
  \/ BookUndo(c) \/ Report(c)
-----------------------------------------------------------------------------
(* xltel up and down on the host itself, under the same lock.              *)
LocalUp(t) ==
  /\ locals < MaxLocal /\ locals' = locals + 1
  /\ lock[HostOf[t]] = None /\ service[t] = None
  /\ ids' = ids + 1
  /\ service' = [service EXCEPT ![t] = [id |-> ids + 1, by |-> Local, new |-> TRUE]]
  /\ UNCHANGED <<lock, job, runs, undone, deaths>>

LocalDown(t) ==
  /\ locals < MaxLocal /\ locals' = locals + 1
  /\ lock[HostOf[t]] = None /\ service[t] # None
  /\ service' = [service EXCEPT ![t] = None]
  /\ UNCHANGED <<ids, lock, job, runs, undone, deaths>>

Die(t) ==
  /\ deaths < MaxDeaths /\ deaths' = deaths + 1
  /\ service[t] # None
  /\ service' = [service EXCEPT ![t] = None]
  /\ UNCHANGED <<ids, lock, job, runs, undone, locals>>

Next ==
  \/ \E c \in Controllers :
       \/ \E what \in {"up", "down"} : Begin(c, what)
       \/ Controller(c) \/ Interrupt(c) \/ Escape(c)
       \/ \E t \in Targets : Worker(c, t) \/ Abandon(c, t)
  \/ \E t \in Targets : LocalUp(t) \/ LocalDown(t) \/ Die(t)

Spec == Init /\ [][Next]_vars

(* The controller is scheduled; its ssh calls have deadlines.  Nothing is  *)
(* assumed of the hosts.                                                   *)
LiveSpec == Spec /\ \A c \in Controllers : WF_vars(Controller(c))
-----------------------------------------------------------------------------
Phases == {"none", "sent", "launch", "look", "leave", "replied"}

(* The values of the invocations' state; a worker past its admission holds *)
(* its host's lock.                                                        *)
TypeOK ==
  /\ \A t \in Targets :
       /\ service[t] # None =>
            /\ service[t].id \in 1..ids
            /\ service[t].by \in Controllers \cup {Local}
       /\ lock[HostOf[t]] \in (Controllers \X Targets) \cup {None}
       /\ \A c \in Controllers :
            /\ job[c][t].phase \in Phases
            /\ job[c][t].phase \in {"launch", "look", "leave"}
                 <=> lock[HostOf[t]] = <<c, t>>
  /\ \A c \in Controllers :
       /\ pc[c] \in {"idle", "call", "calling", "called", "loop", "undoing",
                     "undid", "done", "escaped"}
       /\ at[c] \in 0..Last
       /\ report[c] # None <=> pc[c] = "done"

(* A rollback, on the host or from the controller, stops only services     *)
(* that this invocation started on a role that was down: not one that was  *)
(* running, nor one that has replaced it since.                            *)
RollbackSparesOthers == \A u \in undone : u.of = u.by /\ u.new

Leftover(c) ==
  \E t \in Targets : service[t] # None /\ service[t].by = c /\ service[t].new

(* An up that did not succeed says that cleanup is unconfirmed whenever    *)
(* something it started is still running.                                  *)
LeftoversAreUnconfirmed ==
  \A c \in Controllers :
    (pc[c] = "done" /\ report[c].status # "ok" /\ Leftover(c))
      => (action[c] = "up" => report[c].cleanup = "unconfirmed")

(* The same of an up that was interrupted at any point: it has rolled back *)
(* what it started, or it tells that cleanup is unconfirmed.               *)
InterruptedUpIsAccountedFor ==
  \A c \in Controllers : (pc[c] = "escaped" /\ action[c] = "up") => ~Leftover(c)

(* Every invocation ends although no host may answer.                      *)
InvocationsEnd ==
  \A c \in Controllers : (pc[c] = "call") ~> (pc[c] \in {"done", "escaped"})

-----------------------------------------------------------------------------
(* Instances for TLC.  The server is alone on its host, the node collector *)
(* on another; or the server's host has a node collector as well.          *)
TwoHosts == <<1, 2>>
ServerAndTwoNodes == <<1, 1, 2>>
=============================================================================
