----------------------------- MODULE MCServices -----------------------------
(***************************************************************************)
(* Four services with threads, children and deadlines, each a behaviour of *)
(* its own: the diagnosis loop, the isolated analyzer, the clock server    *)
(* and the supervisor of a host's services.  As in MCSubsystems the part   *)
(* that runs is chosen at the start; here fairness and liveness matter, so *)
(* these parts are kept apart from the others.                             *)
(***************************************************************************)
EXTENDS DiagnosisSchedule

CONSTANTS Requests, Timeout, Clients, Children, Attempts

ASSUME ServicesAssumption ==
  /\ Requests \in Nat /\ Timeout \in Nat /\ Clients \in Nat
  /\ Children \in Nat \ {0} /\ Attempts \in Nat \ {0}

VARIABLES
  part,
  proc, asked, replied, process, unreaped, request, ticket, step, result, controller,
  socket, client, serving, where, active, remaining, guard, alarm, closing,
  role, command, next, pids, child, reused, textfiles, hit, surviving, cut

Isolated == INSTANCE IsolatedWorker
Server   == INSTANCE ClockServer WITH at <- where, left <- remaining
Host     == INSTANCE Supervisor WITH at <- command, files <- textfiles, pending <- surviving

isolated == <<proc, asked, replied, process, unreaped, request, ticket, step, result, controller>>
server   == <<socket, client, serving, where, active, remaining, guard, alarm, closing>>
host     == <<role, command, next, pids, child, reused, textfiles, hit, surviving, cut>>
services == <<part, schedule, isolated, server, host>>

ServicesInit ==
  /\ part \in {"schedule", "isolated", "server", "host"}
  /\ ScheduleInit /\ Isolated!Init /\ Server!Init /\ Host!Init

InSchedule(A) == part = "schedule" /\ A /\ UNCHANGED <<part, isolated, server, host>>
InIsolated(A) == part = "isolated" /\ A /\ UNCHANGED <<part, schedule, server, host>>
InServer(A)   == part = "server" /\ A /\ UNCHANGED <<part, schedule, isolated, host>>
InHost(A)     == part = "host" /\ A /\ UNCHANGED <<part, schedule, isolated, server>>

ServicesNext ==
  /\ UNCHANGED part
  /\ \/ part = "schedule" /\ ScheduleNext /\ UNCHANGED <<isolated, server, host>>
     \/ part = "isolated" /\ Isolated!Next /\ UNCHANGED <<schedule, server, host>>
     \/ part = "server" /\ Server!Next /\ UNCHANGED <<schedule, isolated, host>>
     \/ part = "host" /\ Host!SupervisorNext /\ UNCHANGED <<schedule, isolated, server>>

(* The fairness of each part, for the behaviours in which it runs.         *)
ServicesFairness ==
  /\ SF_services(InSchedule(Prepare))
  /\ WF_services(InSchedule(Repair \/ Analyze \/ Journal \/ Publish \/ Project \/ BatchDone \/ EndRun))
  /\ WF_services(InSchedule(Tick))
  /\ WF_services(InIsolated(Isolated!Check \/ Isolated!Start))
  /\ WF_services(InIsolated(Isolated!Deadline))
  /\ \A w \in 1..Requests : WF_services(InIsolated(Isolated!Exit(w)))
  /\ WF_services(InServer(Server!Server))
  /\ WF_services(InServer(Server!Guard))
  /\ WF_services(InServer(Server!Tick))
  /\ WF_services(InHost(Host!Shell))
  /\ WF_services(InHost(Host!ValidatorEnds))

ServicesSpec == ServicesInit /\ [][ServicesNext]_services /\ ServicesFairness

-----------------------------------------------------------------------------
(* The type invariants of the parts.                                       *)
TypesOK == ScheduleTypeOK /\ Isolated!TypeOK /\ Server!TypeOK /\ Host!TypeOK

(* No answer, deadline or worker of one request meets another request.     *)
RequestsAreIsolated ==
  /\ part = "isolated" => Isolated!WorkerIsIsolated
  /\ part = "server" => Server!OnlyInHandIsWatched

(* Every request ends, whatever its worker or its client does.             *)
RequestsEnd == Isolated!RequestsEnd /\ Server!ServedInTurn

(* What a supervisor has started is stopped or reported, and nothing else. *)
NothingIsLeft == part = "host" => Host!NothingIsLeft

(* A supervisor that was told to end, or that has lost a service, ends.    *)
SupervisorEnds == Host!SupervisorEnds
=============================================================================
