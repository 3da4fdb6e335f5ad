--------------------------- MODULE IsolatedWorker ---------------------------
(***************************************************************************)
(* Analysis with a deadline (xlayer_telemetry/analysis/deadline.py).  A    *)
(* controller sends one request after another to a worker process through  *)
(* a pipe, and replaces the worker when it fails or misses the deadline.   *)
(* A worker may die, hang where no signal reaches it, or answer late; the  *)
(* controller may be interrupted or killed.                                *)
(*                                                                         *)
(* A worker is named by the request it was started for, a request by its   *)
(* number.  A worker in uninterruptible I/O is "hung"; one that got a KILL *)
(* in it goes as soon as the I/O ends.                                     *)
(***************************************************************************)
EXTENDS Naturals

CONSTANT Requests   (* bound of the model: requests of the controller       *)

Workers == 1..Requests
None == 0
Failed == Requests + 1

VARIABLES
  proc,       (* proc[w]: "unborn", "serving", "hung", "killed" (hung with  *)
              (* a KILL pending) or "gone"                                  *)
  asked,      (* asked[w]: the request in w's pipe or in its hands          *)
  replied,    (* replied[w]: the request whose reply is in w's pipe         *)
  process,    (* _process and _connection                                   *)
  unreaped,   (* _unreaped                                                  *)
  request,    (* the request in hand; None between two                      *)
  ticket,     (* requests so far                                            *)
  step,       (* where _request is                                          *)
  result,     (* result[r]: None, Failed (a report of the failure), or the  *)
              (* request that the returned report answers                   *)
  controller  (* "open", "closed" or "dead"                                 *)

worker == <<proc, asked, replied>>
vars == <<worker, process, unreaped, request, ticket, step, result, controller>>

Alive(w) == w # None /\ proc[w] \in {"serving", "hung", "killed"}

Init ==
  /\ proc = [w \in Workers |-> "unborn"]
  /\ asked = [w \in Workers |-> None] /\ replied = [w \in Workers |-> None]
  /\ process = None /\ unreaped = FALSE
  /\ request = None /\ ticket = 0 /\ step = "idle"
  /\ result = [r \in Workers |-> None] /\ controller = "open"

-----------------------------------------------------------------------------
(* The controller.                                                         *)

(* TERM, then KILL, each with its grace.  A worker no signal reaches stays *)
(* the controller's process.                                               *)
Stop ==
  IF process # None /\ proc[process] \in {"hung", "killed"}
    THEN proc' = [proc EXCEPT ![process] = "killed"] /\ UNCHANGED process
    ELSE /\ proc' = IF process = None THEN proc ELSE [proc EXCEPT ![process] = "gone"]
         /\ process' = None
Stopped == process' = None

Return(answer) ==
  /\ result' = [result EXCEPT ![request] = answer]
  /\ request' = None /\ step' = "idle"

Call ==
  /\ controller = "open" /\ step = "idle" /\ ticket < Requests
  /\ ticket' = ticket + 1 /\ request' = ticket + 1 /\ step' = "check"
  /\ UNCHANGED <<worker, process, unreaped, result, controller>>

(* An unreaped worker first; then one that died between two requests.      *)
Check ==
  /\ step = "check" /\ controller = "open"
  /\ IF unreaped \/ ~Alive(process) THEN Stop ELSE UNCHANGED <<proc, process>>
  /\ IF unreaped /\ ~Stopped
       THEN Return(Failed) /\ UNCHANGED unreaped
       ELSE /\ unreaped' = FALSE /\ step' = "start" /\ UNCHANGED <<result, request>>
  /\ UNCHANGED <<asked, replied, ticket, controller>>

Start ==
  /\ step = "start" /\ controller = "open"
  /\ \/ process = None /\ Return(Failed) /\ UNCHANGED <<worker, process>>
     \/ /\ process' = (IF process = None THEN request ELSE process)
        /\ proc' = IF process = None THEN [proc EXCEPT ![request] = "serving"] ELSE proc
        /\ asked' = [asked EXCEPT ![process'] = request]
        /\ step' = "wait" /\ UNCHANGED <<replied, result, request>>
  /\ UNCHANGED <<unreaped, ticket, controller>>

(* The exchange thread read the reply before the deadline.                 *)
Answered ==
  /\ step = "wait" /\ controller = "open" /\ replied[process] # None
  /\ replied' = [replied EXCEPT ![process] = None]
  /\ \/ Return(replied[process]) /\ UNCHANGED <<proc, process, unreaped>>
     \/ Return(Failed) /\ Stop /\ unreaped' = ~Stopped
  /\ UNCHANGED <<asked, ticket, controller>>

(* Mutant: a worker that misses its deadline is used again.                *)
DeadlineKeeps ==
  /\ step = "wait" /\ controller = "open"
  /\ Return(Failed)
  /\ UNCHANGED <<worker, process, unreaped, ticket, controller>>

(* The worker's end of the pipe is closed, the thread does not start, or   *)
(* the deadline passes, with or without a reply: the worker goes.          *)
Deadline ==
  /\ step = "wait" /\ controller = "open"
  /\ Stop /\ unreaped' = ~Stopped
  /\ Return(Failed)
  /\ UNCHANGED <<asked, replied, ticket, controller>>

(* Told to stop, at any point: SystemExit, and close() on its way out.     *)
Close ==
  /\ controller = "open" /\ controller' = "closed"
  /\ Stop
  /\ request' = None /\ step' = "idle"
  /\ UNCHANGED <<asked, replied, unreaped, ticket, result>>

(* Killed, or gone after it was closed.                                    *)
Die ==
  /\ controller # "dead" /\ controller' = "dead"
  /\ request' = None /\ step' = "idle"
  /\ UNCHANGED <<worker, process, unreaped, ticket, result>>

-----------------------------------------------------------------------------
(* The worker.                                                             *)

(* It answers the request, or reports that it raised.                      *)
Serve(w) ==
  /\ proc[w] = "serving" /\ asked[w] # None /\ replied[w] = None
  /\ replied' = [replied EXCEPT ![w] = asked[w]]
  /\ asked' = [asked EXCEPT ![w] = None]
  /\ UNCHANGED <<proc, process, unreaped, request, ticket, step, result, controller>>

(* Mutant: a worker waits for its pipe to close.                           *)
GuardNothing(w) == FALSE

(* Its guard sees another parent.                                          *)
Guard(w) == proc[w] = "serving" /\ controller = "dead"

Changes(w, to) ==
  /\ proc' = [proc EXCEPT ![w] = to]
  /\ UNCHANGED <<asked, replied, process, unreaped, request, ticket, step, result, controller>>

Exit(w) == Guard(w) /\ Changes(w, "gone")
Fail(w) == proc[w] = "serving" /\ Changes(w, "gone")
Hang(w) == proc[w] = "serving" /\ Changes(w, "hung")
Wake(w) == proc[w] = "hung" /\ Changes(w, "serving")
Reap(w) == proc[w] = "killed" /\ Changes(w, "gone")

Controls == Call \/ Check \/ Start \/ Answered \/ Deadline
Worker(w) == Serve(w) \/ Exit(w) \/ Fail(w) \/ Hang(w) \/ Wake(w) \/ Reap(w)

Next == Controls \/ Close \/ Die \/ \E w \in Workers : Worker(w)

Spec == Init /\ [][Next]_vars

(* The controller runs; its deadline comes; the guard polls.               *)
Fairness ==
  /\ WF_vars(Check \/ Start) /\ WF_vars(Deadline)
  /\ \A w \in Workers : WF_vars(Exit(w))

-----------------------------------------------------------------------------
TypeOK ==
  /\ proc \in [Workers -> {"unborn", "serving", "hung", "killed", "gone"}]
  /\ asked \in [Workers -> 0..Requests] /\ replied \in [Workers -> 0..Requests]
  /\ process \in 0..Requests /\ unreaped \in BOOLEAN
  /\ request \in 0..Requests /\ ticket \in 0..Requests
  /\ step \in {"idle", "check", "start", "wait"}
  /\ result \in [Workers -> 0..Failed]
  /\ controller \in {"open", "closed", "dead"}

(* A report answers its own request, however late earlier answers come.    *)
AnswersItsRequest == \A r \in Workers : result[r] \in {None, Failed, r}

(* Replacements do not accumulate: of all workers, hung ones included,     *)
(* only the one the controller still knows is alive.                       *)
OneWorker == \A w \in Workers : Alive(w) => w = process

WorkerIsIsolated == AnswersItsRequest /\ OneWorker

(* A request ends although its worker hangs, and a worker that is not in   *)
(* uninterruptible I/O goes when its controller is killed.                 *)
RequestsEnd ==
  /\ request # None ~> request = None
  /\ \A w \in Workers :
       (controller = "dead" /\ Alive(w)) ~> (proc[w] \in {"hung", "killed", "gone"})
=============================================================================
