---------------------------- MODULE HttpTransport ---------------------------
(***************************************************************************)
(* HTTP requests with one deadline for everything they do (xlayer_telemetry*)
(* /_http_transport.py).  Each request runs in a subprocess of its own;    *)
(* threads request at the same time.  A subprocess in uninterruptible I/O  *)
(* stays behind, on a list that makes later requests be refused.  The      *)
(* embedding application may fork at any moment, with the list's lock held.*)
(*                                                                         *)
(* "parent" forks "child" once; of the child one thread makes requests.    *)
(* A deadline may pass at any time; what a subprocess answers is left out. *)
(***************************************************************************)
EXTENDS Naturals, FiniteSets

CONSTANTS
  Callers,   (* the threads of the parent that make requests                *)
  Forked,    (* the thread of the child that does                           *)
  MaxWorkers (* bound of the model: subprocesses started                    *)

Requesters == Callers \cup {Forked}
Workers == 1..MaxWorkers
Processes == {"parent", "child"}
Of(t) == IF t = Forked THEN "child" ELSE "parent"
Nobody == 0

VARIABLES
  up,        (* the processes that run                                      *)
  lock,      (* lock[p]: who holds p's _UNREAPED_LOCK, or "free"            *)
  listed,    (* listed[p]: p's _UNREAPED                                    *)
  own,       (* own[p]: _STATE_PID is p's                                   *)
  pc,        (* pc[t]: where t is in _request_exchange                      *)
  mine,      (* mine[t]: the subprocess of t's request, or Nobody           *)
  worker,    (* worker[w]: "unborn", "serving", "hung", "killed" (hung with *)
             (* a KILL pending) or "gone"                                   *)
  parentOf   (* parentOf[w]: the process that started w                     *)

vars == <<up, lock, listed, own, pc, mine, worker, parentOf>>
process == <<up, parentOf>>

Init ==
  /\ up = {"parent"}
  /\ lock = [p \in Processes |-> "free"] /\ listed = [p \in Processes |-> {}]
  /\ own = [p \in Processes |-> p = "parent"]
  /\ pc = [t \in Requesters |-> "idle"] /\ mine = [t \in Requesters |-> Nobody]
  /\ worker = [w \in Workers |-> "unborn"] /\ parentOf = [w \in Workers |-> "parent"]

Goes(t, to) == pc' = [pc EXCEPT ![t] = to]
Exited(w) == worker[w] = "gone"

-----------------------------------------------------------------------------
(* _request_exchange                                                       *)

(* Mutant: a child goes on with the list and the lock of its parent.       *)
CallInherits(t) ==
  /\ pc[t] = "idle" /\ Of(t) \in up
  /\ Goes(t, "check")
  /\ UNCHANGED <<process, lock, listed, own, mine, worker>>

(* The first request after a fork replaces what was inherited.             *)
Call(t) ==
  LET p == Of(t) IN
  /\ pc[t] = "idle" /\ p \in up
  /\ lock' = [lock EXCEPT ![p] = IF own[p] THEN @ ELSE "free"]
  /\ listed' = [listed EXCEPT ![p] = IF own[p] THEN @ ELSE {}]
  /\ own' = [own EXCEPT ![p] = TRUE]
  /\ Goes(t, "check")
  /\ UNCHANGED <<process, mine, worker>>

Acquire(t) ==
  /\ pc[t] \in {"check", "append"} /\ lock[Of(t)] = "free"
  /\ lock' = [lock EXCEPT ![Of(t)] = t]
  /\ Goes(t, IF pc[t] = "check" THEN "checking" ELSE "appending")
  /\ UNCHANGED <<process, listed, own, mine, worker>>

Refused(t) == \E w \in listed[Of(t)] : ~Exited(w)

(* The list loses what has exited; one that has not refuses the request.   *)
Checked(t) ==
  /\ pc[t] = "checking"
  /\ listed' = [listed EXCEPT ![Of(t)] = {w \in @ : ~Exited(w)}]
  /\ lock' = [lock EXCEPT ![Of(t)] = "free"]
  /\ Goes(t, IF Refused(t) THEN "idle" ELSE "start")
  /\ UNCHANGED <<process, own, mine, worker>>

Popen(t) ==
  \E w \in Workers :
    /\ pc[t] = "start"
    /\ worker[w] = "unborn" /\ \A v \in 1..(w - 1) : worker[v] # "unborn"
    /\ worker' = [worker EXCEPT ![w] = "serving"]
    /\ parentOf' = [parentOf EXCEPT ![w] = Of(t)]
    /\ mine' = [mine EXCEPT ![t] = w]
    /\ Goes(t, "communicate")
    /\ UNCHANGED <<up, lock, listed, own>>

(* Not enough room, an invalid request, no process: raised, nothing kept.  *)
PopenFails(t) ==
  /\ pc[t] = "start"
  /\ Goes(t, "idle")
  /\ UNCHANGED <<process, lock, listed, own, mine, worker>>

(* It exited, or the deadline passed.  finally: TERM, KILL, and the list   *)
(* for what neither of them stopped.                                       *)
Stop(t) ==
  LET w == mine[t] IN
  /\ pc[t] = "communicate"
  /\ IF worker[w] \in {"hung", "killed"}
       THEN worker' = [worker EXCEPT ![w] = "killed"] /\ Goes(t, "append") /\ UNCHANGED mine
       ELSE /\ worker' = [worker EXCEPT ![w] = "gone"]
            /\ mine' = [mine EXCEPT ![t] = Nobody] /\ Goes(t, "idle")
  /\ UNCHANGED <<process, lock, listed, own>>

Appended(t) ==
  /\ pc[t] = "appending"
  /\ listed' = [listed EXCEPT ![Of(t)] = @ \cup {mine[t]}]
  /\ lock' = [lock EXCEPT ![Of(t)] = "free"]
  /\ mine' = [mine EXCEPT ![t] = Nobody]
  /\ Goes(t, "idle")
  /\ UNCHANGED <<process, own, worker>>

Request(t) ==
  Call(t) \/ Acquire(t) \/ Checked(t) \/ Popen(t) \/ PopenFails(t) \/ Stop(t) \/ Appended(t)

-----------------------------------------------------------------------------
(* The application forks; the subprocesses.                                *)

Fork ==
  /\ up = {"parent"} /\ up' = Processes
  /\ lock' = [lock EXCEPT !["child"] = lock["parent"]]
  /\ listed' = [listed EXCEPT !["child"] = listed["parent"]]
  /\ UNCHANGED <<own, pc, mine, worker, parentOf>>

Becomes(w, to) ==
  /\ worker' = [worker EXCEPT ![w] = to]
  /\ UNCHANGED <<up, lock, listed, own, pc, mine, parentOf>>

(* It answered or failed, or its guard saw the deadline.                   *)
Exit(w) == worker[w] = "serving" /\ Becomes(w, "gone")
Hang(w) == worker[w] = "serving" /\ Becomes(w, "hung")
Wake(w) == worker[w] = "hung" /\ Becomes(w, "serving")
Reap(w) == worker[w] = "killed" /\ Becomes(w, "gone")

Subprocess(w) == Exit(w) \/ Hang(w) \/ Wake(w) \/ Reap(w)

Next ==
  \/ \E t \in Requesters : Request(t)
  \/ Fork
  \/ \E w \in Workers : Subprocess(w)

Spec == Init /\ [][Next]_vars

-----------------------------------------------------------------------------
TypeOK ==
  /\ up \subseteq Processes /\ lock \in [Processes -> Requesters \cup {"free"}]
  /\ listed \in [Processes -> SUBSET Workers] /\ own \in [Processes -> BOOLEAN]
  /\ pc \in [Requesters -> {"idle", "check", "checking", "start", "communicate", "append",
                         "appending"}]
  /\ mine \in [Requesters -> 0..MaxWorkers]
  /\ worker \in [Workers -> {"unborn", "serving", "hung", "killed", "gone"}]
  /\ parentOf \in [Workers -> Processes]

(* However many requests are made, a process has no more workers that live *)
(* than it has threads: each thread may have passed the check before the   *)
(* others' workers were listed, none passes it twice.                      *)
LivingAreBounded ==
  \A p \in Processes :
    Cardinality({w \in Workers : parentOf[w] = p /\ worker[w] \in {"serving", "hung", "killed"}})
      <= Cardinality({t \in Requesters : Of(t) = p})

(* A request never waits for a lock whose holder is not about to free it,  *)
(* in a forked child either, whatever its parent was doing.                *)
NobodyHoldsUp ==
  \A t \in Requesters : pc[t] \in {"check", "append"} /\ lock[Of(t)] # "free" =>
    LET holder == lock[Of(t)] IN Of(holder) = Of(t) /\ pc[holder] \in {"checking", "appending"}

TransportIsBounded == LivingAreBounded /\ NobodyHoldsUp
=============================================================================
