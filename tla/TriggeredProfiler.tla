-------------------------- MODULE TriggeredProfiler -------------------------
(***************************************************************************)
(* analysis/triggered_profiling.py: threads that see a slow or anomalous   *)
(* step ask for a capture; the controller runs at most one hook at a time, *)
(* with a cooldown, a budget and at most one hook for a step.              *)
(***************************************************************************)
EXTENDS Naturals, Sequences, FiniteSets

CONSTANTS
  Askers,    (* threads that ask                                            *)
  Keys,      (* the steps (boundary identities) they ask for                *)
  Cooldown,  (* CapturePolicy.cooldown_seconds                              *)
  Attempts,  (* CapturePolicy.max_attempts                                  *)
  MaxClock   (* bound of the model                                          *)

VARIABLES
  clock,
  holder,    (* who holds _lock, or "free"                                  *)
  seen, attempts, last,  (* _seen, attempts, _last_attempt ("never")        *)
  at,        (* at[a]: "out", "in" the lock with the clock read, "hook"     *)
  wants,     (* wants[a]: the key asked for                                 *)
  read,      (* read[a]: the clock as a read it                             *)
  hook,      (* hook[a]: "none", "running", "killed" or "gone"              *)
  hooks      (* history: key and time of the hooks started                  *)

controller == <<holder, seen, attempts, last>>
asker == <<at, wants, read>>
vars == <<clock, controller, asker, hook, hooks>>

Never == MaxClock + 1

Init ==
  /\ clock = 0 /\ holder = "free" /\ seen = {} /\ attempts = 0 /\ last = Never
  /\ at = [a \in Askers |-> "out"] /\ wants = [a \in Askers |-> CHOOSE k \in Keys : TRUE]
  /\ read = [a \in Askers |-> 0] /\ hook = [a \in Askers |-> "none"] /\ hooks = <<>>

Tick == clock < MaxClock /\ clock' = clock + 1
        /\ UNCHANGED <<controller, asker, hook, hooks>>

(* The lock is not waited for: whoever finds it held is told "busy".  A    *)
(* step that is not slow, or whose evidence is incomplete, stops before.   *)
Ask(a, key) ==
  /\ at[a] = "out" /\ holder = "free" /\ holder' = a
  /\ at' = [at EXCEPT ![a] = "in"] /\ wants' = [wants EXCEPT ![a] = key]
  /\ read' = [read EXCEPT ![a] = clock]
  /\ UNCHANGED <<clock, seen, attempts, last, hook, hooks>>

Due(a) ==
  /\ wants[a] \notin seen /\ attempts < Attempts
  /\ last = Never \/ read[a] - last >= Cooldown

(* Duplicate, budget_exhausted, cooldown, or a request that is too large.  *)
Refuse(a) ==
  /\ at[a] = "in" /\ holder' = "free"
  /\ at' = [at EXCEPT ![a] = "out"]
  /\ UNCHANGED <<clock, seen, attempts, last, wants, read, hook, hooks>>

(* The attempt counts and is remembered before the hook is started, which  *)
(* may fail.                                                               *)
Invoke(a) ==
  /\ at[a] = "in" /\ Due(a)
  /\ attempts' = attempts + 1 /\ seen' = seen \cup {wants[a]} /\ last' = read[a]
  /\ \/ /\ at' = [at EXCEPT ![a] = "hook"] /\ hook' = [hook EXCEPT ![a] = "running"]
        /\ hooks' = Append(hooks, [key |-> wants[a], at |-> read[a]]) /\ UNCHANGED holder
     \/ at' = [at EXCEPT ![a] = "out"] /\ holder' = "free" /\ UNCHANGED <<hook, hooks>>
  /\ UNCHANGED <<clock, wants, read>>

Exit(a) == hook[a] \in {"running", "killed"} /\ hook' = [hook EXCEPT ![a] = "gone"]
           /\ UNCHANGED <<clock, controller, asker, hooks>>

(* The deadline kills the hook's session, and leaving the "with" waits for *)
(* it without a deadline.                                                  *)
Deadline(a) == at[a] = "hook" /\ hook[a] = "running" /\ hook' = [hook EXCEPT ![a] = "killed"]
               /\ UNCHANGED <<clock, controller, asker, hooks>>

Return(a) ==
  /\ at[a] = "hook" /\ hook[a] = "gone"
  /\ at' = [at EXCEPT ![a] = "out"] /\ holder' = "free"
  /\ UNCHANGED <<clock, seen, attempts, last, wants, read, hook, hooks>>

Next ==
  \/ Tick
  \/ \E a \in Askers : Refuse(a) \/ Invoke(a) \/ Exit(a) \/ Deadline(a) \/ Return(a)
  \/ \E a \in Askers, key \in Keys : Ask(a, key)

Spec == Init /\ [][Next]_vars
-----------------------------------------------------------------------------
TypeOK ==
  /\ clock \in 0..MaxClock /\ holder \in Askers \cup {"free"}
  /\ seen \subseteq Keys /\ attempts \in 0..Attempts /\ last \in 0..Never
  /\ at \in [Askers -> {"out", "in", "hook"}] /\ wants \in [Askers -> Keys]
  /\ hook \in [Askers -> {"none", "running", "killed", "gone"}]

(* The hooks stay within their budget, apart by the cooldown and one for a *)
(* step, and no two run at once although one outlives its deadline.        *)
HooksAreBounded ==
  /\ Len(hooks) <= Attempts
  /\ \A i, j \in DOMAIN hooks : i < j => /\ hooks[i].key # hooks[j].key
                                         /\ hooks[j].at - hooks[i].at >= Cooldown
  /\ Cardinality({a \in Askers : hook[a] \in {"running", "killed"}}) <= 1
=============================================================================
