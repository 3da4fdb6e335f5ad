----------------------- MODULE ClusterLifecycleProofs -----------------------
(***************************************************************************)
(* What holds of xltel cluster for every inventory and every number of     *)
(* invocations that meet on its hosts, with any number of local commands   *)
(* and of services that die.                                               *)
(***************************************************************************)
EXTENDS ClusterLifecycle, TLAPS

Actions == {"up", "down"}
Identity == Nat \cup {None}
Service == [id : Nat, by : Controllers \cup {Local}, new : BOOLEAN]
Job == [phase : Phases, action : Actions, expected : Identity, before : Identity,
        ok : BOOLEAN, receipt : Identity]
Receipt == [target : Targets, id : Nat]
Answer  == [ok : BOOLEAN, unknown : BOOLEAN, receipt : Identity]
Places  == {"idle", "call", "calling", "called", "loop", "undoing", "undid",
            "done", "escaped"}

HostShapes ==
  /\ service \in [Targets -> Service \cup {None}]
  /\ ids \in Nat
  /\ lock \in [Hosts -> (Controllers \X Targets) \cup {None}]
  /\ job \in [Controllers -> [Targets -> Job]]

(* In the first pass at[c] counts targets, in the rollback receipts.       *)
Counting(c) ==
  /\ pc[c] \in {"idle", "call", "calling", "called"} => at[c] \in 1..Last
  /\ pc[c] \in {"loop", "undoing", "undid"} => at[c] <= Len(receipts[c])
  /\ pc[c] \in {"undoing", "undid"} => at[c] # 0

RunShapes ==
  /\ pc \in [Controllers -> Places]
  /\ action \in [Controllers -> Actions]
  /\ at \in [Controllers -> Nat]
  /\ receipts \in [Controllers -> Seq(Receipt)]
  /\ answer \in [Controllers -> Answer \cup {None}]
  /\ \A c \in Controllers :
       Counting(c) /\ (pc[c] = "called" => answer[c] \in Answer)

(* A worker past its admission holds its host's lock.                      *)
Locks ==
  \A c \in Controllers, t \in Targets :
    job[c][t].phase \in {"launch", "look", "leave"} => lock[HostOf[t]] = <<c, t>>

IdsGivenOut == \A t \in Targets : service[t] # None => service[t].id <= ids

(* Under the lock nothing replaces a service before the launcher runs.     *)
Unreplaced(c, t) ==
  job[c][t].phase = "launch" =>
    /\ service[t] = None \/ service[t].id = job[c][t].before
    /\ job[c][t].expected = None \/ service[t] = None \/ service[t].id = job[c][t].expected

(* What runs after the launcher and did not before is the worker's own.    *)
Mine(c, t) == service[t] = None \/ (service[t].by = c /\ service[t].new)
OwnAfterLaunch(c, t) ==
  /\ job[c][t].phase \in {"look", "leave"}
  /\ job[c][t].action = "up" /\ job[c][t].before = None
  => Mine(c, t)

(* The identity in a receipt is, for good, of nothing but a service that   *)
(* the invocation has started on a role that was down.                     *)
Vouched(c, t, id) ==
  id # None => id <= ids /\ (service[t] # None /\ service[t].id = id => Mine(c, t))

HostInv ==
  /\ IdsGivenOut
  /\ Locks
  /\ \A c \in Controllers, t \in Targets :
       /\ Unreplaced(c, t) /\ OwnAfterLaunch(c, t)
       /\ Vouched(c, t, job[c][t].expected) /\ Vouched(c, t, job[c][t].receipt)

RunInv ==
  \A c \in Controllers :
    /\ pc[c] = "called" => Vouched(c, Target(c), answer[c].receipt)
    /\ \A i \in DOMAIN receipts[c] : Vouched(c, receipts[c][i].target, receipts[c][i].id)

OwnInv == HostShapes /\ RunShapes /\ HostInv /\ RunInv /\ RollbackSparesOthers

-----------------------------------------------------------------------------
(* Nothing that is vouched for is undone by a service that ends or by a    *)
(* new one: identities are not used twice.                                 *)
LEMMA VouchedStays ==
  ASSUME ids \in Nat, ids' \in Nat, ids <= ids',
         \A t \in Targets :
           service'[t] = service[t] \/ service'[t] = None \/ service'[t].id > ids,
         NEW c \in Controllers, NEW t \in Targets, NEW id \in Identity, Vouched(c, t, id)
  PROVE  Vouched(c, t, id)'
<1>1. CASE id = None
  BY <1>1 DEF Vouched
<1>2. CASE id # None
  <2>1. id \in Nat /\ id <= ids /\ id <= ids'
    BY <1>2 DEF Vouched, Identity
  <2>2. ASSUME service'[t] # None, service'[t].id = id PROVE Mine(c, t)'
    <3>1. service'[t] = service[t]
      BY <2>1, <2>2
    <3>. QED
      BY <1>2, <2>2, <3>1 DEF Vouched, Mine
  <2>. QED
    BY <2>1, <2>2 DEF Vouched
<1>. QED
  BY <1>1, <1>2

LEMMA JobChange ==
  ASSUME HostShapes, NEW c \in Controllers, NEW t \in Targets, NEW new \in Job,
         SetJob(c, t, new)
  PROVE  /\ job' \in [Controllers -> [Targets -> Job]]
         /\ job'[c][t] = new
         /\ \A d \in Controllers, u \in Targets :
              d # c \/ u # t => job'[d][u] = job[d][u]
  BY DEF HostShapes, SetJob

(* Two workers that hold the same lock are one.                            *)
LEMMA OneHolder ==
  ASSUME Locks,
         NEW c \in Controllers, NEW t \in Targets, NEW d \in Controllers, NEW u \in Targets,
         HostOf[t] = HostOf[u],
         job[c][t].phase \in {"launch", "look", "leave"},
         job[d][u].phase \in {"launch", "look", "leave"}
  PROVE  c = d /\ t = u
  BY DEF Locks

LEMMA HeldIsNotFree ==
  ASSUME Locks, NEW c \in Controllers, NEW t \in Targets,
         job[c][t].phase \in {"launch", "look", "leave"}
  PROVE  lock[HostOf[t]] # None
<1>1. lock[HostOf[t]] = <<c, t>> /\ <<c, t>> \in Controllers \X Targets
  BY DEF Locks
<1>. QED
  BY <1>1, ClusterAssumption DEF Targets

(* A step of one worker keeps what is known of the others.                 *)
LEMMA WorkerKeeps ==
  ASSUME OwnInv, NEW c \in Controllers, NEW t \in Targets, NEW new \in Job,
         SetJob(c, t, new), UNCHANGED runs,
         service' \in [Targets -> Service \cup {None}], ids' \in Nat,
         lock' \in [Hosts -> (Controllers \X Targets) \cup {None}],
         ids <= ids', service'[t] # None => service'[t].id <= ids',
         \A u \in Targets : u # t => service'[u] = service[u],
         \/ service'[t] = service[t] \/ service'[t] = None
         \/ /\ service'[t].id > ids
            /\ job[c][t].phase \in {"launch", "look", "leave"},
         \A h \in Hosts : \/ lock'[h] = lock[h]
                          \/ /\ h = HostOf[t]
                             /\ \/ lock[h] = None
                                \/ job[c][t].phase \in {"launch", "look", "leave"},
         new.phase \in {"launch", "look", "leave"} => lock'[HostOf[t]] = <<c, t>>,
         Unreplaced(c, t)', OwnAfterLaunch(c, t)',
         Vouched(c, t, new.expected)', Vouched(c, t, new.receipt)'
  PROVE  HostShapes' /\ RunShapes' /\ HostInv' /\ RunInv'
<1>1. /\ job' \in [Controllers -> [Targets -> Job]]
      /\ job'[c][t] = new
      /\ \A d \in Controllers, u \in Targets : d # c \/ u # t => job'[d][u] = job[d][u]
  BY JobChange DEF OwnInv
<1>2. HostShapes'
  BY <1>1 DEF HostShapes
<1>3. RunShapes'
  BY DEF OwnInv, RunShapes, runs, states, Counting
<1>4. /\ ids \in Nat /\ IdsGivenOut /\ Locks
      /\ job \in [Controllers -> [Targets -> Job]]
      /\ HostOf \in [Targets -> Hosts]
  BY ClusterAssumption DEF OwnInv, HostShapes, HostInv, Targets
<1>5. \A d \in Controllers, u \in Targets, id \in Identity :
        Vouched(d, u, id) => Vouched(d, u, id)'
  BY <1>4, VouchedStays
<1>6. RunInv'
  <2> SUFFICES ASSUME NEW d \in Controllers
               PROVE  /\ pc[d] = "called" => Vouched(d, Target(d), answer[d].receipt)'
                      /\ \A i \in DOMAIN receipts[d] :
                           Vouched(d, receipts[d][i].target, receipts[d][i].id)'
    BY DEF RunInv, runs
  <2>1. ASSUME pc[d] = "called" PROVE Vouched(d, Target(d), answer[d].receipt)'
    <3>1. answer[d] \in Answer /\ at[d] \in 1..Last /\ Vouched(d, Target(d), answer[d].receipt)
      BY <2>1 DEF OwnInv, RunShapes, Counting, RunInv
    <3>2. Target(d) \in Targets /\ Target(d)' = Target(d) /\ answer'[d] = answer[d]
      BY <2>1, <3>1, ClusterAssumption DEF Target, Targets, runs
    <3>3. answer[d].receipt \in Identity
      BY <3>1 DEF Answer
    <3>4. Vouched(d, Target(d), answer[d].receipt)'
          <=> \A u \in Targets, id \in Identity :
                 u = Target(d) /\ id = answer[d].receipt => Vouched(d, u, id)'
      BY <3>2, <3>3 DEF Vouched, Mine
    <3>. QED
      BY <1>5, <3>1, <3>2, <3>3, <3>4
  <2>2. ASSUME NEW i \in DOMAIN receipts[d]
        PROVE  Vouched(d, receipts[d][i].target, receipts[d][i].id)'
    <3>1. receipts[d] \in Seq(Receipt) /\ Vouched(d, receipts[d][i].target, receipts[d][i].id)
      BY DEF OwnInv, RunShapes, RunInv
    <3>2. receipts[d][i] \in Receipt /\ receipts' = receipts
      BY <3>1 DEF runs
    <3>3. receipts[d][i].target \in Targets /\ receipts[d][i].id \in Identity
      BY <3>2 DEF Receipt, Identity
    <3>. QED
      BY <1>5, <3>1, <3>2, <3>3 DEF Vouched, Mine
  <2>. QED
    BY <2>1, <2>2
<1>7. IdsGivenOut'
  BY <1>4 DEF IdsGivenOut, OwnInv, HostShapes, Service
<1>8. Locks'
  <2> SUFFICES ASSUME NEW d \in Controllers, NEW u \in Targets,
                      job'[d][u].phase \in {"launch", "look", "leave"}
               PROVE  lock'[HostOf[u]] = <<d, u>>
    BY DEF Locks
  <2>1. CASE d = c /\ u = t
    BY <1>1, <2>1
  <2>2. CASE d # c \/ u # t
    <3>1. job[d][u].phase \in {"launch", "look", "leave"} /\ lock[HostOf[u]] = <<d, u>>
      BY <1>1, <1>4, <2>2 DEF Locks
    <3>2. lock'[HostOf[u]] = lock[HostOf[u]]
      BY <1>4, <2>2, <3>1, OneHolder, HeldIsNotFree
    <3>. QED
      BY <3>1, <3>2
  <2>. QED
    BY <2>1, <2>2
<1>9. ASSUME NEW d \in Controllers, NEW u \in Targets
      PROVE  /\ Unreplaced(d, u)' /\ OwnAfterLaunch(d, u)'
             /\ Vouched(d, u, job[d][u].expected)' /\ Vouched(d, u, job[d][u].receipt)'
  <2>1. CASE d = c /\ u = t
    BY <1>1, <2>1 DEF Vouched, Mine
  <2>2. CASE d # c \/ u # t
    <3>1. job'[d][u] = job[d][u]
      BY <1>1, <2>2
    <3>2. job[d][u] \in Job /\ job[d][u].expected \in Identity /\ job[d][u].receipt \in Identity
      BY <1>4 DEF Job
    <3>3. /\ Unreplaced(d, u) /\ OwnAfterLaunch(d, u)
          /\ Vouched(d, u, job[d][u].expected) /\ Vouched(d, u, job[d][u].receipt)
      BY DEF OwnInv, HostInv
    <3>4. Vouched(d, u, job[d][u].expected)' /\ Vouched(d, u, job[d][u].receipt)'
      BY <1>5, <3>1, <3>2, <3>3 DEF Vouched, Mine
    <3>5. job[d][u].phase \in {"launch", "look", "leave"}
            => service'[u] = service[u] \/ service'[u] = None
      BY <1>4, <2>2, OneHolder
    <3>6. Unreplaced(d, u)'
      BY <3>1, <3>3, <3>5 DEF Unreplaced
    <3>7. OwnAfterLaunch(d, u)'
      BY <3>1, <3>3, <3>5 DEF OwnAfterLaunch, Mine
    <3>. QED
      BY <3>4, <3>6, <3>7
  <2>. QED
    BY <2>1, <2>2
<1>. QED
  BY <1>2, <1>3, <1>6, <1>7, <1>8, <1>9 DEF HostInv

-----------------------------------------------------------------------------
(* The steps of a worker.                                                  *)

LEMMA HostFacts ==
  ASSUME OwnInv, NEW c \in Controllers, NEW t \in Targets
  PROVE  /\ HostShapes
         /\ job[c][t] \in Job /\ HostOf[t] \in Hosts
         /\ service[t] \in Service \cup {None} /\ ids \in Nat /\ ids <= ids
         /\ Id(t) \in Identity
         /\ Unreplaced(c, t) /\ OwnAfterLaunch(c, t)
         /\ Vouched(c, t, job[c][t].expected) /\ Vouched(c, t, job[c][t].receipt)
         /\ service[t] # None => service[t].id \in Nat /\ service[t].id <= ids
         /\ <<c, t>> # None /\ None \notin Nat
         /\ <<c, t>> \in Controllers \X Targets
  BY ClusterAssumption
     DEF OwnInv, HostShapes, HostInv, IdsGivenOut, Service, Id, Identity, Targets

(* A reply that vouches for what its receipt names, with the lock let go   *)
(* or never taken.                                                         *)
LEMMA ReplyKeeps ==
  ASSUME OwnInv, NEW c \in Controllers, NEW t \in Targets,
         NEW ok \in BOOLEAN, NEW receipt \in Identity,
         Reply(c, t, ok, receipt), Vouched(c, t, receipt),
         UNCHANGED <<service, ids, runs>>,
         \/ lock' = lock
         \/ /\ lock' = [lock EXCEPT ![HostOf[t]] = None]
            /\ job[c][t].phase \in {"launch", "look", "leave"}
  PROVE  HostShapes' /\ RunShapes' /\ HostInv' /\ RunInv'
<1>0. /\ HostShapes /\ ids \in Nat /\ ids <= ids
      /\ job[c][t] \in Job /\ HostOf[t] \in Hosts /\ Id(t) \in Identity
  BY HostFacts
<1>1. PICK new \in Job :
        /\ SetJob(c, t, new)
        /\ new.phase = "replied" /\ new.receipt = receipt /\ new.expected = None
  <2>. DEFINE rec == [NoJob EXCEPT !.phase = "replied", !.ok = ok, !.receipt = receipt]
  <2>1. /\ rec \in Job /\ rec.phase = "replied" /\ rec.receipt = receipt
        /\ rec.expected = None
    BY DEF NoJob, Job, Phases, Identity, Actions
  <2>2. SetJob(c, t, rec)
    BY DEF Reply
  <2>. QED
    BY <2>1, <2>2
<1>2. job'[c][t] = new
  BY <1>0, <1>1, JobChange
<1>3. /\ Unreplaced(c, t)' /\ OwnAfterLaunch(c, t)'
      /\ Vouched(c, t, new.expected)' /\ Vouched(c, t, new.receipt)'
  <2>1. Unreplaced(c, t)' /\ OwnAfterLaunch(c, t)'
    BY <1>1, <1>2 DEF Unreplaced, OwnAfterLaunch
  <2>. QED
    BY <1>1, <2>1 DEF Vouched, Mine
<1>4. lock' \in [Hosts -> (Controllers \X Targets) \cup {None}]
  BY <1>0 DEF HostShapes
<1>5. \A h \in Hosts : \/ lock'[h] = lock[h]
                       \/ h = HostOf[t] /\ job[c][t].phase \in {"launch", "look", "leave"}
  BY <1>0 DEF HostShapes
<1>6. /\ ids' = ids /\ ids' \in Nat /\ ids <= ids'
      /\ service' \in [Targets -> Service \cup {None}]
      /\ service'[t] = service[t] /\ \A u \in Targets : service'[u] = service[u]
      /\ service'[t] # None => service'[t].id <= ids'
      /\ UNCHANGED runs
  BY <1>0, HostFacts DEF HostShapes
<1>. QED
  BY <1>1, <1>3, <1>4, <1>5, <1>6, WorkerKeeps

LEMMA StartedIsMine ==
  ASSUME OwnInv, NEW c \in Controllers, NEW t \in Targets,
         job[c][t].phase \in {"look", "leave"}
  PROVE  /\ Started(c, t) \in Identity /\ Vouched(c, t, Started(c, t))
         /\ Started(c, t) # None => Mine(c, t)
  BY HostFacts DEF Started, Vouched, OwnAfterLaunch, Id, Identity

LEMMA RepliesKeep ==
  ASSUME OwnInv, NEW c \in Controllers, NEW t \in Targets,
         Busy(c, t) \/ RefuseChanged(c, t) \/ Finish(c, t) \/ Leave(c, t)
  PROVE  OwnInv'
<1>0. None \in Identity /\ Vouched(c, t, None) /\ UNCHANGED <<service, ids, runs, undone>>
  BY DEF Identity, Vouched, Busy, RefuseChanged, Finish, Leave, hosts
<1>1. CASE Busy(c, t) \/ RefuseChanged(c, t)
  <2>1. Reply(c, t, FALSE, None) /\ lock' = lock
    BY <1>1 DEF Busy, RefuseChanged, hosts
  <2>. QED
    BY <1>0, <2>1, ReplyKeeps DEF OwnInv, RollbackSparesOthers
<1>2. CASE Finish(c, t) \/ Leave(c, t)
  <2>1. /\ \E ok \in BOOLEAN : Reply(c, t, ok, Started(c, t))
        /\ lock' = [lock EXCEPT ![HostOf[t]] = None]
        /\ job[c][t].phase \in {"look", "leave"}
    <3>1. job[c][t].ok \in BOOLEAN
      BY HostFacts DEF Job
    <3>2. Done(c, t) \in BOOLEAN
      BY <3>1 DEF Done
    <3>. QED
      BY <1>2, <3>2 DEF Finish, Leave
  <2>2. Started(c, t) \in Identity /\ Vouched(c, t, Started(c, t))
    BY <2>1, StartedIsMine
  <2>. QED
    BY <1>0, <2>1, <2>2, ReplyKeeps DEF OwnInv, RollbackSparesOthers
<1>. QED
  BY <1>1, <1>2

LEMMA AdmitKeeps ==
  ASSUME OwnInv, NEW c \in Controllers, NEW t \in Targets, Admit(c, t)
  PROVE  OwnInv'
<1>0. /\ HostShapes /\ ids \in Nat /\ ids <= ids
      /\ job[c][t] \in Job /\ HostOf[t] \in Hosts /\ Id(t) \in Identity
  BY HostFacts
<1>1. PICK new \in Job :
        /\ SetJob(c, t, new) /\ new.phase = "launch" /\ new.before = Id(t)
        /\ new.expected = job[c][t].expected /\ new.receipt = job[c][t].receipt
  <2>. DEFINE rec == [job[c][t] EXCEPT !.phase = "launch", !.before = Id(t)]
  <2>1. /\ rec \in Job /\ rec.phase = "launch" /\ rec.before = Id(t)
        /\ rec.expected = job[c][t].expected /\ rec.receipt = job[c][t].receipt
    BY <1>0 DEF Job, Phases
  <2>2. SetJob(c, t, rec)
    BY DEF Admit
  <2>. QED
    BY <2>1, <2>2
<1>2. job'[c][t] = new
  BY <1>0, <1>1, JobChange
<1>3. /\ service' = service /\ ids' = ids /\ UNCHANGED <<runs, undone>>
      /\ lock[HostOf[t]] = None /\ lock' = [lock EXCEPT ![HostOf[t]] = <<c, t>>]
      /\ job[c][t].expected # None => Id(t) = job[c][t].expected
  BY DEF Admit, Changed
<1>4. /\ Unreplaced(c, t)' /\ OwnAfterLaunch(c, t)'
      /\ Vouched(c, t, new.expected)' /\ Vouched(c, t, new.receipt)'
  <2>1. Vouched(c, t, job[c][t].expected) /\ Vouched(c, t, job[c][t].receipt)
    BY HostFacts
  <2>2. Vouched(c, t, new.expected)' /\ Vouched(c, t, new.receipt)'
    BY <1>1, <1>3, <2>1 DEF Vouched, Mine
  <2>3. Unreplaced(c, t)' /\ OwnAfterLaunch(c, t)'
    BY <1>1, <1>2, <1>3 DEF Unreplaced, OwnAfterLaunch, Id
  <2>. QED
    BY <2>2, <2>3
<1>5. /\ lock' \in [Hosts -> (Controllers \X Targets) \cup {None}]
      /\ lock'[HostOf[t]] = <<c, t>>
      /\ \A h \in Hosts : lock'[h] = lock[h] \/ (h = HostOf[t] /\ lock[h] = None)
  BY <1>0, <1>3, HostFacts DEF HostShapes
<1>6. /\ ids' \in Nat /\ ids <= ids' /\ service' \in [Targets -> Service \cup {None}]
      /\ service'[t] = service[t] /\ \A u \in Targets : service'[u] = service[u]
      /\ service'[t] # None => service'[t].id <= ids'
  BY <1>0, <1>3, HostFacts DEF HostShapes
<1>7. HostShapes' /\ RunShapes' /\ HostInv' /\ RunInv'
  BY <1>1, <1>3, <1>4, <1>5, <1>6, WorkerKeeps
<1>. QED
  BY <1>3, <1>7 DEF OwnInv, RollbackSparesOthers

(* A step of the launcher or of its local down leaves the lock alone.      *)
LEMMA LauncherKeeps ==
  ASSUME OwnInv, NEW c \in Controllers, NEW t \in Targets,
         NEW phase \in {"look", "leave"}, NEW ok \in BOOLEAN,
         job[c][t].phase \in {"launch", "look", "leave"},
         SetJob(c, t, [job[c][t] EXCEPT !.phase = phase, !.ok = ok]),
         UNCHANGED <<lock, runs>>,
         service' \in [Targets -> Service \cup {None}], ids' \in Nat,
         ids <= ids', service'[t] # None => service'[t].id <= ids',
         \A u \in Targets : u # t => service'[u] = service[u],
         \/ service'[t] = service[t] \/ service'[t] = None \/ service'[t].id > ids,
         job[c][t].action = "up" /\ job[c][t].before = None => Mine(c, t)'
  PROVE  HostShapes' /\ RunShapes' /\ HostInv' /\ RunInv'
<1>0. /\ HostShapes /\ ids \in Nat
      /\ job[c][t] \in Job /\ HostOf[t] \in Hosts
      /\ job[c][t].expected \in Identity /\ job[c][t].receipt \in Identity
      /\ Vouched(c, t, job[c][t].expected) /\ Vouched(c, t, job[c][t].receipt)
  BY HostFacts DEF Job
<1>1. PICK new \in Job :
        /\ SetJob(c, t, new) /\ new.phase \in {"look", "leave"}
        /\ new.action = job[c][t].action /\ new.before = job[c][t].before
        /\ new.expected = job[c][t].expected /\ new.receipt = job[c][t].receipt
  <2>. DEFINE rec == [job[c][t] EXCEPT !.phase = phase, !.ok = ok]
  <2>1. /\ rec \in Job /\ rec.phase \in {"look", "leave"}
        /\ rec.action = job[c][t].action /\ rec.before = job[c][t].before
        /\ rec.expected = job[c][t].expected /\ rec.receipt = job[c][t].receipt
    BY <1>0 DEF Job, Phases
  <2>. QED
    BY <2>1
<1>2. job'[c][t] = new
  BY <1>0, <1>1, JobChange
<1>3. Unreplaced(c, t)' /\ OwnAfterLaunch(c, t)'
  BY <1>1, <1>2 DEF Unreplaced, OwnAfterLaunch
<1>4. \A u \in Targets :
        service'[u] = service[u] \/ service'[u] = None \/ service'[u].id > ids
  OBVIOUS
<1>5. Vouched(c, t, new.expected)' /\ Vouched(c, t, new.receipt)'
  BY <1>0, <1>1, <1>4, VouchedStays
<1>6. /\ lock' \in [Hosts -> (Controllers \X Targets) \cup {None}]
      /\ \A h \in Hosts : lock'[h] = lock[h]
      /\ lock'[HostOf[t]] = <<c, t>>
  BY <1>0 DEF OwnInv, HostInv, Locks, HostShapes
<1>. QED
  BY <1>1, <1>3, <1>5, <1>6, WorkerKeeps

LEMMA LaunchUpKeeps ==
  ASSUME OwnInv, NEW c \in Controllers, NEW t \in Targets, LaunchUp(c, t)
  PROVE  OwnInv'
<1>1. /\ HostShapes /\ service \in [Targets -> Service \cup {None}] /\ ids \in Nat
      /\ service[t] \in Service \cup {None} /\ None \notin Nat
      /\ service[t] # None => service[t].id \in Nat /\ service[t].id <= ids
      /\ Unreplaced(c, t)
  BY HostFacts DEF HostShapes
<1>2. /\ job[c][t].phase = "launch" /\ UNCHANGED <<lock, runs, undone>>
      /\ \E ok \in BOOLEAN : SetJob(c, t, [job[c][t] EXCEPT !.phase = "look", !.ok = ok])
      /\ \/ /\ UNCHANGED <<service, ids>>
            /\ service[t] # None \/ service[t] = None
         \/ /\ service[t] = None /\ ids' = ids + 1
            /\ service' = [service EXCEPT ![t] =
                 [id |-> ids + 1, by |-> c, new |-> job[c][t].before = None]]
  BY DEF LaunchUp
<1>3. /\ service' \in [Targets -> Service \cup {None}] /\ ids' \in Nat
      /\ ids <= ids' /\ (service'[t] # None => service'[t].id <= ids')
      /\ \A u \in Targets : u # t => service'[u] = service[u]
      /\ \/ service'[t] = service[t] \/ service'[t] = None \/ service'[t].id > ids
      /\ job[c][t].action = "up" /\ job[c][t].before = None => Mine(c, t)'
  <2>1. CASE UNCHANGED <<service, ids>>
    BY <1>1, <1>2, <2>1 DEF Unreplaced, Mine
  <2>2. CASE /\ service[t] = None /\ ids' = ids + 1
             /\ service' = [service EXCEPT ![t] =
                  [id |-> ids + 1, by |-> c, new |-> job[c][t].before = None]]
    <3>1. [id |-> ids + 1, by |-> c, new |-> job[c][t].before = None] \in Service
      BY <1>1 DEF Service
    <3>2. /\ service'[t] = [id |-> ids + 1, by |-> c, new |-> job[c][t].before = None]
          /\ \A u \in Targets : u # t => service'[u] = service[u]
          /\ service' \in [Targets -> Service \cup {None}]
      BY <1>1, <2>2, <3>1
    <3>3. service'[t].id = ids + 1 /\ service'[t].by = c
      BY <3>2
    <3>4. service'[t].new = (job[c][t].before = None)
      BY <3>2, SMT
    <3>5. job[c][t].before = None => service'[t].new
      BY <3>4, Zenon
    <3>. QED
      BY <1>1, <2>2, <3>2, <3>3, <3>5 DEF Mine
  <2>. QED
    BY <1>2, <2>1, <2>2
<1>4. HostShapes' /\ RunShapes' /\ HostInv' /\ RunInv'
  BY <1>2, <1>3, LauncherKeeps
<1>. QED
  BY <1>2, <1>4 DEF OwnInv, RollbackSparesOthers

(* A service that is stopped: by a launcher that goes down or cleans up.   *)
LEMMA StopKeeps ==
  ASSUME OwnInv, NEW c \in Controllers, NEW t \in Targets,
         service' = [service EXCEPT ![t] = None] \/ service' = service,
         NEW phase \in {"look", "leave"}, NEW ok \in BOOLEAN,
         job[c][t].phase \in {"launch", "look", "leave"},
         SetJob(c, t, [job[c][t] EXCEPT !.phase = phase, !.ok = ok]),
         UNCHANGED <<ids, lock, runs>>,
         job[c][t].action = "up" /\ job[c][t].before = None => Mine(c, t)
  PROVE  HostShapes' /\ RunShapes' /\ HostInv' /\ RunInv'
<1>1. /\ HostShapes /\ service \in [Targets -> Service \cup {None}] /\ ids \in Nat
      /\ service[t] # None => service[t].id \in Nat /\ service[t].id <= ids
  BY HostFacts DEF HostShapes
<1>2. /\ service' \in [Targets -> Service \cup {None}] /\ ids' \in Nat
      /\ ids <= ids' /\ (service'[t] # None => service'[t].id <= ids')
      /\ \A u \in Targets : u # t => service'[u] = service[u]
      /\ \/ service'[t] = service[t] \/ service'[t] = None
      /\ job[c][t].action = "up" /\ job[c][t].before = None => Mine(c, t)'
  BY <1>1 DEF Mine
<1>. QED
  BY <1>2, LauncherKeeps

LEMMA LaunchDownKeeps ==
  ASSUME OwnInv, NEW c \in Controllers, NEW t \in Targets, LaunchDown(c, t)
  PROVE  OwnInv'
<1>1. /\ job[c][t].phase = "launch" /\ job[c][t].action = "down"
      /\ UNCHANGED <<ids, lock, runs>>
      /\ service' = [service EXCEPT ![t] = None] \/ service' = service
      /\ \E ok \in BOOLEAN : SetJob(c, t, [job[c][t] EXCEPT !.phase = "look", !.ok = ok])
      /\ \/ undone' = undone
         \/ /\ service[t] # None /\ job[c][t].expected # None
            /\ undone' = undone \cup {[by |-> c, of |-> service[t].by, new |-> service[t].new]}
  BY DEF LaunchDown
<1>2. HostShapes' /\ RunShapes' /\ HostInv' /\ RunInv'
  BY <1>1, StopKeeps
<1>3. service[t] # None /\ job[c][t].expected # None => Mine(c, t)
  BY <1>1, HostFacts DEF Unreplaced, Vouched
<1>4. RollbackSparesOthers'
  BY <1>1, <1>3 DEF OwnInv, RollbackSparesOthers, Mine
<1>. QED
  BY <1>2, <1>4 DEF OwnInv

LEMMA CleanUpKeeps ==
  ASSUME OwnInv, NEW c \in Controllers, NEW t \in Targets, CleanUp(c, t)
  PROVE  OwnInv'
<1>1. /\ job[c][t].phase = "look" /\ Started(c, t) # None
      /\ UNCHANGED <<ids, lock, runs>>
      /\ service' = [service EXCEPT ![t] = None] \/ service' = service
      /\ SetJob(c, t, [job[c][t] EXCEPT !.phase = "leave", !.ok = FALSE])
      /\ \/ undone' = undone
         \/ undone' = undone \cup {[by |-> c, of |-> service[t].by, new |-> service[t].new]}
  BY DEF CleanUp
<1>2. Mine(c, t)
  BY <1>1, StartedIsMine
<1>3. HostShapes' /\ RunShapes' /\ HostInv' /\ RunInv'
  BY <1>1, <1>2, StopKeeps
<1>4. service[t] # None
  BY <1>1 DEF Started, Id
<1>5. RollbackSparesOthers'
  BY <1>1, <1>2, <1>4 DEF OwnInv, RollbackSparesOthers, Mine
<1>. QED
  BY <1>3, <1>5 DEF OwnInv

LEMMA AbandonKeeps ==
  ASSUME OwnInv, NEW c \in Controllers, NEW t \in Targets, Abandon(c, t)
  PROVE  OwnInv'
<1>0. /\ HostShapes /\ job[c][t] \in Job /\ HostOf[t] \in Hosts
  BY HostFacts
<1>1. PICK new \in Job :
        /\ SetJob(c, t, new) /\ new.phase = "none"
        /\ new.expected = None /\ new.receipt = None
  <2>1. /\ NoJob \in Job /\ NoJob.phase = "none"
        /\ NoJob.expected = None /\ NoJob.receipt = None
    BY DEF NoJob, Job, Phases, Identity, Actions
  <2>2. SetJob(c, t, NoJob)
    BY DEF Abandon
  <2>. QED
    BY <2>1, <2>2
<1>2. job'[c][t] = new
  BY <1>0, <1>1, JobChange
<1>3. /\ UNCHANGED <<service, ids, runs, undone>>
      /\ job[c][t].phase \in {"sent", "launch", "look", "leave"}
      /\ lock' = [lock EXCEPT ![HostOf[t]] =
                    IF job[c][t].phase = "sent" THEN lock[HostOf[t]] ELSE None]
  BY <1>0 DEF Abandon, HostShapes
<1>4. Unreplaced(c, t)' /\ OwnAfterLaunch(c, t)'
  BY <1>1, <1>2 DEF Unreplaced, OwnAfterLaunch
<1>5. Vouched(c, t, new.expected)' /\ Vouched(c, t, new.receipt)'
  BY <1>1 DEF Vouched, Mine
<1>6. /\ lock' \in [Hosts -> (Controllers \X Targets) \cup {None}]
      /\ \A h \in Hosts : \/ lock'[h] = lock[h]
                          \/ h = HostOf[t] /\ job[c][t].phase \in {"launch", "look", "leave"}
  BY <1>0, <1>3 DEF HostShapes
<1>7. /\ ids' \in Nat /\ ids <= ids' /\ service' \in [Targets -> Service \cup {None}]
      /\ service'[t] = service[t] /\ \A u \in Targets : service'[u] = service[u]
      /\ service'[t] # None => service'[t].id <= ids'
  BY <1>0, <1>3, HostFacts DEF HostShapes
<1>8. HostShapes' /\ RunShapes' /\ HostInv' /\ RunInv'
  BY <1>1, <1>3, <1>4, <1>5, <1>6, <1>7, WorkerKeeps
<1>. QED
  BY <1>3, <1>8 DEF OwnInv, RollbackSparesOthers

-----------------------------------------------------------------------------
(* The steps of a controller.                                              *)

(* What the other invocations know, and what this one knows when it knows  *)
(* nothing new of a target that has answered.                              *)
LEMMA ControllerKeeps ==
  ASSUME OwnInv, NEW c \in Controllers,
         UNCHANGED <<hosts, undone>>, HostShapes', RunShapes',
         \A d \in Controllers, t \in Targets :
           \/ job'[d][t] = job[d][t]
           \/ /\ job'[d][t].phase \in {"none", "sent"} /\ job'[d][t].receipt = None
              /\ Vouched(d, t, job'[d][t].expected),
         \A d \in Controllers : d # c =>
           /\ pc'[d] = pc[d] /\ action'[d] = action[d] /\ at'[d] = at[d]
           /\ receipts'[d] = receipts[d] /\ answer'[d] = answer[d],
         pc'[c] = "called" => Vouched(c, Target(c)', answer'[c].receipt),
         \A i \in DOMAIN receipts'[c] :
           Vouched(c, receipts'[c][i].target, receipts'[c][i].id)
  PROVE  OwnInv'
<1>1. UNCHANGED <<service, ids, lock, undone>>
  BY DEF hosts
<1>2. IdsGivenOut'
  BY <1>1 DEF OwnInv, HostInv, IdsGivenOut
<1>3. Locks'
  BY <1>1 DEF OwnInv, HostInv, Locks
<1>4. ASSUME NEW d \in Controllers, NEW t \in Targets
      PROVE  /\ Unreplaced(d, t)' /\ OwnAfterLaunch(d, t)'
             /\ Vouched(d, t, job[d][t].expected)' /\ Vouched(d, t, job[d][t].receipt)'
  <2>1. CASE job'[d][t] = job[d][t]
    <3>1. /\ Unreplaced(d, t) /\ OwnAfterLaunch(d, t)
          /\ Vouched(d, t, job[d][t].expected) /\ Vouched(d, t, job[d][t].receipt)
      BY DEF OwnInv, HostInv
    <3>. QED
      BY <1>1, <2>1, <3>1 DEF Unreplaced, OwnAfterLaunch, Vouched, Mine
  <2>2. CASE /\ job'[d][t].phase \in {"none", "sent"} /\ job'[d][t].receipt = None
             /\ Vouched(d, t, job'[d][t].expected)
    BY <1>1, <2>2 DEF Unreplaced, OwnAfterLaunch, Vouched, Mine
  <2>. QED
    BY <2>1, <2>2
<1>5. RunInv'
  <2> SUFFICES ASSUME NEW d \in Controllers
               PROVE  /\ pc'[d] = "called" => Vouched(d, Target(d), answer[d].receipt)'
                      /\ \A i \in DOMAIN receipts'[d] :
                           Vouched(d, receipts[d][i].target, receipts[d][i].id)'
    BY DEF RunInv
  <2>1. CASE d = c
    BY <1>1, <2>1 DEF Vouched, Mine
  <2>2. CASE d # c
    <3>1. /\ pc[d] = "called" => Vouched(d, Target(d), answer[d].receipt)
          /\ \A i \in DOMAIN receipts[d] :
               Vouched(d, receipts[d][i].target, receipts[d][i].id)
      BY DEF OwnInv, RunInv
    <3>2. Target(d)' = Target(d)
      BY <2>2 DEF Target
    <3>. QED
      BY <1>1, <2>2, <3>1, <3>2 DEF Vouched, Mine
  <2>. QED
    BY <2>1, <2>2
<1>. QED
  BY <1>1, <1>2, <1>3, <1>4, <1>5 DEF OwnInv, HostInv, RollbackSparesOthers

LEMMA RunFacts ==
  ASSUME OwnInv, NEW c \in Controllers
  PROVE  /\ HostShapes /\ RunShapes
         /\ pc[c] \in Places /\ action[c] \in Actions /\ at[c] \in Nat
         /\ receipts[c] \in Seq(Receipt) /\ Len(receipts[c]) \in Nat
         /\ DOMAIN receipts[c] = 1..Len(receipts[c])
         /\ Counting(c) /\ (pc[c] = "called" => answer[c] \in Answer)
         /\ pc[c] = "called" => Vouched(c, Target(c), answer[c].receipt)
         /\ \A i \in DOMAIN receipts[c] :
              Vouched(c, receipts[c][i].target, receipts[c][i].id)
  BY DEF OwnInv, RunShapes, RunInv

LEMMA TargetType ==
  ASSUME OwnInv, NEW c \in Controllers,
         \/ pc[c] \in {"idle", "call", "calling", "called", "undoing"}
         \/ pc[c] = "loop" /\ at[c] # 0
  PROVE  Target(c) \in Targets
<1>1. CASE pc[c] \in {"idle", "call", "calling", "called"}
  BY <1>1, RunFacts, ClusterAssumption DEF Target, Targets, Counting
<1>2. CASE pc[c] = "undoing" \/ (pc[c] = "loop" /\ at[c] # 0)
  <2>1. at[c] \in DOMAIN receipts[c] /\ receipts[c] \in Seq(Receipt)
    BY <1>2, RunFacts DEF Counting
  <2>2. receipts[c][at[c]] \in Receipt
    BY <2>1
  <2>. QED
    BY <1>2, <2>2 DEF Target, Receipt
<1>. QED
  BY <1>1, <1>2

(* A request goes to a target with an identity the invocation vouches for. *)
LEMMA SendKeeps ==
  ASSUME OwnInv, NEW c \in Controllers,
         NEW from \in {"call", "loop"}, NEW to \in {"calling", "undoing"},
         from = "call" <=> to = "calling", from = "loop" => at[c] # 0,
         NEW what \in Actions, NEW expected \in Identity,
         Send(c, from, to, what, expected), Vouched(c, Target(c), expected)
  PROVE  OwnInv'
<1>1. Target(c) \in Targets
  BY TargetType DEF Send
<1>2. PICK t \in Targets : t = Target(c)
  BY <1>1
<1>3. PICK new \in Job :
        /\ SetJob(c, t, new) /\ new.phase = "sent" /\ new.receipt = None
        /\ new.expected = expected
  <2>. DEFINE rec == [NoJob EXCEPT !.phase = "sent", !.action = what, !.expected = expected]
  <2>1. /\ rec \in Job /\ rec.phase = "sent" /\ rec.receipt = None
        /\ rec.expected = expected
    BY DEF NoJob, Job, Phases, Identity, Actions
  <2>2. SetJob(c, t, rec)
    BY <1>2 DEF Send
  <2>. QED
    BY <2>1, <2>2
<1>4. /\ job' \in [Controllers -> [Targets -> Job]] /\ job'[c][t] = new
      /\ \A d \in Controllers, u \in Targets : d # c \/ u # t => job'[d][u] = job[d][u]
  BY <1>3, JobChange, RunFacts
<1>5. /\ pc[c] = from /\ pc' = [pc EXCEPT ![c] = to]
      /\ answer' = [answer EXCEPT ![c] = None]
      /\ UNCHANGED <<hosts, action, at, receipts, undone>>
  BY DEF Send
<1>6. HostShapes'
  BY <1>4, <1>5 DEF OwnInv, HostShapes, hosts
<1>7. RunShapes'
  <2>1. RunShapes
    BY DEF OwnInv
  <2>2. \A d \in Controllers : Counting(d)'
    BY <1>5, <2>1 DEF RunShapes, Counting
  <2>. QED
    BY <1>5, <2>1, <2>2 DEF RunShapes, Places
<1>8. \A d \in Controllers : d # c =>
        /\ pc'[d] = pc[d] /\ action'[d] = action[d] /\ at'[d] = at[d]
        /\ receipts'[d] = receipts[d] /\ answer'[d] = answer[d]
  BY <1>5 DEF OwnInv, RunShapes
<1>9. /\ pc'[c] # "called"
      /\ \A i \in DOMAIN receipts'[c] :
           Vouched(c, receipts'[c][i].target, receipts'[c][i].id)
  BY <1>5, RunFacts DEF OwnInv, RunShapes
<1>10. \A d \in Controllers, u \in Targets :
         \/ job'[d][u] = job[d][u]
         \/ /\ job'[d][u].phase \in {"none", "sent"} /\ job'[d][u].receipt = None
            /\ Vouched(d, u, job'[d][u].expected)
  BY <1>2, <1>3, <1>4
<1>. QED
  BY <1>5, <1>6, <1>7, <1>8, <1>9, <1>10, ControllerKeeps

LEMMA CallKeeps ==
  ASSUME OwnInv, NEW c \in Controllers, Call(c) \/ CallUndo(c)
  PROVE  OwnInv'
<1>1. CASE Call(c)
  <2>1. Send(c, "call", "calling", action[c], None)
    BY <1>1 DEF Call
  <2>2. action[c] \in Actions /\ None \in Identity /\ Vouched(c, Target(c), None)
    BY RunFacts DEF Identity, Vouched
  <2>. QED
    BY <2>1, <2>2, SendKeeps
<1>2. CASE CallUndo(c)
  <2>1. /\ pc[c] = "loop" /\ at[c] > 0
        /\ Send(c, "loop", "undoing", "down", receipts[c][at[c]].id)
    BY <1>2 DEF CallUndo, ToUndo
  <2>2. at[c] \in DOMAIN receipts[c] /\ receipts[c] \in Seq(Receipt)
    BY <2>1, RunFacts DEF Counting
  <2>3. receipts[c][at[c]] \in Receipt
    BY <2>2
  <2>4. /\ receipts[c][at[c]].id \in Identity
        /\ Vouched(c, Target(c), receipts[c][at[c]].id)
    BY <2>1, <2>2, <2>3, RunFacts DEF Receipt, Identity, Target
  <2>5. at[c] # 0 /\ "down" \in Actions
    BY <2>1, RunFacts DEF Actions
  <2>. QED
    BY <2>1, <2>4, <2>5, SendKeeps
<1>. QED
  BY <1>1, <1>2

(* The end of a call: what it returns is a receipt the worker vouches for, *)
(* or none.                                                                *)
LEMMA ReturnKeeps ==
  ASSUME OwnInv, NEW c \in Controllers, NEW value \in Answer, Return(c, value),
         Vouched(c, Target(c), value.receipt),
         job' = job \/ SetJob(c, Target(c), NoJob)
  PROVE  OwnInv'
<1>1. Target(c) \in Targets
  BY TargetType DEF Return
<1>2. PICK t \in Targets : t = Target(c)
  BY <1>1
<1>3. NoJob \in Job /\ NoJob.phase = "none" /\ NoJob.receipt = None /\ NoJob.expected = None
  BY DEF NoJob, Job, Phases, Identity, Actions
<1>4. /\ job' \in [Controllers -> [Targets -> Job]]
      /\ \A d \in Controllers, u \in Targets :
           job'[d][u] = job[d][u] \/ job'[d][u] = NoJob
  <2>1. CASE job' = job
    BY <2>1 DEF OwnInv, HostShapes
  <2>2. CASE SetJob(c, t, NoJob)
    BY <2>2, <1>3, JobChange, RunFacts
  <2>. QED
    BY <1>2, <2>1, <2>2
<1>5. /\ pc[c] \in {"calling", "undoing"}
      /\ pc' = [pc EXCEPT ![c] = IF pc[c] = "calling" THEN "called" ELSE "undid"]
      /\ answer' = [answer EXCEPT ![c] = value]
      /\ UNCHANGED <<hosts, action, at, receipts, undone>>
  BY RunFacts DEF Return, RunShapes
<1>6. HostShapes'
  BY <1>4, <1>5 DEF OwnInv, HostShapes, hosts
<1>7. RunShapes
  BY DEF OwnInv
<1>8. RunShapes'
  <2>1. \A d \in Controllers : Counting(d)'
    BY <1>5, <1>7 DEF RunShapes, Counting
  <2>. QED
    BY <1>5, <1>7, <2>1 DEF RunShapes, Places
<1>9. \A d \in Controllers : d # c =>
        /\ pc'[d] = pc[d] /\ action'[d] = action[d] /\ at'[d] = at[d]
        /\ receipts'[d] = receipts[d] /\ answer'[d] = answer[d]
  BY <1>5, <1>7 DEF RunShapes
<1>10. pc'[c] = "called" => Vouched(c, Target(c)', answer'[c].receipt)
  <2> SUFFICES ASSUME pc'[c] = "called" PROVE Vouched(c, Target(c)', answer'[c].receipt)
    OBVIOUS
  <2>1. pc[c] = "calling" /\ answer'[c] = value
    BY <1>5, <1>7 DEF RunShapes
  <2>2. Target(c)' = Target(c)
    BY <1>5, <2>1 DEF Target
  <2>. QED
    BY <2>1, <2>2
<1>11. \A i \in DOMAIN receipts'[c] :
         Vouched(c, receipts'[c][i].target, receipts'[c][i].id)
  BY <1>5, RunFacts
<1>12. \A d \in Controllers, u \in Targets :
         \/ job'[d][u] = job[d][u]
         \/ /\ job'[d][u].phase \in {"none", "sent"} /\ job'[d][u].receipt = None
            /\ Vouched(d, u, job'[d][u].expected)
  BY <1>3, <1>4 DEF Vouched
<1>. QED
  BY <1>5, <1>6, <1>8, <1>9, <1>10, <1>11, <1>12, ControllerKeeps

LEMMA ReturnsKeep ==
  ASSUME OwnInv, NEW c \in Controllers, Receive(c) \/ TimeOut(c) \/ Interrupt(c)
  PROVE  OwnInv'
<1>1. CASE TimeOut(c) \/ Interrupt(c)
  <2>1. Return(c, Unknown) /\ job' = job
    BY <1>1 DEF TimeOut, Interrupt
  <2>2. Unknown \in Answer /\ Vouched(c, Target(c), Unknown.receipt)
    BY DEF Unknown, Answer, Identity, Vouched
  <2>. QED
    BY <2>1, <2>2, ReturnKeeps
<1>2. CASE Receive(c)
  <2>1. Target(c) \in Targets
    BY <1>2, TargetType DEF Receive
  <2>2. PICK t \in Targets : t = Target(c)
    BY <2>1
  <2>3. PICK value : value = [ok |-> job[c][t].ok, unknown |-> FALSE,
                              receipt |-> job[c][t].receipt]
    OBVIOUS
  <2>4. Return(c, value) /\ SetJob(c, Target(c), NoJob)
    BY <1>2, <2>2, <2>3 DEF Receive
  <2>5. job[c][t] \in Job /\ Vouched(c, t, job[c][t].receipt)
    BY HostFacts
  <2>6. value \in Answer /\ value.receipt = job[c][t].receipt
    BY <2>3, <2>5 DEF Answer, Job
  <2>. QED
    BY <2>2, <2>4, <2>5, <2>6, ReturnKeeps
<1>. QED
  BY <1>1, <1>2

(* An answer is booked: its receipt joins those the invocation has.        *)
LEMMA BookKeeps ==
  ASSUME OwnInv, NEW c \in Controllers, Book(c)
  PROVE  OwnInv'
<1>0. /\ pc[c] = "called" /\ answer[c] \in Answer /\ HostShapes /\ RunShapes
      /\ Target(c) \in Targets /\ Vouched(c, Target(c), answer[c].receipt)
      /\ receipts[c] \in Seq(Receipt) /\ at[c] \in 1..Last
      /\ UNCHANGED <<hosts, job, action, answer, undone>>
  BY RunFacts, TargetType DEF Book, Counting
<1>1. /\ receipts' = [receipts EXCEPT ![c] =
           IF answer[c].receipt = None THEN receipts[c]
           ELSE Append(receipts[c], [target |-> Target(c), id |-> answer[c].receipt])]
      /\ \/ /\ pc' = [pc EXCEPT ![c] = "loop"]
            /\ at' = [at EXCEPT ![c] = Len(receipts'[c])]
         \/ /\ at[c] # Last
            /\ pc' = [pc EXCEPT ![c] = "call"]
            /\ at' = [at EXCEPT ![c] = at[c] + 1]
  BY <1>0 DEF Book, RunShapes
<1>2. /\ receipts' \in [Controllers -> Seq(Receipt)]
      /\ \A d \in Controllers : d # c => receipts'[d] = receipts[d]
      /\ \A i \in DOMAIN receipts'[c] :
           Vouched(c, receipts'[c][i].target, receipts'[c][i].id)
  <2>1. CASE answer[c].receipt = None
    BY <1>0, <1>1, <2>1, RunFacts DEF RunShapes
  <2>2. CASE answer[c].receipt # None
    <3>1. PICK one \in Receipt : one = [target |-> Target(c), id |-> answer[c].receipt]
      BY <1>0, <2>2 DEF Receipt, Answer, Identity
    <3>2. /\ receipts' = [receipts EXCEPT ![c] = Append(receipts[c], one)]
          /\ one.target = Target(c) /\ one.id = answer[c].receipt
      BY <1>1, <2>2, <3>1
    <3>3. /\ receipts' \in [Controllers -> Seq(Receipt)]
          /\ receipts'[c] = Append(receipts[c], one)
          /\ \A d \in Controllers : d # c => receipts'[d] = receipts[d]
      BY <1>0, <3>2 DEF RunShapes
    <3>4. \A i \in DOMAIN receipts'[c] :
            receipts'[c][i] = one \/ (i \in DOMAIN receipts[c] /\ receipts'[c][i] = receipts[c][i])
      BY <1>0, <3>3
    <3>. QED
      BY <1>0, <3>2, <3>3, <3>4, RunFacts
  <2>. QED
    BY <2>1, <2>2
<1>3. Len(receipts'[c]) \in Nat
  BY <1>2
<1>4. /\ pc' \in [Controllers -> Places] /\ at' \in [Controllers -> Nat]
      /\ pc'[c] # "called"
      /\ \A d \in Controllers : d # c => pc'[d] = pc[d] /\ at'[d] = at[d]
  <2>1. /\ pc \in [Controllers -> Places] /\ at \in [Controllers -> Nat]
        /\ {"loop", "call"} \subseteq Places
    BY <1>0 DEF RunShapes, Places
  <2>2. PICK place \in {"loop", "call"}, count \in Nat :
          pc' = [pc EXCEPT ![c] = place] /\ at' = [at EXCEPT ![c] = count]
    BY <1>1, <1>3, <2>1
  <2>. QED
    BY <2>1, <2>2
<1>5. Counting(c)'
  BY <1>0, <1>1, <1>3, ClusterAssumption DEF RunShapes, Counting
<1>6. HostShapes'
  BY <1>0 DEF HostShapes, hosts
<1>7. RunShapes'
  <2>1. ASSUME NEW d \in Controllers
        PROVE  Counting(d)' /\ (pc'[d] = "called" => answer'[d] \in Answer)
    BY <1>0, <1>2, <1>4, <1>5 DEF RunShapes, Counting
  <2>. QED
    BY <1>0, <1>2, <1>4, <2>1 DEF RunShapes
<1>8. \A d \in Controllers : d # c =>
        /\ pc'[d] = pc[d] /\ action'[d] = action[d] /\ at'[d] = at[d]
        /\ receipts'[d] = receipts[d] /\ answer'[d] = answer[d]
  BY <1>0, <1>2, <1>4
<1>. QED
  BY <1>0, <1>2, <1>4, <1>6, <1>7, <1>8, ControllerKeeps

(* The steps that send nothing and learn nothing.                          *)
LEMMA QuietKeeps ==
  ASSUME OwnInv, NEW c \in Controllers,
         \/ \E what \in Actions : Begin(c, what)
         \/ BookUndo(c) \/ Report(c) \/ Escape(c)
  PROVE  OwnInv'
<1>0. HostShapes /\ RunShapes /\ None \in Answer \cup {None}
  BY RunFacts
<1>1. /\ UNCHANGED <<hosts, job, undone>> /\ HostShapes'
  BY <1>0 DEF Begin, BookUndo, Report, Escape, EndRun, HostShapes, hosts
<1>2. /\ pc' \in [Controllers -> Places] /\ action' \in [Controllers -> Actions]
      /\ at' \in [Controllers -> Nat] /\ receipts' \in [Controllers -> Seq(Receipt)]
      /\ answer' \in [Controllers -> Answer \cup {None}]
      /\ pc'[c] # "called" /\ Counting(c)'
      /\ \A i \in DOMAIN receipts'[c] :
           Vouched(c, receipts'[c][i].target, receipts'[c][i].id)
      /\ \A d \in Controllers : d # c =>
           /\ pc'[d] = pc[d] /\ action'[d] = action[d] /\ at'[d] = at[d]
           /\ receipts'[d] = receipts[d] /\ answer'[d] = answer[d]
  <2>1. ASSUME NEW what \in Actions, Begin(c, what) PROVE <1>2!:
    BY <1>0, <2>1, RunFacts DEF Begin, RunShapes, Counting, Places
  <2>2. CASE BookUndo(c)
    BY <1>0, <2>2, RunFacts DEF BookUndo, RunShapes, Counting, Places
  <2>3. CASE Report(c) \/ Escape(c)
    <3>1. <<>> \in Seq(Receipt) /\ DOMAIN <<>> = {}
      OBVIOUS
    <3>2. /\ pc' = [pc EXCEPT ![c] = "done"] \/ pc' = [pc EXCEPT ![c] = "escaped"]
          /\ at' = [at EXCEPT ![c] = 1] /\ answer' = [answer EXCEPT ![c] = None]
          /\ receipts' = [receipts EXCEPT ![c] = <<>>] /\ action' = action
      BY <2>3 DEF Report, Escape, EndRun
    <3>. QED
      BY <1>0, <3>1, <3>2 DEF RunShapes, Counting, Places
  <2>. QED
    BY <2>1, <2>2, <2>3
<1>3. RunShapes'
  <2>1. ASSUME NEW d \in Controllers
        PROVE  Counting(d)' /\ (pc'[d] = "called" => answer'[d] \in Answer)
    BY <1>0, <1>2 DEF RunShapes, Counting
  <2>. QED
    BY <1>2, <2>1 DEF RunShapes
<1>. QED
  BY <1>1, <1>2, <1>3, ControllerKeeps

-----------------------------------------------------------------------------
(* What happens on the hosts beside the invocations.                       *)

LEMMA HostsKeep ==
  ASSUME OwnInv, NEW t \in Targets, NEW new \in Service \cup {None},
         service' = [service EXCEPT ![t] = new], ids' \in Nat, ids <= ids',
         new = None \/ (new.id = ids + 1 /\ ids' = ids + 1 /\ lock[HostOf[t]] = None),
         UNCHANGED <<lock, job, runs, undone>>
  PROVE  OwnInv'
<1>1. /\ HostShapes /\ RunShapes /\ ids \in Nat /\ IdsGivenOut /\ Locks
      /\ service \in [Targets -> Service \cup {None}]
  BY DEF OwnInv, HostInv, HostShapes
<1>2. /\ service' \in [Targets -> Service \cup {None}] /\ service'[t] = new
      /\ \A u \in Targets : u # t => service'[u] = service[u]
  BY <1>1
<1>3. HostShapes' /\ RunShapes'
  BY <1>1, <1>2 DEF HostShapes, RunShapes, Counting, runs, states
<1>4. IdsGivenOut'
  BY <1>1, <1>2 DEF IdsGivenOut, Service
<1>5. Locks'
  BY <1>1 DEF Locks
<1>6. \A u \in Targets :
        service'[u] = service[u] \/ service'[u] = None \/ service'[u].id > ids
  BY <1>1, <1>2
<1>7. \A d \in Controllers, u \in Targets, id \in Identity :
        Vouched(d, u, id) => Vouched(d, u, id)'
  BY <1>1, <1>6, VouchedStays
<1>8. ASSUME NEW d \in Controllers, NEW u \in Targets
      PROVE  /\ Unreplaced(d, u)' /\ OwnAfterLaunch(d, u)'
             /\ Vouched(d, u, job[d][u].expected)' /\ Vouched(d, u, job[d][u].receipt)'
  <2>1. /\ job[d][u] \in Job /\ Unreplaced(d, u) /\ OwnAfterLaunch(d, u)
        /\ Vouched(d, u, job[d][u].expected) /\ Vouched(d, u, job[d][u].receipt)
    BY HostFacts
  <2>2. job[d][u].expected \in Identity /\ job[d][u].receipt \in Identity /\ job' = job
    BY <2>1 DEF Job
  <2>3. Vouched(d, u, job[d][u].expected)' /\ Vouched(d, u, job[d][u].receipt)'
    BY <1>7, <2>1, <2>2 DEF Vouched, Mine
  <2>4. job[d][u].phase \in {"launch", "look", "leave"}
          => service'[u] = service[u] \/ service'[u] = None
    BY <1>1, <1>2, HeldIsNotFree
  <2>5. Unreplaced(d, u)' /\ OwnAfterLaunch(d, u)'
    BY <2>1, <2>2, <2>4 DEF Unreplaced, OwnAfterLaunch, Mine
  <2>. QED
    BY <2>3, <2>5
<1>9. RunInv'
  <2> SUFFICES ASSUME NEW d \in Controllers
               PROVE  /\ pc[d] = "called" => Vouched(d, Target(d), answer[d].receipt)'
                      /\ \A i \in DOMAIN receipts[d] :
                           Vouched(d, receipts[d][i].target, receipts[d][i].id)'
    BY DEF RunInv, runs
  <2>1. ASSUME pc[d] = "called" PROVE Vouched(d, Target(d), answer[d].receipt)'
    <3>1. /\ answer[d] \in Answer /\ Target(d) \in Targets
          /\ Vouched(d, Target(d), answer[d].receipt)
      BY <2>1, RunFacts, TargetType
    <3>2. answer[d].receipt \in Identity /\ Target(d)' = Target(d) /\ answer' = answer
      BY <3>1 DEF Answer, Target, runs
    <3>. QED
      BY <1>7, <3>1, <3>2 DEF Vouched, Mine
  <2>2. ASSUME NEW i \in DOMAIN receipts[d]
        PROVE  Vouched(d, receipts[d][i].target, receipts[d][i].id)'
    <3>1. receipts[d] \in Seq(Receipt) /\ Vouched(d, receipts[d][i].target, receipts[d][i].id)
      BY RunFacts
    <3>2. receipts[d][i] \in Receipt /\ receipts' = receipts
      BY <3>1 DEF runs
    <3>3. receipts[d][i].target \in Targets /\ receipts[d][i].id \in Identity
      BY <3>2 DEF Receipt, Identity
    <3>. QED
      BY <1>7, <3>1, <3>2, <3>3 DEF Vouched, Mine
  <2>. QED
    BY <2>1, <2>2
<1>. QED
  BY <1>3, <1>4, <1>5, <1>8, <1>9 DEF OwnInv, HostInv, RollbackSparesOthers

LEMMA LocalsKeep ==
  ASSUME OwnInv, NEW t \in Targets, LocalUp(t) \/ LocalDown(t) \/ Die(t)
  PROVE  OwnInv'
<1>1. ids \in Nat
  BY DEF OwnInv, HostShapes
<1>2. CASE LocalUp(t)
  <2> DEFINE mark == [id |-> ids + 1, by |-> Local, new |-> TRUE]
  <2>1. mark \in Service /\ mark.id = ids + 1
    BY <1>1 DEF Service
  <2>2. /\ service' = [service EXCEPT ![t] = mark]
        /\ ids' = ids + 1 /\ lock[HostOf[t]] = None
        /\ UNCHANGED <<lock, job, runs, undone>>
    BY <1>2 DEF LocalUp
  <2>3. ids' \in Nat /\ ids <= ids'
    BY <1>1, <2>2
  <2> HIDE DEF mark
  <2>. QED
    BY <2>1, <2>2, <2>3, HostsKeep
<1>3. CASE LocalDown(t) \/ Die(t)
  <2>1. /\ service' = [service EXCEPT ![t] = None] /\ ids' = ids
        /\ UNCHANGED <<lock, job, runs, undone>>
    BY <1>3 DEF LocalDown, Die
  <2>2. ids' \in Nat /\ ids <= ids'
    BY <1>1, <2>1
  <2>. QED
    BY <2>1, <2>2, HostsKeep
<1>. QED
  BY <1>2, <1>3

-----------------------------------------------------------------------------
LEMMA OwnFirst ==
  ASSUME Init
  PROVE  OwnInv
<1>1. NoJob \in Job /\ NoJob.phase = "none" /\ NoJob.expected = None /\ NoJob.receipt = None
  BY DEF NoJob, Job, Phases, Identity, Actions
<1>2. HostShapes
  BY <1>1 DEF Init, HostShapes
<1>3. RunShapes
  BY ClusterAssumption DEF Init, RunShapes, Counting, Places, Actions
<1>4. HostInv
  BY <1>1 DEF Init, HostInv, IdsGivenOut, Locks, Unreplaced, OwnAfterLaunch, Vouched
<1>5. RunInv /\ RollbackSparesOthers
  BY DEF Init, RunInv, RollbackSparesOthers
<1>. QED
  BY <1>2, <1>3, <1>4, <1>5 DEF OwnInv

LEMMA OwnNext ==
  ASSUME OwnInv, [Next]_vars
  PROVE  OwnInv'
<1>1. ASSUME NEW c \in Controllers, NEW what \in {"up", "down"}, Begin(c, what)
      PROVE  OwnInv'
  BY <1>1, QuietKeeps DEF Actions
<1>2. ASSUME NEW c \in Controllers, Controller(c) PROVE OwnInv'
  BY <1>2, CallKeeps, ReturnsKeep, BookKeeps, QuietKeeps DEF Controller
<1>3. ASSUME NEW c \in Controllers, Interrupt(c) \/ Escape(c) PROVE OwnInv'
  BY <1>3, ReturnsKeep, QuietKeeps
<1>4. ASSUME NEW c \in Controllers, NEW t \in Targets, Worker(c, t) PROVE OwnInv'
  BY <1>4, RepliesKeep, AdmitKeeps, LaunchUpKeeps, LaunchDownKeeps, CleanUpKeeps DEF Worker
<1>5. ASSUME NEW c \in Controllers, NEW t \in Targets, Abandon(c, t) PROVE OwnInv'
  BY <1>5, AbandonKeeps
<1>6. ASSUME NEW t \in Targets, LocalUp(t) \/ LocalDown(t) \/ Die(t) PROVE OwnInv'
  BY <1>6, LocalsKeep
<1>7. CASE UNCHANGED vars
  <2>1. UNCHANGED <<hosts, job, runs, undone>> /\ UNCHANGED <<service, ids, lock>>
    BY <1>7 DEF vars, hosts
  <2>2. HostShapes' /\ RunShapes'
    BY <2>1 DEF OwnInv, HostShapes, RunShapes, Counting, runs
  <2>3. HostInv' /\ RollbackSparesOthers'
    BY <2>1 DEF OwnInv, HostInv, IdsGivenOut, Locks, Unreplaced, OwnAfterLaunch,
                Vouched, Mine, RollbackSparesOthers
  <2>4. RunInv'
    BY <2>1 DEF OwnInv, RunInv, Vouched, Mine, Target, runs
  <2>. QED
    BY <2>2, <2>3, <2>4 DEF OwnInv
<1>. QED
  BY <1>1, <1>2, <1>3, <1>4, <1>5, <1>6, <1>7 DEF Next

(* A rollback, on the host or from the controller, stops nothing but what  *)
(* the invocation has started on a role that was down: whatever answers    *)
(* are lost or late, and whoever else starts and stops services meanwhile. *)
THEOREM RollbackIsConfined == Spec => []RollbackSparesOthers
<1>1. Init => OwnInv
  BY OwnFirst
<1>2. OwnInv /\ [Next]_vars => OwnInv'
  BY OwnNext
<1>3. OwnInv => RollbackSparesOthers
  BY DEF OwnInv
<1>. QED
  BY <1>1, <1>2, <1>3, PTL DEF Spec
-----------------------------------------------------------------------------
(* What can be told of the services an up leaves.                          *)
Live == {"call", "calling", "called", "loop", "undoing", "undid"}
Outcome == [status : {"ok", "partial_failure", "interrupted"},
            cleanup : {"unconfirmed", "completed", "not_needed"}]

Flags ==
  /\ failed \in [Controllers -> BOOLEAN] /\ cancelled \in [Controllers -> BOOLEAN]
  /\ unknown \in [Controllers -> BOOLEAN] /\ report \in [Controllers -> Outcome \cup {None}]

LeftAt(c, t) == service[t] # None /\ service[t].by = c /\ service[t].new

Clean(c) == \A t \in Targets : job[c][t].phase = "none" /\ ~LeftAt(c, t)

(* The report of a failed up will say that cleanup is unconfirmed.         *)
Doubtful(c) ==
  \/ unknown[c]
  \/ pc[c] = "called" /\ answer[c].unknown
  \/ pc[c] = "undid" /\ ~answer[c].ok

(* The invocation has no worker but the one it waits for.                  *)
OneWorker(c) ==
  \A t \in Targets : job[c][t].phase # "none" =>
    /\ pc[c] \in {"calling", "undoing"} /\ t = Target(c)
    /\ job[c][t].phase \in {"sent", "launch", "look", "leave"} =>
         job[c][t].action = IF pc[c] = "calling" THEN "up" ELSE "down"

(* A role whose down was answered with success is down.                    *)
Undone(c) ==
  \A t \in Targets :
    /\ pc[c] = "undoing" /\ t = Target(c) /\ job[c][t].phase = "replied" /\ job[c][t].ok
         => ~LeftAt(c, t)
    /\ pc[c] = "undid" /\ t = Target(c) => ~LeftAt(c, t)

(* Receipts that are not rolled back yet.                                  *)
Pending(c) == IF pc[c] \in {"loop", "undoing", "undid"} THEN at[c] ELSE Len(receipts[c])

Receipted(c, t) ==
  \E i \in 1..Pending(c) : receipts[c][i].target = t /\ receipts[c][i].id = service[t].id

(* The call's worker will give, or has given, a receipt for what it has    *)
(* started; one that is gone can only end the call in doubt.               *)
Promised(c, t) ==
  \/ job[c][t].phase = "none"
  \/ job[c][t].phase \in {"launch", "look", "leave"} /\ job[c][t].before = None
  \/ job[c][t].phase = "replied" /\ job[c][t].receipt = service[t].id

(* Where the identity of what runs on t is, or will come from.             *)
Known(c, t) ==
  \/ pc[c] = "calling" /\ t = Target(c) /\ Promised(c, t)
  \/ pc[c] = "called" /\ t = Target(c) /\ answer[c].receipt = service[t].id
  \/ Receipted(c, t)

Told(c) ==
  \/ Doubtful(c)
  \/ OneWorker(c) /\ Undone(c) /\ \A t \in Targets : LeftAt(c, t) => Known(c, t)

(* A signal in a call ends in a failed answer.                             *)
Booked(c) ==
  /\ cancelled[c] => failed[c] \/ (pc[c] = "called" /\ ~answer[c].ok)
  /\ pc[c] = "called" /\ answer[c].unknown => ~answer[c].ok

Account(c) ==
  /\ pc[c] = "idle" => Clean(c) /\ ~cancelled[c]
  /\ pc[c] \in Live /\ action[c] = "up" => Booked(c) /\ Told(c)
  /\ (pc[c] = "done" /\ action[c] = "up" /\ report[c].status # "ok"
        /\ report[c].cleanup # "unconfirmed") => Clean(c)

AccountInv == OwnInv /\ Flags /\ \A c \in Controllers : Account(c)

(* What others do leaves an invocation's account as it is.                 *)
LEMMA AccountStands ==
  ASSUME NEW d \in Controllers, Account(d),
         pc'[d] = pc[d], action'[d] = action[d], at'[d] = at[d], answer'[d] = answer[d],
         receipts'[d] = receipts[d], failed'[d] = failed[d], cancelled'[d] = cancelled[d],
         unknown'[d] = unknown[d], report'[d] = report[d],
         \A t \in Targets : job'[d][t] = job[d][t],
         \A t \in Targets : LeftAt(d, t)' => service'[t] = service[t]
  PROVE  Account(d)'
<1>1. \A t \in Targets : LeftAt(d, t)' => LeftAt(d, t) /\ service'[t] = service[t]
  BY DEF LeftAt
<1>2. Target(d)' = Target(d) /\ Pending(d)' = Pending(d)
  BY DEF Target, Pending
<1>3. Booked(d)' <=> Booked(d)
  BY DEF Booked
<1>4. Doubtful(d)' <=> Doubtful(d)
  BY DEF Doubtful
<1>5. OneWorker(d) => OneWorker(d)'
  BY <1>2 DEF OneWorker
<1>6. Undone(d) => Undone(d)'
  BY <1>1, <1>2 DEF Undone
<1>7. ASSUME NEW t \in Targets, LeftAt(d, t) => Known(d, t), LeftAt(d, t)'
      PROVE  Known(d, t)'
  BY <1>1, <1>2, <1>7 DEF Known, Promised, Receipted
<1>8. Told(d) => Told(d)'
  BY <1>4, <1>5, <1>6, <1>7 DEF Told
<1>9. Clean(d) => Clean(d)'
  BY <1>1 DEF Clean
<1>. QED
  BY <1>3, <1>8, <1>9 DEF Account

-----------------------------------------------------------------------------
(* The steps of a worker, for the invocation it works for.                 *)
AtWork == {"sent", "launch", "look", "leave"}

LEMMA WorkAccounted ==
  ASSUME OwnInv, NEW c \in Controllers, NEW t \in Targets, NEW new \in Job, Account(c),
         job[c][t].phase \in AtWork, SetJob(c, t, new), UNCHANGED runs,
         \A u \in Targets : u # t => service'[u] = service[u],
         new.phase \in AtWork => new.action = job[c][t].action,
         new.phase = "replied" /\ new.ok /\ job[c][t].action = "down" => ~LeftAt(c, t)',
         LeftAt(c, t)' =>
           \/ service'[t] = service[t] /\ (job[c][t].phase = "sent" \/ job[c][t].before # None)
           \/ service'[t] = service[t] /\ job[c][t].action = "down"
           \/ job[c][t].action = "up" /\ Promised(c, t)'
  PROVE  Account(c)'
<1>1. /\ job'[c][t] = new
      /\ \A u \in Targets : u # t => job'[c][u] = job[c][u]
  BY JobChange DEF OwnInv
<1>2. Target(c)' = Target(c) /\ Pending(c)' = Pending(c) /\ UNCHANGED <<runs, states>>
  BY DEF Target, Pending, runs
<1>3. Booked(c)' = Booked(c) /\ Doubtful(c)' = Doubtful(c)
  BY DEF Booked, Doubtful, runs, states
<1>4. ~Clean(c)
  BY DEF Clean, AtWork
<1>5. ASSUME pc[c] \in Live, action[c] = "up", ~Doubtful(c) PROVE Told(c)'
  <2>1. OneWorker(c) /\ Undone(c) /\ \A u \in Targets : LeftAt(c, u) => Known(c, u)
    BY <1>5 DEF Account, Told
  <2>2. /\ t = Target(c) /\ pc[c] \in {"calling", "undoing"}
        /\ job[c][t].action = IF pc[c] = "calling" THEN "up" ELSE "down"
    BY <2>1 DEF OneWorker, AtWork
  <2>3. OneWorker(c)'
    BY <1>1, <1>2, <2>1, <2>2 DEF OneWorker, AtWork, runs
  <2>4. Undone(c)'
    BY <1>1, <1>2, <2>1, <2>2 DEF Undone, runs
  <2>5. ASSUME NEW u \in Targets, LeftAt(c, u)' PROVE Known(c, u)'
    <3>1. CASE u = t /\ job[c][t].action = "up" /\ Promised(c, t)'
      BY <1>2, <2>2, <3>1 DEF Known, runs
    <3>2. CASE service'[u] = service[u] /\ (u # t \/ job[c][t].action = "down"
                 \/ job[c][t].phase = "sent" \/ job[c][t].before # None)
      <4>1. Known(c, u)
        BY <2>1, <2>5, <3>2 DEF LeftAt
      <4>2. Receipted(c, u)
        BY <2>2, <3>2, <4>1 DEF Known, Promised, AtWork
      <4>. QED
        BY <1>2, <3>2, <4>2 DEF Known, Receipted, runs
    <3>. QED
      BY <2>5, <3>1, <3>2
  <2>. QED
    BY <2>3, <2>4, <2>5 DEF Told
<1>. QED
  BY <1>3, <1>4, <1>5 DEF Account, Told, runs, states

LEMMA ReplyAccounted ==
  ASSUME OwnInv, NEW c \in Controllers, NEW t \in Targets, Account(c),
         NEW ok \in BOOLEAN, NEW receipt \in Identity,
         job[c][t].phase \in AtWork, Reply(c, t, ok, receipt), UNCHANGED <<service, runs>>,
         ok /\ job[c][t].action = "down" => ~LeftAt(c, t),
         LeftAt(c, t) =>
           \/ job[c][t].phase = "sent" \/ job[c][t].before # None
           \/ job[c][t].action = "down" \/ receipt = service[t].id
  PROVE  Account(c)'
<1> DEFINE rec == [NoJob EXCEPT !.phase = "replied", !.ok = ok, !.receipt = receipt]
<1>1. /\ rec \in Job /\ rec.phase = "replied" /\ rec.receipt = receipt /\ rec.ok = ok
  BY DEF NoJob, Job, Phases, Identity, Actions
<1>2. SetJob(c, t, rec) /\ job[c][t].action \in Actions
  BY HostFacts DEF Reply, Job
<1> HIDE DEF rec
<1>3. job'[c][t] = rec
  BY <1>1, <1>2, JobChange DEF OwnInv
<1>4. LeftAt(c, t)' = LeftAt(c, t)
  BY DEF LeftAt
<1>. QED
  BY <1>1, <1>2, <1>3, <1>4, WorkAccounted DEF AtWork, Promised, Actions

LEMMA RepliesAccounted ==
  ASSUME OwnInv, NEW c \in Controllers, NEW t \in Targets, Account(c),
         Busy(c, t) \/ RefuseChanged(c, t) \/ Finish(c, t) \/ Leave(c, t)
  PROVE  Account(c)'
<1>1. CASE Busy(c, t) \/ RefuseChanged(c, t)
  <2>1. /\ job[c][t].phase = "sent" /\ Reply(c, t, FALSE, None)
        /\ UNCHANGED <<service, runs>> /\ None \in Identity
    BY <1>1 DEF Busy, RefuseChanged, hosts, Identity
  <2>. QED
    BY <2>1, ReplyAccounted DEF AtWork
<1>2. CASE Finish(c, t)
  <2>1. /\ job[c][t].phase = "look" /\ UNCHANGED <<service, runs>>
        /\ Reply(c, t, Done(c, t), Started(c, t))
    BY <1>2 DEF Finish
  <2>2. Done(c, t) \in BOOLEAN /\ job[c][t] \in Job
    BY HostFacts DEF Done, Job
  <2>3. Done(c, t) /\ job[c][t].action = "down" => ~LeftAt(c, t)
    BY DEF Done, LeftAt
  <2>4. LeftAt(c, t) =>
          \/ job[c][t].before # None \/ job[c][t].action = "down"
          \/ Started(c, t) = service[t].id
    BY <2>2 DEF LeftAt, Started, Id, Job, Actions
  <2>. QED
    BY <2>1, <2>2, <2>3, <2>4, StartedIsMine, ReplyAccounted DEF AtWork
<1>3. CASE Leave(c, t)
  <2>1. /\ job[c][t].phase = "leave" /\ UNCHANGED <<service, runs>>
        /\ Reply(c, t, FALSE, Started(c, t)) /\ job[c][t] \in Job
    BY <1>3, HostFacts DEF Leave
  <2>2. LeftAt(c, t) =>
          \/ job[c][t].before # None \/ job[c][t].action = "down"
          \/ Started(c, t) = service[t].id
    BY <2>1 DEF LeftAt, Started, Id, Job, Actions
  <2>. QED
    BY <2>1, <2>2, StartedIsMine, ReplyAccounted DEF AtWork
<1>. QED
  BY <1>1, <1>2, <1>3

LEMMA AdmitAccounted ==
  ASSUME OwnInv, NEW c \in Controllers, NEW t \in Targets, Account(c), Admit(c, t)
  PROVE  Account(c)'
<1> DEFINE rec == [job[c][t] EXCEPT !.phase = "launch", !.before = Id(t)]
<1>1. job[c][t] \in Job /\ Id(t) \in Identity
  BY HostFacts
<1>2. rec \in Job /\ rec.phase = "launch" /\ rec.action = job[c][t].action
  BY <1>1 DEF Job, Phases
<1>3. SetJob(c, t, rec) /\ job[c][t].phase = "sent" /\ UNCHANGED <<service, runs>>
  BY DEF Admit
<1> HIDE DEF rec
<1>. QED
  BY <1>2, <1>3, WorkAccounted DEF AtWork

(* A worker that goes on after its launcher, with or without the service.  *)
LEMMA LaunchAccounted ==
  ASSUME OwnInv, NEW c \in Controllers, NEW t \in Targets, Account(c),
         NEW from \in {"launch", "look"}, job[c][t].phase = from,
         NEW to \in {"look", "leave"}, NEW ok \in BOOLEAN,
         SetJob(c, t, [job[c][t] EXCEPT !.phase = to, !.ok = ok]), UNCHANGED runs,
         \A u \in Targets : u # t => service'[u] = service[u],
         \/ service'[t] = service[t] \/ service'[t] = None
         \/ job[c][t].action = "up" /\ (LeftAt(c, t)' => job[c][t].before = None)
  PROVE  Account(c)'
<1> DEFINE rec == [job[c][t] EXCEPT !.phase = to, !.ok = ok]
<1>1. job[c][t] \in Job /\ HostShapes
  BY HostFacts DEF OwnInv
<1>2. /\ rec \in Job /\ rec.phase = to /\ rec.action = job[c][t].action
      /\ rec.before = job[c][t].before /\ job[c][t].action \in Actions
  BY <1>1 DEF Job, Phases
<1>3. SetJob(c, t, rec)
  OBVIOUS
<1> HIDE DEF rec
<1>4. job'[c][t] = rec
  BY <1>1, <1>2, <1>3, JobChange
<1>5. job[c][t].before = None => Promised(c, t)'
  BY <1>2, <1>4 DEF Promised
<1>6. service'[t] = None => ~LeftAt(c, t)'
  BY DEF LeftAt
<1>7. LeftAt(c, t)' =>
        \/ service'[t] = service[t] /\ (job[c][t].phase = "sent" \/ job[c][t].before # None)
        \/ service'[t] = service[t] /\ job[c][t].action = "down"
        \/ job[c][t].action = "up" /\ Promised(c, t)'
  BY <1>2, <1>5, <1>6 DEF Actions
<1>. QED
  BY <1>2, <1>3, <1>7, WorkAccounted DEF AtWork

LEMMA LaunchesAccounted ==
  ASSUME OwnInv, NEW c \in Controllers, NEW t \in Targets, Account(c),
         LaunchUp(c, t) \/ LaunchDown(c, t) \/ CleanUp(c, t)
  PROVE  Account(c)'
<1>0. service \in [Targets -> Service \cup {None}] /\ ids \in Nat
  BY DEF OwnInv, HostShapes
<1>1. CASE LaunchUp(c, t)
  <2>1. /\ job[c][t].phase = "launch" /\ job[c][t].action = "up" /\ UNCHANGED runs
        /\ \E ok \in BOOLEAN : SetJob(c, t, [job[c][t] EXCEPT !.phase = "look", !.ok = ok])
        /\ \/ service' = service
           \/ service' = [service EXCEPT ![t] =
                [id |-> ids + 1, by |-> c, new |-> job[c][t].before = None]]
    BY <1>1 DEF LaunchUp
  <2>2. ASSUME service' = [service EXCEPT ![t] =
                 [id |-> ids + 1, by |-> c, new |-> job[c][t].before = None]], LeftAt(c, t)'
        PROVE  job[c][t].before = None
    <3>1. service'[t].new = (job[c][t].before = None)
      BY <1>0, <2>2, SMT
    <3>2. service'[t].new
      BY <2>2 DEF LeftAt
    <3>. QED
      BY <3>1, <3>2, Zenon
  <2>3. \A u \in Targets : u # t => service'[u] = service[u]
    BY <1>0, <2>1
  <2>. QED
    BY <2>1, <2>2, <2>3, LaunchAccounted
<1>2. CASE LaunchDown(c, t) \/ CleanUp(c, t)
  <2>1. /\ UNCHANGED runs
        /\ \/ /\ job[c][t].phase = "launch"
              /\ \E ok \in BOOLEAN :
                   SetJob(c, t, [job[c][t] EXCEPT !.phase = "look", !.ok = ok])
           \/ /\ job[c][t].phase = "look"
              /\ SetJob(c, t, [job[c][t] EXCEPT !.phase = "leave", !.ok = FALSE])
        /\ service' = service \/ service' = [service EXCEPT ![t] = None]
    BY <1>2 DEF LaunchDown, CleanUp
  <2>2. /\ \A u \in Targets : u # t => service'[u] = service[u]
        /\ service'[t] = service[t] \/ service'[t] = None
    BY <1>0, <2>1
  <2>. QED
    BY <2>1, <2>2, LaunchAccounted
<1>. QED
  BY <1>1, <1>2

LEMMA AbandonAccounted ==
  ASSUME OwnInv, NEW c \in Controllers, NEW t \in Targets, Account(c), Abandon(c, t)
  PROVE  Account(c)'
<1>1. NoJob \in Job /\ NoJob.phase = "none"
  BY DEF NoJob, Job, Phases, Identity, Actions
<1>2. /\ job[c][t].phase \in AtWork /\ SetJob(c, t, NoJob) /\ UNCHANGED <<service, runs>>
      /\ job[c][t] \in Job
  BY HostFacts DEF Abandon, AtWork
<1>3. job'[c][t] = NoJob
  BY <1>1, <1>2, JobChange DEF OwnInv
<1>. QED
  BY <1>1, <1>2, <1>3, WorkAccounted DEF AtWork, Promised, Job, Actions

LEMMA WorkerAccounted ==
  ASSUME OwnInv, NEW c \in Controllers, NEW t \in Targets, Account(c),
         Worker(c, t) \/ Abandon(c, t)
  PROVE  Account(c)'
BY RepliesAccounted, AdmitAccounted, LaunchesAccounted, AbandonAccounted DEF Worker

-----------------------------------------------------------------------------
(* The steps of the controller, for its own invocation.                    *)

LEMMA BeginAccounted ==
  ASSUME OwnInv, NEW c \in Controllers, NEW what \in Actions, Account(c), Begin(c, what)
  PROVE  Account(c)'
<1>1. Clean(c) /\ ~cancelled[c] /\ pc[c] = "idle"
  BY DEF Begin, Account
<1>2. pc'[c] = "call" /\ UNCHANGED <<job, service, cancelled>>
  BY DEF Begin, OwnInv, RunShapes, hosts, states
<1>3. Booked(c)' /\ OneWorker(c)' /\ Undone(c)' /\ \A t \in Targets : ~LeftAt(c, t)'
  BY <1>1, <1>2 DEF Booked, OneWorker, Undone, Clean, LeftAt
<1>. QED
  BY <1>2, <1>3 DEF Account, Told

(* A request goes out only when no worker of the invocation is left.       *)
LEMMA SendAccounted ==
  ASSUME OwnInv, NEW c \in Controllers, NEW expected \in Identity, Account(c),
         NEW from \in {"call", "loop"}, NEW to \in {"calling", "undoing"},
         from = "call" <=> to = "calling", from = "loop" => at[c] # 0,
         NEW what \in Actions,
         action[c] = "up" => what = IF to = "calling" THEN "up" ELSE "down",
         Send(c, from, to, what, expected)
  PROVE  Account(c)'
<1>1. PICK t \in Targets : t = Target(c)
  BY TargetType DEF Send
<1> DEFINE rec == [NoJob EXCEPT !.phase = "sent", !.action = what, !.expected = expected]
<1>2. rec \in Job /\ rec.phase = "sent" /\ rec.action = what
  BY DEF NoJob, Job, Phases, Identity, Actions
<1>3. SetJob(c, t, rec)
  BY <1>1 DEF Send
<1> HIDE DEF rec
<1>4. job'[c][t] = rec /\ \A u \in Targets : u # t => job'[c][u] = job[c][u]
  BY <1>2, <1>3, JobChange DEF OwnInv
<1>5. /\ pc[c] = from /\ pc'[c] = to
      /\ UNCHANGED <<service, action, at, receipts, failed, cancelled, unknown>>
  BY DEF Send, OwnInv, RunShapes, hosts, states
<1>6. Target(c)' = t /\ Pending(c)' = Pending(c)
  BY <1>1, <1>5 DEF Target, Pending
<1>7. ASSUME action[c] = "up" PROVE Booked(c)' /\ Told(c)'
  <2>1. Booked(c) /\ Told(c)
    BY <1>5, <1>7 DEF Account, Live
  <2>2. Booked(c)'
    BY <1>5, <2>1 DEF Booked
  <2>3. CASE Doubtful(c)
    BY <1>5, <2>2, <2>3 DEF Doubtful, Told
  <2>4. CASE OneWorker(c) /\ \A u \in Targets : LeftAt(c, u) => Known(c, u)
    <3>1. \A u \in Targets : job[c][u].phase = "none"
      BY <1>5, <2>4 DEF OneWorker
    <3>2. OneWorker(c)' /\ Undone(c)'
      BY <1>2, <1>4, <1>5, <1>6, <1>7, <3>1 DEF OneWorker, Undone
    <3>3. ASSUME NEW u \in Targets, LeftAt(c, u)' PROVE Known(c, u)'
      <4>1. Known(c, u)
        BY <1>5, <2>4, <3>3 DEF LeftAt
      <4>. QED
        BY <1>5, <1>6, <4>1 DEF Known, Receipted
    <3>. QED
      BY <2>2, <3>2, <3>3 DEF Told
  <2>. QED
    BY <2>1, <2>2, <2>3, <2>4 DEF Told
<1>. QED
  BY <1>5, <1>7 DEF Account

LEMMA CallsAccounted ==
  ASSUME OwnInv, NEW c \in Controllers, Account(c), Call(c) \/ CallUndo(c)
  PROVE  Account(c)'
<1>1. CASE Call(c)
  <2>1. action[c] \in Actions /\ None \in Identity
    BY RunFacts DEF Identity
  <2>. QED
    BY <1>1, <2>1, SendAccounted DEF Call
<1>2. CASE CallUndo(c)
  <2>1. /\ pc[c] = "loop" /\ at[c] # 0 /\ at[c] \in DOMAIN receipts[c]
        /\ receipts[c] \in Seq(Receipt) /\ "down" \in Actions
    BY <1>2, RunFacts DEF CallUndo, ToUndo, Counting, Actions
  <2>2. receipts[c][at[c]].id \in Identity
    <3>1. receipts[c][at[c]] \in Receipt
      BY <2>1
    <3>. QED
      BY <3>1 DEF Receipt, Identity
  <2>. QED
    BY <1>2, <2>1, <2>2, SendAccounted DEF CallUndo
<1>. QED
  BY <1>1, <1>2

(* No answer in time, or a signal: what is not known is told.              *)
LEMMA UnknownAccounted ==
  ASSUME OwnInv, NEW c \in Controllers, Account(c), TimeOut(c) \/ Interrupt(c)
  PROVE  Account(c)'
<1>1. /\ pc[c] \in {"calling", "undoing"} /\ pc'[c] \in {"called", "undid"}
      /\ pc[c] = "calling" <=> pc'[c] = "called"
      /\ answer'[c] = Unknown /\ UNCHANGED <<action, failed>>
      /\ cancelled' = cancelled \/ pc'[c] = "called"
  BY DEF TimeOut, Interrupt, Return, OwnInv, RunShapes
<1>2. Doubtful(c)'
  BY <1>1 DEF Doubtful, Unknown
<1>3. ASSUME action[c] = "up" PROVE Booked(c)'
  BY <1>1, <1>3 DEF Account, Live, Booked, Unknown
<1>. QED
  BY <1>1, <1>2, <1>3 DEF Account, Told

LEMMA ReceiveAccounted ==
  ASSUME OwnInv, NEW c \in Controllers, Account(c), Receive(c)
  PROVE  Account(c)'
<1>1. pc[c] \in {"calling", "undoing"}
  BY DEF Receive
<1>2. PICK t \in Targets : t = Target(c)
  BY <1>1, TargetType
<1>3. /\ job[c][t].phase = "replied" /\ SetJob(c, t, NoJob) /\ UNCHANGED cancelled
      /\ Return(c, [ok |-> job[c][t].ok, unknown |-> FALSE, receipt |-> job[c][t].receipt])
  BY <1>2 DEF Receive
<1>4. NoJob \in Job /\ NoJob.phase = "none"
  BY DEF NoJob, Job, Phases, Identity, Actions
<1>5. job'[c][t] = NoJob /\ \A u \in Targets : u # t => job'[c][u] = job[c][u]
  BY <1>3, <1>4, JobChange DEF OwnInv
<1>6. /\ pc'[c] = IF pc[c] = "calling" THEN "called" ELSE "undid"
      /\ answer'[c] = [ok |-> job[c][t].ok, unknown |-> FALSE, receipt |-> job[c][t].receipt]
      /\ UNCHANGED <<service, action, at, receipts, failed, unknown>>
  BY <1>3 DEF Return, OwnInv, RunShapes, hosts
<1>7. Target(c)' = t /\ Pending(c)' = Pending(c)
  BY <1>1, <1>2, <1>6 DEF Target, Pending
<1>8. ASSUME action[c] = "up" PROVE Booked(c)' /\ Told(c)'
  <2>1. Booked(c) /\ Told(c)
    BY <1>1, <1>8 DEF Account, Live
  <2>2. Booked(c)'
    BY <1>1, <1>3, <1>6, <2>1 DEF Booked
  <2>3. CASE Doubtful(c)
    BY <1>1, <1>6, <2>2, <2>3 DEF Doubtful, Told
  <2>4. CASE /\ OneWorker(c) /\ Undone(c) /\ \A u \in Targets : LeftAt(c, u) => Known(c, u)
             /\ ~Doubtful(c)'
    <3>1. OneWorker(c)'
      BY <1>2, <1>4, <1>5, <2>4 DEF OneWorker
    <3>2. pc'[c] = "undid" => job[c][t].ok
      BY <1>6, <2>4 DEF Doubtful
    <3>3. Undone(c)'
      BY <1>1, <1>2, <1>3, <1>6, <1>7, <2>4, <3>2 DEF Undone, LeftAt
    <3>4. ASSUME NEW u \in Targets, LeftAt(c, u)' PROVE Known(c, u)'
      <4>1. Known(c, u)
        BY <1>6, <2>4, <3>4 DEF LeftAt
      <4>2. CASE Receipted(c, u)
        BY <1>6, <1>7, <4>2 DEF Known, Receipted
      <4>3. CASE pc[c] = "calling" /\ u = t /\ Promised(c, u)
        <5>1. answer'[c].receipt = service[u].id
          BY <1>3, <1>6, <4>3 DEF Promised
        <5>. QED
          BY <1>6, <1>7, <4>3, <5>1 DEF Known
      <4>. QED
        BY <1>1, <1>2, <4>1, <4>2, <4>3 DEF Known
    <3>. QED
      BY <2>2, <3>1, <3>3, <3>4 DEF Told
  <2>. QED
    BY <2>1, <2>2, <2>3, <2>4 DEF Told
<1>. QED
  BY <1>6, <1>8 DEF Account

LEMMA BookAccounted ==
  ASSUME OwnInv, Flags, NEW c \in Controllers, Account(c), Book(c)
  PROVE  Account(c)'
<1>1. /\ pc[c] = "called" /\ answer[c] \in Answer /\ Target(c) \in Targets
      /\ receipts[c] \in Seq(Receipt) /\ Len(receipts[c]) \in Nat /\ None \notin Nat
      /\ RunShapes
  BY RunFacts, HostFacts, TargetType DEF Book
<1>2. /\ pc'[c] \in {"call", "loop"} /\ UNCHANGED <<service, job, action, cancelled>>
      /\ pc'[c] = "loop" => at'[c] = Len(receipts'[c])
      /\ receipts'[c] = IF answer[c].receipt = None THEN receipts[c]
           ELSE Append(receipts[c], [target |-> Target(c), id |-> answer[c].receipt])
  BY <1>1 DEF Book, RunShapes, hosts
<1>3. Pending(c)' = Len(receipts'[c])
  BY <1>2 DEF Pending
<1>4. ASSUME action[c] = "up" PROVE Booked(c)' /\ Told(c)'
  <2>1. Booked(c) /\ Told(c)
    BY <1>1, <1>4 DEF Account, Live
  <2>2. /\ failed'[c] = (failed[c] \/ ~answer[c].ok)
        /\ unknown'[c] = (unknown[c] \/ answer[c].unknown)
    BY <1>4 DEF Book, Flags
  <2>3. Booked(c)'
    BY <1>1, <1>2, <2>1, <2>2 DEF Booked
  <2>4. CASE Doubtful(c)
    BY <1>1, <2>2, <2>3, <2>4 DEF Doubtful, Told
  <2>5. CASE OneWorker(c) /\ \A u \in Targets : LeftAt(c, u) => Known(c, u)
    <3>1. OneWorker(c)' /\ Undone(c)'
      BY <1>1, <1>2, <2>5 DEF OneWorker, Undone
    <3>2. ASSUME NEW u \in Targets, LeftAt(c, u)' PROVE Known(c, u)'
      <4>1. Known(c, u) /\ service[u] # None /\ service[u].id \in Nat
        BY <1>2, <2>5, <3>2, HostFacts DEF LeftAt
      <4>2. CASE u = Target(c) /\ answer[c].receipt = service[u].id
        <5>1. PICK one : one = [target |-> Target(c), id |-> answer[c].receipt]
          OBVIOUS
        <5>2. one.target = u /\ one.id = service[u].id /\ one \in Receipt
          BY <1>1, <4>1, <4>2, <5>1 DEF Receipt
        <5>3. receipts'[c] = Append(receipts[c], one)
          BY <1>1, <1>2, <4>1, <4>2, <5>1
        <5>4. /\ Len(receipts'[c]) = Len(receipts[c]) + 1
              /\ receipts'[c][Len(receipts[c]) + 1] = one
          BY <1>1, <5>2, <5>3
        <5>5. Len(receipts[c]) + 1 \in 1..Len(receipts'[c])
          BY <1>1, <5>4
        <5>. QED
          BY <1>2, <1>3, <5>2, <5>4, <5>5 DEF Known, Receipted
      <4>3. CASE Receipted(c, u)
        <5>1. PICK i \in 1..Len(receipts[c]) :
                receipts[c][i].target = u /\ receipts[c][i].id = service[u].id
          BY <1>1, <4>3 DEF Receipted, Pending
        <5>2. i \in 1..Len(receipts'[c]) /\ receipts'[c][i] = receipts[c][i]
          <6>1. answer[c].receipt # None =>
                  [target |-> Target(c), id |-> answer[c].receipt] \in Receipt
            BY <1>1 DEF Receipt, Answer, Identity
          <6>. QED
            BY <1>1, <1>2, <5>1, <6>1
        <5>. QED
          BY <1>2, <1>3, <5>1, <5>2 DEF Known, Receipted
      <4>. QED
        BY <1>1, <4>1, <4>2, <4>3 DEF Known
    <3>. QED
      BY <2>3, <3>1, <3>2 DEF Told
  <2>. QED
    BY <2>1, <2>3, <2>4, <2>5 DEF Told
<1>. QED
  BY <1>2, <1>4 DEF Account

LEMMA BookUndoAccounted ==
  ASSUME OwnInv, Flags, NEW c \in Controllers, Account(c), BookUndo(c)
  PROVE  Account(c)'
<1>1. /\ pc[c] = "undid" /\ at[c] \in Nat /\ at[c] # 0 /\ RunShapes
      /\ Target(c) = receipts[c][at[c]].target
  BY RunFacts DEF BookUndo, Counting, Target
<1>2. /\ pc'[c] = "loop" /\ at'[c] = at[c] - 1
      /\ UNCHANGED <<service, job, action, receipts, failed, cancelled>>
      /\ unknown'[c] = (unknown[c] \/ ~answer[c].ok)
  BY <1>1 DEF BookUndo, RunShapes, Flags, hosts
<1>3. ASSUME action[c] = "up" PROVE Booked(c)' /\ Told(c)'
  <2>1. Booked(c) /\ Told(c)
    BY <1>1, <1>3 DEF Account, Live
  <2>2. Booked(c)'
    BY <1>1, <1>2, <2>1 DEF Booked
  <2>3. CASE Doubtful(c)
    BY <1>1, <1>2, <2>2, <2>3 DEF Doubtful, Told
  <2>4. CASE OneWorker(c) /\ Undone(c) /\ \A u \in Targets : LeftAt(c, u) => Known(c, u)
    <3>1. OneWorker(c)' /\ Undone(c)'
      BY <1>1, <1>2, <2>4 DEF OneWorker, Undone
    <3>2. ASSUME NEW u \in Targets, LeftAt(c, u)' PROVE Known(c, u)'
      <4>1. LeftAt(c, u) /\ u # Target(c) /\ Receipted(c, u)
        BY <1>1, <1>2, <2>4, <3>2 DEF LeftAt, Undone, Known
      <4>2. PICK i \in 1..at[c] :
              receipts[c][i].target = u /\ receipts[c][i].id = service[u].id
        BY <1>1, <4>1 DEF Receipted, Pending
      <4>3. i # at[c] /\ i \in 1..at'[c]
        BY <1>1, <1>2, <4>1, <4>2
      <4>. QED
        BY <1>2, <4>2, <4>3 DEF Known, Receipted, Pending
    <3>. QED
      BY <2>2, <3>1, <3>2 DEF Told
  <2>. QED
    BY <2>1, <2>2, <2>3, <2>4 DEF Told
<1>. QED
  BY <1>2, <1>3 DEF Account

(* With no doubt and no receipt left to roll back, nothing is left.        *)
LEMMA EndAccounted ==
  ASSUME OwnInv, Flags, NEW c \in Controllers, Account(c), Report(c) \/ Escape(c)
  PROVE  Account(c)'
<1>1. UNCHANGED <<service, job, action>> /\ pc \in [Controllers -> Places]
  BY DEF Report, Escape, EndRun, hosts, OwnInv, RunShapes
<1>2. CASE Report(c)
  <2>1. /\ pc[c] = "loop" /\ pc'[c] = "done" /\ ~ToUndo(c)
        /\ report'[c] =
             [status |-> IF cancelled[c] THEN "interrupted"
                         ELSE IF failed[c] THEN "partial_failure" ELSE "ok",
              cleanup |-> Cleanup(c)]
    BY <1>1, <1>2 DEF Report, EndRun, Flags
  <2>2. ASSUME action[c] = "up", report'[c].status # "ok",
               report'[c].cleanup # "unconfirmed"
        PROVE  Clean(c)'
    <3>1. Booked(c) /\ Told(c)
      BY <2>1, <2>2 DEF Account, Live
    <3>2. failed[c]
      BY <2>1, <2>2, <3>1 DEF Booked
    <3>3. Cleanup(c) # "unconfirmed"
      BY <2>1, <2>2
    <3>4. ~Doubtful(c)
      BY <2>1, <2>2, <3>2, <3>3 DEF Cleanup, Unconfirmed, Doubtful
    <3>5. at[c] = 0
      BY <2>1, <2>2, <3>2, RunFacts DEF ToUndo
    <3>6. \A t \in Targets : job[c][t].phase = "none"
      BY <2>1, <3>1, <3>4 DEF Told, OneWorker
    <3>7. \A t \in Targets : ~LeftAt(c, t)
      BY <2>1, <3>1, <3>4, <3>5 DEF Told, Known, Receipted, Pending
    <3>. QED
      BY <1>1, <3>6, <3>7 DEF Clean, LeftAt
  <2>. QED
    BY <1>1, <2>1, <2>2 DEF Account, Live
<1>3. CASE Escape(c)
  <2>1. pc'[c] = "escaped"
    BY <1>1, <1>3 DEF Escape, EndRun
  <2>. QED
    BY <2>1 DEF Account, Live
<1>. QED
  BY <1>2, <1>3

-----------------------------------------------------------------------------
(* The steps of one invocation and those of its hosts, for another.        *)

LEMMA ControllerApart ==
  ASSUME OwnInv, Flags, NEW c \in Controllers, NEW d \in Controllers, d # c, Account(d),
         \/ \E what \in Actions : Begin(c, what)
         \/ Controller(c) \/ Interrupt(c) \/ Escape(c)
  PROVE  Account(d)'
<1>1. /\ pc \in [Controllers -> Places] /\ action \in [Controllers -> Actions]
      /\ at \in [Controllers -> Nat] /\ receipts \in [Controllers -> Seq(Receipt)]
      /\ answer \in [Controllers -> Answer \cup {None}]
      /\ job \in [Controllers -> [Targets -> Job]]
  BY DEF OwnInv, HostShapes, RunShapes
<1>2. service' = service
  BY DEF Begin, Controller, Call, CallUndo, Send, Receive, TimeOut, Interrupt, Return,
         Book, BookUndo, Report, Escape, EndRun, hosts
<1>3. pc'[d] = pc[d] /\ action'[d] = action[d] /\ at'[d] = at[d]
  BY <1>1 DEF Begin, Controller, Call, CallUndo, Send, Receive, TimeOut, Interrupt, Return,
         Book, BookUndo, Report, Escape, EndRun
<1>4. answer'[d] = answer[d] /\ receipts'[d] = receipts[d]
  BY <1>1 DEF Begin, Controller, Call, CallUndo, Send, Receive, TimeOut, Interrupt, Return,
         Book, BookUndo, Report, Escape, EndRun
<1>5. /\ failed'[d] = failed[d] /\ cancelled'[d] = cancelled[d]
      /\ unknown'[d] = unknown[d] /\ report'[d] = report[d]
  BY DEF Flags, Begin, Controller, Call, CallUndo, Send, Receive, TimeOut, Interrupt, Return,
         Book, BookUndo, Report, Escape, EndRun, states
<1>6. \A t \in Targets : job'[d][t] = job[d][t]
  BY <1>1 DEF Begin, Controller, Call, CallUndo, Send, Receive, TimeOut, Interrupt, Return,
         Book, BookUndo, Report, Escape, EndRun, SetJob
<1>. QED
  BY <1>2, <1>3, <1>4, <1>5, <1>6, AccountStands

LEMMA WorkerApart ==
  ASSUME OwnInv, NEW c \in Controllers, NEW t \in Targets, NEW d \in Controllers, d # c,
         Account(d), Worker(c, t) \/ Abandon(c, t)
  PROVE  Account(d)'
<1>1. /\ job \in [Controllers -> [Targets -> Job]] /\ ids \in Nat
      /\ service \in [Targets -> Service \cup {None}]
  BY DEF OwnInv, HostShapes
<1>2. UNCHANGED runs
  BY DEF Worker, Busy, RefuseChanged, Admit, LaunchUp, LaunchDown, Finish, CleanUp, Leave,
         Abandon
<1>3. \A u \in Targets : job'[d][u] = job[d][u]
  BY <1>1 DEF Worker, Busy, RefuseChanged, Admit, LaunchUp, LaunchDown, Finish, CleanUp, Leave,
              Abandon, Reply, SetJob
<1>4. \/ service' = service \/ service' = [service EXCEPT ![t] = None]
      \/ service' = [service EXCEPT ![t] =
           [id |-> ids + 1, by |-> c, new |-> job[c][t].before = None]]
  BY DEF Worker, Busy, RefuseChanged, Admit, LaunchUp, LaunchDown, Finish, CleanUp, Leave,
         Abandon, hosts
<1>5. ASSUME NEW u \in Targets, LeftAt(d, u)' PROVE service'[u] = service[u]
  BY <1>1, <1>4, <1>5 DEF LeftAt
<1>. QED
  BY <1>2, <1>3, <1>5, AccountStands DEF runs, states

LEMMA LocalsApart ==
  ASSUME OwnInv, NEW t \in Targets, NEW d \in Controllers, Account(d),
         LocalUp(t) \/ LocalDown(t) \/ Die(t)
  PROVE  Account(d)'
<1>1. service \in [Targets -> Service \cup {None}] /\ Local # d
  BY ClusterAssumption DEF OwnInv, HostShapes
<1>2. /\ UNCHANGED <<job, runs>>
      /\ \/ service' = [service EXCEPT ![t] = None]
         \/ service' = [service EXCEPT ![t] = [id |-> ids + 1, by |-> Local, new |-> TRUE]]
  BY DEF LocalUp, LocalDown, Die
<1>3. ASSUME NEW u \in Targets, LeftAt(d, u)' PROVE service'[u] = service[u]
  BY <1>1, <1>2, <1>3 DEF LeftAt
<1>. QED
  BY <1>2, <1>3, AccountStands DEF runs, states

LEMMA FlagsKept ==
  ASSUME OwnInv, Flags, [Next]_vars
  PROVE  Flags'
<1>1. ASSUME NEW c \in Controllers, Report(c) PROVE Flags'
  <2>1. failed[c] \in BOOLEAN /\ cancelled[c] \in BOOLEAN
    BY DEF Flags
  <2>2. PICK told \in Outcome : report' = [report EXCEPT ![c] = told]
    <3>1. Cleanup(c) \in {"unconfirmed", "completed", "not_needed"}
      BY DEF Cleanup
    <3>2. (IF cancelled[c] THEN "interrupted"
           ELSE IF failed[c] THEN "partial_failure" ELSE "ok")
            \in {"ok", "partial_failure", "interrupted"}
      OBVIOUS
    <3>. QED
      BY <1>1, <3>1, <3>2 DEF Report, Outcome
  <2>. QED
    BY <1>1, <2>2 DEF Report, EndRun, Flags
<1>2. ASSUME NEW c \in Controllers, Book(c) \/ BookUndo(c) PROVE Flags'
  BY <1>2, RunFacts DEF Book, BookUndo, Flags, Answer
<1>3. ASSUME NEW c \in Controllers,
             \/ \E what \in {"up", "down"} : Begin(c, what)
             \/ Call(c) \/ CallUndo(c) \/ Receive(c) \/ TimeOut(c) \/ Interrupt(c) \/ Escape(c)
      PROVE  Flags'
  BY <1>3 DEF Begin, Call, CallUndo, Send, Receive, TimeOut, Interrupt, Return, Escape, EndRun,
              Flags, states
<1>4. ASSUME NEW c \in Controllers, NEW t \in Targets, Worker(c, t) \/ Abandon(c, t)
      PROVE  Flags'
  <2>1. UNCHANGED runs
    BY <1>4 DEF Worker, Busy, RefuseChanged, Admit, LaunchUp, LaunchDown, Finish, CleanUp,
                Leave, Abandon
  <2>. QED
    BY <2>1 DEF Flags, runs, states
<1>5. ASSUME NEW t \in Targets, LocalUp(t) \/ LocalDown(t) \/ Die(t) PROVE Flags'
  BY <1>5 DEF LocalUp, LocalDown, Die, Flags, runs, states
<1>6. CASE UNCHANGED vars
  BY <1>6 DEF Flags, vars, runs, states
<1>. QED
  BY <1>1, <1>2, <1>3, <1>4, <1>5, <1>6 DEF Next, Controller

(* What an up that did not succeed leaves running is told: whatever it had *)
(* started is down, or the report says that cleanup is unconfirmed.        *)
THEOREM LeftoversAreTold == Spec => []LeftoversAreUnconfirmed
<1>1. Init => AccountInv
  <2> SUFFICES ASSUME Init PROVE AccountInv
    OBVIOUS
  <2>1. Flags
    BY DEF Init, Flags
  <2>2. ASSUME NEW c \in Controllers PROVE Account(c)
    BY DEF Init, Account, Clean, LeftAt, NoJob, Live
  <2>. QED
    BY <2>1, <2>2, OwnFirst DEF AccountInv
<1>2. AccountInv /\ [Next]_vars => AccountInv'
  <2> SUFFICES ASSUME AccountInv, [Next]_vars PROVE AccountInv'
    OBVIOUS
  <2>1. OwnInv /\ Flags /\ \A d \in Controllers : Account(d)
    BY DEF AccountInv
  <2>2. OwnInv' /\ Flags'
    BY <2>1, OwnNext, FlagsKept
  <2> SUFFICES ASSUME NEW d \in Controllers PROVE Account(d)'
    BY <2>2 DEF AccountInv
  <2>3. ASSUME NEW c \in Controllers,
               \/ \E what \in {"up", "down"} : Begin(c, what)
               \/ Controller(c) \/ Interrupt(c) \/ Escape(c)
        PROVE  Account(d)'
    <3>1. CASE c # d
      BY <2>1, <2>3, <3>1, ControllerApart DEF Actions
    <3>2. CASE c = d
      BY <2>1, <2>3, <3>2, BeginAccounted, CallsAccounted, ReceiveAccounted, UnknownAccounted,
         BookAccounted, BookUndoAccounted, EndAccounted DEF Controller, Actions
    <3>. QED
      BY <3>1, <3>2
  <2>4. ASSUME NEW c \in Controllers, NEW t \in Targets, Worker(c, t) \/ Abandon(c, t)
        PROVE  Account(d)'
    BY <2>1, <2>4, WorkerApart, WorkerAccounted
  <2>5. ASSUME NEW t \in Targets, LocalUp(t) \/ LocalDown(t) \/ Die(t) PROVE Account(d)'
    BY <2>1, <2>5, LocalsApart
  <2>6. CASE UNCHANGED vars
    <3>1. UNCHANGED <<service, job, runs, states>>
      BY <2>6 DEF vars, hosts, runs
    <3>. QED
      BY <2>1, <3>1, AccountStands DEF runs, states
  <2>. QED
    BY <2>3, <2>4, <2>5, <2>6 DEF Next
<1>3. AccountInv => LeftoversAreUnconfirmed
  BY RunFacts DEF AccountInv, Account, Clean, LeftAt, Leftover, LeftoversAreUnconfirmed
<1>. QED
  BY <1>1, <1>2, <1>3, PTL DEF Spec

=============================================================================
