------------------------- MODULE MCSubsystemsProofs -------------------------
(***************************************************************************)
(* What holds of the parts of MCSubsystems for every value of its          *)
(* constants: of the recorder handle of the workers, of the HTTP           *)
(* transport, of the triggered profiler, of the installer of the App, of   *)
(* the cache of decoded records, of the mapping of the spans' clocks, of   *)
(* the textfile collector and of the diagnosis by a language model.  Each  *)
(* part has an invariant of its own; the parts that do not run stay as     *)
(* they are.                                                               *)
(***************************************************************************)
EXTENDS MCSubsystems, SequenceTheorems, FiniteSetTheorems, TLAPS

-----------------------------------------------------------------------------
(* The recorder handle.  (The theorems are about WorkerRecorder's own      *)
(* specification; Spec is its.)                                            *)
(* A record that recorder r may have in its hands: it was emitted by a     *)
(* tool of the Run that r labels.                                          *)
Right(r, id) == r <= made /\ id \in 1..emitted /\ intended[id] = label[r]

WriterShapes ==
  /\ queue \in [Recorders -> Seq(Nat)]
  /\ intended \in Seq(Runs) /\ Len(intended) = emitted

HandleIsNamed ==
  handle.recorder # NoRecorder =>
    handle.recorder <= made /\ label[handle.recorder] = handle.run

(* A thread inside get() holds the lock, so the environment, the recorder  *)
(* at hand and its doors stay as the thread left them.                     *)
Inside(t) ==
  pc[t] \in Getting =>
    /\ owner = t /\ wanted[t] = run /\ handle.recorder # NoRecorder
    /\ pc[t] # "shut" => shut[handle.recorder]
    /\ pc[t] = "replace" => ~Busy(handle.recorder)

(* A tool's recorder is of the Run the tool asked for; if it is not the    *)
(* one at hand any more, its door is shut.                                 *)
Equipped(t) ==
  pc[t] = "tool" =>
    /\ got[t] <= made /\ label[got[t]] = wanted[t]
    /\ got[t] = handle.recorder \/ shut[got[t]]

InHand(r) ==
  /\ \A i \in DOMAIN queue[r] : Right(r, queue[r][i])
  /\ writing[r] # 0 => Right(r, writing[r])

HandleInv ==
  /\ TypeOK /\ WriterShapes /\ HandleIsNamed
  /\ \A t \in Threads : Inside(t) /\ Equipped(t)
  /\ \A r \in Recorders : InHand(r)
  /\ LockIsHeldInGet /\ OneBusyWriter /\ RightRun
-----------------------------------------------------------------------------
LEMMA InitHolds == Init => HandleInv
<1> SUFFICES ASSUME Init PROVE HandleInv
  OBVIOUS
<1>1. TypeOK /\ WriterShapes
  BY HandleAssumption DEF Init, TypeOK, WriterShapes, Recorders, Range, Getting
<1>2. HandleIsNamed /\ \A t \in Threads : Inside(t) /\ Equipped(t)
  BY DEF Init, HandleIsNamed, Inside, Equipped, Getting
<1>3. (\A r \in Recorders : InHand(r)) /\ LockIsHeldInGet /\ OneBusyWriter /\ RightRun
  BY DEF Init, InHand, LockIsHeldInGet, OneBusyWriter, Busy, RightRun
<1>. QED
  BY <1>1, <1>2, <1>3 DEF HandleInv

(* Making a recorder and emitting a record leave the records at hand as    *)
(* right as they were: a label is given once, before the first record.     *)
LEMMA RightStays ==
  ASSUME emitted \in Nat, made \in Nat, emitted' \in Nat, made' \in Nat,
         emitted <= emitted', made <= made',
         \A id \in 1..emitted : intended'[id] = intended[id],
         NEW r \in Recorders, r <= made => label'[r] = label[r],
         NEW id, Right(r, id)
  PROVE  Right(r, id)'
BY HandleAssumption DEF Right, Recorders

(* What steps keep that change neither the writers nor the records.        *)
LEMMA ThreadsStep ==
  ASSUME HandleInv, UNCHANGED <<writers, history, made>>
  PROVE  WriterShapes' /\ (\A r \in Recorders : InHand(r))' /\ RightRun'
BY DEF HandleInv, WriterShapes, InHand, Right, RightRun, writers, history

LEMMA SwitchKeeps ==
  ASSUME HandleInv, NEW other \in Runs, Switch(other)
  PROVE  HandleInv'
<1>1. WriterShapes' /\ (\A r \in Recorders : InHand(r))' /\ RightRun'
  BY ThreadsStep DEF Switch
<1>2. TypeOK'
  BY HandleAssumption DEF HandleInv, Switch, TypeOK, writers, threads, history
<1>3. HandleIsNamed' /\ LockIsHeldInGet' /\ OneBusyWriter'
  BY DEF HandleInv, Switch, HandleIsNamed, LockIsHeldInGet, OneBusyWriter, Busy,
         writers, threads, history
<1>4. ASSUME NEW t \in Threads PROVE Inside(t)' /\ Equipped(t)'
  <2>1. Inside(t) /\ Equipped(t) /\ owner # t
    BY HandleAssumption DEF HandleInv, Switch
  <2>. QED
    BY <2>1 DEF Switch, Inside, Equipped, writers, threads
<1>. QED
  BY <1>1, <1>2, <1>3, <1>4 DEF HandleInv

-----------------------------------------------------------------------------
(* get(), between two points where another thread may run.                 *)
LEMMA ReturnTypes ==
  ASSUME HandleInv, NEW t \in Threads, NEW r \in Recorders \cup {NoRecorder}, Return(t, r)
  PROVE  /\ got' \in [Threads -> Recorders \cup {NoRecorder}]
         /\ pc' \in [Threads -> {"idle", "tool"} \cup Getting]
         /\ pc'[t] = (IF r = NoRecorder THEN "idle" ELSE "tool") /\ got'[t] = r
         /\ \A u \in Threads : u # t => pc'[u] = pc[u] /\ got'[u] = got[u]
         /\ \A u \in Threads : pc'[u] = "tool" => got'[u] # NoRecorder
         /\ owner' = NoRecorder
BY DEF HandleInv, TypeOK, Return

(* A recorder is made when no other has anything in its hands; threads     *)
(* that still hold an older one find its door shut.                        *)
LEMMA MakeKeeps ==
  ASSUME HandleInv, NEW t \in Threads, Make(t),
         pc[t] \in {"idle", "replace"}, owner \in {t, NoRecorder},
         \A r \in Recorders : ~Busy(r),
         handle.recorder # NoRecorder => shut[handle.recorder],
         wanted' \in [Threads -> Runs], wanted'[t] = run,
         \A u \in Threads : u # t => wanted'[u] = wanted[u],
         UNCHANGED <<env, history>>
  PROVE  HandleInv'
<1>. DEFINE r == made + 1
<1>1. /\ r \in Recorders /\ made' = r /\ made \in Nat /\ r # NoRecorder
      /\ handle' = [handle EXCEPT !.recorder = r, !.run = run]
      /\ label' = [label EXCEPT ![r] = run]
      /\ UNCHANGED <<queue, writing, shut, failed>>
      /\ Return(t, r)
  BY HandleAssumption DEF HandleInv, TypeOK, Make, Recorders
<1>2. /\ handle'.recorder = r /\ handle'.run = run /\ handle'.closed = handle.closed
      /\ handle' \in [recorder : Recorders \cup {NoRecorder}, run : Runs, closed : BOOLEAN]
      /\ label'[r] = run /\ \A q \in Recorders : q <= made => label'[q] = label[q]
      /\ label' \in [Recorders -> Runs]
  <2>1. /\ run \in Runs /\ label \in [Recorders -> Runs]
        /\ handle \in [recorder : Recorders \cup {NoRecorder}, run : Runs, closed : BOOLEAN]
    BY DEF HandleInv, TypeOK
  <2>2. \A q \in Recorders : q <= made => q # r
    BY <1>1 DEF Recorders
  <2>. QED
    BY <1>1, <2>1, <2>2
<1>3. /\ got' \in [Threads -> Recorders \cup {NoRecorder}]
      /\ pc' \in [Threads -> {"idle", "tool"} \cup Getting]
      /\ pc'[t] = "tool" /\ got'[t] = r
      /\ \A u \in Threads : u # t => pc'[u] = pc[u] /\ got'[u] = got[u]
      /\ \A u \in Threads : pc'[u] = "tool" => got'[u] # NoRecorder
      /\ owner' = NoRecorder
  BY <1>1, ReturnTypes
<1>4. TypeOK'
  BY <1>1, <1>2, <1>3 DEF HandleInv, TypeOK, env, history, Recorders
<1>5. WriterShapes' /\ RightRun' /\ OneBusyWriter' /\ HandleIsNamed' /\ LockIsHeldInGet'
  BY <1>1, <1>2, <1>3
     DEF HandleInv, WriterShapes, RightRun, OneBusyWriter, Busy, HandleIsNamed,
         LockIsHeldInGet, history
<1>6. ASSUME NEW q \in Recorders PROVE InHand(q)'
  BY <1>1 DEF Busy, InHand
<1>7. ASSUME NEW u \in Threads PROVE Inside(u)' /\ Equipped(u)'
  <2>1. CASE u = t
    BY <1>1, <1>2, <1>3, <2>1 DEF Inside, Equipped, Getting
  <2>2. CASE u # t
    <3>1. Inside(u) /\ Equipped(u)
      BY DEF HandleInv
    <3>2. pc[u] \notin Getting
      BY HandleAssumption, <2>2, <3>1 DEF Inside
    <3>3. ASSUME pc[u] = "tool" PROVE Equipped(u)'
      <4>1. /\ got[u] \in Recorders /\ got[u] <= made /\ label[got[u]] = wanted[u]
            /\ got[u] = handle.recorder \/ shut[got[u]]
        BY <3>1, <3>3 DEF Equipped, HandleInv, TypeOK
      <4>. QED
        BY <1>1, <1>2, <1>3, <2>2, <4>1 DEF Equipped, Recorders
    <3>. QED
      BY <1>3, <2>2, <3>2, <3>3 DEF Inside, Equipped
  <2>. QED
    BY <2>1, <2>2
<1>. QED
  BY <1>4, <1>5, <1>6, <1>7 DEF HandleInv

LEMMA GetBeginKeeps ==
  ASSUME HandleInv, NEW t \in Threads, GetBegin(t)
  PROVE  HandleInv'
<1>1. /\ pc[t] = "idle" /\ owner = NoRecorder
      /\ wanted' = [wanted EXCEPT ![t] = run] /\ UNCHANGED <<env, history>>
      /\ wanted' \in [Threads -> Runs] /\ wanted'[t] = run
      /\ \A u \in Threads : u # t => wanted'[u] = wanted[u]
  BY DEF HandleInv, TypeOK, GetBegin
<1>2. \A u \in Threads : Inside(u) /\ Equipped(u) /\ pc[u] \notin Getting
  BY HandleAssumption, <1>1 DEF HandleInv, Inside
<1>3. CASE Make(t) /\ handle.recorder = NoRecorder
  <2>1. \A r \in Recorders : ~Busy(r)
    BY HandleAssumption, <1>3 DEF HandleInv, OneBusyWriter, Recorders
  <2>. QED
    BY <1>1, <1>3, <2>1, MakeKeeps
<1>4. ASSUME UNCHANGED <<handle, made, writers>>,
             NEW r \in Recorders \cup {NoRecorder}, Return(t, r),
             r # NoRecorder => ~Stale /\ r = handle.recorder
      PROVE  HandleInv'
  <2>1. /\ got' \in [Threads -> Recorders \cup {NoRecorder}]
        /\ pc' \in [Threads -> {"idle", "tool"} \cup Getting]
        /\ pc'[t] = (IF r = NoRecorder THEN "idle" ELSE "tool") /\ got'[t] = r
        /\ \A u \in Threads : u # t => pc'[u] = pc[u] /\ got'[u] = got[u]
        /\ \A u \in Threads : pc'[u] = "tool" => got'[u] # NoRecorder
        /\ owner' = NoRecorder
    BY <1>4, ReturnTypes
  <2>2. WriterShapes' /\ (\A q \in Recorders : InHand(q))' /\ RightRun'
    BY <1>1, <1>4, ThreadsStep
  <2>3. TypeOK'
    BY <1>1, <1>4, <2>1 DEF HandleInv, TypeOK, env, writers, history
  <2>4. HandleIsNamed' /\ LockIsHeldInGet' /\ OneBusyWriter'
    BY <1>4, <2>1
       DEF HandleInv, HandleIsNamed, LockIsHeldInGet, OneBusyWriter, Busy, writers
  <2>5. ASSUME NEW u \in Threads PROVE Inside(u)' /\ Equipped(u)'
    <3>1. CASE u = t /\ r # NoRecorder
      <4>1. handle.run = run /\ r <= made /\ label[r] = run
        BY <1>4, <3>1 DEF Stale, HandleInv, HandleIsNamed
      <4>. QED
        BY <1>1, <1>4, <2>1, <3>1, <4>1 DEF Inside, Equipped, Getting, writers
    <3>2. CASE u = t /\ r = NoRecorder
      BY <2>1, <3>2 DEF Inside, Equipped, Getting
    <3>3. CASE u # t
      BY <1>1, <1>2, <1>4, <2>1, <3>3 DEF Inside, Equipped, writers
    <3>. QED
      BY <3>1, <3>2, <3>3
  <2>. QED
    BY <2>2, <2>3, <2>4, <2>5 DEF HandleInv
<1>5. CASE /\ Stale /\ owner' = t /\ pc' = [pc EXCEPT ![t] = "shut"]
           /\ UNCHANGED <<got, handle, made, writers>>
  <2>1. WriterShapes' /\ (\A q \in Recorders : InHand(q))' /\ RightRun'
    BY <1>1, <1>5, ThreadsStep
  <2>2. /\ pc' \in [Threads -> {"idle", "tool"} \cup Getting] /\ pc'[t] = "shut"
        /\ \A u \in Threads : u # t => pc'[u] = pc[u]
    BY <1>5 DEF HandleInv, TypeOK, Getting
  <2>3. TypeOK'
    BY <1>1, <1>5, <2>2 DEF HandleInv, TypeOK, env, writers, history
  <2>4. HandleIsNamed' /\ LockIsHeldInGet' /\ OneBusyWriter'
    BY <1>5, <2>2
       DEF HandleInv, HandleIsNamed, LockIsHeldInGet, OneBusyWriter, Busy, writers, Getting
  <2>5. ASSUME NEW u \in Threads PROVE Inside(u)' /\ Equipped(u)'
    BY <1>1, <1>2, <1>5, <2>2 DEF Inside, Equipped, Getting, Stale, writers, env
  <2>. QED
    BY <2>1, <2>3, <2>4, <2>5 DEF HandleInv
<1>6. handle.recorder \in Recorders \cup {NoRecorder}
  BY DEF HandleInv, TypeOK
<1>. QED
  BY <1>3, <1>4, <1>5, <1>6 DEF GetBegin

(* The three sections of close(0) under the lock of the old recorder.      *)
LEMMA CloseKeeps ==
  ASSUME HandleInv, NEW t \in Threads, Shut(t) \/ Look(t)
  PROVE  HandleInv'
<1>1. /\ pc[t] \in {"shut", "look"} /\ owner = t /\ wanted[t] = run
      /\ handle.recorder \in Recorders /\ handle.recorder # NoRecorder
      /\ pc[t] = "look" => shut[handle.recorder]
      /\ UNCHANGED <<env, owner, handle, made, label, queue, writing, failed, got,
                     wanted, history>>
  BY DEF HandleInv, TypeOK, Inside, Getting, Shut, Look, writers
<1>2. PICK to \in {"look", "cancel", "replace"} :
        pc' = [pc EXCEPT ![t] = to] /\ (to = "replace" => ~Busy(handle.recorder))
  BY DEF Shut, Look
<1>3. /\ shut' \in [Recorders -> BOOLEAN] /\ shut'[handle.recorder]
      /\ \A r \in Recorders : shut[r] => shut'[r]
  BY <1>1 DEF HandleInv, TypeOK, Shut, Look, writers
<1>4. /\ pc' \in [Threads -> {"idle", "tool"} \cup Getting] /\ pc'[t] = to
      /\ \A u \in Threads : u # t => pc'[u] = pc[u]
  BY <1>2 DEF HandleInv, TypeOK, Getting
<1>5. TypeOK'
  BY <1>1, <1>3, <1>4 DEF HandleInv, TypeOK, env, history
<1>6. WriterShapes' /\ (\A r \in Recorders : InHand(r))' /\ RightRun'
  BY <1>1 DEF HandleInv, WriterShapes, InHand, Right, RightRun, history
<1>7. HandleIsNamed' /\ LockIsHeldInGet' /\ OneBusyWriter'
  BY <1>1, <1>4
     DEF HandleInv, HandleIsNamed, LockIsHeldInGet, OneBusyWriter, Busy, Getting
<1>8. ASSUME NEW u \in Threads PROVE Inside(u)' /\ Equipped(u)'
  <2>1. Inside(u) /\ Equipped(u) /\ (pc[u] = "tool" => got[u] \in Recorders)
    BY DEF HandleInv, TypeOK
  <2>. QED
    BY <1>1, <1>2, <1>3, <1>4, <2>1 DEF Inside, Equipped, Getting, Busy, env
<1>. QED
  BY <1>5, <1>6, <1>7, <1>8 DEF HandleInv

(* What steps keep that only take records out of the writers' hands.       *)
LEMMA EmptyingKeeps ==
  ASSUME HandleInv, UNCHANGED <<made, label, history>>,
         queue' \in [Recorders -> Seq(Nat)],
         \A q \in Recorders : queue'[q] \in {<<>>, queue[q]},
         \A q \in Recorders : writing'[q] \in {0, writing[q]}
  PROVE  /\ WriterShapes' /\ RightRun' /\ \A q \in Recorders : InHand(q)'
         /\ \A q \in Recorders : Range(queue'[q]) \subseteq 1..emitted
         /\ \A q \in Recorders : Busy(q)' => Busy(q)
<1>1. emitted' = emitted /\ intended' = intended /\ rows' = rows
  BY DEF history
<1>2. WriterShapes' /\ RightRun'
  BY <1>1 DEF HandleInv, WriterShapes, RightRun
<1>3. ASSUME NEW q \in Recorders PROVE InHand(q)'
  <2>1. InHand(q) /\ DOMAIN <<>> = {}
    BY DEF HandleInv
  <2>. QED
    BY <1>1, <2>1 DEF InHand, Right
<1>4. ASSUME NEW q \in Recorders PROVE Range(queue'[q]) \subseteq 1..emitted
  <2>1. Range(queue[q]) \subseteq 1..emitted /\ Range(<<>>) = {}
    BY DEF HandleInv, TypeOK, Range
  <2>. QED
    BY <2>1
<1>5. \A q \in Recorders : Busy(q)' => Busy(q)
  BY DEF Busy
<1>. QED
  BY <1>2, <1>3, <1>4, <1>5

LEMMA CancelKeeps ==
  ASSUME HandleInv, NEW t \in Threads, Cancel(t)
  PROVE  HandleInv'
<1>1. /\ pc[t] = "cancel" /\ owner = t /\ handle.recorder \in Recorders
      /\ queue' = [queue EXCEPT ![handle.recorder] = <<>>] /\ Return(t, NoRecorder)
      /\ UNCHANGED <<env, handle, made, label, writing, shut, failed, wanted, history>>
  BY DEF HandleInv, TypeOK, Inside, Getting, Cancel
<1>2. /\ WriterShapes' /\ RightRun' /\ \A q \in Recorders : InHand(q)'
      /\ \A q \in Recorders : Range(queue'[q]) \subseteq 1..emitted
      /\ \A q \in Recorders : Busy(q)' => Busy(q)
  BY <1>1, EmptyingKeeps DEF HandleInv, WriterShapes
<1>3. /\ got' \in [Threads -> Recorders \cup {NoRecorder}]
      /\ pc' \in [Threads -> {"idle", "tool"} \cup Getting]
      /\ pc'[t] = "idle" /\ \A u \in Threads : u # t => pc'[u] = pc[u] /\ got'[u] = got[u]
      /\ \A u \in Threads : pc'[u] = "tool" => got'[u] # NoRecorder
      /\ owner' = NoRecorder
  BY <1>1, ReturnTypes
<1>4. TypeOK'
  BY <1>1, <1>2, <1>3 DEF HandleInv, TypeOK, env, history
<1>5. ASSUME NEW u \in Threads PROVE Inside(u)' /\ Equipped(u)'
  <2>1. Inside(u) /\ Equipped(u)
    BY DEF HandleInv
  <2>2. u # t => pc[u] \notin Getting
    BY <1>1, <2>1 DEF Inside
  <2>. QED
    BY <1>1, <1>3, <2>1, <2>2 DEF Inside, Equipped, Getting
<1>6. LockIsHeldInGet' /\ HandleIsNamed'
  BY <1>1, <1>3 DEF HandleInv, LockIsHeldInGet, HandleIsNamed
<1>7. OneBusyWriter'
  BY <1>1, <1>2 DEF HandleInv, OneBusyWriter, Busy
<1>. QED
  BY <1>2, <1>4, <1>5, <1>6, <1>7 DEF HandleInv

LEMMA GetKeeps ==
  ASSUME HandleInv, NEW t \in Threads, Get(t)
  PROVE  HandleInv'
<1>1. CASE Replace(t)
  <2>1. /\ pc[t] = "replace" /\ owner = t /\ wanted[t] = run /\ shut[handle.recorder]
        /\ ~Busy(handle.recorder) /\ Make(t) /\ UNCHANGED <<env, wanted, history>>
    BY <1>1 DEF HandleInv, Inside, Getting, Replace
  <2>2. \A r \in Recorders : ~Busy(r)
    BY <2>1 DEF HandleInv, OneBusyWriter
  <2>3. wanted' \in [Threads -> Runs] /\ wanted' = wanted /\ run' = run
    BY <2>1 DEF HandleInv, TypeOK, env
  <2>. QED
    BY <2>1, <2>2, <2>3, MakeKeeps
<1>. QED
  BY <1>1, GetBeginKeeps, CloseKeeps, CancelKeeps DEF Get

-----------------------------------------------------------------------------
(* Tools, writers, close() of the handle, and fork().                      *)
LEMMA EmitKeeps ==
  ASSUME HandleInv, NEW t \in Threads, Emit(t)
  PROVE  HandleInv'
<1>0. pc[t] = "tool" /\ got[t] \in Recorders /\ emitted \in Nat
  BY HandleAssumption DEF HandleInv, TypeOK, Emit
<1>. PICK r \in Recorders, id \in Nat : r = got[t] /\ id = emitted + 1
  BY <1>0
<1>1. /\ pc[t] = "tool" /\ emitted' = id /\ intended' = Append(intended, wanted[t])
      /\ UNCHANGED <<env, owner, handle, made, label, writing, shut, failed, threads, rows>>
      /\ emitted \in Nat /\ id \in 1..MaxRecords /\ wanted[t] \in Runs
      /\ r <= made /\ label[r] = wanted[t]
      /\ made \in Nat /\ label \in [Recorders -> Runs]
      /\ r = handle.recorder \/ shut[r]
  BY <1>0, HandleAssumption DEF HandleInv, TypeOK, Equipped, Emit
<1>2. /\ intended' \in Seq(Runs) /\ Len(intended') = id /\ intended'[id] = wanted[t]
      /\ \A i \in 1..emitted : intended'[i] = intended[i]
  BY <1>1 DEF HandleInv, WriterShapes
<1>3. /\ queue' \in [Recorders -> Seq(Nat)]
      /\ \A q \in Recorders : q # r => queue'[q] = queue[q]
      /\ queue'[r] = queue[r] \/ (queue'[r] = Append(queue[r], id) /\ r = handle.recorder)
  <2>1. queue \in [Recorders -> Seq(Nat)]
    BY DEF HandleInv, WriterShapes
  <2>2. CASE shut[r] \/ failed[r]
    BY <2>1, <2>2 DEF Emit
  <2>3. CASE ~(shut[r] \/ failed[r])
    <3>1. queue' = [queue EXCEPT ![r] = Append(queue[r], id)] /\ r = handle.recorder
      BY <1>1, <2>3 DEF Emit
    <3>2. Append(queue[r], id) \in Seq(Nat)
      BY <2>1
    <3>. QED
      BY <2>1, <3>1, <3>2
  <2>. QED
    BY <2>2, <2>3
<1>4. /\ \A q \in Recorders : \A i : Right(q, i) => Right(q, i)'
      /\ Right(r, id)'
  <2>1. label' = label /\ made' = made
    BY <1>1
  <2>2. \A q \in Recorders : \A i : Right(q, i) => Right(q, i)'
    BY <1>1, <1>2, <2>1, RightStays
  <2>. QED
    BY <1>1, <1>2, <2>2 DEF Right
<1>5. ASSUME NEW q \in Recorders PROVE InHand(q)'
  <2>1. InHand(q) /\ queue[q] \in Seq(Nat)
    BY DEF HandleInv, WriterShapes
  <2>2. ASSUME NEW i \in DOMAIN queue'[q] PROVE  Right(q, queue[q][i])'
    <3>1. CASE queue'[q] = queue[q]
      <4>1. Right(q, queue[q][i]) /\ queue'[q][i] = queue[q][i]
        BY <2>1, <3>1 DEF InHand
      <4>. QED
        BY <1>4, <4>1 DEF Right
    <3>2. CASE q = r /\ queue'[q] = Append(queue[q], id)
      <4>1. \/ i \in DOMAIN queue[q] /\ queue'[q][i] = queue[q][i]
            \/ queue'[q][i] = id
        BY <2>1, <3>2
      <4>. QED
        BY <1>4, <2>1, <3>2, <4>1 DEF InHand, Right
    <3>. QED
      BY <1>3, <3>1, <3>2
  <2>3. writing'[q] # 0 => Right(q, writing[q])'
    BY <1>1, <1>4, <2>1 DEF InHand
  <2>. QED
    BY <1>1, <2>2, <2>3 DEF InHand
<1>6. TypeOK'
  <2>1. \A q \in Recorders : Range(queue'[q]) \subseteq 1..id
    BY <1>1, <1>5 DEF InHand, Right, Range
  <2>2. rows' \subseteq [id : 1..id, run : Runs]
    BY <1>1 DEF HandleInv, TypeOK
  <2>. QED
    BY <1>1, <2>1, <2>2 DEF HandleInv, TypeOK, env, threads
<1>7. RightRun'
  <2>1. \A row \in rows : row.id \in 1..emitted /\ row.run = intended[row.id]
    BY DEF HandleInv, TypeOK, RightRun
  <2>. QED
    BY <1>1, <1>2, <2>1 DEF RightRun
<1>8. WriterShapes' /\ OneBusyWriter' /\ HandleIsNamed' /\ LockIsHeldInGet'
  BY <1>1, <1>2, <1>3
     DEF HandleInv, WriterShapes, OneBusyWriter, Busy, HandleIsNamed, LockIsHeldInGet, threads
<1>9. ASSUME NEW u \in Threads PROVE Inside(u)' /\ Equipped(u)'
  <2>1. Inside(u) /\ Equipped(u)
    BY DEF HandleInv
  <2>2. Equipped(u)'
    BY <1>1, <2>1 DEF Equipped, threads
  <2>3. pc[u] = "replace" => ~Busy(handle.recorder)'
    <3>1. ASSUME pc[u] = "replace" PROVE shut[handle.recorder] /\ ~Busy(handle.recorder)
      BY <2>1, <3>1 DEF Inside, Getting
    <3>2. shut[handle.recorder] => queue'[handle.recorder] = queue[handle.recorder]
      BY <1>1, <1>3 DEF Emit
    <3>. QED
      BY <1>1, <3>1, <3>2 DEF Busy
  <2>. QED
    BY <1>1, <2>1, <2>2, <2>3 DEF Inside, threads, env
<1>. QED
  BY <1>5, <1>6, <1>7, <1>8, <1>9 DEF HandleInv

LEMMA EndToolKeeps ==
  ASSUME HandleInv, NEW t \in Threads, EndTool(t)
  PROVE  HandleInv'
<1>1. /\ pc[t] = "tool" /\ pc' \in [Threads -> {"idle", "tool"} \cup Getting]
      /\ pc'[t] = "idle" /\ \A u \in Threads : u # t => pc'[u] = pc[u]
      /\ UNCHANGED <<env, owner, handle, made, writers, got, wanted, history>>
  BY DEF HandleInv, TypeOK, EndTool
<1>2. WriterShapes' /\ (\A r \in Recorders : InHand(r))' /\ RightRun'
  BY <1>1, ThreadsStep
<1>3. TypeOK'
  BY <1>1 DEF HandleInv, TypeOK, env, writers, history
<1>4. HandleIsNamed' /\ LockIsHeldInGet' /\ OneBusyWriter'
  <2>1. owner \in Threads \cup {NoRecorder}
    BY DEF HandleInv, TypeOK
  <2>. QED
    BY <1>1, <2>1
       DEF HandleInv, HandleIsNamed, LockIsHeldInGet, OneBusyWriter, Busy, writers, Getting
<1>5. ASSUME NEW u \in Threads PROVE Inside(u)' /\ Equipped(u)'
  BY <1>1 DEF HandleInv, Inside, Equipped, Getting, Busy, writers, env
<1>. QED
  BY <1>2, <1>3, <1>4, <1>5 DEF HandleInv

(* What steps keep that leave the threads and the handle alone, shut no    *)
(* less and busy no more.                                                  *)
LEMMA WriterStep ==
  ASSUME HandleInv,
         UNCHANGED <<env, owner, handle, made, label, threads, emitted, intended>>,
         \A r \in Recorders : shut[r] => shut'[r],
         \A r \in Recorders : Busy(r)' => Busy(r)
  PROVE  /\ HandleIsNamed' /\ LockIsHeldInGet' /\ OneBusyWriter'
         /\ \A t \in Threads : Inside(t)' /\ Equipped(t)'
<1>1. HandleIsNamed' /\ LockIsHeldInGet' /\ OneBusyWriter'
  <2>1. HandleIsNamed' /\ LockIsHeldInGet'
    BY DEF HandleInv, HandleIsNamed, LockIsHeldInGet, threads
  <2>2. OneBusyWriter'
    BY DEF HandleInv, OneBusyWriter, Busy
  <2>. QED
    BY <2>1, <2>2
<1>2. handle.recorder \in Recorders \cup {NoRecorder}
  BY DEF HandleInv, TypeOK
<1>3. ASSUME NEW t \in Threads PROVE Inside(t)' /\ Equipped(t)'
  <2>1. Inside(t) /\ Equipped(t) /\ (pc[t] = "tool" => got[t] \in Recorders)
    BY DEF HandleInv, TypeOK
  <2>2. handle.recorder \in Recorders => (Busy(handle.recorder)' => Busy(handle.recorder))
    BY DEF Busy
  <2>. QED
    BY <1>2, <2>1, <2>2 DEF Inside, Equipped, threads, env
<1>. QED
  BY <1>1, <1>3

(* What a writer takes from its queue, or writes, it had in its hands.     *)
LEMMA TakeKeeps ==
  ASSUME HandleInv, NEW r \in Recorders, Take(r)
  PROVE  HandleInv'
<1>1. /\ queue[r] \in Seq(Nat) /\ queue[r] # <<>> /\ writing[r] = 0
      /\ writing' = [writing EXCEPT ![r] = Head(queue[r])]
      /\ queue' = [queue EXCEPT ![r] = Tail(queue[r])]
      /\ UNCHANGED <<env, owner, handle, made, label, shut, failed, threads, history>>
      /\ InHand(r)
  BY DEF HandleInv, WriterShapes, Take
<1>2. /\ queue' \in [Recorders -> Seq(Nat)] /\ queue'[r] = Tail(queue[r])
      /\ \A q \in Recorders : q # r => queue'[q] = queue[q] /\ writing'[q] = writing[q]
      /\ writing'[r] = Head(queue[r])
      /\ Head(queue[r]) = queue[r][1] /\ 1 \in DOMAIN queue[r]
      /\ \A i \in DOMAIN Tail(queue[r]) :
           i + 1 \in DOMAIN queue[r] /\ Tail(queue[r])[i] = queue[r][i + 1]
  BY <1>1 DEF HandleInv, WriterShapes, TypeOK
<1>3. Right(r, Head(queue[r])) /\ \A i \in DOMAIN Tail(queue[r]) : Right(r, Tail(queue[r])[i])
  BY <1>1, <1>2 DEF InHand
<1>4. ASSUME NEW q \in Recorders PROVE InHand(q)'
  <2>1. CASE q = r
    BY <1>1, <1>2, <1>3, <2>1 DEF InHand, Right, history
  <2>2. CASE q # r
    BY <1>1, <1>2, <2>2 DEF HandleInv, InHand, Right, history
  <2>. QED
    BY <2>1, <2>2
<1>5. TypeOK'
  <2>1. \A q \in Recorders : Range(queue'[q]) \subseteq 1..emitted
    <3> SUFFICES ASSUME NEW q \in Recorders, NEW i \in DOMAIN queue'[q]
                 PROVE  queue'[q][i] \in 1..emitted
      BY DEF Range
    <3>1. emitted' = emitted /\ Right(q, queue[q][i])'
      BY <1>1, <1>4 DEF InHand, history
    <3>. QED
      BY <3>1 DEF Right
  <2>2. writing' \in [Recorders -> 0..MaxRecords]
    BY <1>1, <1>3, HandleAssumption DEF HandleInv, TypeOK, Right
  <2>. QED
    BY <1>1, <2>1, <2>2 DEF HandleInv, TypeOK, env, threads, history
<1>6. WriterShapes' /\ RightRun'
  <2>1. intended' = intended /\ emitted' = emitted /\ rows' = rows
    BY <1>1 DEF history
  <2>. QED
    BY <1>2, <2>1 DEF HandleInv, WriterShapes, RightRun
<1>7. /\ HandleIsNamed' /\ LockIsHeldInGet' /\ OneBusyWriter'
      /\ \A t \in Threads : Inside(t)' /\ Equipped(t)'
  BY <1>1, <1>2, WriterStep DEF Busy, history
<1>. QED
  BY <1>4, <1>5, <1>6, <1>7 DEF HandleInv

LEMMA WrittenKeeps ==
  ASSUME HandleInv, NEW r \in Recorders, Written(r)
  PROVE  HandleInv'
<1>1. /\ writing[r] # 0 /\ writing' = [writing EXCEPT ![r] = 0]
      /\ rows' = rows \cup {[id |-> writing[r], run |-> label[r]]}
      /\ UNCHANGED <<env, owner, handle, made, label, queue, shut, failed, threads,
                     emitted, intended>>
      /\ Right(r, writing[r]) /\ label[r] \in Runs
  BY DEF HandleInv, TypeOK, InHand, Written
<1>2. /\ writing' \in [Recorders -> 0..MaxRecords]
      /\ \A q \in Recorders : writing'[q] \in {0, writing[q]}
  BY <1>1, HandleAssumption DEF HandleInv, TypeOK
<1>3. rows' \subseteq [id : 1..emitted, run : Runs] /\ RightRun'
  BY <1>1 DEF HandleInv, TypeOK, RightRun, Right
<1>4. TypeOK' /\ WriterShapes'
  BY <1>1, <1>2, <1>3 DEF HandleInv, TypeOK, WriterShapes, env, threads
<1>5. \A q \in Recorders : InHand(q)'
  BY <1>1, <1>2 DEF HandleInv, InHand, Right
<1>6. /\ HandleIsNamed' /\ LockIsHeldInGet' /\ OneBusyWriter'
      /\ \A t \in Threads : Inside(t)' /\ Equipped(t)'
  BY <1>1, <1>2, WriterStep DEF Busy
<1>. QED
  BY <1>3, <1>4, <1>5, <1>6 DEF HandleInv

LEMMA WriteFailsKeeps ==
  ASSUME HandleInv, NEW r \in Recorders, WriteFails(r)
  PROVE  HandleInv'
<1>1. /\ writing' \in [Recorders -> 0..MaxRecords]
      /\ \A q \in Recorders : writing'[q] \in {0, writing[q]}
      /\ queue' \in [Recorders -> Seq(Nat)]
      /\ \A q \in Recorders : queue'[q] \in {<<>>, queue[q]}
      /\ failed' \in [Recorders -> BOOLEAN]
      /\ UNCHANGED <<env, owner, handle, made, label, shut, threads, history>>
  BY HandleAssumption DEF HandleInv, TypeOK, WriterShapes, WriteFails
<1>2. /\ WriterShapes' /\ RightRun' /\ \A q \in Recorders : InHand(q)'
      /\ \A q \in Recorders : Range(queue'[q]) \subseteq 1..emitted
      /\ \A q \in Recorders : Busy(q)' => Busy(q)
  BY <1>1, EmptyingKeeps
<1>3. TypeOK'
  BY <1>1, <1>2 DEF HandleInv, TypeOK, env, threads, history
<1>4. /\ HandleIsNamed' /\ LockIsHeldInGet' /\ OneBusyWriter'
      /\ \A t \in Threads : Inside(t)' /\ Equipped(t)'
  BY <1>1, <1>2, WriterStep DEF history
<1>. QED
  BY <1>2, <1>3, <1>4 DEF HandleInv

LEMMA CloseHandleKeeps ==
  ASSUME HandleInv, CloseHandle
  PROVE  HandleInv'
<1>1. /\ owner = NoRecorder /\ handle'.recorder = handle.recorder /\ handle'.run = handle.run
      /\ handle' \in [recorder : Recorders \cup {NoRecorder}, run : Runs, closed : BOOLEAN]
      /\ UNCHANGED <<env, owner, made, writers, threads, history>>
  BY DEF HandleInv, TypeOK, CloseHandle
<1>2. WriterShapes' /\ (\A q \in Recorders : InHand(q))' /\ RightRun'
  BY <1>1, ThreadsStep
<1>3. TypeOK'
  BY <1>1 DEF HandleInv, TypeOK, env, writers, threads, history
<1>4. HandleIsNamed' /\ LockIsHeldInGet' /\ OneBusyWriter'
  BY <1>1 DEF HandleInv, HandleIsNamed, LockIsHeldInGet, OneBusyWriter, Busy, writers, threads
<1>5. ASSUME NEW t \in Threads PROVE Inside(t)' /\ Equipped(t)'
  BY <1>1 DEF HandleInv, Inside, Equipped, Busy, writers, threads, env
<1>. QED
  BY <1>2, <1>3, <1>4, <1>5 DEF HandleInv

LEMMA CloseLastKeeps ==
  ASSUME HandleInv, ShutLast \/ CancelLast
  PROVE  HandleInv'
<1>0. /\ handle.recorder \in Recorders
      /\ UNCHANGED <<env, owner, handle, made, label, writing, failed, threads, history>>
  BY DEF HandleInv, TypeOK, ShutLast, CancelLast
<1>1. /\ queue' \in [Recorders -> Seq(Nat)]
      /\ \A q \in Recorders : queue'[q] \in {<<>>, queue[q]}
      /\ shut' \in [Recorders -> BOOLEAN]
      /\ \A q \in Recorders : shut[q] => shut'[q]
  <2>1. queue \in [Recorders -> Seq(Nat)] /\ shut \in [Recorders -> BOOLEAN]
    BY DEF HandleInv, TypeOK, WriterShapes
  <2>2. CASE ShutLast
    BY <1>0, <2>1, <2>2 DEF ShutLast
  <2>3. CASE CancelLast
    BY <1>0, <2>1, <2>3 DEF CancelLast
  <2>. QED
    BY <2>2, <2>3
<1>2. /\ WriterShapes' /\ RightRun' /\ \A q \in Recorders : InHand(q)'
      /\ \A q \in Recorders : Range(queue'[q]) \subseteq 1..emitted
      /\ \A q \in Recorders : Busy(q)' => Busy(q)
  BY <1>0, <1>1, EmptyingKeeps
<1>3. TypeOK'
  BY <1>0, <1>1, <1>2 DEF HandleInv, TypeOK, env, threads, history
<1>4. /\ HandleIsNamed' /\ LockIsHeldInGet' /\ OneBusyWriter'
      /\ \A t \in Threads : Inside(t)' /\ Equipped(t)'
  BY <1>0, <1>1, <1>2, WriterStep DEF history
<1>. QED
  BY <1>2, <1>3, <1>4 DEF HandleInv

(* A child starts with no thread inside get() and nothing in its writers'  *)
(* hands.                                                                  *)
LEMMA ForkKeeps ==
  ASSUME HandleInv, NEW t \in Threads, Fork(t)
  PROVE  HandleInv'
<1>1. /\ owner' = NoRecorder /\ handle'.recorder = NoRecorder
      /\ \A r \in Recorders : queue'[r] = <<>> /\ writing'[r] = 0
      /\ \A u \in Threads : pc'[u] = "idle"
      /\ rows' = {} /\ UNCHANGED <<env, made, label, shut, failed, got, wanted, emitted, intended>>
  BY DEF Fork
<1>2. TypeOK' /\ WriterShapes'
  BY <1>1, HandleAssumption
     DEF HandleInv, TypeOK, WriterShapes, Fork, Range, Getting, env
<1>3. HandleIsNamed' /\ LockIsHeldInGet' /\ OneBusyWriter' /\ RightRun'
  BY <1>1 DEF HandleIsNamed, LockIsHeldInGet, OneBusyWriter, Busy, RightRun
<1>4. (\A u \in Threads : Inside(u)' /\ Equipped(u)') /\ \A r \in Recorders : InHand(r)'
  BY <1>1 DEF Inside, Equipped, InHand, Getting
<1>. QED
  BY <1>2, <1>3, <1>4 DEF HandleInv

-----------------------------------------------------------------------------
LEMMA StepKeeps == HandleInv /\ [Next]_vars => HandleInv'
<1> SUFFICES ASSUME HandleInv, [Next]_vars PROVE HandleInv'
  OBVIOUS
<1>1. ASSUME NEW other \in Runs, Switch(other) PROVE HandleInv'
  BY <1>1, SwitchKeeps
<1>2. ASSUME NEW t \in Threads, Get(t) \/ Emit(t) \/ EndTool(t) \/ Fork(t) PROVE HandleInv'
  BY <1>2, GetKeeps, EmitKeeps, EndToolKeeps, ForkKeeps
<1>3. ASSUME NEW r \in Recorders, Writer(r) \/ WriteFails(r) PROVE HandleInv'
  BY <1>3, TakeKeeps, WrittenKeeps, WriteFailsKeeps DEF Writer
<1>4. CASE CloseHandle \/ ShutLast \/ CancelLast
  BY <1>4, CloseHandleKeeps, CloseLastKeeps
<1>5. CASE UNCHANGED vars
  <2>1. UNCHANGED <<env, owner, handle, made, writers, threads, history>>
    BY <1>5 DEF vars
  <2>2. TypeOK' /\ WriterShapes' /\ RightRun' /\ \A q \in Recorders : InHand(q)'
    BY <2>1 DEF HandleInv, TypeOK, WriterShapes, RightRun, InHand, Right, env, writers,
                threads, history
  <2>3. /\ HandleIsNamed' /\ LockIsHeldInGet' /\ OneBusyWriter'
        /\ \A t \in Threads : Inside(t)' /\ Equipped(t)'
    BY <2>1, WriterStep DEF Busy, writers, history
  <2>. QED
    BY <2>2, <2>3 DEF HandleInv
<1>. QED
  BY <1>1, <1>2, <1>3, <1>4, <1>5 DEF Next

LEMMA HandleInvariant == Spec => []HandleInv
BY InitHolds, StepKeeps, PTL DEF Spec

(* HandleStaysUsable for every number of threads, Runs and recorders: a    *)
(* later get() finds the lock free or a holder that will free it, in a     *)
(* forked child too, and one writer at most is busy however often the Run  *)
(* changes while storage is stuck.                                         *)
THEOREM UsableForGood == Spec => []HandleStaysUsable
<1>1. HandleInv => HandleStaysUsable
  BY DEF HandleInv, HandleStaysUsable
<1>. QED
  BY <1>1, HandleInvariant, PTL

(* RightRun for every number of them: a record is labelled with the Run    *)
(* that its tool asked for, whatever other threads' get() calls do to the  *)
(* recorder meanwhile.                                                     *)
THEOREM LabelledRight == Spec => []RightRun
<1>1. HandleInv => RightRun
  BY DEF HandleInv
<1>. QED
  BY <1>1, HandleInvariant, PTL

-----------------------------------------------------------------------------
(* HTTP requests.  A subprocess that lives is of a thread's request or on  *)
(* the list, and a thread that has passed the check found all on the list  *)
(* gone: those on the list and those that may come are counted together.   *)
Alive(w) == worker[w] \in {"serving", "hung", "killed"}
ThreadsOf(p) == {t \in Transport!Requesters : Transport!Of(t) = p}
Passed(p) == {t \in ThreadsOf(p) : at[t] \in {"start", "communicate", "append", "appending"}}
Unclaimed(p) ==
  {w \in 1..MaxWorkers : Alive(w) /\ parentOf[w] = p /\ \A t \in Transport!Requesters : mine[t] # w}

(* Who holds a lock of a process frees it next.                            *)
LockInv ==
  /\ own["parent"] /\ (up = {"parent"} => ~own["child"])
  /\ \A t \in Transport!Requesters : at[t] # "idle" => own[Transport!Of(t)]
  /\ \A t \in Transport!Requesters :
       at[t] \in {"checking", "appending"} => lock[Transport!Of(t)] = t
  /\ \A p \in Transport!Processes : own[p] /\ lock[p] # "free" =>
       Transport!Of(lock[p]) = p /\ at[lock[p]] \in {"checking", "appending"}

(* Where the subprocesses are.                                             *)
ClaimInv ==
  /\ \A t \in Transport!Requesters :
       mine[t] # 0 <=> at[t] \in {"communicate", "append", "appending"}
  /\ \A t \in Transport!Requesters :
       mine[t] # 0 => worker[mine[t]] # "unborn" /\ parentOf[mine[t]] = Transport!Of(t)
  /\ \A w \in 1..MaxWorkers : Alive(w) => own[parentOf[w]]
  /\ \A p \in Transport!Processes : own[p] => Unclaimed(p) \subseteq listed[p]

CountInv ==
  \A p \in Transport!Processes :
    Cardinality(Unclaimed(p)) + Cardinality(Passed(p)) <= Cardinality(ThreadsOf(p))

TransportInv == Transport!TypeOK /\ LockInv /\ ClaimInv /\ CountInv

LEMMA FiniteThreads ==
  /\ IsFiniteSet(Transport!Requesters)
  /\ \A p : /\ IsFiniteSet(ThreadsOf(p)) /\ Cardinality(ThreadsOf(p)) \in Nat
            /\ IsFiniteSet(Passed(p)) /\ Cardinality(Passed(p)) \in Nat
            /\ Cardinality(Passed(p)) <= Cardinality(ThreadsOf(p))
            /\ IsFiniteSet(Unclaimed(p)) /\ Cardinality(Unclaimed(p)) \in Nat
<1>1. IsFiniteSet(Transport!Requesters)
  BY SubsystemsAssumption, FS_AddElement DEF Transport!Requesters
<1>2. IsFiniteSet(1..MaxWorkers)
  <2>. 1 \in Int /\ MaxWorkers \in Int
    BY SubsystemsAssumption
  <2>. QED
    BY FS_Interval
<1>. SUFFICES ASSUME NEW p
              PROVE  /\ IsFiniteSet(ThreadsOf(p)) /\ Cardinality(ThreadsOf(p)) \in Nat
                     /\ IsFiniteSet(Passed(p)) /\ Cardinality(Passed(p)) \in Nat
                     /\ Cardinality(Passed(p)) <= Cardinality(ThreadsOf(p))
                     /\ IsFiniteSet(Unclaimed(p)) /\ Cardinality(Unclaimed(p)) \in Nat
  BY <1>1
<1>3. ThreadsOf(p) \in SUBSET Transport!Requesters /\ Passed(p) \in SUBSET ThreadsOf(p)
  BY DEF ThreadsOf, Passed
<1>4. Unclaimed(p) \in SUBSET (1..MaxWorkers)
  BY DEF Unclaimed
<1>5. IsFiniteSet(ThreadsOf(p)) /\ IsFiniteSet(Unclaimed(p))
  BY <1>1, <1>2, <1>3, <1>4, FS_Subset
<1>6. IsFiniteSet(Passed(p)) /\ Cardinality(Passed(p)) <= Cardinality(ThreadsOf(p))
  BY <1>3, <1>5, FS_Subset
<1>. QED
  BY <1>5, <1>6, FS_CardinalityType

LEMMA FewerUnclaimed ==
  ASSUME TransportInv, NEW p \in Transport!Processes,
         Unclaimed(p)' \subseteq Unclaimed(p), Passed(p)' \subseteq Passed(p)
  PROVE  Cardinality(Unclaimed(p)') + Cardinality(Passed(p)') <= Cardinality(ThreadsOf(p))
<1>1. /\ IsFiniteSet(Unclaimed(p)) /\ IsFiniteSet(Passed(p))
      /\ Cardinality(Unclaimed(p)) \in Nat /\ Cardinality(Passed(p)) \in Nat
      /\ Cardinality(ThreadsOf(p)) \in Nat
  BY FiniteThreads
<1>2. Cardinality(Unclaimed(p)') <= Cardinality(Unclaimed(p)) /\ IsFiniteSet(Unclaimed(p)')
  BY <1>1, FS_Subset
<1>3. Cardinality(Passed(p)') <= Cardinality(Passed(p)) /\ IsFiniteSet(Passed(p)')
  BY <1>1, FS_Subset
<1>4. Cardinality(Unclaimed(p)') \in Nat /\ Cardinality(Passed(p)') \in Nat
  BY <1>2, <1>3, FS_CardinalityType
<1>5. Cardinality(Unclaimed(p)) + Cardinality(Passed(p)) <= Cardinality(ThreadsOf(p))
  BY DEF TransportInv, CountInv
<1>. QED
  BY <1>1, <1>2, <1>3, <1>4, <1>5

LEMMA TransportTypes ==
  ASSUME TransportInv, Transport!Next
  PROVE  Transport!TypeOK'
<1> USE DEF Transport!Workers, Transport!Nobody
<1>0. /\ up \subseteq Transport!Processes
      /\ lock \in [Transport!Processes -> Transport!Requesters \cup {"free"}]
      /\ listed \in [Transport!Processes -> SUBSET (1..MaxWorkers)]
      /\ own \in [Transport!Processes -> BOOLEAN]
      /\ at \in [Transport!Requesters -> {"idle", "check", "checking", "start", "communicate",
                                          "append", "appending"}]
      /\ mine \in [Transport!Requesters -> 0..MaxWorkers]
      /\ worker \in [1..MaxWorkers -> {"unborn", "serving", "hung", "killed", "gone"}]
      /\ parentOf \in [1..MaxWorkers -> Transport!Processes]
      /\ MaxWorkers \in Nat /\ 0 \in 0..MaxWorkers
  BY SubsystemsAssumption DEF TransportInv, Transport!TypeOK
<1>1. \A t : Transport!Of(t) \in Transport!Processes
  BY DEF Transport!Of, Transport!Processes
<1>2. ASSUME NEW t \in Transport!Requesters, Transport!Call(t) PROVE Transport!TypeOK'
  <2>1. up' = up /\ parentOf' = parentOf /\ mine' = mine /\ worker' = worker
    BY <1>2 DEF Transport!Call, Transport!process
  <2>2. /\ lock' \in [Transport!Processes -> Transport!Requesters \cup {"free"}]
        /\ listed' \in [Transport!Processes -> SUBSET (1..MaxWorkers)]
        /\ own' \in [Transport!Processes -> BOOLEAN]
    BY <1>0, <1>1, <1>2 DEF Transport!Call
  <2>3. at' \in [Transport!Requesters -> {"idle", "check", "checking", "start", "communicate",
                                          "append", "appending"}]
    BY <1>0, <1>2 DEF Transport!Call, Transport!Goes
  <2>. QED
    BY <1>0, <2>1, <2>2, <2>3 DEF Transport!TypeOK
<1>3. ASSUME NEW t \in Transport!Requesters, Transport!Acquire(t) PROVE Transport!TypeOK'
  BY <1>0, <1>1, <1>3 DEF Transport!Acquire, Transport!Goes, Transport!process, Transport!TypeOK
<1>4. ASSUME NEW t \in Transport!Requesters, Transport!Checked(t) PROVE Transport!TypeOK'
  BY <1>0, <1>1, <1>4 DEF Transport!Checked, Transport!Goes, Transport!process, Transport!TypeOK
<1>5. ASSUME NEW t \in Transport!Requesters, Transport!Popen(t) PROVE Transport!TypeOK'
  BY <1>0, <1>1, <1>5 DEF Transport!Popen, Transport!Goes, Transport!TypeOK
<1>6. ASSUME NEW t \in Transport!Requesters, Transport!PopenFails(t) PROVE Transport!TypeOK'
  BY <1>0, <1>6 DEF Transport!PopenFails, Transport!Goes, Transport!process, Transport!TypeOK
<1>7. ASSUME NEW t \in Transport!Requesters, Transport!Stop(t) PROVE Transport!TypeOK'
  <2>1. /\ up' = up /\ parentOf' = parentOf /\ lock' = lock /\ listed' = listed /\ own' = own
        /\ worker' \in {[worker EXCEPT ![mine[t]] = "killed"], [worker EXCEPT ![mine[t]] = "gone"]}
        /\ mine' \in {mine, [mine EXCEPT ![t] = 0]}
        /\ at' \in {[at EXCEPT ![t] = "append"], [at EXCEPT ![t] = "idle"]}
    BY <1>7 DEF Transport!Stop, Transport!Goes, Transport!process
  <2>2. worker' \in [1..MaxWorkers -> {"unborn", "serving", "hung", "killed", "gone"}]
    BY <1>0, <2>1
  <2>3. mine' \in [Transport!Requesters -> 0..MaxWorkers]
    BY <1>0, <2>1
  <2>. QED
    BY <1>0, <2>1, <2>2, <2>3 DEF Transport!TypeOK
<1>8. ASSUME NEW t \in Transport!Requesters, Transport!Appended(t) PROVE Transport!TypeOK'
  <2>1. mine[t] \in 1..MaxWorkers
    BY <1>0, <1>8 DEF Transport!Appended, TransportInv, ClaimInv
  <2>. QED
    BY <1>0, <1>1, <1>8, <2>1 DEF Transport!Appended, Transport!Goes, Transport!process, Transport!TypeOK
<1>9. CASE Transport!Fork
  BY <1>0, <1>9 DEF Transport!Fork, Transport!Processes, Transport!TypeOK
<1>10. ASSUME NEW w \in 1..MaxWorkers, Transport!Subprocess(w) PROVE Transport!TypeOK'
  <2>1. PICK to \in {"gone", "hung", "serving"} : Transport!Becomes(w, to)
    BY <1>10 DEF Transport!Subprocess, Transport!Exit, Transport!Hang, Transport!Wake, Transport!Reap
  <2>. QED
    BY <1>0, <2>1 DEF Transport!Becomes, Transport!TypeOK
<1>. QED
  BY <1>2, <1>3, <1>4, <1>5, <1>6, <1>7, <1>8, <1>9, <1>10
     DEF Transport!Next, Transport!Request

LEMMA LockKept ==
  ASSUME TransportInv, Transport!Next
  PROVE  LockInv'
<1>0. /\ up \subseteq Transport!Processes
      /\ lock \in [Transport!Processes -> Transport!Requesters \cup {"free"}]
      /\ own \in [Transport!Processes -> BOOLEAN]
      /\ at \in [Transport!Requesters -> {"idle", "check", "checking", "start", "communicate",
                                          "append", "appending"}]
  BY DEF TransportInv, Transport!TypeOK
<1>1. /\ own["parent"] /\ (up = {"parent"} => ~own["child"])
      /\ \A t \in Transport!Requesters : at[t] # "idle" => own[Transport!Of(t)]
      /\ \A t \in Transport!Requesters :
           at[t] \in {"checking", "appending"} => lock[Transport!Of(t)] = t
      /\ \A p \in Transport!Processes : own[p] /\ lock[p] # "free" =>
           Transport!Of(lock[p]) = p /\ at[lock[p]] \in {"checking", "appending"}
  BY DEF TransportInv, LockInv
<1>2. /\ \A t : Transport!Of(t) \in Transport!Processes
      /\ \A p \in Transport!Processes : p \in {"parent", "child"}
      /\ "parent" \in Transport!Processes /\ "child" \in Transport!Processes
  BY DEF Transport!Of, Transport!Processes
<1>3. "free" \notin Transport!Requesters
  BY SubsystemsAssumption DEF Transport!Requesters
(* A thread that neither takes nor gives up the lock.                      *)
<1>4. ASSUME NEW t \in Transport!Requesters, NEW to,
             up' = up, lock' = lock, own' = own, at' = [at EXCEPT ![t] = to],
             at[t] \notin {"idle", "checking", "appending"},
             to \notin {"checking", "appending"}
      PROVE  LockInv'
  BY <1>0, <1>1, <1>2, <1>4 DEF LockInv
(* One that gives it up.                                                   *)
<1>5. ASSUME NEW t \in Transport!Requesters, NEW to,
             up' = up, lock' = [lock EXCEPT ![Transport!Of(t)] = "free"], own' = own,
             at' = [at EXCEPT ![t] = to], at[t] \in {"checking", "appending"},
             to \notin {"checking", "appending"}
      PROVE  LockInv'
  <2>1. lock[Transport!Of(t)] = t /\ own[Transport!Of(t)]
    BY <1>1, <1>5
  <2>2. ASSUME NEW s \in Transport!Requesters, at'[s] \in {"checking", "appending"}
        PROVE  lock'[Transport!Of(s)] = s
    <3>1. s # t /\ lock[Transport!Of(s)] = s
      BY <1>0, <1>1, <1>5, <2>2
    <3>. QED
      BY <1>0, <1>2, <1>5, <2>1, <3>1
  <2>3. ASSUME NEW p \in Transport!Processes, own'[p], lock'[p] # "free"
        PROVE  Transport!Of(lock'[p]) = p /\ at'[lock'[p]] \in {"checking", "appending"}
    <3>1. p # Transport!Of(t) /\ lock'[p] = lock[p]
      BY <1>0, <1>2, <1>5, <2>3
    <3>2. Transport!Of(lock[p]) = p /\ at[lock[p]] \in {"checking", "appending"} /\ lock[p] # t
      BY <1>1, <1>5, <2>3, <3>1
    <3>3. lock[p] \in Transport!Requesters
      BY <1>0, <2>3, <3>1
    <3>. QED
      BY <1>0, <1>5, <3>1, <3>2, <3>3
  <2>. QED
    BY <1>0, <1>1, <1>5, <2>1, <2>2, <2>3 DEF LockInv
<1>6. ASSUME NEW t \in Transport!Requesters, Transport!Call(t) PROVE LockInv'
  <2>1. /\ up' = up /\ at[t] = "idle" /\ Transport!Of(t) \in up
        /\ lock' = [lock EXCEPT ![Transport!Of(t)] = IF own[Transport!Of(t)] THEN @ ELSE "free"]
        /\ own' = [own EXCEPT ![Transport!Of(t)] = TRUE]
        /\ at' = [at EXCEPT ![t] = "check"]
    BY <1>6 DEF Transport!Call, Transport!Goes, Transport!process
  <2>2. ASSUME NEW s \in Transport!Requesters, at'[s] \in {"checking", "appending"}
        PROVE  lock'[Transport!Of(s)] = s
    <3>1. s # t /\ own[Transport!Of(s)] /\ lock[Transport!Of(s)] = s
      BY <1>0, <1>1, <2>1, <2>2
    <3>. QED
      BY <1>0, <1>2, <2>1, <3>1
  <2>3. ASSUME NEW p \in Transport!Processes, own'[p], lock'[p] # "free"
        PROVE  Transport!Of(lock'[p]) = p /\ at'[lock'[p]] \in {"checking", "appending"}
    <3>1. own[p] /\ lock'[p] = lock[p]
      BY <1>0, <1>2, <2>1, <2>3
    <3>2. Transport!Of(lock[p]) = p /\ at[lock[p]] \in {"checking", "appending"} /\ lock[p] # t
      BY <1>1, <2>1, <2>3, <3>1
    <3>3. lock[p] \in Transport!Requesters
      BY <1>0, <2>3, <3>1
    <3>. QED
      BY <1>0, <2>1, <3>1, <3>2, <3>3
  <2>4. \A s \in Transport!Requesters : at'[s] # "idle" => own'[Transport!Of(s)]
    BY <1>0, <1>1, <1>2, <2>1
  <2>5. own'["parent"] /\ (up' = {"parent"} => ~own'["child"])
    BY <1>0, <1>1, <1>2, <2>1
  <2>. QED
    BY <2>2, <2>3, <2>4, <2>5 DEF LockInv
<1>7. ASSUME NEW t \in Transport!Requesters, Transport!Acquire(t) PROVE LockInv'
  <2>1. PICK to \in {"checking", "appending"} :
          /\ up' = up /\ own' = own /\ lock[Transport!Of(t)] = "free"
          /\ at[t] \in {"check", "append"} /\ at' = [at EXCEPT ![t] = to]
          /\ lock' = [lock EXCEPT ![Transport!Of(t)] = t]
    BY <1>7 DEF Transport!Acquire, Transport!Goes, Transport!process
  <2>2. ASSUME NEW s \in Transport!Requesters, at'[s] \in {"checking", "appending"}
        PROVE  lock'[Transport!Of(s)] = s
    <3>1. CASE s = t
      BY <1>0, <1>2, <2>1, <3>1
    <3>2. CASE s # t
      <4>1. lock[Transport!Of(s)] = s
        BY <1>0, <1>1, <2>1, <2>2, <3>2
      <4>2. Transport!Of(s) # Transport!Of(t)
        BY <1>3, <2>1, <4>1
      <4>. QED
        BY <1>0, <1>2, <2>1, <4>1, <4>2
    <3>. QED
      BY <3>1, <3>2
  <2>3. ASSUME NEW p \in Transport!Processes, own'[p], lock'[p] # "free"
        PROVE  Transport!Of(lock'[p]) = p /\ at'[lock'[p]] \in {"checking", "appending"}
    <3>1. CASE p = Transport!Of(t)
      BY <1>0, <2>1, <3>1
    <3>2. CASE p # Transport!Of(t)
      <4>1. lock'[p] = lock[p] /\ own[p]
        BY <1>0, <1>2, <2>1, <2>3, <3>2
      <4>2. Transport!Of(lock[p]) = p /\ at[lock[p]] \in {"checking", "appending"}
        BY <1>1, <2>3, <4>1
      <4>3. lock[p] \in Transport!Requesters
        BY <1>0, <2>3, <4>1
      <4>. QED
        BY <1>0, <2>1, <4>1, <4>2, <4>3
    <3>. QED
      BY <3>1, <3>2
  <2>4. \A s \in Transport!Requesters : at'[s] # "idle" => own'[Transport!Of(s)]
    BY <1>0, <1>1, <2>1
  <2>. QED
    BY <1>1, <2>1, <2>2, <2>3, <2>4 DEF LockInv
<1>8. ASSUME NEW t \in Transport!Requesters, Transport!Checked(t) PROVE LockInv'
  <2>1. PICK to \in {"idle", "start"} :
          /\ up' = up /\ own' = own /\ at[t] = "checking" /\ at' = [at EXCEPT ![t] = to]
          /\ lock' = [lock EXCEPT ![Transport!Of(t)] = "free"]
    BY <1>8 DEF Transport!Checked, Transport!Goes, Transport!process
  <2>. QED
    BY <1>5, <2>1
<1>9. ASSUME NEW t \in Transport!Requesters, Transport!Popen(t) PROVE LockInv'
  <2>1. /\ up' = up /\ lock' = lock /\ own' = own
        /\ at[t] = "start" /\ at' = [at EXCEPT ![t] = "communicate"]
    BY <1>9 DEF Transport!Popen, Transport!Goes
  <2>. QED
    BY <1>4, <2>1
<1>10. ASSUME NEW t \in Transport!Requesters, Transport!PopenFails(t) PROVE LockInv'
  BY <1>4, <1>10 DEF Transport!PopenFails, Transport!Goes, Transport!process
<1>11. ASSUME NEW t \in Transport!Requesters, Transport!Stop(t) PROVE LockInv'
  BY <1>4, <1>11 DEF Transport!Stop, Transport!Goes, Transport!process
<1>12. ASSUME NEW t \in Transport!Requesters, Transport!Appended(t) PROVE LockInv'
  BY <1>5, <1>12 DEF Transport!Appended, Transport!Goes, Transport!process
<1>13. CASE Transport!Fork
  <2>1. /\ up = {"parent"} /\ up' = Transport!Processes /\ own' = own /\ at' = at
        /\ lock' = [lock EXCEPT !["child"] = lock["parent"]]
    BY <1>13 DEF Transport!Fork
  <2>2. ~own["child"] /\ up' # {"parent"}
    BY <1>1, <2>1 DEF Transport!Processes
  <2>3. \A t \in Transport!Requesters : at[t] \in {"checking", "appending"} =>
          Transport!Of(t) = "parent"
    BY <1>1, <1>2, <2>2
  <2>. QED
    BY <1>0, <1>1, <1>2, <2>1, <2>2, <2>3 DEF LockInv
<1>14. ASSUME NEW w \in 1..MaxWorkers, Transport!Subprocess(w) PROVE LockInv'
  <2>1. up' = up /\ lock' = lock /\ own' = own /\ at' = at
    BY <1>14 DEF Transport!Subprocess, Transport!Exit, Transport!Hang, Transport!Wake,
       Transport!Reap, Transport!Becomes
  <2>. QED
    BY <1>1, <2>1 DEF LockInv
<1>. QED
  BY <1>6, <1>7, <1>8, <1>9, <1>10, <1>11, <1>12, <1>13, <1>14
     DEF Transport!Next, Transport!Request, Transport!Workers

LEMMA ClaimKept ==
  ASSUME TransportInv, Transport!Next, Transport!TypeOK'
  PROVE  ClaimInv'
<1> USE DEF Transport!Workers, Transport!Nobody
<1>0. /\ listed \in [Transport!Processes -> SUBSET (1..MaxWorkers)]
      /\ own \in [Transport!Processes -> BOOLEAN]
      /\ at \in [Transport!Requesters -> {"idle", "check", "checking", "start", "communicate",
                                          "append", "appending"}]
      /\ mine \in [Transport!Requesters -> 0..MaxWorkers]
      /\ worker \in [1..MaxWorkers -> {"unborn", "serving", "hung", "killed", "gone"}]
      /\ parentOf \in [1..MaxWorkers -> Transport!Processes]
      /\ MaxWorkers \in Nat
  BY SubsystemsAssumption DEF TransportInv, Transport!TypeOK
<1>1. /\ \A t \in Transport!Requesters :
           mine[t] # 0 <=> at[t] \in {"communicate", "append", "appending"}
      /\ \A t \in Transport!Requesters :
           mine[t] # 0 => worker[mine[t]] # "unborn" /\ parentOf[mine[t]] = Transport!Of(t)
      /\ \A w \in 1..MaxWorkers : Alive(w) => own[parentOf[w]]
      /\ \A p \in Transport!Processes : own[p] => Unclaimed(p) \subseteq listed[p]
  BY DEF TransportInv, ClaimInv
<1>2. /\ \A t : Transport!Of(t) \in Transport!Processes
      /\ \A t \in Transport!Requesters : mine[t] # 0 => mine[t] \in 1..MaxWorkers
      /\ \A t \in Transport!Requesters : at[t] # "idle" => own[Transport!Of(t)]
  BY <1>0 DEF TransportInv, LockInv, Transport!Of, Transport!Processes
(* The subprocesses stay as they are, and the list loses dead ones only.   *)
<1>3. ASSUME NEW t \in Transport!Requesters, NEW to,
             mine' = mine, worker' = worker, parentOf' = parentOf,
             at' = [at EXCEPT ![t] = to],
             at[t] \in {"communicate", "append", "appending"}
               <=> to \in {"communicate", "append", "appending"},
             \A p \in Transport!Processes : own[p] => own'[p],
             \A p \in Transport!Processes : own'[p] /\ ~own[p] => Unclaimed(p) = {},
             \A p \in Transport!Processes : own[p] =>
               \A w \in listed[p] : worker[w] # "gone" => w \in listed'[p]
      PROVE  ClaimInv'
  <2>1. \A w \in 1..MaxWorkers : Alive(w)' <=> Alive(w)
    BY <1>3 DEF Alive
  <2>2. \A p : Unclaimed(p)' = Unclaimed(p)
    BY <1>3, <2>1 DEF Unclaimed
  <2>3. ASSUME NEW p \in Transport!Processes, own'[p], NEW w \in Unclaimed(p)
        PROVE  w \in listed'[p]
    <3>1. own[p] /\ w \in listed[p]
      BY <1>0, <1>1, <1>3, <2>3
    <3>2. worker[w] # "gone"
      BY DEF Unclaimed, Alive
    <3>. QED
      BY <1>3, <3>1, <3>2
  <2>4. \A s \in Transport!Requesters :
          mine'[s] # 0 <=> at'[s] \in {"communicate", "append", "appending"}
    BY <1>0, <1>1, <1>3
  <2>5. \A s \in Transport!Requesters :
          mine'[s] # 0 => worker'[mine'[s]] # "unborn" /\ parentOf'[mine'[s]] = Transport!Of(s)
    BY <1>1, <1>3
  <2>6. \A w \in 1..MaxWorkers : Alive(w)' => own'[parentOf'[w]]
    BY <1>0, <1>1, <1>3, <2>1
  <2>. QED
    BY <2>2, <2>3, <2>4, <2>5, <2>6 DEF ClaimInv
<1>4. ASSUME NEW p \in Transport!Processes, ~own[p] PROVE Unclaimed(p) = {}
  BY <1>1, <1>4 DEF Unclaimed
<1>5. ASSUME NEW t \in Transport!Requesters, Transport!Call(t) PROVE ClaimInv'
  <2>1. /\ mine' = mine /\ worker' = worker /\ parentOf' = parentOf
        /\ at[t] = "idle" /\ at' = [at EXCEPT ![t] = "check"]
        /\ listed' = [listed EXCEPT ![Transport!Of(t)] = IF own[Transport!Of(t)] THEN @ ELSE {}]
        /\ own' = [own EXCEPT ![Transport!Of(t)] = TRUE]
    BY <1>5 DEF Transport!Call, Transport!Goes, Transport!process
  <2>2. \A p \in Transport!Processes : own[p] => own'[p] /\ listed'[p] = listed[p]
    BY <1>0, <1>2, <2>1
  <2>. QED
    BY <1>3, <1>4, <2>1, <2>2
<1>6. ASSUME NEW t \in Transport!Requesters, Transport!Acquire(t) PROVE ClaimInv'
  <2>1. /\ mine' = mine /\ worker' = worker /\ parentOf' = parentOf
        /\ listed' = listed /\ own' = own
    BY <1>6 DEF Transport!Acquire, Transport!process
  <2>2. \/ at[t] = "check" /\ at' = [at EXCEPT ![t] = "checking"]
        \/ at[t] = "append" /\ at' = [at EXCEPT ![t] = "appending"]
    BY <1>6 DEF Transport!Acquire, Transport!Goes
  <2>. QED
    BY <1>3, <2>1, <2>2
<1>7. ASSUME NEW t \in Transport!Requesters, Transport!Checked(t) PROVE ClaimInv'
  <2>1. PICK to \in {"idle", "start"} :
          /\ mine' = mine /\ worker' = worker /\ parentOf' = parentOf /\ own' = own
          /\ at[t] = "checking" /\ at' = [at EXCEPT ![t] = to]
          /\ listed' = [listed EXCEPT ![Transport!Of(t)] = {w \in @ : worker[w] # "gone"}]
    BY <1>7 DEF Transport!Checked, Transport!Goes, Transport!Exited, Transport!process
  <2>2. \A p \in Transport!Processes : \A w \in listed[p] : worker[w] # "gone" => w \in listed'[p]
    BY <1>0, <1>2, <2>1
  <2>. QED
    BY <1>3, <2>1, <2>2
<1>8. ASSUME NEW t \in Transport!Requesters, Transport!PopenFails(t) PROVE ClaimInv'
  <2>1. /\ mine' = mine /\ worker' = worker /\ parentOf' = parentOf
        /\ listed' = listed /\ own' = own /\ at[t] = "start" /\ at' = [at EXCEPT ![t] = "idle"]
    BY <1>8 DEF Transport!PopenFails, Transport!Goes, Transport!process
  <2>. QED
    BY <1>3, <2>1
<1>9. ASSUME NEW t \in Transport!Requesters, Transport!Popen(t) PROVE ClaimInv'
  <2>1. PICK w \in 1..MaxWorkers :
          /\ worker[w] = "unborn" /\ worker' = [worker EXCEPT ![w] = "serving"]
          /\ parentOf' = [parentOf EXCEPT ![w] = Transport!Of(t)]
          /\ mine' = [mine EXCEPT ![t] = w]
    BY <1>9 DEF Transport!Popen
  <2>2. /\ at[t] = "start" /\ at' = [at EXCEPT ![t] = "communicate"]
        /\ listed' = listed /\ own' = own
    BY <1>9 DEF Transport!Popen, Transport!Goes
  <2>3. mine[t] = 0 /\ own[Transport!Of(t)]
    BY <1>1, <1>2, <2>2
  <2>4. \A s \in Transport!Requesters : s # t => mine'[s] = mine[s] /\ mine[s] # w
    <3>1. w # 0
      BY <1>0
    <3>2. \A s \in Transport!Requesters : mine[s] # w
      BY <1>1, <2>1, <3>1
    <3>. QED
      BY <1>0, <2>1, <3>2
  <2>5. \A v \in 1..MaxWorkers : v # w => (Alive(v)' <=> Alive(v)) /\ parentOf'[v] = parentOf[v]
    BY <1>0, <2>1 DEF Alive
  <2>6. \A p : Unclaimed(p)' \subseteq Unclaimed(p)
    BY <1>0, <2>1, <2>3, <2>4, <2>5 DEF Unclaimed
  <2>7. \A s \in Transport!Requesters :
          mine'[s] # 0 <=> at'[s] \in {"communicate", "append", "appending"}
    BY <1>0, <1>1, <2>1, <2>2, <2>4
  <2>8. ASSUME NEW s \in Transport!Requesters, mine'[s] # 0
        PROVE  worker'[mine'[s]] # "unborn" /\ parentOf'[mine'[s]] = Transport!Of(s)
    <3>1. CASE s = t
      BY <1>0, <2>1, <3>1
    <3>2. CASE s # t
      <4>1. mine'[s] = mine[s] /\ mine[s] # w /\ mine[s] \in 1..MaxWorkers
        BY <1>2, <2>4, <2>8, <3>2
      <4>2. worker[mine[s]] # "unborn" /\ parentOf[mine[s]] = Transport!Of(s)
        BY <1>1, <2>8, <4>1
      <4>. QED
        BY <1>0, <2>1, <4>1, <4>2
    <3>. QED
      BY <3>1, <3>2
  <2>9. \A v \in 1..MaxWorkers : Alive(v)' => own'[parentOf'[v]]
    BY <1>0, <1>1, <2>1, <2>2, <2>3, <2>5
  <2>10. \A p \in Transport!Processes : own'[p] => Unclaimed(p)' \subseteq listed'[p]
    BY <1>1, <2>2, <2>6
  <2>. QED
    BY <2>7, <2>8, <2>9, <2>10 DEF ClaimInv
<1>10. ASSUME NEW t \in Transport!Requesters, Transport!Stop(t) PROVE ClaimInv'
  <2>0. /\ at[t] = "communicate" /\ mine[t] \in 1..MaxWorkers
        /\ listed' = listed /\ own' = own /\ parentOf' = parentOf
    BY <1>1, <1>2, <1>10 DEF Transport!Stop, Transport!process
  <2>1. CASE worker[mine[t]] \in {"hung", "killed"}
    <3>1. worker' = [worker EXCEPT ![mine[t]] = "killed"] /\ mine' = mine
          /\ at' = [at EXCEPT ![t] = "append"]
      BY <1>10, <2>1 DEF Transport!Stop, Transport!Goes
    <3>2. \A w \in 1..MaxWorkers :
            (Alive(w)' <=> Alive(w)) /\ (worker[w] # "unborn" => worker'[w] # "unborn")
      BY <1>0, <2>0, <2>1, <3>1 DEF Alive
    <3>3. \A p : Unclaimed(p)' = Unclaimed(p)
      BY <2>0, <3>1, <3>2 DEF Unclaimed
    <3>4. \A s \in Transport!Requesters :
            mine'[s] # 0 <=> at'[s] \in {"communicate", "append", "appending"}
      BY <1>0, <1>1, <2>0, <3>1
    <3>. QED
      BY <1>1, <1>2, <2>0, <3>1, <3>2, <3>3, <3>4 DEF ClaimInv
  <2>2. CASE worker[mine[t]] \notin {"hung", "killed"}
    <3>1. worker' = [worker EXCEPT ![mine[t]] = "gone"] /\ mine' = [mine EXCEPT ![t] = 0]
          /\ at' = [at EXCEPT ![t] = "idle"]
      BY <1>10, <2>2 DEF Transport!Stop, Transport!Goes
    <3>2. \A w \in 1..MaxWorkers :
            /\ Alive(w)' => Alive(w) /\ w # mine[t]
            /\ worker[w] # "unborn" => worker'[w] # "unborn"
      BY <1>0, <2>0, <3>1 DEF Alive
    <3>3. \A p : Unclaimed(p)' \subseteq Unclaimed(p)
      BY <1>0, <2>0, <3>1, <3>2 DEF Unclaimed
    <3>4. \A s \in Transport!Requesters :
            mine'[s] # 0 <=> at'[s] \in {"communicate", "append", "appending"}
      BY <1>0, <1>1, <2>0, <3>1
    <3>5. \A s \in Transport!Requesters : mine'[s] # 0 => mine'[s] = mine[s]
      BY <1>0, <3>1
    <3>. QED
      BY <1>1, <1>2, <2>0, <3>2, <3>3, <3>4, <3>5 DEF ClaimInv
  <2>. QED
    BY <2>1, <2>2
<1>11. ASSUME NEW t \in Transport!Requesters, Transport!Appended(t) PROVE ClaimInv'
  <2>1. /\ at[t] = "appending" /\ at' = [at EXCEPT ![t] = "idle"]
        /\ listed' = [listed EXCEPT ![Transport!Of(t)] = @ \cup {mine[t]}]
        /\ mine' = [mine EXCEPT ![t] = 0]
        /\ own' = own /\ worker' = worker /\ parentOf' = parentOf
    BY <1>11 DEF Transport!Appended, Transport!Goes, Transport!process
  <2>2. mine[t] \in 1..MaxWorkers /\ parentOf[mine[t]] = Transport!Of(t)
    BY <1>1, <1>2, <2>1
  <2>3. \A w \in 1..MaxWorkers : Alive(w)' <=> Alive(w)
    BY <2>1 DEF Alive
  <2>4. ASSUME NEW p \in Transport!Processes, own'[p], NEW w \in Unclaimed(p)'
        PROVE  w \in listed'[p]
    <3>1. w \in 1..MaxWorkers /\ Alive(w) /\ parentOf[w] = p
          /\ \A s \in Transport!Requesters : mine'[s] # w
      BY <2>1, <2>3 DEF Unclaimed
    <3>2. CASE w = mine[t]
      BY <1>0, <1>2, <2>1, <2>2, <3>1, <3>2
    <3>3. CASE w # mine[t]
      <4>1. \A s \in Transport!Requesters : mine[s] # w
        BY <1>0, <2>1, <3>1, <3>3
      <4>2. w \in Unclaimed(p)
        BY <3>1, <4>1 DEF Unclaimed
      <4>3. w \in listed[p]
        BY <1>1, <2>1, <2>4, <4>2
      <4>. QED
        BY <1>0, <1>2, <2>1, <4>3
    <3>. QED
      BY <3>2, <3>3
  <2>5. \A s \in Transport!Requesters :
          mine'[s] # 0 <=> at'[s] \in {"communicate", "append", "appending"}
    BY <1>0, <1>1, <2>1
  <2>6. \A s \in Transport!Requesters : mine'[s] # 0 => mine'[s] = mine[s]
    BY <1>0, <2>1
  <2>. QED
    BY <1>1, <2>1, <2>3, <2>4, <2>5, <2>6 DEF ClaimInv
<1>12. CASE Transport!Fork
  <2>1. /\ up = {"parent"} /\ own' = own /\ at' = at /\ mine' = mine /\ worker' = worker
        /\ parentOf' = parentOf /\ listed' = [listed EXCEPT !["child"] = listed["parent"]]
    BY <1>12 DEF Transport!Fork
  <2>2. ~own["child"]
    BY <2>1 DEF TransportInv, LockInv
  <2>3. \A p \in Transport!Processes : own[p] => listed'[p] = listed[p]
    BY <1>0, <2>1, <2>2
  <2>4. \A w \in 1..MaxWorkers : Alive(w)' <=> Alive(w)
    BY <2>1 DEF Alive
  <2>5. \A p : Unclaimed(p)' = Unclaimed(p)
    BY <2>1, <2>4 DEF Unclaimed
  <2>. QED
    BY <1>1, <2>1, <2>3, <2>4, <2>5 DEF ClaimInv
<1>13. ASSUME NEW w \in 1..MaxWorkers, Transport!Subprocess(w) PROVE ClaimInv'
  <2>1. PICK to \in {"gone", "hung", "serving"} : Alive(w) /\ Transport!Becomes(w, to)
    BY <1>13 DEF Transport!Subprocess, Transport!Exit, Transport!Hang, Transport!Wake,
       Transport!Reap, Alive
  <2>2. /\ worker' = [worker EXCEPT ![w] = to] /\ listed' = listed /\ own' = own /\ at' = at
        /\ mine' = mine /\ parentOf' = parentOf
    BY <2>1 DEF Transport!Becomes
  <2>3. \A v \in 1..MaxWorkers :
          (Alive(v)' => Alive(v)) /\ (worker[v] # "unborn" => worker'[v] # "unborn")
    BY <1>0, <2>1, <2>2 DEF Alive
  <2>4. \A p : Unclaimed(p)' \subseteq Unclaimed(p)
    BY <2>2, <2>3 DEF Unclaimed
  <2>. QED
    BY <1>1, <1>2, <2>2, <2>3, <2>4 DEF ClaimInv
<1>. QED
  BY <1>5, <1>6, <1>7, <1>8, <1>9, <1>10, <1>11, <1>12, <1>13
     DEF Transport!Next, Transport!Request

LEMMA CountKept ==
  ASSUME TransportInv, Transport!Next, Transport!TypeOK'
  PROVE  CountInv'
<1> USE DEF Transport!Workers, Transport!Nobody
<1>0. /\ at \in [Transport!Requesters -> {"idle", "check", "checking", "start", "communicate",
                                          "append", "appending"}]
      /\ mine \in [Transport!Requesters -> 0..MaxWorkers]
      /\ worker \in [1..MaxWorkers -> {"unborn", "serving", "hung", "killed", "gone"}]
      /\ parentOf \in [1..MaxWorkers -> Transport!Processes]
      /\ MaxWorkers \in Nat
  BY SubsystemsAssumption DEF TransportInv, Transport!TypeOK
<1>1. /\ \A t \in Transport!Requesters :
           mine[t] # 0 <=> at[t] \in {"communicate", "append", "appending"}
      /\ \A t \in Transport!Requesters : at[t] # "idle" => own[Transport!Of(t)]
      /\ \A p \in Transport!Processes : own[p] => Unclaimed(p) \subseteq listed[p]
      /\ \A t \in Transport!Requesters : mine[t] # 0 => mine[t] \in 1..MaxWorkers
      /\ \A t : Transport!Of(t) \in Transport!Processes
  BY <1>0 DEF TransportInv, ClaimInv, LockInv, Transport!Of, Transport!Processes
<1>2. ASSUME \A p \in Transport!Processes :
               Unclaimed(p)' \subseteq Unclaimed(p) /\ Passed(p)' \subseteq Passed(p)
      PROVE  CountInv'
  BY <1>2, FewerUnclaimed DEF CountInv, ThreadsOf
(* The subprocesses stay, and the thread is counted as it was, or no more. *)
<1>3. ASSUME NEW t \in Transport!Requesters, NEW to,
             mine' = mine, worker' = worker, parentOf' = parentOf,
             at' = [at EXCEPT ![t] = to],
             to \in {"start", "communicate", "append", "appending"}
               => at[t] \in {"start", "communicate", "append", "appending"}
      PROVE  CountInv'
  <2>1. \A w \in 1..MaxWorkers : Alive(w)' <=> Alive(w)
    BY <1>3 DEF Alive
  <2>2. \A p : Unclaimed(p)' \subseteq Unclaimed(p)
    BY <1>3, <2>1 DEF Unclaimed
  <2>3. \A p : Passed(p)' \subseteq Passed(p)
    BY <1>0, <1>3 DEF Passed, ThreadsOf
  <2>. QED
    BY <1>2, <2>2, <2>3
<1>4. ASSUME NEW t \in Transport!Requesters, Transport!Call(t) PROVE CountInv'
  <2>1. /\ mine' = mine /\ worker' = worker /\ parentOf' = parentOf
        /\ at' = [at EXCEPT ![t] = "check"]
    BY <1>4 DEF Transport!Call, Transport!Goes, Transport!process
  <2>. QED
    BY <1>3, <2>1
<1>5. ASSUME NEW t \in Transport!Requesters, Transport!Acquire(t) PROVE CountInv'
  <2>1. mine' = mine /\ worker' = worker /\ parentOf' = parentOf
    BY <1>5 DEF Transport!Acquire, Transport!process
  <2>2. \/ at[t] = "check" /\ at' = [at EXCEPT ![t] = "checking"]
        \/ at[t] = "append" /\ at' = [at EXCEPT ![t] = "appending"]
    BY <1>5 DEF Transport!Acquire, Transport!Goes
  <2>. QED
    BY <1>3, <2>1, <2>2
<1>6. ASSUME NEW t \in Transport!Requesters, Transport!PopenFails(t) PROVE CountInv'
  <2>1. /\ mine' = mine /\ worker' = worker /\ parentOf' = parentOf
        /\ at' = [at EXCEPT ![t] = "idle"]
    BY <1>6 DEF Transport!PopenFails, Transport!Goes, Transport!process
  <2>. QED
    BY <1>3, <2>1
(* Who passes the check has seen that nothing on the list lives.           *)
<1>7. ASSUME NEW t \in Transport!Requesters, Transport!Checked(t) PROVE CountInv'
  <2>1. /\ mine' = mine /\ worker' = worker /\ parentOf' = parentOf /\ at[t] = "checking"
    BY <1>7 DEF Transport!Checked, Transport!process
  <2>2. CASE Transport!Refused(t)
    <3>1. at' = [at EXCEPT ![t] = "idle"]
      BY <1>7, <2>2 DEF Transport!Checked, Transport!Goes
    <3>. QED
      BY <1>3, <2>1, <3>1
  <2>3. CASE ~Transport!Refused(t)
    <3>1. at' = [at EXCEPT ![t] = "start"]
      BY <1>7, <2>3 DEF Transport!Checked, Transport!Goes
    <3>2. \A w \in 1..MaxWorkers : Alive(w)' <=> Alive(w)
      BY <2>1 DEF Alive
    <3>3. \A p : Unclaimed(p)' = Unclaimed(p)
      BY <2>1, <3>2 DEF Unclaimed
    <3>4. Unclaimed(Transport!Of(t)) = {}
      <4>1. own[Transport!Of(t)]
        BY <1>1, <2>1
      <4>2. \A w \in listed[Transport!Of(t)] : worker[w] = "gone"
        BY <2>3 DEF Transport!Refused, Transport!Exited
      <4>. QED
        BY <1>1, <4>1, <4>2 DEF Unclaimed, Alive
    <3>5. ASSUME NEW p \in Transport!Processes
          PROVE  Cardinality(Unclaimed(p)') + Cardinality(Passed(p)') <= Cardinality(ThreadsOf(p))
      <4>1. CASE p = Transport!Of(t)
        <5>1. Cardinality(Unclaimed(p)') = 0
          BY <3>3, <3>4, <4>1, FS_EmptySet
        <5>2. Passed(p)' \in SUBSET ThreadsOf(p)
          BY DEF Passed, ThreadsOf
        <5>3. Cardinality(Passed(p)') <= Cardinality(ThreadsOf(p)) /\ IsFiniteSet(Passed(p)')
          BY <5>2, FiniteThreads, FS_Subset
        <5>4. Cardinality(Passed(p)') \in Nat
          BY <5>3, FS_CardinalityType
        <5>. QED
          BY <5>1, <5>3, <5>4, FiniteThreads
      <4>2. CASE p # Transport!Of(t)
        <5>1. Passed(p)' = Passed(p)
          BY <1>0, <3>1, <4>2 DEF Passed, ThreadsOf
        <5>. QED
          BY <3>3, <5>1, FewerUnclaimed
      <4>. QED
        BY <4>1, <4>2
    <3>. QED
      BY <3>5 DEF CountInv, ThreadsOf
  <2>. QED
    BY <2>2, <2>3
<1>8. ASSUME NEW t \in Transport!Requesters, Transport!Popen(t) PROVE CountInv'
  <2>1. PICK w \in 1..MaxWorkers :
          /\ worker[w] = "unborn" /\ worker' = [worker EXCEPT ![w] = "serving"]
          /\ parentOf' = [parentOf EXCEPT ![w] = Transport!Of(t)]
          /\ mine' = [mine EXCEPT ![t] = w]
    BY <1>8 DEF Transport!Popen
  <2>2. at[t] = "start" /\ at' = [at EXCEPT ![t] = "communicate"]
    BY <1>8 DEF Transport!Popen, Transport!Goes
  <2>3. mine[t] = 0
    BY <1>1, <2>2
  <2>4. \A v \in 1..MaxWorkers : v # w => (Alive(v)' <=> Alive(v)) /\ parentOf'[v] = parentOf[v]
    BY <1>0, <2>1 DEF Alive
  <2>5. \A s \in Transport!Requesters : mine[s] \in 1..MaxWorkers => mine'[s] = mine[s]
    BY <1>0, <2>1, <2>3
  <2>6. \A p : Unclaimed(p)' \subseteq Unclaimed(p)
    BY <1>0, <2>1, <2>4, <2>5 DEF Unclaimed
  <2>7. \A p : Passed(p)' \subseteq Passed(p)
    BY <1>0, <2>2 DEF Passed, ThreadsOf
  <2>. QED
    BY <1>2, <2>6, <2>7
<1>9. ASSUME NEW t \in Transport!Requesters, Transport!Stop(t) PROVE CountInv'
  <2>0. /\ at[t] = "communicate" /\ mine[t] \in 1..MaxWorkers /\ parentOf' = parentOf
    BY <1>1, <1>9 DEF Transport!Stop, Transport!process
  <2>1. at' \in {[at EXCEPT ![t] = "append"], [at EXCEPT ![t] = "idle"]}
    BY <1>9 DEF Transport!Stop, Transport!Goes
  <2>2. \A p : Passed(p)' \subseteq Passed(p)
    BY <1>0, <2>0, <2>1 DEF Passed, ThreadsOf
  <2>3. CASE worker[mine[t]] \in {"hung", "killed"}
    <3>1. worker' = [worker EXCEPT ![mine[t]] = "killed"] /\ mine' = mine
      BY <1>9, <2>3 DEF Transport!Stop
    <3>2. \A w \in 1..MaxWorkers : Alive(w)' <=> Alive(w)
      BY <1>0, <2>0, <2>3, <3>1 DEF Alive
    <3>3. \A p : Unclaimed(p)' \subseteq Unclaimed(p)
      BY <2>0, <3>1, <3>2 DEF Unclaimed
    <3>. QED
      BY <1>2, <2>2, <3>3
  <2>4. CASE worker[mine[t]] \notin {"hung", "killed"}
    <3>1. worker' = [worker EXCEPT ![mine[t]] = "gone"] /\ mine' = [mine EXCEPT ![t] = 0]
      BY <1>9, <2>4 DEF Transport!Stop
    <3>2. \A w \in 1..MaxWorkers : Alive(w)' => Alive(w) /\ w # mine[t]
      BY <1>0, <2>0, <3>1 DEF Alive
    <3>3. \A p : Unclaimed(p)' \subseteq Unclaimed(p)
      BY <1>0, <2>0, <3>1, <3>2 DEF Unclaimed
    <3>. QED
      BY <1>2, <2>2, <3>3
  <2>. QED
    BY <2>3, <2>4
(* The subprocess goes over from its thread to the list.                   *)
<1>10. ASSUME NEW t \in Transport!Requesters, Transport!Appended(t) PROVE CountInv'
  <2>1. /\ at[t] = "appending" /\ at' = [at EXCEPT ![t] = "idle"]
        /\ mine' = [mine EXCEPT ![t] = 0] /\ worker' = worker /\ parentOf' = parentOf
    BY <1>10 DEF Transport!Appended, Transport!Goes, Transport!process
  <2>2. mine[t] \in 1..MaxWorkers /\ parentOf[mine[t]] = Transport!Of(t)
    BY <1>1, <2>1 DEF TransportInv, ClaimInv
  <2>3. \A w \in 1..MaxWorkers : Alive(w)' <=> Alive(w)
    BY <2>1 DEF Alive
  <2>4. ASSUME NEW p PROVE Unclaimed(p)' \subseteq Unclaimed(p) \cup {mine[t]}
    BY <1>0, <2>1, <2>3 DEF Unclaimed
  <2>5. ASSUME NEW p, p # Transport!Of(t) PROVE Unclaimed(p)' \subseteq Unclaimed(p)
    BY <2>1, <2>2, <2>4, <2>5 DEF Unclaimed
  <2>6. ASSUME NEW p PROVE Passed(p)' \subseteq Passed(p) \ {t}
    BY <1>0, <2>1 DEF Passed, ThreadsOf
  <2>7. ASSUME NEW p \in Transport!Processes
        PROVE  Cardinality(Unclaimed(p)') + Cardinality(Passed(p)') <= Cardinality(ThreadsOf(p))
    <3>1. CASE p # Transport!Of(t)
      BY <2>5, <2>6, <3>1, FewerUnclaimed
    <3>2. CASE p = Transport!Of(t)
      <4>0. /\ IsFiniteSet(Unclaimed(p)) /\ IsFiniteSet(Passed(p))
            /\ Cardinality(Unclaimed(p)) \in Nat /\ Cardinality(Passed(p)) \in Nat
            /\ Cardinality(ThreadsOf(p)) \in Nat
        BY FiniteThreads
      <4>1. t \in Passed(p)
        BY <2>1, <3>2 DEF Passed, ThreadsOf
      <4>2. IsFiniteSet(Passed(p) \ {t}) /\ Cardinality(Passed(p) \ {t}) = Cardinality(Passed(p)) - 1
        BY <4>0, <4>1, FS_RemoveElement
      <4>3. /\ IsFiniteSet(Unclaimed(p) \cup {mine[t]})
            /\ Cardinality(Unclaimed(p) \cup {mine[t]}) <= Cardinality(Unclaimed(p)) + 1
            /\ Cardinality(Unclaimed(p) \cup {mine[t]}) \in Nat
        <5>1. /\ IsFiniteSet(Unclaimed(p) \cup {mine[t]})
              /\ Cardinality(Unclaimed(p) \cup {mine[t]}) =
                   IF mine[t] \in Unclaimed(p) THEN Cardinality(Unclaimed(p))
                                               ELSE Cardinality(Unclaimed(p)) + 1
          BY <4>0, FS_AddElement
        <5>. QED
          BY <4>0, <5>1
      <4>4. /\ IsFiniteSet(Passed(p)') /\ Cardinality(Passed(p)') <= Cardinality(Passed(p)) - 1
        BY <2>6, <4>2, FS_Subset
      <4>5. /\ IsFiniteSet(Unclaimed(p)')
            /\ Cardinality(Unclaimed(p)') <= Cardinality(Unclaimed(p) \cup {mine[t]})
        BY <2>4, <4>3, FS_Subset
      <4>6. Cardinality(Unclaimed(p)') \in Nat /\ Cardinality(Passed(p)') \in Nat
        BY <4>4, <4>5, FS_CardinalityType
      <4>7. Cardinality(Unclaimed(p)) + Cardinality(Passed(p)) <= Cardinality(ThreadsOf(p))
        BY DEF TransportInv, CountInv
      <4>. QED
        BY <4>0, <4>3, <4>4, <4>5, <4>6, <4>7
    <3>. QED
      BY <3>1, <3>2
  <2>. QED
    BY <2>7 DEF CountInv, ThreadsOf
<1>11. CASE Transport!Fork
  <2>1. at' = at /\ mine' = mine /\ worker' = worker /\ parentOf' = parentOf
    BY <1>11 DEF Transport!Fork
  <2>2. \A w \in 1..MaxWorkers : Alive(w)' <=> Alive(w)
    BY <2>1 DEF Alive
  <2>3. \A p : Unclaimed(p)' = Unclaimed(p) /\ Passed(p)' = Passed(p)
    BY <2>1, <2>2 DEF Unclaimed, Passed, ThreadsOf
  <2>. QED
    BY <1>2, <2>3
<1>12. ASSUME NEW w \in 1..MaxWorkers, Transport!Subprocess(w) PROVE CountInv'
  <2>1. PICK to \in {"gone", "hung", "serving"} : Alive(w) /\ Transport!Becomes(w, to)
    BY <1>12 DEF Transport!Subprocess, Transport!Exit, Transport!Hang, Transport!Wake,
       Transport!Reap, Alive
  <2>2. worker' = [worker EXCEPT ![w] = to] /\ at' = at /\ mine' = mine /\ parentOf' = parentOf
    BY <2>1 DEF Transport!Becomes
  <2>3. \A v \in 1..MaxWorkers : Alive(v)' => Alive(v)
    BY <1>0, <2>1, <2>2 DEF Alive
  <2>4. \A p : Unclaimed(p)' \subseteq Unclaimed(p) /\ Passed(p)' \subseteq Passed(p)
    BY <2>2, <2>3 DEF Unclaimed, Passed, ThreadsOf
  <2>. QED
    BY <1>2, <2>4
<1>. QED
  BY <1>4, <1>5, <1>6, <1>7, <1>8, <1>9, <1>10, <1>11, <1>12
     DEF Transport!Next, Transport!Request

LEMMA TransportKept == ASSUME TransportInv, Transport!Next PROVE TransportInv'
  BY TransportTypes, LockKept, ClaimKept, CountKept DEF TransportInv

LEMMA ImageIsNoLarger ==
  ASSUME NEW S, IsFiniteSet(S), NEW f
  PROVE  /\ IsFiniteSet({f[x] : x \in S})
         /\ Cardinality({f[x] : x \in S}) <= Cardinality(S)
<1> DEFINE g == [x \in S |-> f[x]]
           T == {f[x] : x \in S}
<1>1. g \in Surjection(S, T)
  BY DEF Surjection
<1>. HIDE DEF g, T
<1>2. IsFiniteSet(T) /\ Cardinality(T) <= Cardinality(S)
  BY <1>1, FS_Surjection
<1>. QED
  BY <1>2 DEF T

LEMMA SameCardinality ==
  \A S : Transport!Cardinality(S) = Cardinality(S) /\ Profiler!Cardinality(S) = Cardinality(S)
  BY DEF Transport!Cardinality, Profiler!Cardinality, Cardinality

LEMMA BoundedTransport == ASSUME TransportInv PROVE Transport!TransportIsBounded
<1>1. ASSUME NEW p \in Transport!Processes
      PROVE  Cardinality({w \in 1..MaxWorkers : parentOf[w] = p /\ Alive(w)})
               <= Cardinality(ThreadsOf(p))
  <2> DEFINE claimed == {mine[t] : t \in Passed(p)}
             living == {w \in 1..MaxWorkers : parentOf[w] = p /\ Alive(w)}
  <2>0. /\ IsFiniteSet(Unclaimed(p)) /\ IsFiniteSet(Passed(p))
        /\ Cardinality(Unclaimed(p)) \in Nat /\ Cardinality(Passed(p)) \in Nat
        /\ Cardinality(ThreadsOf(p)) \in Nat
    BY FiniteThreads
  <2>1. IsFiniteSet(claimed) /\ Cardinality(claimed) <= Cardinality(Passed(p))
    BY <2>0, ImageIsNoLarger
  <2>2. ASSUME NEW w \in living, w \notin Unclaimed(p) PROVE w \in claimed
    <3>1. PICK t \in Transport!Requesters : mine[t] = w
      BY <2>2 DEF Unclaimed
    <3>2. w # 0
      BY SubsystemsAssumption
    <3>3. /\ at[t] \in {"communicate", "append", "appending"}
          /\ parentOf[w] = Transport!Of(t)
      BY <3>1, <3>2 DEF TransportInv, ClaimInv
    <3>4. t \in Passed(p)
      BY <3>3 DEF Passed, ThreadsOf
    <3>. QED
      BY <3>1, <3>4
  <2>. HIDE DEF claimed, living
  <2>3. living \in SUBSET (Unclaimed(p) \cup claimed)
    BY <2>2
  <2>4. /\ IsFiniteSet(Unclaimed(p) \cup claimed)
        /\ Cardinality(Unclaimed(p) \cup claimed) =
             Cardinality(Unclaimed(p)) + Cardinality(claimed) - Cardinality(Unclaimed(p) \cap claimed)
    BY <2>0, <2>1, FS_Union
  <2>5. IsFiniteSet(Unclaimed(p) \cap claimed)
    <3>1. Unclaimed(p) \cap claimed \in SUBSET claimed
      OBVIOUS
    <3>. QED
      BY <2>1, <3>1, FS_Subset
  <2>6. IsFiniteSet(living) /\ Cardinality(living) <= Cardinality(Unclaimed(p) \cup claimed)
    BY <2>3, <2>4, FS_Subset
  <2>7. /\ Cardinality(living) \in Nat /\ Cardinality(claimed) \in Nat
        /\ Cardinality(Unclaimed(p) \cap claimed) \in Nat
    BY <2>1, <2>5, <2>6, FS_CardinalityType
  <2>8. Cardinality(Unclaimed(p)) + Cardinality(Passed(p)) <= Cardinality(ThreadsOf(p))
    BY DEF TransportInv, CountInv
  <2>9. Cardinality(living) <= Cardinality(ThreadsOf(p))
    BY <2>0, <2>1, <2>4, <2>6, <2>7, <2>8
  <2>. QED
    BY <2>9 DEF living
<1>2. Transport!LivingAreBounded
  <2> SUFFICES ASSUME NEW p \in Transport!Processes
               PROVE  Cardinality({w \in 1..MaxWorkers :
                                     parentOf[w] = p /\ worker[w] \in {"serving", "hung", "killed"}})
                        <= Cardinality({t \in Transport!Requesters : Transport!Of(t) = p})
    BY SameCardinality DEF Transport!LivingAreBounded, Transport!Workers
  <2>. QED
    BY <1>1 DEF Alive, ThreadsOf
<1>3. Transport!NobodyHoldsUp
  <2> SUFFICES ASSUME NEW t \in Transport!Requesters, at[t] \in {"check", "append"},
                      lock[Transport!Of(t)] # "free"
               PROVE  /\ Transport!Of(lock[Transport!Of(t)]) = Transport!Of(t)
                      /\ at[lock[Transport!Of(t)]] \in {"checking", "appending"}
    BY DEF Transport!NobodyHoldsUp
  <2>. QED
    BY DEF TransportInv, LockInv, Transport!Of, Transport!Processes
<1>. QED
  BY <1>2, <1>3 DEF Transport!TransportIsBounded

-----------------------------------------------------------------------------
(* Triggered profiling.  Who is past the first look holds the lock, and a  *)
(* hook that has not gone is the holder's.  An attempt is remembered, and  *)
(* its time kept, before its hook is started.                              *)
Running(a) == hook[a] \in {"running", "killed"}

ProfilerInv ==
  /\ Profiler!TypeOK
  /\ looked \in [Askers -> 0..MaxClock]
  /\ hooks \in Seq([key : Keys, at : 0..MaxClock])
  /\ \A a \in Askers : place[a] # "out" <=> holder = a
  /\ \A a \in Askers : Running(a) => place[a] = "hook"
  /\ Len(hooks) <= attempts
  /\ \A i \in DOMAIN hooks : hooks[i].key \in seen /\ last # MaxClock + 1 /\ hooks[i].at <= last
  /\ \A i, j \in DOMAIN hooks : i < j => /\ hooks[i].key # hooks[j].key
                                         /\ hooks[j].at - hooks[i].at >= Cooldown

LEMMA ProfilerKept ==
  ASSUME ProfilerInv, Profiler!Next
  PROVE  ProfilerInv'
<1>0. /\ clock \in 0..MaxClock /\ holder \in Askers \cup {"free"}
      /\ seen \subseteq Keys /\ attempts \in 0..Attempts /\ last \in 0..(MaxClock + 1)
      /\ place \in [Askers -> {"out", "in", "hook"}] /\ wants \in [Askers -> Keys]
      /\ hook \in [Askers -> {"none", "running", "killed", "gone"}]
      /\ looked \in [Askers -> 0..MaxClock]
      /\ hooks \in Seq([key : Keys, at : 0..MaxClock])
      /\ MaxClock \in Nat /\ Attempts \in Nat /\ Cooldown \in Nat /\ "free" \notin Askers
  BY SubsystemsAssumption DEF ProfilerInv, Profiler!TypeOK, Profiler!Never
<1>1. /\ \A a \in Askers : place[a] # "out" <=> holder = a
      /\ \A a \in Askers : Running(a) => place[a] = "hook"
      /\ Len(hooks) <= attempts
      /\ \A i \in DOMAIN hooks : hooks[i].key \in seen /\ last # MaxClock + 1 /\ hooks[i].at <= last
      /\ \A i, j \in DOMAIN hooks : i < j => /\ hooks[i].key # hooks[j].key
                                             /\ hooks[j].at - hooks[i].at >= Cooldown
  BY DEF ProfilerInv
<1>2. CASE Profiler!Tick
  <2>1. /\ clock' \in 0..MaxClock
        /\ holder' = holder /\ seen' = seen /\ attempts' = attempts /\ last' = last
        /\ place' = place /\ wants' = wants /\ looked' = looked /\ hook' = hook /\ hooks' = hooks
    BY <1>0, <1>2 DEF Profiler!Tick, Profiler!controller, Profiler!asker
  <2>2. Profiler!TypeOK'
    BY <1>0, <2>1 DEF Profiler!TypeOK, Profiler!Never
  <2>. QED
    BY <1>0, <1>1, <2>1, <2>2 DEF ProfilerInv, Running
<1>3. ASSUME NEW a \in Askers, NEW key \in Keys, Profiler!Ask(a, key) PROVE ProfilerInv'
  <2>1. /\ place[a] = "out" /\ holder = "free" /\ holder' = a
        /\ place' = [place EXCEPT ![a] = "in"] /\ wants' = [wants EXCEPT ![a] = key]
        /\ looked' = [looked EXCEPT ![a] = clock]
        /\ clock' = clock /\ seen' = seen /\ attempts' = attempts /\ last' = last
        /\ hook' = hook /\ hooks' = hooks
    BY <1>3 DEF Profiler!Ask
  <2>2. Profiler!TypeOK' /\ looked' \in [Askers -> 0..MaxClock]
    BY <1>0, <2>1 DEF Profiler!TypeOK, Profiler!Never
  <2>3. \A b \in Askers : place'[b] # "out" <=> holder' = b
    BY <1>0, <1>1, <2>1
  <2>4. \A b \in Askers : Running(b)' => place'[b] = "hook"
    BY <1>0, <1>1, <2>1 DEF Running
  <2>. QED
    BY <1>0, <1>1, <2>1, <2>2, <2>3, <2>4 DEF ProfilerInv
<1>4. ASSUME NEW a \in Askers, place[a] # "out", ~Running(a),
             holder' = "free", place' = [place EXCEPT ![a] = "out"],
             clock' = clock, seen' = seen, attempts' = attempts, last' = last,
             wants' = wants, looked' = looked, hook' = hook, hooks' = hooks
      PROVE  ProfilerInv'
  <2>1. Profiler!TypeOK'
    BY <1>0, <1>4 DEF Profiler!TypeOK, Profiler!Never
  <2>2. \A b \in Askers : place'[b] # "out" <=> holder' = b
    BY <1>0, <1>1, <1>4
  <2>3. \A b \in Askers : Running(b)' => place'[b] = "hook"
    BY <1>0, <1>1, <1>4 DEF Running
  <2>. QED
    BY <1>0, <1>1, <1>4, <2>1, <2>2, <2>3 DEF ProfilerInv
<1>5. ASSUME NEW a \in Askers, Profiler!Refuse(a) PROVE ProfilerInv'
  <2>1. ~Running(a)
    BY <1>1, <1>5 DEF Profiler!Refuse
  <2>. QED
    BY <1>4, <1>5, <2>1 DEF Profiler!Refuse
<1>6. ASSUME NEW a \in Askers, Profiler!Return(a) PROVE ProfilerInv'
  <2>1. ~Running(a)
    BY <1>6 DEF Profiler!Return, Running
  <2>. QED
    BY <1>4, <1>6, <2>1 DEF Profiler!Return
<1>7. ASSUME NEW a \in Askers, NEW to \in {"killed", "gone"}, Running(a),
             hook' = [hook EXCEPT ![a] = to],
             UNCHANGED <<clock, Profiler!controller, Profiler!asker, hooks>>
      PROVE  ProfilerInv'
  <2>1. /\ clock' = clock /\ holder' = holder /\ seen' = seen /\ attempts' = attempts
        /\ last' = last /\ place' = place /\ wants' = wants /\ looked' = looked /\ hooks' = hooks
    BY <1>7 DEF Profiler!controller, Profiler!asker
  <2>2. Profiler!TypeOK'
    BY <1>0, <1>7, <2>1 DEF Profiler!TypeOK, Profiler!Never
  <2>3. \A b \in Askers : Running(b)' => Running(b)
    BY <1>0, <1>7 DEF Running
  <2>. QED
    BY <1>0, <1>1, <2>1, <2>2, <2>3 DEF ProfilerInv
<1>8. ASSUME NEW a \in Askers, Profiler!Exit(a) PROVE ProfilerInv'
  BY <1>7, <1>8 DEF Profiler!Exit, Running
<1>9. ASSUME NEW a \in Askers, Profiler!Deadline(a) PROVE ProfilerInv'
  BY <1>7, <1>9 DEF Profiler!Deadline, Running
<1>10. ASSUME NEW a \in Askers, Profiler!Invoke(a) PROVE ProfilerInv'
  <2>0. /\ place[a] = "in" /\ holder = a /\ clock' = clock /\ wants' = wants /\ looked' = looked
        /\ wants[a] \notin seen /\ attempts < Attempts
        /\ last = MaxClock + 1 \/ looked[a] - last >= Cooldown
        /\ attempts' = attempts + 1 /\ seen' = seen \cup {wants[a]} /\ last' = looked[a]
    BY <1>1, <1>10 DEF Profiler!Invoke, Profiler!Due, Profiler!Never
  <2>1. /\ looked[a] \in 0..MaxClock /\ wants[a] \in Keys /\ attempts' \in 0..Attempts
        /\ looked[a] \in 0..(MaxClock + 1) /\ looked[a] # MaxClock + 1
    BY <1>0, <2>0
  <2>2. \A i \in DOMAIN hooks : hooks[i].at \in 0..MaxClock
    <3> DEFINE R == [key : Keys, at : 0..MaxClock]
    <3>1. hooks \in Seq(R) /\ \A r \in R : r.at \in 0..MaxClock
      BY <1>0
    <3>. HIDE DEF R
    <3>2. \A i \in DOMAIN hooks : hooks[i] \in R
      BY <3>1
    <3>. QED
      BY <3>1, <3>2
  <2>3. ASSUME NEW i \in DOMAIN hooks
        PROVE  looked[a] - hooks[i].at >= Cooldown /\ hooks[i].at <= looked[a]
    <3>1. last # MaxClock + 1 /\ hooks[i].at <= last /\ hooks[i].at \in 0..MaxClock
      BY <1>1, <2>2
    <3>2. looked[a] - last >= Cooldown
      BY <2>0, <3>1
    <3>. QED
      BY <1>0, <2>1, <3>1, <3>2
  <2>4. CASE /\ place' = [place EXCEPT ![a] = "hook"] /\ hook' = [hook EXCEPT ![a] = "running"]
             /\ hooks' = Append(hooks, [key |-> wants[a], at |-> looked[a]]) /\ holder' = holder
    <3>1. Profiler!TypeOK'
      BY <1>0, <2>0, <2>1, <2>4 DEF Profiler!TypeOK, Profiler!Never
    <3>2. \A b \in Askers : place'[b] # "out" <=> holder' = b
      BY <1>0, <1>1, <2>0, <2>4
    <3>3. \A b \in Askers : Running(b)' => place'[b] = "hook"
      BY <1>0, <1>1, <2>0, <2>4 DEF Running
    <3>4. /\ hooks' \in Seq([key : Keys, at : 0..MaxClock]) /\ Len(hooks') = Len(hooks) + 1
          /\ DOMAIN hooks' = 1..(Len(hooks) + 1) /\ DOMAIN hooks = 1..Len(hooks)
          /\ \A i \in 1..Len(hooks) : hooks'[i] = hooks[i]
          /\ hooks'[Len(hooks) + 1] = [key |-> wants[a], at |-> looked[a]]
      BY <1>0, <2>1, <2>4
    <3>5. Len(hooks) \in Nat /\ Len(hooks') <= attempts'
      BY <1>0, <1>1, <2>0, <3>4
    <3>6. ASSUME NEW i \in DOMAIN hooks'
          PROVE  hooks'[i].key \in seen' /\ last' # MaxClock + 1 /\ hooks'[i].at <= last'
      <4>1. CASE i \in DOMAIN hooks
        BY <1>1, <2>0, <2>1, <2>3, <3>4, <4>1
      <4>2. CASE i = Len(hooks) + 1
        BY <1>0, <2>0, <2>1, <3>4, <4>2
      <4>. QED
        BY <3>4, <3>5, <4>1, <4>2
    <3>7. ASSUME NEW i \in DOMAIN hooks', NEW j \in DOMAIN hooks', i < j
          PROVE  hooks'[i].key # hooks'[j].key /\ hooks'[j].at - hooks'[i].at >= Cooldown
      <4>1. i \in DOMAIN hooks /\ (j \in DOMAIN hooks \/ j = Len(hooks) + 1)
        BY <3>4, <3>5, <3>7
      <4>2. CASE j \in DOMAIN hooks
        BY <1>1, <3>4, <3>7, <4>1, <4>2
      <4>3. CASE j = Len(hooks) + 1
        <5>1. hooks'[i] = hooks[i] /\ hooks[i].key \in seen
          BY <1>1, <3>4, <4>1
        <5>. QED
          BY <2>0, <2>3, <3>4, <4>1, <4>3, <5>1
      <4>. QED
        BY <4>1, <4>2, <4>3
    <3>. QED
      BY <1>0, <2>0, <3>1, <3>2, <3>3, <3>4, <3>5, <3>6, <3>7 DEF ProfilerInv
  <2>5. CASE /\ place' = [place EXCEPT ![a] = "out"] /\ holder' = "free"
             /\ hook' = hook /\ hooks' = hooks
    <3>1. Profiler!TypeOK'
      BY <1>0, <2>0, <2>1, <2>5 DEF Profiler!TypeOK, Profiler!Never
    <3>2. \A b \in Askers : place'[b] # "out" <=> holder' = b
      BY <1>0, <1>1, <2>0, <2>5
    <3>3. \A b \in Askers : Running(b)' => place'[b] = "hook"
      BY <1>0, <1>1, <2>0, <2>5 DEF Running
    <3>4. Len(hooks') <= attempts'
      BY <1>0, <1>1, <2>0, <2>5
    <3>5. \A i \in DOMAIN hooks' : hooks'[i].key \in seen' /\ last' # MaxClock + 1
                                     /\ hooks'[i].at <= last'
      BY <1>1, <2>0, <2>1, <2>3, <2>5
    <3>. QED
      BY <1>0, <1>1, <2>0, <2>5, <3>1, <3>2, <3>3, <3>4, <3>5 DEF ProfilerInv
  <2>. QED
    BY <1>10, <2>4, <2>5 DEF Profiler!Invoke
<1>. QED
  BY <1>2, <1>3, <1>5, <1>6, <1>8, <1>9, <1>10 DEF Profiler!Next

LEMMA BoundedHooks == ASSUME ProfilerInv PROVE Profiler!HooksAreBounded
<1>1. Len(hooks) <= Attempts
  BY SubsystemsAssumption DEF ProfilerInv, Profiler!TypeOK
<1>2. Cardinality({a \in Askers : hook[a] \in {"running", "killed"}}) <= 1
  <2>1. {a \in Askers : hook[a] \in {"running", "killed"}} \in SUBSET {holder}
    BY DEF ProfilerInv, Running
  <2>2. IsFiniteSet({holder}) /\ Cardinality({holder}) = 1
    BY FS_Singleton
  <2>. QED
    BY <2>1, <2>2, FS_Subset
<1>. QED
  BY <1>1, <1>2, SameCardinality DEF ProfilerInv, Profiler!HooksAreBounded

-----------------------------------------------------------------------------
(* The installer.  An operation has done so many of its steps, or of those *)
(* that undo it, and the directories are what the steps have made of those *)
(* it found.                                                               *)
Left(list, n) == SubSeq(list, n + 1, Len(list))

LEMMA LeftOver ==
  ASSUME NEW S, NEW list \in Seq(S)
  PROVE  /\ Left(list, 0) = list
         /\ \A n \in 0..Len(list) : Left(list, n) = <<>> <=> n = Len(list)
         /\ \A n \in 0..Len(list) : n # Len(list) =>
              /\ Head(Left(list, n)) = list[n + 1] /\ Tail(Left(list, n)) = Left(list, n + 1)
              /\ n + 1 \in 0..Len(list)
<1>1. Left(list, 0) = list
  BY DEF Left
<1>2. ASSUME NEW n \in 0..Len(list)
      PROVE  /\ Len(Left(list, n)) = Len(list) - n
             /\ Left(list, n) \in Seq(S)
             /\ \A i \in 1..(Len(list) - n) : Left(list, n)[i] = list[n + i]
  BY DEF Left
<1>3. ASSUME NEW n \in 0..Len(list) PROVE Left(list, n) = <<>> <=> n = Len(list)
  BY <1>2
<1>4. ASSUME NEW n \in 0..Len(list), n # Len(list)
      PROVE  /\ Head(Left(list, n)) = list[n + 1] /\ Tail(Left(list, n)) = Left(list, n + 1)
             /\ n + 1 \in 0..Len(list)
  <2>1. n + 1 \in 0..Len(list) /\ n + 1 <= Len(list) /\ 1 \in 1..(Len(list) - n)
    BY <1>4
  <2>2. Head(Left(list, n)) = list[n + 1]
    BY <1>2, <2>1
  <2>3. /\ Len(Tail(Left(list, n))) = Len(list) - (n + 1)
        /\ \A i \in 1..(Len(list) - (n + 1)) : Tail(Left(list, n))[i] = list[(n + 1) + i]
        /\ Tail(Left(list, n)) \in Seq(S)
    <3> DEFINE rest == Left(list, n)
    <3>1. /\ rest \in Seq(S) /\ Len(rest) = Len(list) - n /\ Len(rest) # 0
          /\ \A i \in 1..(Len(list) - n) : rest[i] = list[n + i]
      BY <1>2, <2>1
    <3>. HIDE DEF rest
    <3>2. /\ Tail(rest) \in Seq(S) /\ Len(Tail(rest)) = Len(rest) - 1
          /\ \A i \in 1..(Len(rest) - 1) : Tail(rest)[i] = rest[i + 1]
      BY <3>1
    <3>3. \A i \in 1..(Len(list) - (n + 1)) : Tail(rest)[i] = list[(n + 1) + i]
      BY <2>1, <3>1, <3>2
    <3>4. Len(list) - n - 1 = Len(list) - (n + 1)
      BY <2>1
    <3>. QED
      BY <3>1, <3>2, <3>3, <3>4 DEF rest
  <2>4. /\ Len(Left(list, n + 1)) = Len(list) - (n + 1) /\ Left(list, n + 1) \in Seq(S)
        /\ \A i \in 1..(Len(list) - (n + 1)) : Left(list, n + 1)[i] = list[(n + 1) + i]
    BY <1>2, <2>1
  <2>5. Tail(Left(list, n)) = Left(list, n + 1)
    BY <2>3, <2>4
  <2>. QED
    BY <2>1, <2>2, <2>5
<1>. QED
  BY <1>1, <1>3, <1>4

LEMMA NextStep ==
  ASSUME NEW S, NEW list \in Seq(S), NEW n \in 0..Len(list), NEW rest, rest = Left(list, n),
         rest # <<>>
  PROVE  /\ n # Len(list) /\ n + 1 \in 0..Len(list)
         /\ Head(rest) = list[n + 1] /\ Tail(rest) = Left(list, n + 1)
<1>1. n # Len(list)
  BY LeftOver
<1>2. n + 1 \in 0..Len(list) /\ Head(Left(list, n)) = list[n + 1]
      /\ Tail(Left(list, n)) = Left(list, n + 1)
  BY <1>1, LeftOver
<1>. QED
  BY <1>1, <1>2

(* The lists.                                                              *)
StepNames ==
  {"unstage", "copy", "keep", "move", "place", "provision", "record", "receipt", "unplace", "unmove",
   "unkeep", "unprovision", "unrecord", "unreceipt", "clear", "aside", "restore", "reprovision",
   "rereceipt", "unrestore", "unaside"}

LEMMA Steps ==
  /\ Installer!Install \in Seq(StepNames) /\ Len(Installer!Install) = 8
  /\ Installer!UndoInstall \in Seq(StepNames) /\ Len(Installer!UndoInstall) = 7
  /\ Installer!Rollback \in Seq(StepNames) /\ Len(Installer!Rollback) = 5
  /\ Installer!UndoRollback \in Seq(StepNames) /\ Len(Installer!UndoRollback) = 4
<1>1. Installer!Install \in Seq(StepNames)
  BY DEF Installer!Install, StepNames
<1>2. Installer!UndoInstall \in Seq(StepNames)
  BY DEF Installer!UndoInstall, StepNames
<1>3. Installer!Rollback \in Seq(StepNames)
  BY DEF Installer!Rollback, StepNames
<1>4. Installer!UndoRollback \in Seq(StepNames)
  BY DEF Installer!UndoRollback, StepNames
<1>5. /\ Len(Installer!Install) = 8 /\ Len(Installer!UndoInstall) = 7
      /\ Len(Installer!Rollback) = 5 /\ Len(Installer!UndoRollback) = 4
  BY DEF Installer!Install, Installer!UndoInstall, Installer!Rollback, Installer!UndoRollback
<1>. QED
  BY <1>1, <1>2, <1>3, <1>4, <1>5

LEMMA InOrder ==
  /\ Installer!Install[1] = "unstage" /\ Installer!Install[2] = "copy"
  /\ Installer!Install[3] = "keep" /\ Installer!Install[4] = "move"
  /\ Installer!Install[5] = "place" /\ Installer!Install[6] = "provision"
  /\ Installer!Install[7] = "record" /\ Installer!Install[8] = "receipt"
  /\ Installer!UndoInstall[1] = "unplace" /\ Installer!UndoInstall[2] = "unmove"
  /\ Installer!UndoInstall[3] = "unkeep" /\ Installer!UndoInstall[4] = "unprovision"
  /\ Installer!UndoInstall[5] = "unrecord" /\ Installer!UndoInstall[6] = "unreceipt"
  /\ Installer!UndoInstall[7] = "unstage"
  /\ Installer!Rollback[1] = "clear" /\ Installer!Rollback[2] = "aside"
  /\ Installer!Rollback[3] = "restore" /\ Installer!Rollback[4] = "reprovision"
  /\ Installer!Rollback[5] = "rereceipt"
  /\ Installer!UndoRollback[1] = "unrestore" /\ Installer!UndoRollback[2] = "unaside"
  /\ Installer!UndoRollback[3] = "unreceipt" /\ Installer!UndoRollback[4] = "unprovision"
  BY DEF Installer!Install, Installer!UndoInstall, Installer!Rollback, Installer!UndoRollback

(* A directory is what it was when the operation began, what the steps     *)
(* noted in `taken' made of it, or what those undone since have restored.  *)
(* After an interrupt the step that was not noted is not undone; a rename  *)
(* that would be in the way of another is never made.                      *)
Dirs == {"target", "previous", "retained", "stage", "abandoned"}
Provisions == {"none", "ours", "edited"}
FileStates ==
  [provision : Provisions, installed : 0..Latest,
   previous : [receipt : 0..Latest, provision : Provisions]]
Was(dir) == saved.disk[dir]
Complete(content) == content \in 1..Latest

InstallerTypes ==
  /\ disk \in [Dirs -> 0..(Latest + 1)] /\ records \in FileStates
  /\ saved.disk \in [Dirs -> 0..(Latest + 1)] /\ saved.files \in FileStates
  /\ job \in {"idle", "install", "rollback"} /\ version \in 0..Latest
  /\ trouble \in {"no", "failed", "interrupted"} /\ installed \in BOOLEAN

Installed(n) ==
  /\ "keep" \in taken <=> n >= 3
  /\ "move" \in taken <=> n >= 4
  /\ "place" \in taken <=> n >= 5
  /\ disk["stage"] = version \/ n \notin 2..4
  /\ disk["target"] = IF n >= 5 THEN version ELSE IF n = 4 THEN 0 ELSE Was("target")
  /\ disk["previous"] = IF n >= 4 THEN Was("target") ELSE IF n = 3 THEN 0 ELSE Was("previous")
  /\ disk["retained"] = IF n >= 3 THEN Was("previous") ELSE 0

Restored(m) ==
  /\ disk["target"] = IF m >= 2 \/ "move" \notin taken THEN Was("target")
                      ELSE IF m = 0 /\ "place" \in taken THEN version ELSE 0
  /\ disk["previous"] = IF m >= 3 \/ "keep" \notin taken THEN Was("previous")
                        ELSE IF m = 2 \/ "move" \notin taken THEN 0 ELSE Was("target")
  /\ disk["retained"] = IF m >= 3 \/ "keep" \notin taken THEN 0 ELSE Was("previous")

Unnoted ==
  IF "move" \in taken THEN disk["target"] = version
  ELSE IF "keep" \in taken
  THEN /\ disk["target"] = 0
       /\ \/ disk["previous"] = Was("target") /\ disk["retained"] = Was("previous")
          \/ Was("target") = 0 /\ disk["previous"] = Was("previous") /\ disk["retained"] = 0
  ELSE /\ disk["target"] = Was("target")
       /\ \/ disk["previous"] = Was("previous") /\ disk["retained"] = 0
          \/ disk["previous"] = 0 /\ disk["retained"] = Was("previous")

Uninstalled(m) ==
  /\ ("place" \in taken => "move" \in taken) /\ ("move" \in taken => "keep" \in taken)
  /\ IF trouble = "failed" \/ "place" \in taken THEN Restored(m) ELSE Unnoted
  /\ m >= 4 => records.provision = saved.files.provision
  /\ m >= 5 => records.previous = saved.files.previous
  /\ m >= 6 => records.installed = saved.files.installed

Installing ==
  /\ Complete(version) /\ Was("retained") = 0 /\ disk["abandoned"] = Was("abandoned")
  /\ installed => \E dir \in {"target", "previous", "abandoned"} : Complete(Was(dir))
  /\ trouble = "no" => \E n \in 0..8 : todo = Left(Installer!Install, n) /\ Installed(n)
  /\ trouble # "no" => \E m \in 0..7 : todo = Left(Installer!UndoInstall, m) /\ Uninstalled(m)

RolledBack(n) ==
  /\ "aside" \in taken <=> n >= 2
  /\ "restore" \in taken <=> n >= 3
  /\ disk["target"] = IF n >= 3 THEN version ELSE IF n = 2 THEN 0 ELSE Was("target")
  /\ disk["previous"] = IF n >= 3 THEN 0 ELSE version
  /\ n >= 1 => disk["abandoned"] = IF n = 1 THEN 0 ELSE Was("target")

Reverted(m) ==
  /\ "restore" \in taken => "aside" \in taken
  /\ IF trouble = "failed" \/ "restore" \in taken
     THEN /\ disk["previous"] = IF m >= 1 \/ "restore" \notin taken THEN version ELSE 0
          /\ disk["target"] = IF m >= 2 \/ "aside" \notin taken THEN Was("target")
                              ELSE IF m = 1 \/ "restore" \notin taken THEN 0 ELSE version
          /\ disk["abandoned"] = IF m >= 2 \/ "aside" \notin taken THEN 0 ELSE Was("target")
     ELSE disk[IF "aside" \in taken THEN "target" ELSE "previous"] = version
  /\ m >= 3 => records.installed = saved.files.installed
  /\ m >= 4 => records.provision = saved.files.provision

RollingBack ==
  /\ Complete(version) /\ Was("previous") = version /\ disk["retained"] = Was("retained")
  /\ records.previous = saved.files.previous
  /\ trouble = "no" => \E n \in 0..5 : todo = Left(Installer!Rollback, n) /\ RolledBack(n)
  /\ trouble # "no" => \E m \in 0..4 : todo = Left(Installer!UndoRollback, m) /\ Reverted(m)

InstallerInv ==
  /\ InstallerTypes
  /\ job = "idle" => Installer!Recoverable
  /\ job = "install" => Installing
  /\ job = "rollback" => RollingBack

(* What the steps do.                                                      *)
Put(dir, content) ==
  /\ disk'[dir] = content
  /\ \A other \in Dirs \ {dir} : disk'[other] = disk[other]

Moved(from, to) ==
  /\ disk[from] = 0 \/ disk[to] = 0
  /\ disk'[from] = 0
  /\ disk'[to] = IF disk[from] = 0 THEN disk[to] ELSE disk[from]
  /\ \A other \in Dirs \ {from, to} : disk'[other] = disk[other]

Done(step) == Installer!Effect(step) /\ ~Installer!Blocked(step)

LEMMA Sorts ==
  /\ DOMAIN Installer!Renames = {"keep", "unkeep", "move", "unmove", "place", "aside", "unaside",
                                 "restore", "unrestore"}
  /\ DOMAIN Installer!Removals = {"unstage", "unplace", "clear"}
  /\ DOMAIN Installer!Undoes = {"unplace", "unmove", "unkeep", "unrestore", "unaside"}
  /\ Installer!Noted = {"place", "move", "keep", "restore", "aside"}
<1>1. DOMAIN Installer!Renames = {"keep", "unkeep", "move", "unmove", "place", "aside", "unaside",
                                  "restore", "unrestore"}
  BY DEF Installer!Renames
<1>2. DOMAIN Installer!Removals = {"unstage", "unplace", "clear"}
  BY DEF Installer!Removals
<1>3. DOMAIN Installer!Undoes = {"unplace", "unmove", "unkeep", "unrestore", "unaside"}
  BY DEF Installer!Undoes
<1>4. /\ Installer!Undoes["unplace"] = "place" /\ Installer!Undoes["unmove"] = "move"
      /\ Installer!Undoes["unkeep"] = "keep" /\ Installer!Undoes["unrestore"] = "restore"
      /\ Installer!Undoes["unaside"] = "aside"
  BY DEF Installer!Undoes
<1>5. Installer!Noted = {"place", "move", "keep", "restore", "aside"}
  BY <1>3, <1>4 DEF Installer!Noted
<1>. QED
  BY <1>1, <1>2, <1>3, <1>5

LEMMA Paths ==
  /\ Installer!Renames["keep"] = <<"previous", "retained">>
  /\ Installer!Renames["unkeep"] = <<"retained", "previous">>
  /\ Installer!Renames["move"] = <<"target", "previous">>
  /\ Installer!Renames["unmove"] = <<"previous", "target">>
  /\ Installer!Renames["place"] = <<"stage", "target">>
  /\ Installer!Renames["aside"] = <<"target", "abandoned">>
  /\ Installer!Renames["unaside"] = <<"abandoned", "target">>
  /\ Installer!Renames["restore"] = <<"previous", "target">>
  /\ Installer!Renames["unrestore"] = <<"target", "previous">>
  /\ Installer!Removals["unstage"] = "stage" /\ Installer!Removals["unplace"] = "target"
  /\ Installer!Removals["clear"] = "abandoned"
  BY DEF Installer!Renames, Installer!Removals

LEMMA Applying ==
  /\ \A step : step \notin {"unplace", "unmove", "unkeep", "unrestore", "unaside"} =>
       Installer!Applies(step)
  /\ Installer!Applies("unplace") <=> "place" \in taken
  /\ Installer!Applies("unmove") <=> "move" \in taken
  /\ Installer!Applies("unkeep") <=> "keep" \in taken
  /\ Installer!Applies("unrestore") <=> "restore" \in taken
  /\ Installer!Applies("unaside") <=> "aside" \in taken
  BY DEF Installer!Applies, Installer!Undoes

LEMMA Renaming ==
  ASSUME NEW step \in DOMAIN Installer!Renames, NEW from \in Dirs, NEW to \in Dirs, from # to,
         Installer!Renames[step] = <<from, to>>, disk \in [Dirs -> 0..(Latest + 1)],
         Installer!Applies(step), Done(step)
  PROVE  Moved(from, to)
<1>1. disk' = IF disk[from] = 0 THEN disk ELSE [disk EXCEPT ![to] = disk[from], ![from] = 0]
  BY DEF Done, Installer!Effect, Installer!NewDisk, Installer!Rename, Installer!Absent
<1>2. disk[from] = 0 \/ disk[to] = 0
  BY DEF Done, Installer!Blocked, Installer!Absent
<1>3. CASE disk[from] = 0
  BY <1>1, <1>3 DEF Moved
<1>4. CASE disk[from] # 0
  <2>1. disk' = [disk EXCEPT ![to] = disk[from], ![from] = 0]
    BY <1>1, <1>4
  <2>2. /\ disk'[from] = 0 /\ disk'[to] = disk[from]
        /\ \A other \in Dirs \ {from, to} : disk'[other] = disk[other]
    BY <2>1
  <2>. QED
    BY <1>2, <1>4, <2>2 DEF Moved
<1>. QED
  BY <1>3, <1>4

LEMMA RenamesDone ==
  ASSUME disk \in [Dirs -> 0..(Latest + 1)]
  PROVE  /\ Done("keep") => Moved("previous", "retained")
         /\ Done("move") => Moved("target", "previous")
         /\ Done("place") => Moved("stage", "target")
         /\ Done("aside") => Moved("target", "abandoned")
         /\ Done("restore") => Moved("previous", "target")
         /\ Done("unmove") => IF "move" \in taken THEN Moved("previous", "target") ELSE disk' = disk
         /\ Done("unkeep") => IF "keep" \in taken THEN Moved("retained", "previous") ELSE disk' = disk
         /\ Done("unrestore") =>
              IF "restore" \in taken THEN Moved("target", "previous") ELSE disk' = disk
         /\ Done("unaside") =>
              IF "aside" \in taken THEN Moved("abandoned", "target") ELSE disk' = disk
<1>1. \A step : Done(step) /\ ~Installer!Applies(step) => disk' = disk
  BY DEF Done, Installer!Effect, Installer!NewDisk
<1>2. /\ "target" \in Dirs /\ "previous" \in Dirs /\ "retained" \in Dirs /\ "stage" \in Dirs
      /\ "abandoned" \in Dirs
  BY DEF Dirs
<1>3. /\ Done("keep") => Moved("previous", "retained")
      /\ Done("move") => Moved("target", "previous")
      /\ Done("place") => Moved("stage", "target")
      /\ Done("aside") => Moved("target", "abandoned")
      /\ Done("restore") => Moved("previous", "target")
  BY <1>2, Renaming, Sorts, Paths, Applying
<1>4. /\ Done("unmove") /\ "move" \in taken => Moved("previous", "target")
      /\ Done("unkeep") /\ "keep" \in taken => Moved("retained", "previous")
      /\ Done("unrestore") /\ "restore" \in taken => Moved("target", "previous")
      /\ Done("unaside") /\ "aside" \in taken => Moved("abandoned", "target")
  BY <1>2, Renaming, Sorts, Paths, Applying
<1>. QED
  BY <1>1, <1>3, <1>4, Applying

LEMMA RemovalsDone ==
  ASSUME disk \in [Dirs -> 0..(Latest + 1)]
  PROVE  /\ Done("unstage") => Put("stage", 0)
         /\ Done("clear") => Put("abandoned", 0)
         /\ Done("unplace") => IF "place" \in taken THEN Put("target", 0) ELSE disk' = disk
         /\ Done("copy") => Put("stage", version)
         /\ \A step \in {"provision", "record", "receipt", "reprovision", "rereceipt",
                         "unprovision", "unrecord", "unreceipt"} : Done(step) => disk' = disk
<1>1. Done("unstage") => disk' = [disk EXCEPT !["stage"] = 0]
  BY Sorts, Paths, Applying DEF Done, Installer!Effect, Installer!NewDisk, Installer!Absent
<1>2. Done("clear") => disk' = [disk EXCEPT !["abandoned"] = 0]
  BY Sorts, Paths, Applying DEF Done, Installer!Effect, Installer!NewDisk, Installer!Absent
<1>3. Done("unplace") => disk' = IF "place" \in taken THEN [disk EXCEPT !["target"] = 0] ELSE disk
  BY Sorts, Paths, Applying DEF Done, Installer!Effect, Installer!NewDisk, Installer!Absent
<1>4. Done("copy") => disk' = [disk EXCEPT !["stage"] = version]
  BY Sorts, Paths, Applying DEF Done, Installer!Effect, Installer!NewDisk, Installer!Absent
<1>5. \A step \in {"provision", "record", "receipt", "reprovision", "rereceipt",
                   "unprovision", "unrecord", "unreceipt"} : Done(step) => disk' = disk
  BY Sorts, Applying DEF Done, Installer!Effect, Installer!NewDisk
<1>6. \A dir \in Dirs : \A content : disk' = [disk EXCEPT ![dir] = content] => Put(dir, content)
  BY DEF Put
<1>7. "target" \in Dirs /\ "stage" \in Dirs /\ "abandoned" \in Dirs
  BY DEF Dirs
<1>. QED
  BY <1>1, <1>2, <1>3, <1>4, <1>5, <1>6, <1>7

LEMMA FilesDone ==
  ASSUME records \in FileStates, saved.files \in FileStates
  PROVE  /\ \A step \in {"unstage", "copy", "keep", "move", "place", "unplace", "unmove", "unkeep",
                         "clear", "aside", "restore", "unrestore", "unaside"} :
              Done(step) => records' = records
         /\ Done("unprovision") => records' = [records EXCEPT !.provision = saved.files.provision]
         /\ Done("unrecord") => records' = [records EXCEPT !.previous = saved.files.previous]
         /\ Done("unreceipt") => records' = [records EXCEPT !.installed = saved.files.installed]
         /\ Done("reprovision") => records' = [records EXCEPT !.provision = records.previous.provision]
         /\ Done("rereceipt") => records' = [records EXCEPT !.installed = records.previous.receipt]
<1>1. \A step \in {"unstage", "copy", "keep", "move", "place", "unplace", "unmove", "unkeep",
                   "clear", "aside", "restore", "unrestore", "unaside"} :
        Done(step) => records' = records
  BY DEF Done, Installer!Effect, Installer!NewFiles
<1>2. Done("unprovision") => records' = [records EXCEPT !.provision = saved.files.provision]
  BY DEF Done, Installer!Effect, Installer!NewFiles
<1>3. Done("unrecord") => records' = [records EXCEPT !.previous = saved.files.previous]
  BY DEF Done, Installer!Effect, Installer!NewFiles
<1>4. Done("unreceipt") => records' = [records EXCEPT !.installed = saved.files.installed]
  BY DEF Done, Installer!Effect, Installer!NewFiles
<1>5. Done("reprovision") => records' = [records EXCEPT !.provision = records.previous.provision]
  BY DEF Done, Installer!Effect, Installer!NewFiles
<1>6. Done("rereceipt") => records' = [records EXCEPT !.installed = records.previous.receipt]
  BY DEF Done, Installer!Effect, Installer!NewFiles
<1>. QED
  BY <1>1, <1>2, <1>3, <1>4, <1>5, <1>6

LEMMA StepTypes ==
  ASSUME InstallerTypes, NEW step, Installer!Effect(step)
  PROVE  disk' \in [Dirs -> 0..(Latest + 1)] /\ records' \in FileStates
<1>1. disk \in [Dirs -> 0..(Latest + 1)] /\ records \in FileStates /\ saved.files \in FileStates
  BY DEF InstallerTypes
<1>2. 0 \in 0..(Latest + 1) /\ version \in 0..(Latest + 1) /\ version \in 0..Latest
  BY SubsystemsAssumption DEF InstallerTypes
<1>3. disk' \in [Dirs -> 0..(Latest + 1)]
  <2>1. \A from, to \in Dirs :
          [disk EXCEPT ![to] = disk[from], ![from] = 0] \in [Dirs -> 0..(Latest + 1)]
    BY <1>1, <1>2
  <2>2. \A dir \in Dirs : [disk EXCEPT ![dir] = 0] \in [Dirs -> 0..(Latest + 1)]
    BY <1>1, <1>2
  <2>3. [disk EXCEPT !["stage"] = version] \in [Dirs -> 0..(Latest + 1)]
    BY <1>1, <1>2
  <2>4. ASSUME step \in DOMAIN Installer!Renames
        PROVE  Installer!Renames[step][1] \in Dirs /\ Installer!Renames[step][2] \in Dirs
    BY <2>4, Sorts, Paths DEF Dirs
  <2>5. ASSUME step \in DOMAIN Installer!Removals PROVE Installer!Removals[step] \in Dirs
    BY <2>5, Sorts, Paths DEF Dirs
  <2>6. disk' = Installer!NewDisk(step)
    BY DEF Installer!Effect
  <2>7. CASE ~Installer!Applies(step)
    BY <1>1, <2>6, <2>7 DEF Installer!NewDisk
  <2>8. CASE Installer!Applies(step) /\ step \in DOMAIN Installer!Renames
    <3>1. disk' = Installer!Rename(step)
      BY <2>6, <2>8 DEF Installer!NewDisk
    <3>. QED
      BY <1>1, <2>1, <2>4, <2>8, <3>1 DEF Installer!Rename, Installer!Absent
  <2>9. CASE Installer!Applies(step) /\ step \notin DOMAIN Installer!Renames
    BY <1>1, <2>2, <2>3, <2>5, <2>6, <2>9 DEF Installer!NewDisk, Installer!Absent
  <2>. QED
    BY <2>7, <2>8, <2>9
<1>4. records' \in FileStates
  <2> DEFINE Backups == [receipt : 0..Latest, provision : Provisions]
  <2>1. /\ records.provision \in Provisions /\ records.installed \in 0..Latest
        /\ records.previous \in Backups
        /\ saved.files.provision \in Provisions /\ saved.files.installed \in 0..Latest
        /\ saved.files.previous \in Backups
        /\ records.previous.receipt \in 0..Latest /\ records.previous.provision \in Provisions
    BY <1>1 DEF FileStates
  <2>2. Installer!Replaced(saved.files) \in Backups /\ "ours" \in Provisions
    BY <2>1 DEF Installer!Replaced, Provisions
  <2>3. \A p \in Provisions : [records EXCEPT !.provision = p] \in FileStates
    BY <1>1 DEF FileStates
  <2>4. \A v \in 0..Latest : [records EXCEPT !.installed = v] \in FileStates
    BY <1>1 DEF FileStates
  <2>5. \A backup \in Backups : [records EXCEPT !.previous = backup] \in FileStates
    BY <1>1 DEF FileStates
  <2>6. records' = Installer!NewFiles(step)
    BY DEF Installer!Effect
  <2>7. ASSUME step \notin {"provision", "record", "receipt", "reprovision", "rereceipt",
                            "unprovision", "unrecord", "unreceipt"}
        PROVE  records' = records
    BY <2>6, <2>7 DEF Installer!NewFiles
  <2>8. ASSUME step \in {"provision", "reprovision", "unprovision"}
        PROVE  \E p \in Provisions : records' = [records EXCEPT !.provision = p]
    BY <2>1, <2>2, <2>6, <2>8 DEF Installer!NewFiles
  <2>9. ASSUME step \in {"receipt", "rereceipt", "unreceipt"}
        PROVE  \E v \in 0..Latest : records' = [records EXCEPT !.installed = v]
    BY <1>2, <2>1, <2>6, <2>9 DEF Installer!NewFiles
  <2>10. ASSUME step \in {"record", "unrecord"}
         PROVE  records' = records \/ \E b \in Backups : records' = [records EXCEPT !.previous = b]
    BY <2>1, <2>2, <2>6, <2>10 DEF Installer!NewFiles
  <2>. QED
    BY <1>1, <2>3, <2>4, <2>5, <2>7, <2>8, <2>9, <2>10
<1>. QED
  BY <1>3, <1>4

(* Whatever an operation has come to, a complete version is in some place. *)
LEMMA InstallKeepsOne ==
  ASSUME InstallerTypes, Installing
  PROVE  Installer!Recoverable
<1>. SUFFICES ASSUME installed
              PROVE  \E dir \in {"target", "previous", "retained", "abandoned"} : Complete(disk[dir])
  BY DEF Installer!Recoverable, Installer!Versions, Complete
<1>1. /\ Complete(version) /\ disk["abandoned"] = Was("abandoned")
      /\ Complete(Was("target")) \/ Complete(Was("previous")) \/ Complete(Was("abandoned"))
  BY DEF Installing
<1>2. ~Complete(0)
  BY DEF Complete
<1>3. \/ disk["target"] = version
      \/ /\ disk["target"] = Was("target") \/ disk["previous"] = Was("target")
         /\ disk["previous"] = Was("previous") \/ disk["retained"] = Was("previous")
  <2>1. CASE trouble = "no"
    <3>1. PICK n \in 0..8 : Installed(n)
      BY <2>1 DEF Installing
    <3>. QED
      BY <3>1 DEF Installed
  <2>2. CASE trouble # "no"
    <3>1. PICK m \in 0..7 : Uninstalled(m)
      BY <2>2 DEF Installing
    <3>2. CASE trouble = "failed" \/ "place" \in taken
      <4>1. Restored(m) /\ ("place" \in taken => "move" \in taken) /\ ("move" \in taken => "keep" \in taken)
        BY <3>1, <3>2 DEF Uninstalled
      <4>2. disk["previous"] = Was("previous") \/ disk["retained"] = Was("previous")
        BY <4>1 DEF Restored
      <4>3. CASE m >= 2 \/ "move" \notin taken
        BY <4>1, <4>2, <4>3 DEF Restored
      <4>4. CASE m < 2 /\ "move" \in taken
        <5>1. m # 2 /\ ~(m >= 3) /\ ~(m >= 2)
          BY <4>4
        <5>2. disk["previous"] = Was("target")
          BY <4>1, <4>4, <5>1 DEF Restored
        <5>. QED
          BY <4>2, <5>2
      <4>. QED
        BY <4>2, <4>3, <4>4
    <3>3. CASE ~(trouble = "failed" \/ "place" \in taken)
      BY <3>1, <3>3 DEF Uninstalled, Unnoted
    <3>. QED
      BY <3>2, <3>3
  <2>. QED
    BY <2>1, <2>2
<1>. QED
  BY <1>1, <1>2, <1>3

LEMMA RollbackKeepsOne ==
  ASSUME InstallerTypes, RollingBack
  PROVE  Installer!Recoverable
<1>1. Complete(version)
  BY DEF RollingBack
<1>2. disk["target"] = version \/ disk["previous"] = version
  <2>1. CASE trouble = "no"
    <3>1. PICK n \in 0..5 : RolledBack(n)
      BY <2>1 DEF RollingBack
    <3>. QED
      BY <3>1 DEF RolledBack
  <2>2. CASE trouble # "no"
    <3>1. PICK m \in 0..4 : Reverted(m)
      BY <2>2 DEF RollingBack
    <3>. QED
      BY <3>1 DEF Reverted
  <2>. QED
    BY <2>1, <2>2
<1>. QED
  BY <1>1, <1>2 DEF Installer!Recoverable, Installer!Versions, Complete

-----------------------------------------------------------------------------
(* The steps of an installation.                                           *)
(* Same values of what the steps do not change.                            *)
LEMMA KeepsRest ==
  ASSUME InstallerTypes, UNCHANGED <<job, version, saved, trouble, installed>>,
         NEW step, Installer!Effect(step)
  PROVE  InstallerTypes' /\ (\A dir : Was(dir)' = Was(dir))
<1>1. disk' \in [Dirs -> 0..(Latest + 1)] /\ records' \in FileStates
  BY StepTypes
<1>. QED
  BY <1>1 DEF InstallerTypes, Was

LEMMA InstallSteps ==
  ASSUME InstallerTypes, Complete(version), Was("retained") = 0,
         UNCHANGED <<version, saved>>,
         NEW n \in 0..7, Installed(n), Done(Installer!Install[n + 1]),
         taken' = taken \cup ({Installer!Install[n + 1]} \cap Installer!Noted)
  PROVE  Installed(n + 1)' /\ disk'["abandoned"] = disk["abandoned"]
<1>1. disk \in [Dirs -> 0..(Latest + 1)]
  BY DEF InstallerTypes
<1>2. /\ version' = version /\ \A dir : Was(dir)' = Was(dir)
      /\ version # 0
  BY DEF Was, Complete
<1>3. CASE n = 0
  <2>1. Put("stage", 0) /\ taken' = taken
    BY <1>1, <1>3, InOrder, Sorts, RemovalsDone
  <2>. QED
    BY <1>2, <1>3, <2>1 DEF Installed, Put, Dirs
<1>4. CASE n = 1
  <2>1. Put("stage", version) /\ taken' = taken
    BY <1>1, <1>4, InOrder, Sorts, RemovalsDone
  <2>. QED
    BY <1>2, <1>4, <2>1 DEF Installed, Put, Dirs
<1>5. CASE n = 2
  <2>1. Moved("previous", "retained") /\ taken' = taken \cup {"keep"}
    <3>1. Installer!Install[n + 1] = "keep"
      BY <1>5, InOrder
    <3>2. taken' = taken \cup ({"keep"} \cap Installer!Noted)
      BY <3>1
    <3>3. Moved("previous", "retained")
      BY <1>1, <3>1, RenamesDone
    <3>. QED
      BY <3>2, <3>3, Sorts
  <2>. QED
    BY <1>2, <1>5, <2>1 DEF Installed, Moved, Dirs
<1>6. CASE n = 3
  <2>1. Moved("target", "previous") /\ taken' = taken \cup {"move"}
    <3>1. Installer!Install[n + 1] = "move"
      BY <1>6, InOrder
    <3>2. taken' = taken \cup ({"move"} \cap Installer!Noted)
      BY <3>1
    <3>3. Moved("target", "previous")
      BY <1>1, <3>1, RenamesDone
    <3>. QED
      BY <3>2, <3>3, Sorts
  <2>. QED
    BY <1>2, <1>6, <2>1 DEF Installed, Moved, Dirs
<1>7. CASE n = 4
  <2>1. Moved("stage", "target") /\ taken' = taken \cup {"place"}
    <3>1. Installer!Install[n + 1] = "place"
      BY <1>7, InOrder
    <3>2. taken' = taken \cup ({"place"} \cap Installer!Noted)
      BY <3>1
    <3>3. Moved("stage", "target")
      BY <1>1, <3>1, RenamesDone
    <3>. QED
      BY <3>2, <3>3, Sorts
  <2>. QED
    BY <1>2, <1>7, <2>1 DEF Installed, Moved, Dirs
<1>8. CASE n \in 5..7
  <2>1. disk' = disk /\ taken' = taken
    <3>1. Installer!Install[n + 1] \in {"provision", "record", "receipt"}
      BY <1>8, InOrder
    <3>. QED
      BY <1>1, <3>1, Sorts, RemovalsDone
  <2>. QED
    BY <1>2, <1>8, <2>1 DEF Installed
<1>. QED
  BY <1>3, <1>4, <1>5, <1>6, <1>7, <1>8

LEMMA UndoInstallSteps ==
  ASSUME InstallerTypes, Complete(version), Was("retained") = 0,
         UNCHANGED <<version, saved, trouble>>,
         NEW m \in 0..6, Uninstalled(m), Done(Installer!UndoInstall[m + 1]),
         taken' = taken \cup ({Installer!UndoInstall[m + 1]} \cap Installer!Noted)
  PROVE  Uninstalled(m + 1)' /\ disk'["abandoned"] = disk["abandoned"]
<1>1. disk \in [Dirs -> 0..(Latest + 1)] /\ records \in FileStates /\ saved.files \in FileStates
  BY DEF InstallerTypes
<1>2. /\ version' = version /\ saved' = saved /\ trouble' = trouble
      /\ \A dir : Was(dir)' = Was(dir)
      /\ version # 0
  BY DEF Was, Complete
<1>3. /\ ("place" \in taken => "move" \in taken) /\ ("move" \in taken => "keep" \in taken)
      /\ IF trouble = "failed" \/ "place" \in taken THEN Restored(m) ELSE Unnoted
      /\ m >= 4 => records.provision = saved.files.provision
      /\ m >= 5 => records.previous = saved.files.previous
      /\ m >= 6 => records.installed = saved.files.installed
  BY DEF Uninstalled
<1>4. taken' = taken
  <2>1. Installer!UndoInstall[m + 1] \in {"unplace", "unmove", "unkeep", "unprovision", "unrecord",
                                          "unreceipt", "unstage"}
    BY InOrder
  <2>. QED
    BY <2>1, Sorts
<1> DEFINE Exact == trouble = "failed" \/ "place" \in taken
<1>5. CASE m = 0
  <2>1. /\ IF "place" \in taken THEN Put("target", 0) ELSE disk' = disk
        /\ records' = records
    BY <1>1, <1>5, InOrder, RemovalsDone, FilesDone
  <2>2. Exact => Restored(1)'
    BY <1>2, <1>3, <1>4, <1>5, <2>1 DEF Restored, Put, Dirs
  <2>3. ~Exact => Unnoted'
    BY <1>2, <1>3, <1>4, <2>1 DEF Unnoted
  <2>4. disk'["abandoned"] = disk["abandoned"]
    BY <2>1 DEF Put, Dirs
  <2>. QED
    BY <1>2, <1>3, <1>4, <1>5, <2>1, <2>2, <2>3, <2>4 DEF Uninstalled
<1>6. CASE m = 1
  <2>1. /\ IF "move" \in taken THEN Moved("previous", "target") ELSE disk' = disk
        /\ records' = records
    BY <1>1, <1>6, InOrder, RenamesDone, FilesDone
  <2>2. Exact => Restored(2)'
    BY <1>2, <1>3, <1>4, <1>6, <2>1 DEF Restored, Moved, Dirs
  <2>3. ~Exact => Unnoted'
    BY <1>2, <1>3, <1>4, <2>1 DEF Unnoted, Moved, Dirs
  <2>4. disk'["abandoned"] = disk["abandoned"]
    BY <2>1 DEF Moved, Dirs
  <2>. QED
    BY <1>2, <1>3, <1>4, <1>6, <2>1, <2>2, <2>3, <2>4 DEF Uninstalled
<1>7. CASE m = 2
  <2>1. /\ IF "keep" \in taken THEN Moved("retained", "previous") ELSE disk' = disk
        /\ records' = records
    BY <1>1, <1>7, InOrder, RenamesDone, FilesDone
  <2>2. Exact => Restored(3)'
    BY <1>2, <1>3, <1>4, <1>7, <2>1 DEF Restored, Moved, Dirs
  <2>3. ~Exact => Unnoted'
    BY <1>2, <1>3, <1>4, <2>1 DEF Unnoted, Moved, Dirs
  <2>4. disk'["abandoned"] = disk["abandoned"]
    BY <2>1 DEF Moved, Dirs
  <2>. QED
    BY <1>2, <1>3, <1>4, <1>7, <2>1, <2>2, <2>3, <2>4 DEF Uninstalled
<1>8. CASE m \in 3..6
  <2>1. /\ disk' = disk \/ Put("stage", 0)
        /\ m = 3 => records' = [records EXCEPT !.provision = saved.files.provision]
        /\ m = 4 => records' = [records EXCEPT !.previous = saved.files.previous]
        /\ m = 5 => records' = [records EXCEPT !.installed = saved.files.installed]
        /\ m = 6 => records' = records
    BY <1>1, <1>8, InOrder, RemovalsDone, FilesDone
  <2>2. /\ disk'["target"] = disk["target"] /\ disk'["previous"] = disk["previous"]
        /\ disk'["retained"] = disk["retained"] /\ disk'["abandoned"] = disk["abandoned"]
    BY <2>1 DEF Put, Dirs
  <2>3. Exact => Restored(m + 1)'
    BY <1>2, <1>3, <1>4, <1>8, <2>2 DEF Restored
  <2>4. ~Exact => Unnoted'
    BY <1>2, <1>3, <1>4, <2>2 DEF Unnoted
  <2>5. /\ m + 1 >= 4 => records'.provision = saved'.files.provision
        /\ m + 1 >= 5 => records'.previous = saved'.files.previous
        /\ m + 1 >= 6 => records'.installed = saved'.files.installed
    BY <1>1, <1>2, <1>3, <1>8, <2>1 DEF FileStates
  <2>. QED
    BY <1>2, <1>3, <1>4, <2>2, <2>3, <2>4, <2>5 DEF Uninstalled
<1>. QED
  BY <1>5, <1>6, <1>7, <1>8

(* The steps of a rollback.                                                *)
LEMMA RollbackSteps ==
  ASSUME InstallerTypes, Complete(version), Was("previous") = version,
         UNCHANGED <<version, saved>>,
         NEW n \in 0..4, RolledBack(n), Done(Installer!Rollback[n + 1]),
         taken' = taken \cup ({Installer!Rollback[n + 1]} \cap Installer!Noted)
  PROVE  /\ RolledBack(n + 1)' /\ disk'["retained"] = disk["retained"]
         /\ records'.previous = records.previous
<1>1. disk \in [Dirs -> 0..(Latest + 1)] /\ records \in FileStates /\ saved.files \in FileStates
  BY DEF InstallerTypes
<1>2. /\ version' = version /\ \A dir : Was(dir)' = Was(dir)
      /\ version # 0
  BY DEF Was, Complete
<1>3. CASE n = 0
  <2>1. Put("abandoned", 0) /\ taken' = taken /\ records' = records
    BY <1>1, <1>3, InOrder, Sorts, RemovalsDone, FilesDone
  <2>. QED
    BY <1>2, <1>3, <2>1 DEF RolledBack, Put, Dirs
<1>4. CASE n = 1
  <2>1. Moved("target", "abandoned") /\ taken' = taken \cup {"aside"} /\ records' = records
    <3>1. Installer!Rollback[n + 1] = "aside"
      BY <1>4, InOrder
    <3>2. taken' = taken \cup ({"aside"} \cap Installer!Noted)
      BY <3>1
    <3>3. Moved("target", "abandoned") /\ records' = records
      BY <1>1, <3>1, RenamesDone, FilesDone
    <3>. QED
      BY <3>2, <3>3, Sorts
  <2>. QED
    BY <1>2, <1>4, <2>1 DEF RolledBack, Moved, Dirs
<1>5. CASE n = 2
  <2>1. Moved("previous", "target") /\ taken' = taken \cup {"restore"} /\ records' = records
    <3>1. Installer!Rollback[n + 1] = "restore"
      BY <1>5, InOrder
    <3>2. taken' = taken \cup ({"restore"} \cap Installer!Noted)
      BY <3>1
    <3>3. Moved("previous", "target") /\ records' = records
      BY <1>1, <3>1, RenamesDone, FilesDone
    <3>. QED
      BY <3>2, <3>3, Sorts
  <2>. QED
    BY <1>2, <1>5, <2>1 DEF RolledBack, Moved, Dirs
<1>6. CASE n \in 3..4
  <2>1. disk' = disk /\ taken' = taken /\ records'.previous = records.previous
    <3>1. Installer!Rollback[n + 1] \in {"reprovision", "rereceipt"}
      BY <1>6, InOrder
    <3>2. disk' = disk /\ taken' = taken
      BY <1>1, <3>1, Sorts, RemovalsDone
    <3>3. \/ records' = [records EXCEPT !.provision = records.previous.provision]
          \/ records' = [records EXCEPT !.installed = records.previous.receipt]
      BY <1>1, <3>1, FilesDone
    <3>4. records'.previous = records.previous
      BY <1>1, <3>3 DEF FileStates
    <3>. QED
      BY <3>2, <3>4
  <2>. QED
    BY <1>2, <1>6, <2>1 DEF RolledBack
<1>. QED
  BY <1>3, <1>4, <1>5, <1>6

LEMMA UndoRollbackSteps ==
  ASSUME InstallerTypes, Complete(version), Was("previous") = version,
         UNCHANGED <<version, saved, trouble>>,
         NEW m \in 0..3, Reverted(m), Done(Installer!UndoRollback[m + 1]),
         taken' = taken \cup ({Installer!UndoRollback[m + 1]} \cap Installer!Noted)
  PROVE  /\ Reverted(m + 1)' /\ disk'["retained"] = disk["retained"]
         /\ records'.previous = records.previous
<1>1. disk \in [Dirs -> 0..(Latest + 1)] /\ records \in FileStates /\ saved.files \in FileStates
  BY DEF InstallerTypes
<1>2. /\ version' = version /\ saved' = saved /\ trouble' = trouble
      /\ \A dir : Was(dir)' = Was(dir)
      /\ version # 0
  BY DEF Was, Complete
<1> DEFINE Exact == trouble = "failed" \/ "restore" \in taken
           There == disk[IF "aside" \in taken THEN "target" ELSE "previous"] = version
           Back(k) == /\ disk["previous"] = IF k >= 1 \/ "restore" \notin taken THEN version ELSE 0
                      /\ disk["target"] = IF k >= 2 \/ "aside" \notin taken THEN Was("target")
                                          ELSE IF k = 1 \/ "restore" \notin taken THEN 0 ELSE version
                      /\ disk["abandoned"] = IF k >= 2 \/ "aside" \notin taken THEN 0 ELSE Was("target")
<1>3. /\ "restore" \in taken => "aside" \in taken
      /\ IF Exact THEN Back(m) ELSE There
      /\ m >= 3 => records.installed = saved.files.installed
      /\ m >= 4 => records.provision = saved.files.provision
  BY DEF Reverted
<1>4. taken' = taken
  <2>1. Installer!UndoRollback[m + 1] \in {"unrestore", "unaside", "unreceipt", "unprovision"}
    BY InOrder
  <2>. QED
    BY <2>1, Sorts
<1>5. CASE m = 0
  <2>1. /\ IF "restore" \in taken THEN Moved("target", "previous") ELSE disk' = disk
        /\ records' = records
    BY <1>1, <1>5, InOrder, RenamesDone, FilesDone
  <2>2. Exact => Back(1)'
    BY <1>2, <1>3, <1>4, <1>5, <2>1 DEF Moved, Dirs
  <2>3. ~Exact => There'
    BY <1>2, <1>3, <1>4, <2>1
  <2>4. disk'["retained"] = disk["retained"]
    BY <2>1 DEF Moved, Dirs
  <2>. QED
    BY <1>2, <1>3, <1>4, <1>5, <2>1, <2>2, <2>3, <2>4 DEF Reverted
<1>6. CASE m = 1
  <2>1. /\ IF "aside" \in taken THEN Moved("abandoned", "target") ELSE disk' = disk
        /\ records' = records
    BY <1>1, <1>6, InOrder, RenamesDone, FilesDone
  <2>2. Exact => Back(2)'
    BY <1>2, <1>3, <1>4, <1>6, <2>1 DEF Moved, Dirs
  <2>3. ~Exact => There'
    BY <1>2, <1>3, <1>4, <2>1 DEF Moved, Dirs
  <2>4. disk'["retained"] = disk["retained"]
    BY <2>1 DEF Moved, Dirs
  <2>. QED
    BY <1>2, <1>3, <1>4, <1>6, <2>1, <2>2, <2>3, <2>4 DEF Reverted
<1>7. CASE m \in 2..3
  <2>1. /\ disk' = disk
        /\ m = 2 => records' = [records EXCEPT !.installed = saved.files.installed]
        /\ m = 3 => records' = [records EXCEPT !.provision = saved.files.provision]
    BY <1>1, <1>7, InOrder, RemovalsDone, FilesDone
  <2>2. Exact => Back(m + 1)'
    BY <1>2, <1>3, <1>4, <1>7, <2>1
  <2>3. ~Exact => There'
    BY <1>2, <1>3, <1>4, <2>1
  <2>4. /\ m + 1 >= 3 => records'.installed = saved'.files.installed
        /\ m + 1 >= 4 => records'.provision = saved'.files.provision
        /\ records'.previous = records.previous
    BY <1>1, <1>2, <1>3, <1>7, <2>1 DEF FileStates
  <2>. QED
    BY <1>2, <1>3, <1>4, <2>1, <2>2, <2>3, <2>4 DEF Reverted
<1>. QED
  BY <1>5, <1>6, <1>7

(* Take.                                                                   *)
LEMMA TakeKept ==
  ASSUME InstallerInv, Installer!Take
  PROVE  InstallerInv'
<1>1. /\ job \in {"install", "rollback"} /\ todo # <<>> /\ Done(Head(todo))
      /\ taken' = taken \cup ({Head(todo)} \cap Installer!Noted) /\ todo' = Tail(todo)
      /\ job' = job /\ version' = version /\ saved' = saved /\ trouble' = trouble
      /\ installed' = installed
  BY DEF Installer!Take, Done, InstallerInv, InstallerTypes
<1>2. InstallerTypes' /\ (\A dir : Was(dir)' = Was(dir))
  BY <1>1, KeepsRest DEF InstallerInv, Done
<1>3. CASE job = "install"
  <2>1. /\ Complete(version) /\ Was("retained") = 0 /\ disk["abandoned"] = Was("abandoned")
        /\ installed => \E dir \in {"target", "previous", "abandoned"} : Complete(Was(dir))
    BY <1>3 DEF InstallerInv, Installing
  <2>2. CASE trouble = "no"
    <3>1. PICK n \in 0..8 : todo = Left(Installer!Install, n) /\ Installed(n)
      BY <1>3, <2>2 DEF InstallerInv, Installing
    <3>2. /\ n \in 0..7 /\ n + 1 \in 0..8 /\ Head(todo) = Installer!Install[n + 1]
          /\ todo' = Left(Installer!Install, n + 1)
      <4>1. Installer!Install \in Seq(StepNames) /\ n \in 0..Len(Installer!Install)
        BY Steps
      <4>2. /\ n # Len(Installer!Install) /\ n + 1 \in 0..Len(Installer!Install)
            /\ Head(todo) = Installer!Install[n + 1]
            /\ Tail(todo) = Left(Installer!Install, n + 1)
        BY <1>1, <3>1, <4>1, NextStep
      <4>. QED
        BY <1>1, <4>2, Steps
    <3>3. Installed(n + 1)' /\ disk'["abandoned"] = disk["abandoned"]
      BY <1>1, <2>1, <3>1, <3>2, InstallSteps DEF InstallerInv
    <3>4. Installing'
      BY <1>1, <1>2, <2>1, <2>2, <3>2, <3>3 DEF Installing, Complete
    <3>. QED
      BY <1>1, <1>2, <1>3, <3>4 DEF InstallerInv
  <2>3. CASE trouble # "no"
    <3>1. PICK m \in 0..7 : todo = Left(Installer!UndoInstall, m) /\ Uninstalled(m)
      BY <1>3, <2>3 DEF InstallerInv, Installing
    <3>2. /\ m \in 0..6 /\ m + 1 \in 0..7 /\ Head(todo) = Installer!UndoInstall[m + 1]
          /\ todo' = Left(Installer!UndoInstall, m + 1)
      <4>1. Installer!UndoInstall \in Seq(StepNames) /\ m \in 0..Len(Installer!UndoInstall)
        BY Steps
      <4>2. /\ m # Len(Installer!UndoInstall) /\ m + 1 \in 0..Len(Installer!UndoInstall)
            /\ Head(todo) = Installer!UndoInstall[m + 1]
            /\ Tail(todo) = Left(Installer!UndoInstall, m + 1)
        BY <1>1, <3>1, <4>1, NextStep
      <4>. QED
        BY <1>1, <4>2, Steps
    <3>3. Uninstalled(m + 1)' /\ disk'["abandoned"] = disk["abandoned"]
      BY <1>1, <2>1, <3>1, <3>2, UndoInstallSteps DEF InstallerInv
    <3>4. Installing'
      BY <1>1, <1>2, <2>1, <2>3, <3>2, <3>3 DEF Installing, Complete
    <3>. QED
      BY <1>1, <1>2, <1>3, <3>4 DEF InstallerInv
  <2>. QED
    BY <2>2, <2>3
<1>4. CASE job = "rollback"
  <2>1. /\ Complete(version) /\ Was("previous") = version /\ disk["retained"] = Was("retained")
        /\ records.previous = saved.files.previous
    BY <1>4 DEF InstallerInv, RollingBack
  <2>2. CASE trouble = "no"
    <3>1. PICK n \in 0..5 : todo = Left(Installer!Rollback, n) /\ RolledBack(n)
      BY <1>4, <2>2 DEF InstallerInv, RollingBack
    <3>2. /\ n \in 0..4 /\ n + 1 \in 0..5 /\ Head(todo) = Installer!Rollback[n + 1]
          /\ todo' = Left(Installer!Rollback, n + 1)
      <4>1. Installer!Rollback \in Seq(StepNames) /\ n \in 0..Len(Installer!Rollback)
        BY Steps
      <4>2. /\ n # Len(Installer!Rollback) /\ n + 1 \in 0..Len(Installer!Rollback)
            /\ Head(todo) = Installer!Rollback[n + 1]
            /\ Tail(todo) = Left(Installer!Rollback, n + 1)
        BY <1>1, <3>1, <4>1, NextStep
      <4>. QED
        BY <1>1, <4>2, Steps
    <3>3. /\ RolledBack(n + 1)' /\ disk'["retained"] = disk["retained"]
          /\ records'.previous = records.previous
      BY <1>1, <2>1, <3>1, <3>2, RollbackSteps DEF InstallerInv
    <3>4. RollingBack'
      BY <1>1, <1>2, <2>1, <2>2, <3>2, <3>3 DEF RollingBack, Complete
    <3>. QED
      BY <1>1, <1>2, <1>4, <3>4 DEF InstallerInv
  <2>3. CASE trouble # "no"
    <3>1. PICK m \in 0..4 : todo = Left(Installer!UndoRollback, m) /\ Reverted(m)
      BY <1>4, <2>3 DEF InstallerInv, RollingBack
    <3>2. /\ m \in 0..3 /\ m + 1 \in 0..4 /\ Head(todo) = Installer!UndoRollback[m + 1]
          /\ todo' = Left(Installer!UndoRollback, m + 1)
      <4>1. Installer!UndoRollback \in Seq(StepNames) /\ m \in 0..Len(Installer!UndoRollback)
        BY Steps
      <4>2. /\ m # Len(Installer!UndoRollback) /\ m + 1 \in 0..Len(Installer!UndoRollback)
            /\ Head(todo) = Installer!UndoRollback[m + 1]
            /\ Tail(todo) = Left(Installer!UndoRollback, m + 1)
        BY <1>1, <3>1, <4>1, NextStep
      <4>. QED
        BY <1>1, <4>2, Steps
    <3>3. /\ Reverted(m + 1)' /\ disk'["retained"] = disk["retained"]
          /\ records'.previous = records.previous
      BY <1>1, <2>1, <3>1, <3>2, UndoRollbackSteps DEF InstallerInv
    <3>4. RollingBack'
      BY <1>1, <1>2, <2>1, <2>3, <3>2, <3>3 DEF RollingBack, Complete
    <3>. QED
      BY <1>1, <1>2, <1>4, <3>4 DEF InstallerInv
  <2>. QED
    BY <2>2, <2>3
<1>. QED
  BY <1>1, <1>3, <1>4

(* A directory is free when something is to be renamed to it, so a step    *)
(* that was interrupted after its effect has had all of it.                *)
LEMMA NotBlocked ==
  /\ disk["retained"] = 0 => ~Installer!Blocked("keep")
  /\ disk["previous"] = 0 => ~Installer!Blocked("move")
  /\ disk["target"] = 0 => ~Installer!Blocked("place") /\ ~Installer!Blocked("restore")
  /\ disk["abandoned"] = 0 => ~Installer!Blocked("aside")
  /\ \A step \in {"unstage", "copy", "provision", "record", "receipt", "clear", "reprovision",
                  "rereceipt"} : ~Installer!Blocked(step)
  BY Sorts, Paths DEF Installer!Blocked, Installer!Absent

LEMMA FailedInstall ==
  ASSUME InstallerInv, Installer!Fail, job = "install"
  PROVE  InstallerInv'
<1>1. /\ trouble = "no" /\ todo # <<>> /\ Head(todo) # "unstage"
      /\ \/ disk' = disk /\ records' = records /\ trouble' = "failed"
         \/ Installer!Effect(Head(todo)) /\ trouble' = "interrupted"
      /\ todo' = Installer!UndoInstall
      /\ job' = job /\ version' = version /\ taken' = taken /\ saved' = saved
      /\ installed' = installed
  BY DEF Installer!Fail
<1>2. disk' \in [Dirs -> 0..(Latest + 1)] /\ records' \in FileStates
  BY <1>1, StepTypes DEF InstallerInv, InstallerTypes
<1>3. InstallerTypes' /\ (\A dir : Was(dir)' = Was(dir))
  BY <1>1, <1>2 DEF InstallerInv, InstallerTypes, Was
<1>4. /\ Complete(version) /\ Was("retained") = 0 /\ disk["abandoned"] = Was("abandoned")
      /\ installed => \E dir \in {"target", "previous", "abandoned"} : Complete(Was(dir))
  BY DEF InstallerInv, Installing
<1>5. PICK n \in 0..8 : todo = Left(Installer!Install, n) /\ Installed(n)
  BY <1>1 DEF InstallerInv, Installing
<1>6. n \in 1..7 /\ Head(todo) = Installer!Install[n + 1]
  <2>1. Installer!Install \in Seq(StepNames) /\ n \in 0..Len(Installer!Install)
    BY Steps
  <2>2. n # Len(Installer!Install) /\ Head(todo) = Installer!Install[n + 1]
    BY <1>1, <1>5, <2>1, NextStep
  <2>3. n # 8
    BY <2>2, Steps
  <2>4. n # 0
    BY <1>1, <2>2, InOrder
  <2>. QED
    BY <2>2, <2>3, <2>4
<1>7. todo' = Left(Installer!UndoInstall, 0) /\ 0 \in 0..7
  BY <1>1, Steps, LeftOver
<1>8. Uninstalled(0)' /\ disk'["abandoned"] = disk["abandoned"]
  <2>1. ("place" \in taken => "move" \in taken) /\ ("move" \in taken => "keep" \in taken)
    BY <1>5 DEF Installed
  <2>2. /\ disk["target"] = IF n >= 5 THEN version ELSE IF n = 4 THEN 0 ELSE Was("target")
        /\ disk["previous"] = IF n >= 4 THEN Was("target") ELSE IF n = 3 THEN 0 ELSE Was("previous")
        /\ disk["retained"] = IF n >= 3 THEN Was("previous") ELSE 0
        /\ n = 4 => disk["stage"] = version
        /\ "keep" \in taken <=> n >= 3
        /\ "move" \in taken <=> n >= 4
        /\ "place" \in taken <=> n >= 5
    BY <1>5, <1>6 DEF Installed
  <2>3. CASE disk' = disk /\ trouble' = "failed"
    <3>1. Restored(0)'
      BY <1>1, <1>3, <1>6, <2>2, <2>3 DEF Restored
    <3>. QED
      BY <1>1, <2>1, <2>3, <3>1 DEF Uninstalled
  <2>4. CASE Installer!Effect(Head(todo)) /\ trouble' = "interrupted"
    <3>1. Done(Installer!Install[n + 1])
      <4>1. CASE n = 2
        BY <1>6, <2>2, <2>4, <4>1, InOrder, NotBlocked DEF Done
      <4>2. CASE n = 3
        BY <1>6, <2>2, <2>4, <4>2, InOrder, NotBlocked DEF Done
      <4>3. CASE n = 4
        BY <1>6, <2>2, <2>4, <4>3, InOrder, NotBlocked DEF Done
      <4>4. CASE n \notin 2..4
        <5>1. Installer!Install[n + 1] \in {"copy", "provision", "record", "receipt"}
          BY <1>6, <4>4, InOrder
        <5>. QED
          BY <1>6, <2>4, <5>1, NotBlocked DEF Done
      <4>. QED
        BY <4>1, <4>2, <4>3, <4>4
    <3>2. disk \in [Dirs -> 0..(Latest + 1)]
      BY DEF InstallerInv, InstallerTypes
    <3>3. CASE n = 1
      <4>1. Put("stage", version)
        BY <3>1, <3>2, <3>3, InOrder, RemovalsDone
      <4>2. /\ disk'["target"] = disk["target"] /\ disk'["previous"] = disk["previous"]
            /\ disk'["retained"] = disk["retained"] /\ disk'["abandoned"] = disk["abandoned"]
        BY <4>1 DEF Put, Dirs
      <4>. QED
        BY <1>1, <1>3, <2>1, <2>2, <2>4, <3>3, <4>2 DEF Uninstalled, Unnoted
    <3>4. CASE n = 2
      <4>1. Moved("previous", "retained")
        BY <3>1, <3>2, <3>4, InOrder, RenamesDone
      <4>2. /\ disk'["target"] = Was("target") /\ disk'["previous"] = 0
            /\ disk'["retained"] = Was("previous") /\ disk'["abandoned"] = disk["abandoned"]
        BY <2>2, <3>4, <4>1 DEF Moved, Dirs
      <4>. QED
        BY <1>1, <1>3, <2>1, <2>2, <2>4, <3>4, <4>2 DEF Uninstalled, Unnoted
    <3>5. CASE n = 3
      <4>1. Moved("target", "previous")
        BY <3>1, <3>2, <3>5, InOrder, RenamesDone
      <4>2. /\ disk'["target"] = 0 /\ disk'["previous"] = Was("target")
            /\ disk'["retained"] = Was("previous") /\ disk'["abandoned"] = disk["abandoned"]
        BY <2>2, <3>5, <4>1 DEF Moved, Dirs
      <4>. QED
        BY <1>1, <1>3, <2>1, <2>2, <2>4, <3>5, <4>2 DEF Uninstalled, Unnoted
    <3>6. CASE n = 4
      <4>1. Moved("stage", "target")
        BY <3>1, <3>2, <3>6, InOrder, RenamesDone
      <4>2. version # 0
        BY <1>4 DEF Complete
      <4>3. disk'["target"] = version /\ disk'["abandoned"] = disk["abandoned"]
        BY <2>2, <3>6, <4>1, <4>2 DEF Moved, Dirs
      <4>. QED
        BY <1>1, <1>3, <2>1, <2>2, <2>4, <3>6, <4>3 DEF Uninstalled, Unnoted
    <3>7. CASE n >= 5
      <4>1. disk' = disk
        <5>1. Installer!Install[n + 1] \in {"provision", "record", "receipt"}
          BY <1>6, <3>7, InOrder
        <5>. QED
          BY <3>1, <3>2, <5>1, RemovalsDone
      <4>2. Restored(0)' /\ "place" \in taken'
        BY <1>1, <1>3, <2>2, <3>7, <4>1 DEF Restored
      <4>. QED
        BY <1>1, <2>1, <4>1, <4>2 DEF Uninstalled
    <3>. QED
      BY <1>6, <3>3, <3>4, <3>5, <3>6, <3>7
  <2>. QED
    BY <1>1, <2>3, <2>4
<1>9. Installing'
  BY <1>1, <1>3, <1>4, <1>7, <1>8 DEF Installing, Complete
<1>. QED
  BY <1>1, <1>3, <1>9 DEF InstallerInv

LEMMA FailedRollback ==
  ASSUME InstallerInv, Installer!Fail, job = "rollback"
  PROVE  InstallerInv'
<1>1. /\ trouble = "no" /\ todo # <<>> /\ Head(todo) # "clear"
      /\ \/ disk' = disk /\ records' = records /\ trouble' = "failed"
         \/ Installer!Effect(Head(todo)) /\ trouble' = "interrupted"
      /\ todo' = Installer!UndoRollback
      /\ job' = job /\ version' = version /\ taken' = taken /\ saved' = saved
      /\ installed' = installed
  BY DEF Installer!Fail
<1>2. disk' \in [Dirs -> 0..(Latest + 1)] /\ records' \in FileStates
  BY <1>1, StepTypes DEF InstallerInv, InstallerTypes
<1>3. InstallerTypes' /\ (\A dir : Was(dir)' = Was(dir))
  BY <1>1, <1>2 DEF InstallerInv, InstallerTypes, Was
<1>4. /\ Complete(version) /\ Was("previous") = version /\ disk["retained"] = Was("retained")
      /\ records.previous = saved.files.previous
  BY DEF InstallerInv, RollingBack
<1>5. PICK n \in 0..5 : todo = Left(Installer!Rollback, n) /\ RolledBack(n)
  BY <1>1 DEF InstallerInv, RollingBack
<1>6. n \in 1..4 /\ Head(todo) = Installer!Rollback[n + 1]
  <2>1. Installer!Rollback \in Seq(StepNames) /\ n \in 0..Len(Installer!Rollback)
    BY Steps
  <2>2. n # Len(Installer!Rollback) /\ Head(todo) = Installer!Rollback[n + 1]
    BY <1>1, <1>5, <2>1, NextStep
  <2>3. n # 5
    BY <2>2, Steps
  <2>4. n # 0
    BY <1>1, <2>2, InOrder
  <2>. QED
    BY <2>2, <2>3, <2>4
<1>7. todo' = Left(Installer!UndoRollback, 0) /\ 0 \in 0..4
  BY <1>1, Steps, LeftOver
<1>8. /\ Reverted(0)' /\ disk'["retained"] = disk["retained"]
      /\ records'.previous = records.previous
  <2>1. /\ disk["target"] = IF n >= 3 THEN version ELSE IF n = 2 THEN 0 ELSE Was("target")
        /\ disk["previous"] = IF n >= 3 THEN 0 ELSE version
        /\ disk["abandoned"] = IF n = 1 THEN 0 ELSE Was("target")
        /\ "aside" \in taken <=> n >= 2
        /\ "restore" \in taken <=> n >= 3
    BY <1>5, <1>6 DEF RolledBack
  <2>2. CASE disk' = disk /\ records' = records /\ trouble' = "failed"
    BY <1>1, <1>3, <1>6, <2>1, <2>2 DEF Reverted
  <2>3. CASE Installer!Effect(Head(todo)) /\ trouble' = "interrupted"
    <3>1. disk \in [Dirs -> 0..(Latest + 1)] /\ records \in FileStates /\ saved.files \in FileStates
      BY DEF InstallerInv, InstallerTypes
    <3>2. CASE n = 1
      <4>1. Done("aside")
        BY <1>6, <2>1, <2>3, <3>2, InOrder, NotBlocked DEF Done
      <4>2. Moved("target", "abandoned") /\ records' = records
        BY <3>1, <4>1, RenamesDone, FilesDone
      <4>3. disk'["previous"] = version /\ disk'["retained"] = disk["retained"]
        BY <2>1, <3>2, <4>2 DEF Moved, Dirs
      <4>. QED
        BY <1>1, <2>1, <2>3, <3>2, <4>2, <4>3 DEF Reverted
    <3>3. CASE n = 2
      <4>1. Done("restore")
        BY <1>6, <2>1, <2>3, <3>3, InOrder, NotBlocked DEF Done
      <4>2. Moved("previous", "target") /\ records' = records
        BY <3>1, <4>1, RenamesDone, FilesDone
      <4>3. version # 0
        BY <1>4 DEF Complete
      <4>4. disk'["target"] = version /\ disk'["retained"] = disk["retained"]
        BY <2>1, <3>3, <4>2, <4>3 DEF Moved, Dirs
      <4>. QED
        BY <1>1, <2>1, <2>3, <3>3, <4>2, <4>4 DEF Reverted
    <3>4. CASE n >= 3
      <4>1. Installer!Rollback[n + 1] \in {"reprovision", "rereceipt"}
        BY <1>6, <3>4, InOrder
      <4>2. Done(Installer!Rollback[n + 1])
        BY <1>6, <2>3, <4>1, NotBlocked DEF Done
      <4>3. disk' = disk
        BY <3>1, <4>1, <4>2, RemovalsDone
      <4>4. \/ records' = [records EXCEPT !.provision = records.previous.provision]
            \/ records' = [records EXCEPT !.installed = records.previous.receipt]
        BY <3>1, <4>1, <4>2, FilesDone
      <4>5. records'.previous = records.previous
        BY <3>1, <4>4 DEF FileStates
      <4>. QED
        BY <1>1, <1>3, <1>6, <2>1, <2>3, <3>4, <4>3, <4>5 DEF Reverted
    <3>. QED
      BY <1>6, <3>2, <3>3, <3>4
  <2>. QED
    BY <1>1, <2>2, <2>3
<1>9. RollingBack'
  BY <1>1, <1>3, <1>4, <1>7, <1>8 DEF RollingBack, Complete
<1>. QED
  BY <1>1, <1>3, <1>9 DEF InstallerInv

(* What an operation that is over, well or not, or that a crash has ended  *)
(* leaves.                                                                 *)
LEMMA KeepsOne == ASSUME InstallerInv PROVE Installer!Recoverable
  BY InstallKeepsOne, RollbackKeepsOne DEF InstallerInv, InstallerTypes

LEMMA LeaveKept ==
  ASSUME InstallerInv, Installer!Leave,
         disk' \in [Dirs -> 0..(Latest + 1)], records' = records,
         installed' \in BOOLEAN, trouble' \in {"no", "failed", "interrupted"},
         Installer!Recoverable'
  PROVE  InstallerInv'
<1>1. saved' = Installer!Nothing /\ job' = "idle" /\ version' = 0
  BY DEF Installer!Leave, Installer!Absent
<1>2. Installer!Nothing.disk \in [Dirs -> 0..(Latest + 1)]
  <2>1. DOMAIN disk = Dirs
    BY DEF InstallerInv, InstallerTypes
  <2>2. 0 \in 0..(Latest + 1)
    BY SubsystemsAssumption
  <2>. QED
    BY <2>1, <2>2 DEF Installer!Nothing, Installer!Absent
<1>3. Installer!Nothing.files \in FileStates
  <2>1. 0 \in 0..Latest
    BY SubsystemsAssumption
  <2>. QED
    BY <2>1 DEF Installer!Nothing, Installer!Absent, Installer!NoReceipt, FileStates, Provisions
<1>4. version' \in 0..Latest
  BY <1>1, SubsystemsAssumption
<1>. QED
  BY <1>1, <1>2, <1>3, <1>4 DEF InstallerInv, InstallerTypes

LEMMA BeginKept ==
  ASSUME InstallerInv, Installer!BeginInstall \/ Installer!BeginRollback
  PROVE  InstallerInv'
<1>1. /\ job = "idle" /\ saved' = [disk |-> disk, files |-> records] /\ taken' = {}
      /\ trouble' = "no" /\ disk' = disk /\ records' = records /\ installed' = installed
  BY DEF Installer!BeginInstall, Installer!BeginRollback, Installer!Begin
<1>2. /\ disk \in [Dirs -> 0..(Latest + 1)] /\ records \in FileStates /\ Installer!Recoverable
      /\ \A dir : Was(dir)' = disk[dir]
  BY <1>1 DEF InstallerInv, InstallerTypes, Was
<1>3. CASE Installer!BeginInstall
  <2>1. /\ Complete(version') /\ disk["retained"] = 0
        /\ job' = "install" /\ todo' = Installer!Install
    BY <1>3 DEF Installer!BeginInstall, Installer!Begin, Installer!MayInstall, Installer!Versions,
       Installer!Absent, Complete
  <2>2. version' \in 0..Latest
    BY <2>1 DEF Complete
  <2>3. InstallerTypes'
    BY <1>1, <1>2, <2>1, <2>2 DEF InstallerInv, InstallerTypes
  <2>4. installed => \E dir \in {"target", "previous", "abandoned"} : Complete(disk[dir])
    <3>1. installed =>
            \E dir \in {"target", "previous", "retained", "abandoned"} : Complete(disk[dir])
      BY <1>2 DEF Installer!Recoverable, Installer!Versions, Complete
    <3>2. ~Complete(disk["retained"])
      BY <2>1 DEF Complete
    <3>. QED
      BY <3>1, <3>2
  <2>5. todo' = Left(Installer!Install, 0) /\ 0 \in 0..8
    BY <2>1, Steps, LeftOver
  <2>6. Installed(0)'
    BY <1>1, <1>2, <2>1 DEF Installed
  <2>7. Installing'
    BY <1>1, <1>2, <2>1, <2>4, <2>5, <2>6 DEF Installing, Complete
  <2>. QED
    BY <2>1, <2>3, <2>7 DEF InstallerInv
<1>4. CASE Installer!BeginRollback
  <2>1. /\ Complete(version') /\ disk["previous"] = version'
        /\ job' = "rollback" /\ todo' = Installer!Rollback
    BY <1>4 DEF Installer!BeginRollback, Installer!Begin, Installer!MayRollback, Installer!Versions,
       Complete
  <2>2. version' \in 0..Latest
    BY <2>1 DEF Complete
  <2>3. InstallerTypes'
    BY <1>1, <1>2, <2>1, <2>2 DEF InstallerInv, InstallerTypes
  <2>4. todo' = Left(Installer!Rollback, 0) /\ 0 \in 0..5
    BY <2>1, Steps, LeftOver
  <2>5. RolledBack(0)'
    BY <1>1, <1>2, <2>1 DEF RolledBack
  <2>6. RollingBack'
    BY <1>1, <1>2, <2>1, <2>4, <2>5 DEF RollingBack, Complete
  <2>. QED
    BY <2>1, <2>3, <2>6 DEF InstallerInv
<1>. QED
  BY <1>3, <1>4

LEMMA EndKept ==
  ASSUME InstallerInv, Installer!End
  PROVE  InstallerInv'
<1> DEFINE freed == IF job = "install" THEN "retained" ELSE "abandoned"
<1>1. /\ job \in {"install", "rollback"} /\ todo = <<>> /\ Installer!Leave /\ records' = records
      /\ trouble' = trouble /\ installed' = (installed \/ trouble = "no")
  BY DEF Installer!End, InstallerInv, InstallerTypes
<1>2. \/ trouble # "no" /\ disk' = disk
      \/ trouble = "no" /\ \E content \in {0, Latest + 1} : disk' = [disk EXCEPT ![freed] = content]
  BY DEF Installer!End, Installer!Absent, Installer!Part
<1>3. disk \in [Dirs -> 0..(Latest + 1)] /\ freed \in Dirs /\ freed # "target"
  BY DEF InstallerInv, InstallerTypes, Dirs
<1>4. 0 \in 0..(Latest + 1) /\ Latest + 1 \in 0..(Latest + 1)
  BY SubsystemsAssumption
<1>5. disk' \in [Dirs -> 0..(Latest + 1)]
  BY <1>2, <1>3, <1>4
<1>6. installed' \in BOOLEAN /\ trouble' \in {"no", "failed", "interrupted"}
  BY <1>1 DEF InstallerInv, InstallerTypes
<1>7. Installer!Recoverable'
  <2>1. CASE trouble # "no"
    BY <1>1, <1>2, <2>1, KeepsOne DEF Installer!Recoverable
  <2>2. CASE trouble = "no"
    <3>1. disk["target"] = version /\ Complete(version)
      <4>1. CASE job = "install"
        <5>1. Complete(version) /\ \E n \in 0..8 : todo = Left(Installer!Install, n) /\ Installed(n)
          BY <2>2, <4>1 DEF InstallerInv, Installing
        <5>2. PICK n \in 0..8 : todo = Left(Installer!Install, n) /\ Installed(n)
          BY <5>1
        <5>3. Installer!Install \in Seq(StepNames) /\ Len(Installer!Install) = 8
          BY Steps
        <5>4. n = Len(Installer!Install)
          BY <1>1, <5>2, <5>3, LeftOver
        <5>. QED
          BY <5>1, <5>2, <5>3, <5>4 DEF Installed
      <4>2. CASE job = "rollback"
        <5>1. Complete(version) /\ \E n \in 0..5 : todo = Left(Installer!Rollback, n) /\ RolledBack(n)
          BY <2>2, <4>2 DEF InstallerInv, RollingBack
        <5>2. PICK n \in 0..5 : todo = Left(Installer!Rollback, n) /\ RolledBack(n)
          BY <5>1
        <5>3. Installer!Rollback \in Seq(StepNames) /\ Len(Installer!Rollback) = 5
          BY Steps
        <5>4. n = Len(Installer!Rollback)
          BY <1>1, <5>2, <5>3, LeftOver
        <5>. QED
          BY <5>1, <5>2, <5>3, <5>4 DEF RolledBack
      <4>. QED
        BY <1>1, <4>1, <4>2
    <3>2. disk'["target"] = disk["target"]
      BY <1>2, <1>3, <2>2 DEF Dirs
    <3>. QED
      BY <3>1, <3>2 DEF Installer!Recoverable, Installer!Versions, Complete
  <2>. QED
    BY <2>1, <2>2
<1>. QED
  BY <1>1, <1>5, <1>6, <1>7, LeaveKept

(* The installation alone is undone with unplace, the rollback alone       *)
(* begins by clearing.                                                     *)
LEMMA NextOf ==
  ASSUME InstallerInv, todo # <<>>
  PROVE  /\ job = "install" /\ trouble = "no" =>
              Head(todo) \in {"unstage", "copy", "keep", "move", "place", "provision", "record", "receipt"}
         /\ job = "install" /\ trouble # "no" =>
              Head(todo) \in {"unplace", "unmove", "unkeep", "unprovision", "unrecord", "unreceipt",
                              "unstage"}
         /\ job = "rollback" /\ trouble = "no" =>
              Head(todo) \in {"clear", "aside", "restore", "reprovision", "rereceipt"}
         /\ job = "rollback" /\ trouble # "no" =>
              Head(todo) \in {"unrestore", "unaside", "unreceipt", "unprovision"}
<1>1. ASSUME job = "install", trouble = "no"
      PROVE  Head(todo) \in {"unstage", "copy", "keep", "move", "place", "provision", "record", "receipt"}
  <2>1. PICK n \in 0..8 : todo = Left(Installer!Install, n)
    BY <1>1 DEF InstallerInv, Installing
  <2>2. Installer!Install \in Seq(StepNames) /\ n \in 0..Len(Installer!Install)
    BY Steps
  <2>3. n # Len(Installer!Install) /\ Head(todo) = Installer!Install[n + 1]
    BY <2>1, <2>2, NextStep
  <2>4. n \in 0..7
    BY <2>3, Steps
  <2>. QED
    BY <2>3, <2>4, InOrder
<1>2. ASSUME job = "install", trouble # "no"
      PROVE  Head(todo) \in {"unplace", "unmove", "unkeep", "unprovision", "unrecord", "unreceipt",
                          "unstage"}
  <2>1. PICK n \in 0..7 : todo = Left(Installer!UndoInstall, n)
    BY <1>2 DEF InstallerInv, Installing
  <2>2. Installer!UndoInstall \in Seq(StepNames) /\ n \in 0..Len(Installer!UndoInstall)
    BY Steps
  <2>3. n # Len(Installer!UndoInstall) /\ Head(todo) = Installer!UndoInstall[n + 1]
    BY <2>1, <2>2, NextStep
  <2>4. n \in 0..6
    BY <2>3, Steps
  <2>. QED
    BY <2>3, <2>4, InOrder
<1>3. ASSUME job = "rollback", trouble = "no"
      PROVE  Head(todo) \in {"clear", "aside", "restore", "reprovision", "rereceipt"}
  <2>1. PICK n \in 0..5 : todo = Left(Installer!Rollback, n)
    BY <1>3 DEF InstallerInv, RollingBack
  <2>2. Installer!Rollback \in Seq(StepNames) /\ n \in 0..Len(Installer!Rollback)
    BY Steps
  <2>3. n # Len(Installer!Rollback) /\ Head(todo) = Installer!Rollback[n + 1]
    BY <2>1, <2>2, NextStep
  <2>4. n \in 0..4
    BY <2>3, Steps
  <2>. QED
    BY <2>3, <2>4, InOrder
<1>4. ASSUME job = "rollback", trouble # "no"
      PROVE  Head(todo) \in {"unrestore", "unaside", "unreceipt", "unprovision"}
  <2>1. PICK n \in 0..4 : todo = Left(Installer!UndoRollback, n)
    BY <1>4 DEF InstallerInv, RollingBack
  <2>2. Installer!UndoRollback \in Seq(StepNames) /\ n \in 0..Len(Installer!UndoRollback)
    BY Steps
  <2>3. n # Len(Installer!UndoRollback) /\ Head(todo) = Installer!UndoRollback[n + 1]
    BY <2>1, <2>2, NextStep
  <2>4. n \in 0..3
    BY <2>3, Steps
  <2>. QED
    BY <2>3, <2>4, InOrder
<1>. QED
  BY <1>1, <1>2, <1>3, <1>4

LEMMA CrashKept ==
  ASSUME InstallerInv, Installer!Crash
  PROVE  InstallerInv'
<1> DEFINE step == Head(todo)
           half == IF step = "copy" THEN {"stage"}
                   ELSE IF step \in DOMAIN Installer!Removals /\ Installer!Applies(step)
                        THEN {Installer!Removals[step]} ELSE {}
<1>1. /\ job \in {"install", "rollback"} /\ todo # <<>> /\ Installer!Leave /\ records' = records
      /\ trouble' = "interrupted" /\ installed' = installed
      /\ disk' = disk \/ \E dir \in half : disk' = [disk EXCEPT ![dir] = Latest + 1]
  BY DEF Installer!Crash, Installer!Part, InstallerInv, InstallerTypes
<1>2. disk \in [Dirs -> 0..(Latest + 1)] /\ Latest + 1 \in 0..(Latest + 1)
  BY SubsystemsAssumption DEF InstallerInv, InstallerTypes
<1>3. installed' \in BOOLEAN
  BY <1>1 DEF InstallerInv, InstallerTypes
<1>4. CASE disk' = disk
  <2>1. Installer!Recoverable'
    BY <1>1, <1>4, KeepsOne DEF Installer!Recoverable
  <2>. QED
    BY <1>1, <1>2, <1>3, <1>4, <2>1, LeaveKept
<1>5. CASE \E dir \in half : disk' = [disk EXCEPT ![dir] = Latest + 1]
  <2>1. \/ step \in {"copy", "unstage"} /\ disk' = [disk EXCEPT !["stage"] = Latest + 1]
        \/ /\ step = "unplace" /\ "place" \in taken
           /\ disk' = [disk EXCEPT !["target"] = Latest + 1]
        \/ step = "clear" /\ disk' = [disk EXCEPT !["abandoned"] = Latest + 1]
    <3>1. PICK dir \in half : disk' = [disk EXCEPT ![dir] = Latest + 1]
      BY <1>5
    <3>2. CASE step = "copy"
      <4>1. dir = "stage"
        BY <3>2
      <4>. QED
        BY <3>1, <3>2, <4>1
    <3>3. CASE step # "copy"
      <4>1. /\ step \in DOMAIN Installer!Removals /\ Installer!Applies(step)
            /\ dir = Installer!Removals[step]
        BY <3>3
      <4> HIDE DEF step
      <4>2. CASE step = "unstage"
        BY <3>1, <4>1, <4>2, Paths
      <4>3. CASE step = "unplace"
        BY <3>1, <4>1, <4>3, Paths, Applying
      <4>4. CASE step = "clear"
        BY <3>1, <4>1, <4>4, Paths
      <4>. QED
        BY <4>1, <4>2, <4>3, <4>4, Sorts
    <3>. QED
      BY <3>2, <3>3
  <2>2. disk' \in [Dirs -> 0..(Latest + 1)]
    BY <1>2, <2>1
  <2>3. CASE disk' = [disk EXCEPT !["stage"] = Latest + 1]
    <3>1. \A dir \in {"target", "previous", "retained", "abandoned"} : disk'[dir] = disk[dir]
      BY <1>2, <2>3 DEF Dirs
    <3>2. Installer!Recoverable'
      BY <1>1, <3>1, KeepsOne DEF Installer!Recoverable
    <3>. QED
      BY <1>1, <1>3, <2>2, <3>2, LeaveKept
  <2>4. CASE /\ step = "unplace" /\ "place" \in taken
             /\ disk' = [disk EXCEPT !["target"] = Latest + 1]
    <3>1. job = "install" /\ trouble # "no"
      BY <1>1, <2>4, NextOf
    <3>2. PICK m \in 0..7 : todo = Left(Installer!UndoInstall, m) /\ Uninstalled(m)
      BY <3>1 DEF InstallerInv, Installing
    <3>3. m = 0
      <4>1. Installer!UndoInstall \in Seq(StepNames) /\ m \in 0..Len(Installer!UndoInstall)
        BY Steps
      <4>2. m # Len(Installer!UndoInstall) /\ step = Installer!UndoInstall[m + 1]
        BY <1>1, <3>2, <4>1, NextStep
      <4>. QED
        BY <2>4, <4>2, Steps, InOrder
    <3>4. /\ disk["previous"] = Was("target") /\ disk["retained"] = Was("previous")
          /\ disk["abandoned"] = Was("abandoned")
          /\ installed => \E dir \in {"target", "previous", "abandoned"} : Complete(Was(dir))
      <4>1. Restored(0) /\ "move" \in taken /\ "keep" \in taken
        BY <2>4, <3>2, <3>3 DEF Uninstalled
      <4>. QED
        BY <3>1, <4>1 DEF Restored, InstallerInv, Installing
    <3>5. \A dir \in {"previous", "retained", "abandoned"} : disk'[dir] = disk[dir]
      BY <1>2, <2>4 DEF Dirs
    <3>6. installed' => \E dir \in {"previous", "retained", "abandoned"} : Complete(disk'[dir])
      BY <1>1, <3>4, <3>5
    <3>7. Installer!Recoverable'
      BY <3>6 DEF Installer!Recoverable, Installer!Versions, Complete
    <3>. QED
      BY <1>1, <1>3, <2>2, <3>7, LeaveKept
  <2>5. CASE step = "clear" /\ disk' = [disk EXCEPT !["abandoned"] = Latest + 1]
    <3>1. job = "rollback" /\ trouble = "no"
      BY <1>1, <2>5, NextOf
    <3>2. PICK n \in 0..5 : RolledBack(n)
      BY <3>1 DEF InstallerInv, RollingBack
    <3>3. Complete(version) /\ (disk["target"] = version \/ disk["previous"] = version)
      BY <3>1, <3>2 DEF RolledBack, InstallerInv, RollingBack
    <3>4. disk'["target"] = disk["target"] /\ disk'["previous"] = disk["previous"]
      BY <1>2, <2>5 DEF Dirs
    <3>5. Installer!Recoverable'
      BY <3>3, <3>4 DEF Installer!Recoverable, Installer!Versions, Complete
    <3>. QED
      BY <1>1, <1>3, <2>2, <3>5, LeaveKept
  <2>. QED
    BY <2>1, <2>3, <2>4, <2>5
<1>. QED
  BY <1>1, <1>4, <1>5

LEMMA EditKept ==
  ASSUME InstallerInv, Installer!Edit
  PROVE  InstallerInv'
<1>1. /\ job = "idle" /\ records' = [records EXCEPT !.provision = "edited"]
      /\ disk' = disk /\ job' = job /\ version' = version /\ saved' = saved
      /\ trouble' = trouble /\ installed' = installed
  BY DEF Installer!Edit
<1>2. records' \in FileStates
  <2>1. records \in FileStates /\ "edited" \in Provisions
    BY DEF InstallerInv, InstallerTypes, Provisions
  <2>. QED
    BY <1>1, <2>1 DEF FileStates
<1>. QED
  BY <1>1, <1>2 DEF InstallerInv, InstallerTypes, Installer!Recoverable

LEMMA InstallerKept == ASSUME InstallerInv, Installer!Next PROVE InstallerInv'
<1>1. CASE Installer!Fail
  <2>1. job = "install" \/ job = "rollback"
    BY <1>1 DEF Installer!Fail, InstallerInv, InstallerTypes
  <2>. QED
    BY <1>1, <2>1, FailedInstall, FailedRollback
<1>. QED
  BY <1>1, BeginKept, TakeKept, EndKept, CrashKept, EditKept DEF Installer!Next

LEMMA InstallerStays ==
  ASSUME InstallerInv, UNCHANGED installer
  PROVE  InstallerInv'
<1>1. /\ disk' = disk /\ records' = records /\ job' = job /\ version' = version /\ todo' = todo
      /\ taken' = taken /\ saved' = saved /\ trouble' = trouble /\ installed' = installed
  BY DEF installer
<1>2. InstallerTypes' /\ (\A dir : Was(dir)' = Was(dir)) /\ (job = "idle" => Installer!Recoverable')
  BY <1>1 DEF InstallerInv, InstallerTypes, Was, Installer!Recoverable
<1>3. /\ \A n : Installed(n)' <=> Installed(n)
      /\ \A n : RolledBack(n)' <=> RolledBack(n)
  BY <1>1, <1>2 DEF Installed, RolledBack
<1>4. /\ \A m : Restored(m)' <=> Restored(m)
      /\ Unnoted' <=> Unnoted
  BY <1>1, <1>2 DEF Restored, Unnoted
<1>5. \A m : Uninstalled(m)' <=> Uninstalled(m)
  BY <1>1, <1>4 DEF Uninstalled
<1>6. \A m : Reverted(m)' <=> Reverted(m)
  BY <1>1, <1>2 DEF Reverted
<1>7. Installing => Installing'
  BY <1>1, <1>2, <1>3, <1>5 DEF Installing, Complete
<1>8. RollingBack => RollingBack'
  BY <1>1, <1>2, <1>3, <1>6 DEF RollingBack, Complete
<1>. QED
  BY <1>1, <1>2, <1>7, <1>8 DEF InstallerInv

LEMMA InstallerStarts == ASSUME Installer!Init PROVE InstallerInv
<1>1. /\ disk = [target |-> 0, previous |-> 0, retained |-> 0, stage |-> 0, abandoned |-> 0]
      /\ records = [provision |-> "none", installed |-> 0,
                    previous |-> [receipt |-> 0, provision |-> "none"]]
      /\ saved = [disk |-> disk, files |-> records]
      /\ job = "idle" /\ version = 0 /\ trouble = "no" /\ installed = FALSE
  BY DEF Installer!Init, Installer!Absent, Installer!NoReceipt
<1>2. 0 \in 0..(Latest + 1) /\ 0 \in 0..Latest
  BY SubsystemsAssumption
<1>3. disk \in [Dirs -> 0..(Latest + 1)]
  BY <1>1, <1>2 DEF Dirs
<1>4. records \in FileStates
  BY <1>1, <1>2 DEF FileStates, Provisions
<1>. QED
  BY <1>1, <1>2, <1>3, <1>4 DEF InstallerInv, InstallerTypes, Installer!Recoverable

(* The undoing of an operation that failed is over when its list is.       *)
LEMMA Restoring ==
  ASSUME InstallerInv
  PROVE  Installer!TypeOK /\ Installer!InstallationSurvives
<1>1. Installer!TypeOK
  BY DEF InstallerInv, InstallerTypes, Installer!TypeOK, Installer!Contents, Dirs, FileStates,
     Provisions
<1>2. ASSUME job # "idle", todo = <<>>, trouble = "failed"
      PROVE  /\ records = saved.files
             /\ \A dir \in {"target", "previous", "retained"} : disk[dir] = saved.disk[dir]
  <2>1. /\ records \in FileStates /\ saved.files \in FileStates
        /\ job = "install" \/ job = "rollback"
    BY <1>2 DEF InstallerInv, InstallerTypes
  <2>2. /\ records.provision = saved.files.provision /\ records.installed = saved.files.installed
        /\ records.previous = saved.files.previous
        => records = saved.files
    BY <2>1 DEF FileStates
  <2>3. CASE job = "install"
    <3>1. PICK m \in 0..7 : todo = Left(Installer!UndoInstall, m) /\ Uninstalled(m)
      BY <1>2, <2>3 DEF InstallerInv, Installing
    <3>2. Installer!UndoInstall \in Seq(StepNames) /\ Len(Installer!UndoInstall) = 7
      BY Steps
    <3>3. m = Len(Installer!UndoInstall)
      BY <1>2, <3>1, <3>2, LeftOver
    <3>4. Restored(7) /\ records.provision = saved.files.provision
          /\ records.installed = saved.files.installed /\ records.previous = saved.files.previous
      BY <1>2, <3>1, <3>2, <3>3 DEF Uninstalled
    <3>5. Was("retained") = 0
      BY <2>3 DEF InstallerInv, Installing
    <3>. QED
      BY <2>2, <3>4, <3>5 DEF Restored, Was
  <2>4. CASE job = "rollback"
    <3>1. PICK m \in 0..4 : todo = Left(Installer!UndoRollback, m) /\ Reverted(m)
      BY <1>2, <2>4 DEF InstallerInv, RollingBack
    <3>2. Installer!UndoRollback \in Seq(StepNames) /\ Len(Installer!UndoRollback) = 4
      BY Steps
    <3>3. m = Len(Installer!UndoRollback)
      BY <1>2, <3>1, <3>2, LeftOver
    <3>4. disk["previous"] = version /\ disk["target"] = Was("target")
          /\ records.installed = saved.files.installed
          /\ records.provision = saved.files.provision
      BY <1>2, <3>1, <3>2, <3>3 DEF Reverted
    <3>5. Was("previous") = version /\ disk["retained"] = Was("retained")
          /\ records.previous = saved.files.previous
      BY <2>4 DEF InstallerInv, RollingBack
    <3>. QED
      BY <2>2, <3>4, <3>5 DEF Was
  <2>. QED
    BY <2>1, <2>3, <2>4
<1>. QED
  BY <1>1, <1>2, KeepsOne DEF Installer!InstallationSurvives, Installer!FailureRestores

-----------------------------------------------------------------------------
(* The parts side by side.                                                 *)
LEMMA TransportStays ==
  ASSUME TransportInv, UNCHANGED transport
  PROVE  TransportInv'
<1>1. /\ up' = up /\ lock' = lock /\ listed' = listed /\ own' = own /\ at' = at /\ mine' = mine
      /\ worker' = worker /\ parentOf' = parentOf
  BY DEF transport
<1>2. \A w : Alive(w)' <=> Alive(w)
  BY <1>1 DEF Alive
<1>3. \A p : Unclaimed(p)' = Unclaimed(p) /\ Passed(p)' = Passed(p)
  BY <1>1, <1>2 DEF Unclaimed, Passed, ThreadsOf
<1>4. Transport!TypeOK' /\ LockInv'
  BY <1>1 DEF TransportInv, Transport!TypeOK, LockInv
<1>5. ClaimInv'
  BY <1>1, <1>2, <1>3 DEF TransportInv, ClaimInv
<1>6. CountInv'
  BY <1>3 DEF TransportInv, CountInv, ThreadsOf
<1>. QED
  BY <1>4, <1>5, <1>6 DEF TransportInv

LEMMA ProfilerStays ==
  ASSUME ProfilerInv, UNCHANGED profiler
  PROVE  ProfilerInv'
<1>1. /\ clock' = clock /\ holder' = holder /\ seen' = seen /\ attempts' = attempts /\ last' = last
      /\ place' = place /\ wants' = wants /\ looked' = looked /\ hook' = hook /\ hooks' = hooks
  BY DEF profiler
<1>2. Profiler!TypeOK'
  BY <1>1 DEF ProfilerInv, Profiler!TypeOK
<1>. QED
  BY <1>1, <1>2 DEF ProfilerInv, Running

LEMMA TransportStarts == ASSUME Transport!Init PROVE TransportInv
<1>1. /\ up = {"parent"} /\ lock = [p \in Transport!Processes |-> "free"]
      /\ listed = [p \in Transport!Processes |-> {}]
      /\ own = [p \in Transport!Processes |-> p = "parent"]
      /\ at = [t \in Transport!Requesters |-> "idle"] /\ mine = [t \in Transport!Requesters |-> 0]
      /\ worker = [w \in 1..MaxWorkers |-> "unborn"]
      /\ parentOf = [w \in 1..MaxWorkers |-> "parent"]
  BY DEF Transport!Init, Transport!Nobody, Transport!Workers
<1>2. 0 \in 0..MaxWorkers /\ "parent" \in Transport!Processes /\ "child" \in Transport!Processes
  BY SubsystemsAssumption DEF Transport!Processes
<1>3. Transport!TypeOK
  BY <1>1, <1>2 DEF Transport!TypeOK, Transport!Workers
<1>4. LockInv
  BY <1>1, <1>2 DEF LockInv, Transport!Processes
<1>5. /\ \A p : Unclaimed(p) = {} /\ Passed(p) = {}
      /\ \A w \in 1..MaxWorkers : ~Alive(w)
  BY <1>1 DEF Unclaimed, Passed, ThreadsOf, Alive
<1>6. ClaimInv
  BY <1>1, <1>5 DEF ClaimInv
<1>7. CountInv
  BY <1>5, FS_EmptySet, FiniteThreads DEF CountInv
<1>. QED
  BY <1>3, <1>4, <1>6, <1>7 DEF TransportInv

LEMMA ProfilerStarts == ASSUME Profiler!Init PROVE ProfilerInv
<1>1. /\ clock = 0 /\ holder = "free" /\ seen = {} /\ attempts = 0 /\ last = MaxClock + 1
      /\ place = [a \in Askers |-> "out"] /\ wants \in [Askers -> Keys]
      /\ looked = [a \in Askers |-> 0] /\ hook = [a \in Askers |-> "none"] /\ hooks = <<>>
  BY SubsystemsAssumption DEF Profiler!Init, Profiler!Never
<1>2. 0 \in 0..MaxClock /\ 0 \in 0..Attempts /\ MaxClock + 1 \in 0..(MaxClock + 1)
  BY SubsystemsAssumption
<1>3. Profiler!TypeOK
  BY <1>1, <1>2 DEF Profiler!TypeOK, Profiler!Never
<1>4. hooks \in Seq([key : Keys, at : 0..MaxClock]) /\ DOMAIN hooks = {} /\ Len(hooks) = 0
  BY <1>1
<1>. QED
  BY <1>1, <1>2, <1>3, <1>4, SubsystemsAssumption DEF ProfilerInv, Running

(* Every step is one of each part, or leaves it as it is.                  *)
LEMMA SubsystemsStep ==
  ASSUME [SubsystemsNext]_<<part, vars, transport, cache, installer, mapping, collector, profiler, llm>>
  PROVE  /\ Transport!Next \/ UNCHANGED transport
         /\ Profiler!Next \/ UNCHANGED profiler
         /\ Installer!Next \/ UNCHANGED installer
  BY DEF SubsystemsNext

(* However many requests are made and wherever the application forks, the  *)
(* subprocesses that outlive their deadline are no more than the threads   *)
(* that request, and no request waits for a lock that nobody will free     *)
(* (_request_exchange, _UNREAPED).  However many threads ask and hooks     *)
(* outlive their deadline, one hook runs at a time, as many as the budget  *)
(* allows, apart by the cooldown, no two for a step (TriggeredProfiler).   *)
THEOREM BoundedWork == SubsystemsSpec => []WorkIsBounded
<1> DEFINE Inv == TransportInv /\ ProfilerInv
<1>1. SubsystemsInit => Inv
  BY TransportStarts, ProfilerStarts DEF SubsystemsInit
<1>2. Inv /\ [SubsystemsNext]_<<part, vars, transport, cache, installer, mapping, collector, profiler, llm>>
        => Inv'
  BY SubsystemsStep, TransportKept, TransportStays, ProfilerKept, ProfilerStays
<1>3. Inv => WorkIsBounded
  <2>1. TransportInv => Transport!TypeOK /\ Transport!TransportIsBounded
    BY BoundedTransport DEF TransportInv
  <2>2. ProfilerInv => Profiler!TypeOK /\ Profiler!HooksAreBounded
    BY BoundedHooks DEF ProfilerInv
  <2>. QED
    BY <2>1, <2>2 DEF WorkIsBounded
<1>. QED
  BY <1>1, <1>2, <1>3, PTL DEF SubsystemsSpec

(* Wherever operations of the installer fail, are interrupted or crash, in *)
(* whatever order they are tried again: once the App has been installed    *)
(* some directory holds a complete version of it, and an operation that    *)
(* fails leaves directories and receipts as it found them (the undo        *)
(* callbacks of install_package and rollback in operations/app.py).        *)
THEOREM SurvivingInstallation == SubsystemsSpec => []InstallationSurvives
<1>1. SubsystemsInit => InstallerInv
  BY InstallerStarts DEF SubsystemsInit
<1>2. InstallerInv /\ [SubsystemsNext]_<<part, vars, transport, cache, installer, mapping, collector, profiler, llm>>
        => InstallerInv'
  BY SubsystemsStep, InstallerKept, InstallerStays
<1>3. InstallerInv => InstallationSurvives
  BY Restoring DEF InstallationSurvives
<1>. QED
  BY <1>1, <1>2, <1>3, PTL DEF SubsystemsSpec

-----------------------------------------------------------------------------
(* Induction over the naturals, of a set: a gap would let k |-> k + 1 map  *)
(* what lies below it into a smaller set.                                  *)
LEMMA Induction ==
  ASSUME NEW S, 0 \in S, \A n \in Nat : n \in S => n + 1 \in S
  PROVE  Nat \subseteq S
<1> SUFFICES ASSUME NEW n \in Nat, n \notin S PROVE FALSE
  OBVIOUS
<1>. DEFINE D == S \cap (0..n)
            E == D \ {0}
            next == [k \in D |-> k + 1]
<1>1. IsFiniteSet(D)
  <2>1. IsFiniteSet(0..n)
    BY FS_Interval
  <2>2. D \in SUBSET (0..n)
    OBVIOUS
  <2>. QED
    BY <2>1, <2>2, FS_Subset
<1>2. IsFiniteSet(E) /\ Cardinality(D) \in Nat /\ Cardinality(E) < Cardinality(D)
  <2>1. 0 \in D
    OBVIOUS
  <2>. HIDE DEF D
  <2>2. IsFiniteSet(E) /\ Cardinality(E) = Cardinality(D) - 1
    BY <1>1, <2>1, FS_RemoveElement
  <2>. QED
    BY <1>1, <2>2, FS_CardinalityType
<1>3. next \in [D -> E]
  <2> SUFFICES ASSUME NEW k \in D PROVE k + 1 \in E
    OBVIOUS
  <2>1. k \in Nat /\ k <= n /\ k # n /\ k + 1 \in S
    OBVIOUS
  <2>. QED
    BY <2>1
<1>4. \A x, y \in D : x # y => next[x] # next[y]
  OBVIOUS
<1>. HIDE DEF D, E, next
<1>. QED
  BY <1>1, <1>2, <1>3, <1>4, FS_PigeonHole

LEMMA Least ==
  ASSUME NEW S \in SUBSET Nat, S # {}
  PROVE  \E least \in S : \A x \in S : least <= x
<1> SUFFICES ASSUME \A m \in S : \E x \in S : x < m PROVE FALSE
  OBVIOUS
<1>. DEFINE Above == {n \in Nat : \A x \in S : n <= x}
<1>1. 0 \in Above
  OBVIOUS
<1>2. \A n \in Nat : n \in Above => n + 1 \in Above
  <2> SUFFICES ASSUME NEW n \in Nat, n \in Above, NEW x \in S PROVE n + 1 <= x
    OBVIOUS
  <2>. QED
    OBVIOUS
<1>3. Nat \subseteq Above
  <2>. HIDE DEF Above
  <2>. QED
    BY <1>1, <1>2, Induction
<1>4. PICK x \in S : TRUE
  OBVIOUS
<1>5. x + 1 \in Above
  BY <1>3
<1>. QED
  BY <1>5

(* A function by recursion along 0..n: *)
Solves(n, X, start, step, f) ==
  f \in [0..n -> X] /\ f[0] = start /\ \A k \in 1..n : f[k] = step[<<k, f[k - 1]>>]

(* there is one, *)
LEMMA Recursion ==
  ASSUME NEW n \in Nat, NEW X, NEW start \in X, NEW step, step \in [(1..n) \X X -> X]
  PROVE  \E f : Solves(n, X, start, step, f)
<1>. DEFINE S == {m \in Nat : m <= n => \E f : Solves(m, X, start, step, f)}
<1>1. 0 \in S
  <2>1. Solves(0, X, start, step, [k \in 0..0 |-> start])
    BY DEF Solves
  <2>. QED
    BY <2>1
<1>2. ASSUME NEW m \in Nat, m \in S PROVE m + 1 \in S
  <2>1. SUFFICES ASSUME m + 1 <= n PROVE \E g : Solves(m + 1, X, start, step, g)
    OBVIOUS
  <2>2. PICK f : Solves(m, X, start, step, f)
    BY <1>2, <2>1
  <2>. DEFINE next == step[<<m + 1, f[m]>>]  g == [k \in 0..(m + 1) |-> IF k = m + 1 THEN next ELSE f[k]]
  <2>3. next \in X
    BY <2>1, <2>2 DEF Solves
  <2>. HIDE DEF next
  <2>4. g \in [0..(m + 1) -> X] /\ g[0] = start /\ g[m + 1] = next /\ \A k \in 0..m : g[k] = f[k]
    BY <2>2, <2>3 DEF Solves
  <2>. HIDE DEF g
  <2>5. ASSUME NEW k \in 1..(m + 1) PROVE g[k] = step[<<k, g[k - 1]>>]
    <3>1. CASE k = m + 1
      BY <2>4, <3>1 DEF next
    <3>2. CASE k \in 1..m
      <4>1. k \in 0..m /\ k - 1 \in 0..m
        BY <3>2
      <4>. QED
        BY <2>2, <2>4, <3>2, <4>1 DEF Solves
    <3>. QED
      BY <3>1, <3>2
  <2>. QED
    BY <2>4, <2>5 DEF Solves
<1>3. n \in S
  BY <1>1, <1>2, Induction
<1>. QED
  BY <1>3

(* and two that take the same steps agree. *)
SameSteps(n, f, g) == f[0] = g[0] /\ \A k \in 1..n : (f[k - 1] = g[k - 1] => f[k] = g[k])
Agree(n, f, g) == \A k \in 0..n : f[k] = g[k]

LEMMA Unique ==
  ASSUME NEW n \in Nat, NEW f, NEW g, SameSteps(n, f, g)
  PROVE  Agree(n, f, g)
<1>. DEFINE S == {k \in Nat : k <= n => f[k] = g[k]}
<1>1. 0 \in S
  BY DEF SameSteps
<1>2. ASSUME NEW k \in Nat, k \in S PROVE k + 1 \in S
  <2>1. (k + 1) - 1 = k
    OBVIOUS
  <2>. QED
    BY <1>2, <2>1 DEF SameSteps
<1>3. Nat \subseteq S
  BY <1>1, <1>2, Induction
<1>. QED
  BY <1>3 DEF Agree

LEMMA Appending ==
  ASSUME NEW R, NEW P \in SUBSET Seq(R), <<>> \in P,
         \A s \in P, e \in R : Append(s, e) \in P
  PROVE  P = Seq(R)
<1>. DEFINE S == {n \in Nat : \A s \in Seq(R) : Len(s) = n => s \in P}
<1>1. 0 \in S
  BY EmptySeq
<1>2. ASSUME NEW n \in Nat, n \in S PROVE n + 1 \in S
  <2>1. SUFFICES ASSUME NEW s \in Seq(R), Len(s) = n + 1 PROVE s \in P
    OBVIOUS
  <2>2. PICK t \in Seq(R), e \in R : Len(t) = n /\ s = Append(t, e)
    <3>. DEFINE t == SubSeq(s, 1, n)
    <3>1. s \in Seq(R) /\ 1..n \subseteq 1..Len(s)
      BY <2>1
    <3>2. t \in Seq(R) /\ Len(t) = n /\ \A i \in 1..n : t[i] = s[i]
      BY <2>1, <3>1
    <3>3. s[n + 1] \in R
      BY <2>1, ElementOfSeq
    <3>. DEFINE e == s[n + 1]  r == Append(t, e)
    <3>. HIDE DEF t, e
    <3>4. /\ r \in Seq(R) /\ Len(r) = n + 1 /\ (\A i \in 1..n : r[i] = t[i]) /\ r[n + 1] = e
      <4>1. e \in R
        BY <3>3 DEF e
      <4>2. r \in Seq(R) /\ Len(r) = Len(t) + 1 /\ (\A i \in 1..Len(t) : r[i] = t[i]) /\ r[Len(t) + 1] = e
        BY <3>2, <4>1, AppendProperties
      <4>. QED
        BY <3>2, <4>2
    <3>. HIDE DEF r
    <3>5. /\ r \in Seq(R) /\ Len(r) = Len(s) /\ \A i \in 1..Len(s) : s[i] = r[i]
      <4>1. \A i \in 1..Len(s) : i \in 1..n \/ i = n + 1
        BY <2>1
      <4>. QED
        BY <2>1, <3>2, <3>4, <4>1 DEF e
    <3>6. s = r
      BY <3>5, SeqEqual
    <3>. QED
      BY <3>2, <3>3, <3>6 DEF r, e
  <2>. QED
    BY <1>2, <2>2
<1>3. Nat \subseteq S
  BY <1>1, <1>2, Induction
<1>4. \A s \in Seq(R) : Len(s) \in Nat
  OBVIOUS
<1>. QED
  BY <1>3, <1>4

-----------------------------------------------------------------------------
(* The cache of decoded records.                                           *)
CacheRows == Seq(Cache!Rows)

(* While a row is read of the file at the path, what is read is that       *)
(* file; when it was replaced, no other file gets its number.              *)
Following ==
  reading => /\ IF opened THEN ino = stat.ino /\ most = complete ELSE ino # stat.ino
             /\ Cache!IsPrefix(read, most)

(* A file that looks like the one that was read begins with its rows.      *)
Recognised ==
  entry.ino = ino /\ Cache!Alike(complete) => Cache!IsPrefix(entry.rows, complete)

CacheTypes ==
  /\ Cache!TypeOK
  /\ entry \in [ino : Cache!Files \cup {0}, size : Nat, same : BOOLEAN, rows : CacheRows]
  /\ stat \in [ino : Cache!Files, size : Nat, same : BOOLEAN]

CacheInv == CacheTypes /\ Following /\ Recognised

LEMMA PrefixIs ==
  ASSUME NEW S, NEW s \in Seq(S), NEW t \in Seq(S)
  PROVE  /\ Len(s) \in Nat /\ Len(t) \in Nat
         /\ Cache!IsPrefix(s, t) <=> Len(s) <= Len(t) /\ \A i \in 1..Len(s) : s[i] = t[i]
<1>1. CASE Len(s) <= Len(t)
  <2>. DEFINE begin == SubSeq(t, 1, Len(s))
  <2>1. Len(s) \in Nat /\ Len(t) \in Nat /\ \A i \in 1..Len(s) : t[i] \in S
    BY <1>1
  <2>2. begin \in Seq(S) /\ Len(begin) = Len(s) /\ \A i \in 1..Len(s) : begin[i] = t[i]
    BY <2>1, SubSeqProperties
  <2>3. SubSeq(s, 1, Len(s)) = s
    BY SubSeqFull
  <2>4. (\A i \in 1..Len(s) : s[i] = t[i]) => s = begin
    BY <2>2, SeqEqual
  <2>5. s = begin => \A i \in 1..Len(s) : s[i] = t[i]
    BY <2>2
  <2>. QED
    BY <1>1, <2>1, <2>3, <2>4, <2>5 DEF Cache!IsPrefix
<1>2. CASE ~(Len(s) <= Len(t))
  BY <1>2 DEF Cache!IsPrefix
<1>. QED
  BY <1>1, <1>2

LEMMA PrefixGrows ==
  ASSUME NEW S, NEW s \in Seq(S), NEW t \in Seq(S), NEW x \in S, Cache!IsPrefix(s, t)
  PROVE  t \o <<x>> \in Seq(S) /\ Cache!IsPrefix(s, t \o <<x>>)
<1>. DEFINE r == t \o <<x>>
<1>1. <<x>> \in Seq(S) /\ Len(<<x>>) = 1
  OBVIOUS
<1>2. /\ r \in Seq(S) /\ Len(r) = Len(t) + 1
      /\ \A i \in 1..(Len(t) + 1) : i <= Len(t) => r[i] = t[i]
  BY <1>1, ConcatProperties
<1>. HIDE DEF r
<1>3. Len(s) \in Nat /\ Len(t) \in Nat /\ Len(s) <= Len(t) /\ \A i \in 1..Len(s) : s[i] = t[i]
  BY PrefixIs
<1>4. Len(s) <= Len(r) /\ \A i \in 1..Len(s) : s[i] = r[i]
  BY <1>2, <1>3
<1>5. Cache!IsPrefix(s, r)
  BY <1>2, <1>4, PrefixIs
<1>. QED
  BY <1>2, <1>5 DEF r

LEMMA PrefixFollows ==
  ASSUME NEW S, NEW s \in Seq(S), NEW t \in Seq(S), Cache!IsPrefix(s, t), Len(s) < Len(t)
  PROVE  s \o <<t[Len(s) + 1]>> \in Seq(S) /\ Cache!IsPrefix(s \o <<t[Len(s) + 1]>>, t)
<1>. DEFINE x == t[Len(s) + 1]
            r == s \o <<x>>
<1>1. Len(s) \in Nat /\ Len(t) \in Nat /\ x \in S
  OBVIOUS
<1>2. <<x>> \in Seq(S) /\ Len(<<x>>) = 1 /\ <<x>>[1] = x
  BY <1>1
<1>3. /\ r \in Seq(S) /\ Len(r) = Len(s) + 1
      /\ \A i \in 1..(Len(s) + 1) : r[i] = IF i <= Len(s) THEN s[i] ELSE <<x>>[i - Len(s)]
  BY <1>2, ConcatProperties
<1>4. Len(s) <= Len(t) /\ \A i \in 1..Len(s) : s[i] = t[i]
  BY PrefixIs
<1>5. r[Len(s) + 1] = t[Len(s) + 1]
  BY <1>1, <1>2, <1>3
<1>. HIDE DEF r
<1>6. \A i \in 1..(Len(s) + 1) : r[i] = t[i]
  <2> SUFFICES ASSUME NEW i \in 1..(Len(s) + 1) PROVE r[i] = t[i]
    OBVIOUS
  <2>1. i = Len(s) + 1 \/ i \in 1..Len(s)
    BY <1>1
  <2>. QED
    BY <1>1, <1>3, <1>4, <1>5, <2>1
<1>7. Len(r) <= Len(t) /\ \A i \in 1..Len(r) : r[i] = t[i]
  BY <1>1, <1>3, <1>6
<1>8. Cache!IsPrefix(r, t)
  BY <1>3, <1>7, PrefixIs
<1>. QED
  BY <1>3, <1>8 DEF r

LEMMA PrefixOfAny ==
  ASSUME NEW S, NEW t \in Seq(S)
  PROVE  Cache!IsPrefix(<<>>, t) /\ Cache!IsPrefix(t, t)
<1>. DEFINE none == <<>>
<1>1. none \in Seq(S) /\ Len(none) = 0 /\ Len(t) \in Nat
  OBVIOUS
<1>. HIDE DEF none
<1>2. Cache!IsPrefix(t, t)
  BY <1>1, PrefixIs
<1>3. Len(none) <= Len(t) /\ \A i \in 1..Len(none) : none[i] = t[i]
  BY <1>1
<1>4. Cache!IsPrefix(none, t)
  BY <1>1, <1>3, PrefixIs
<1>. QED
  BY <1>2, <1>4 DEF none

LEMMA CacheStarts == ASSUME Cache!Init PROVE CacheInv
<1>1. <<>> \in CacheRows
  BY DEF CacheRows
<1>2. CacheTypes
  BY <1>1 DEF Cache!Init, CacheTypes, Cache!TypeOK, Cache!Files, Cache!Nothing, CacheRows
<1>3. Following /\ Recognised
  BY DEF Cache!Init, Following, Recognised, Cache!Nothing
<1>. QED
  BY <1>2, <1>3 DEF CacheInv

LEMMA WriteRecognised ==
  ASSUME CacheInv, Cache!Touch, Cache!Contract,
         ino' \in Cache!Files, complete' \in CacheRows, torn' \in BOOLEAN
  PROVE  /\ Recognised'
         /\ stat' \in [ino : Cache!Files, size : Nat, same : BOOLEAN] /\ stat'.ino = stat.ino
         /\ entry' \in [ino : Cache!Files \cup {0}, size : Nat, same : BOOLEAN, rows : CacheRows]
<1>1. entry'.ino = entry.ino /\ entry'.rows = entry.rows /\ stat'.ino = stat.ino
  BY DEF Cache!Touch, CacheInv, CacheTypes
<1>2. Recognised'
  BY <1>1 DEF Cache!Contract, Recognised, Cache!Alike
<1>. QED
  BY <1>1, <1>2 DEF Cache!Touch, CacheInv, CacheTypes

LEMMA CacheWrites ==
  ASSUME CacheInv, NEW row \in Cache!Rows, Cache!Write(row) PROVE CacheInv'
<1>0. complete \in Seq(Cache!Rows) /\ complete' = complete \o <<row>>
  BY DEF CacheInv, CacheTypes, Cache!TypeOK, Cache!Write
<1>1. complete' \in CacheRows /\ ino' \in Cache!Files /\ torn' \in BOOLEAN
  <2>1. <<row>> \in Seq(Cache!Rows)
    OBVIOUS
  <2>2. complete \o <<row>> \in Seq(Cache!Rows)
    BY <1>0, <2>1, ConcatProperties
  <2>. QED
    BY <1>0, <2>2 DEF CacheInv, CacheTypes, Cache!TypeOK, Cache!Write, CacheRows
<1>2. Following'
  <2>1. most' = IF opened THEN complete \o <<row>> ELSE most
    BY DEF Cache!Write
  <2>2. read \in CacheRows /\ most \in CacheRows
    BY DEF CacheInv, CacheTypes, Cache!TypeOK, CacheRows
  <2>3. Cache!IsPrefix(read, most) => Cache!IsPrefix(read, most \o <<row>>)
    BY <2>2, PrefixGrows DEF CacheRows
  <2>4. stat'.ino = stat.ino
    BY DEF CacheInv, CacheTypes, Cache!Write, Cache!Touch
  <2>. QED
    BY <2>1, <2>3, <2>4 DEF CacheInv, Following, Cache!Write
<1>3. Recognised' /\ CacheTypes'
  <2>1. most' \in CacheRows
    BY <1>1 DEF CacheInv, CacheTypes, Cache!TypeOK, Cache!Write, CacheRows
  <2>. QED
    BY <1>1, <2>1, WriteRecognised DEF CacheInv, CacheTypes, Cache!TypeOK, Cache!Write, CacheRows
<1>. QED
  BY <1>2, <1>3 DEF CacheInv

LEMMA CacheTears == ASSUME CacheInv, Cache!Tear PROVE CacheInv'
<1>1. complete' \in CacheRows /\ ino' \in Cache!Files /\ torn' \in BOOLEAN
  BY DEF CacheInv, CacheTypes, Cache!TypeOK, Cache!Tear, CacheRows
<1>2. entry'.ino = entry.ino /\ entry'.rows = entry.rows /\ stat'.ino = stat.ino
  BY DEF Cache!Tear, Cache!Touch, CacheInv, CacheTypes
<1>3. Recognised' /\ Following'
  BY <1>2 DEF CacheInv, Recognised, Following, Cache!Tear, Cache!Alike
<1>4. CacheTypes'
  BY <1>1 DEF CacheInv, CacheTypes, Cache!TypeOK, Cache!Tear, Cache!Touch, CacheRows
<1>. QED
  BY <1>3, <1>4 DEF CacheInv

LEMMA CacheReplaces ==
  ASSUME CacheInv, NEW number \in Cache!Files, NEW new \in Cache!BoundedSeq(Cache!Rows, MaxRows),
         Cache!Replace(number, new)
  PROVE  CacheInv'
<1>1. new \in CacheRows
  <2>1. PICK n \in 0..MaxRows : new \in [1..n -> Cache!Rows]
    BY DEF Cache!BoundedSeq, Cache!SeqOf
  <2>. QED
    BY <2>1 DEF CacheRows
<1>2. complete' \in CacheRows /\ ino' \in Cache!Files /\ torn' \in BOOLEAN
  BY <1>1 DEF Cache!Replace
<1>3. /\ Recognised' /\ stat'.ino = stat.ino
      /\ stat' \in [ino : Cache!Files, size : Nat, same : BOOLEAN]
      /\ entry' \in [ino : Cache!Files \cup {0}, size : Nat, same : BOOLEAN, rows : CacheRows]
  BY <1>2, WriteRecognised DEF Cache!Replace
<1>4. Following'
  BY <1>3 DEF CacheInv, Following, Cache!Replace
<1>5. CacheTypes'
  BY <1>2, <1>3 DEF CacheInv, CacheTypes, Cache!TypeOK, Cache!Replace, CacheRows
<1>. QED
  BY <1>3, <1>4, <1>5 DEF CacheInv

LEMMA CacheOpens == ASSUME CacheInv, Cache!Open PROVE CacheInv'
<1>. DEFINE size == Cache!Size(complete, torn)
<1>1. complete \in CacheRows /\ entry.rows \in CacheRows /\ <<>> \in CacheRows
  BY DEF CacheInv, CacheTypes, Cache!TypeOK, CacheRows
<1>2. size \in Nat
  BY <1>1 DEF Cache!Size, CacheRows
<1>3. Cache!Valid(size) => Cache!IsPrefix(entry.rows, complete)
  <2>1. CASE Len(entry.rows) > 0
    BY <2>1 DEF Cache!Valid, CacheInv, Recognised
  <2>2. CASE ~(Len(entry.rows) > 0)
    <3>1. entry.rows = <<>>
      BY <1>1, <2>2, EmptySeq DEF CacheRows
    <3>. QED
      BY <1>1, <3>1, PrefixOfAny DEF CacheRows
  <2>. QED
    BY <2>1, <2>2
<1>4. read' \in CacheRows /\ Cache!IsPrefix(read', complete)
  <2>1. CASE Cache!Valid(size)
    BY <1>1, <1>3, <2>1 DEF Cache!Open
  <2>2. CASE ~Cache!Valid(size)
    BY <1>1, <2>2, PrefixOfAny DEF Cache!Open, CacheRows
  <2>. QED
    BY <2>1, <2>2
<1>5. /\ most' = complete /\ ino' = ino /\ complete' = complete /\ torn' = torn
      /\ stat' = [ino |-> ino, size |-> size, same |-> TRUE] /\ entry' = Cache!Nothing
      /\ reading' = TRUE /\ opened' = TRUE
  BY DEF Cache!Open, Cache!file
<1>. HIDE DEF size
<1>6. Following' /\ Recognised'
  <2>1. 0 \notin Cache!Files /\ ino \in Cache!Files
    BY DEF Cache!Files, CacheInv, CacheTypes, Cache!TypeOK
  <2>. QED
    BY <1>4, <1>5, <2>1 DEF Following, Recognised, Cache!Nothing
<1>7. Cache!Nothing \in [ino : Cache!Files \cup {0}, size : Nat, same : BOOLEAN, rows : CacheRows]
  BY <1>1 DEF Cache!Nothing
<1>8. CacheTypes'
  BY <1>1, <1>2, <1>4, <1>5, <1>7 DEF CacheInv, CacheTypes, Cache!TypeOK, CacheRows
<1>. QED
  BY <1>6, <1>8 DEF CacheInv

LEMMA CacheReads == ASSUME CacheInv, Cache!ReadRow PROVE CacheInv'
<1>1. /\ read \in CacheRows /\ most \in CacheRows /\ Len(read) < Len(most)
      /\ Cache!IsPrefix(read, most) /\ reading
  BY DEF CacheInv, CacheTypes, Cache!TypeOK, Following, Cache!ReadRow, CacheRows
<1>2. read' = read \o <<most[Len(read) + 1]>>
  BY DEF Cache!ReadRow
<1>3. read' \in CacheRows /\ Cache!IsPrefix(read', most)
  BY <1>1, <1>2, PrefixFollows DEF CacheRows
<1>4. UNCHANGED <<ino, complete, torn, entry, reading, opened, stat, most>>
  BY DEF Cache!ReadRow, Cache!file
<1>5. Following' /\ Recognised'
  BY <1>1, <1>3, <1>4 DEF CacheInv, Following, Recognised, Cache!Alike
<1>6. CacheTypes'
  BY <1>3, <1>4 DEF CacheInv, CacheTypes, Cache!TypeOK, CacheRows
<1>. QED
  BY <1>5, <1>6 DEF CacheInv

LEMMA CacheEnds ==
  ASSUME CacheInv, Cache!Finish \/ Cache!Abandon \/ Cache!Evict PROVE CacheInv'
<1>1. <<>> \in CacheRows /\ read \in CacheRows /\ stat.ino \in Cache!Files
  BY DEF CacheInv, CacheTypes, Cache!TypeOK, CacheRows
<1>2. UNCHANGED <<ino, complete, torn, stat>>
  BY DEF Cache!Finish, Cache!Abandon, Cache!Evict, Cache!file, Cache!reader
<1>3. Cache!Nothing \in [ino : Cache!Files \cup {0}, size : Nat, same : BOOLEAN, rows : CacheRows]
  BY <1>1 DEF Cache!Nothing
<1>4. CASE Cache!Finish
  <2>. DEFINE kept == [ino |-> stat.ino, rows |-> read, same |-> stat.same,
                       size |-> IF stat.size > 2 * Len(read) THEN stat.size ELSE 2 * Len(read)]
  <2>1. entry' \in {Cache!Nothing, kept}
    BY <1>4 DEF Cache!Finish
  <2>2. /\ kept \in [ino : Cache!Files \cup {0}, size : Nat, same : BOOLEAN, rows : CacheRows]
        /\ kept.ino = stat.ino /\ kept.rows = read
    <3>1. Len(read) \in Nat /\ stat \in [ino : Cache!Files, size : Nat, same : BOOLEAN]
      BY <1>1 DEF CacheInv, CacheTypes, CacheRows
    <3>. QED
      BY <1>1, <3>1
  <2>. HIDE DEF kept
  <2>3. entry' \in [ino : Cache!Files \cup {0}, size : Nat, same : BOOLEAN, rows : CacheRows]
    BY <1>3, <2>1, <2>2
  <2>4. reading' = FALSE /\ opened' = FALSE /\ read' = <<>> /\ most' = <<>> /\ reading
    BY <1>4 DEF Cache!Finish, Cache!Close
  <2>5. Recognised'
    <3>1. CASE entry' = Cache!Nothing
      <4>1. 0 \notin Cache!Files /\ ino \in Cache!Files
        BY DEF Cache!Files, CacheInv, CacheTypes, Cache!TypeOK
      <4>. QED
        BY <1>2, <3>1, <4>1 DEF Recognised, Cache!Nothing
    <3>2. CASE entry' = kept
      <4>1. stat.ino = ino => Cache!IsPrefix(read, complete)
        BY <2>4 DEF CacheInv, Following
      <4>. QED
        BY <1>2, <2>2, <3>2, <4>1 DEF Recognised
    <3>. QED
      BY <2>1, <3>1, <3>2
  <2>6. CacheTypes' /\ Following'
    BY <1>1, <1>2, <2>3, <2>4 DEF CacheInv, CacheTypes, Cache!TypeOK, CacheRows, Following
  <2>. QED
    BY <2>5, <2>6 DEF CacheInv
<1>5. CASE Cache!Abandon
  <2>1. reading' = FALSE /\ opened' = FALSE /\ read' = <<>> /\ most' = <<>> /\ entry' = entry
    BY <1>5 DEF Cache!Abandon, Cache!Close
  <2>. QED
    BY <1>1, <1>2, <2>1
       DEF CacheInv, CacheTypes, Cache!TypeOK, CacheRows, Following, Recognised, Cache!Alike
<1>6. CASE Cache!Evict
  <2>1. entry' = Cache!Nothing /\ UNCHANGED <<reading, opened, read, most>>
    BY <1>6 DEF Cache!Evict, Cache!reader
  <2>2. Recognised'
    <3>1. 0 \notin Cache!Files /\ ino \in Cache!Files
      BY DEF Cache!Files, CacheInv, CacheTypes, Cache!TypeOK
    <3>. QED
      BY <1>2, <2>1, <3>1 DEF Recognised, Cache!Nothing
  <2>3. CacheTypes' /\ Following'
    BY <1>1, <1>2, <1>3, <2>1 DEF CacheInv, CacheTypes, Cache!TypeOK, CacheRows, Following
  <2>. QED
    BY <2>2, <2>3 DEF CacheInv
<1>. QED
  BY <1>4, <1>5, <1>6

LEMMA CacheKept == ASSUME CacheInv, Cache!Next PROVE CacheInv'
BY CacheWrites, CacheTears, CacheReplaces, CacheOpens, CacheReads, CacheEnds DEF Cache!Next

LEMMA CacheStays == ASSUME CacheInv, UNCHANGED cache PROVE CacheInv'
BY DEF cache, CacheInv, CacheTypes, Cache!TypeOK, Following, Recognised, Cache!Alike

LEMMA CacheIsTrue == ASSUME CacheInv PROVE Cache!TypeOK /\ Cache!ReadsAfresh
BY DEF CacheInv, CacheTypes, Following, Cache!ReadsAfresh

-----------------------------------------------------------------------------
Measurements ==
  [offset : Int, uncertainty : Nat, anchor : Int, mono : Int, from : Int, until : Int, session : Nat]

(* What a measurement says of its session: the reference was within its    *)
(* uncertainty of what the node's wall clock is mapped to.                 *)
Truthful(v) ==
  /\ v \in Measurements /\ v.session \in 1..Len(axis)
  /\ Mapping!Distance(2 * v.anchor + v.offset, 2 * (v.mono + axis[v.session])) <= v.uncertainty

Sent == exchange \in [t1 : Int, m1 : Int] /\ exchange.m1 <= now
Answered ==
  /\ exchange \in [t1 : Int, m1 : Int, t2 : Int, session : Nat, stable : BOOLEAN]
  /\ exchange.session \in 1..Len(axis)
  /\ exchange.m1 <= exchange.t2 - axis[exchange.session]
  /\ exchange.t2 - axis[exchange.session] <= now

Held == Mapping!ToSet(samples) \cup calibration \cup (IF cached = <<>> THEN {} ELSE cached[1])

MappingInv ==
  /\ Mapping!TypeOK /\ axis # <<>>
  /\ exchange = Mapping!None \/ Sent \/ Answered
  /\ samples \in Seq(Measurements) /\ \A v \in Held : Truthful(v)
  /\ span = Mapping!None \/ span \in [wall : Int, mono : Int]
  /\ Mapping!MappingIsTrue

LEMMA Near ==
  ASSUME NEW a \in Int, NEW b \in Int, NEW u \in Int
  PROVE  Mapping!Distance(a, b) <= u <=> a - b <= u /\ b - a <= u
BY DEF Mapping!Distance

LEMMA Shapes ==
  ASSUME NEW e
  PROVE  /\ e \in [t1 : Int, m1 : Int] => e # Mapping!None /\ "t2" \notin DOMAIN e
         /\ e \in [t1 : Int, m1 : Int, t2 : Int, session : Nat, stable : BOOLEAN] =>
              e # Mapping!None /\ "t2" \in DOMAIN e
BY DEF Mapping!None

LEMMA MappingStarts == ASSUME Mapping!Init PROVE MappingInv
<1>1. <<>> \in Seq(Measurements) /\ axis = <<0>> /\ axis \in Seq(Int) /\ axis # <<>>
  BY DEF Mapping!Init
<1>2. Mapping!TypeOK
  BY <1>1, SubsystemsAssumption DEF Mapping!Init, Mapping!TypeOK
<1>3. Held = {}
  BY DEF Mapping!Init, Held, Mapping!ToSet
<1>. QED
  BY <1>1, <1>2, <1>3 DEF Mapping!Init, MappingInv, Mapping!MappingIsTrue

(* What was true of the sessions stays true while they are only added to. *)
LEMMA TruthStays ==
  ASSUME axis \in Seq(Int), axis' \in Seq(Int), Len(axis) <= Len(axis'),
         \A s \in 1..Len(axis) : axis'[s] = axis[s],
         NEW v, Truthful(v)
  PROVE  Truthful(v)'
<1>1. Len(axis) \in Nat /\ Len(axis') \in Nat
  OBVIOUS
<1>. QED
  BY <1>1 DEF Truthful

(* What no step of the clocks or of a span does.                           *)
LEMMA OnlyTime ==
  ASSUME MappingInv, Mapping!TypeOK', UNCHANGED <<axis, exchange, samples, calibration>>,
         now <= now', cached' \in {cached, <<>>, <<Mapping!Mappings>>},
         span' \in {span, Mapping!None} \/ span' \in [wall : Int, mono : Int],
         Mapping!MappingIsTrue'
  PROVE  MappingInv'
<1>1. now \in Int /\ now' \in Int
  BY DEF MappingInv, Mapping!TypeOK
<1>2. exchange' = Mapping!None \/ Sent' \/ Answered'
  <2>1. CASE exchange = Mapping!None
    BY <2>1 DEF Mapping!None
  <2>2. CASE Sent
    BY <1>1, <2>2 DEF Sent
  <2>3. CASE Answered
    <3>1. axis[exchange.session] \in Int /\ exchange.t2 \in Int
      <4>1. axis \in Seq(Int) /\ exchange.session \in 1..Len(axis) /\ exchange.t2 \in Int
        BY <2>3 DEF Answered, MappingInv, Mapping!TypeOK
      <4>. QED
        BY <4>1, ElementOfSeq
    <3>. QED
      BY <1>1, <2>3, <3>1 DEF Answered
  <2>. QED
    BY <2>1, <2>2, <2>3 DEF MappingInv
<1>3. Held' \subseteq Held
  <2>1. <<Mapping!Mappings>> # <<>> /\ <<Mapping!Mappings>>[1] = Mapping!Mappings
    OBVIOUS
  <2>2. Mapping!Mappings \subseteq Held
    BY DEF Held, Mapping!Mappings
  <2>. QED
    BY <2>1, <2>2 DEF Held, Mapping!ToSet
<1>4. \A v \in Held' : Truthful(v)'
  BY <1>3 DEF MappingInv, Truthful
<1>. QED
  BY <1>2, <1>4 DEF MappingInv

LEMMA TimeKept ==
  ASSUME MappingInv, Mapping!Tick \/ Mapping!StepClock \/ Mapping!Begin PROVE MappingInv'
<1>1. /\ now \in 0..MaxTime /\ node \in Int /\ reference \in Int /\ steps \in 0..MaxSteps
      /\ MaxTime \in Nat /\ MaxSteps \in Nat
  BY SubsystemsAssumption DEF MappingInv, Mapping!TypeOK
<1>2. Mapping!TypeOK' /\ now <= now'
  <2>1. UNCHANGED <<axis, samples, sent>> /\ Mapping!TypeOK
    BY DEF Mapping!Tick, Mapping!StepClock, Mapping!Begin, Mapping!measuring, MappingInv
  <2>2. CASE Mapping!Tick
    <3>1. now < MaxTime /\ now' = now + 1 /\ UNCHANGED <<node, reference, steps>>
      BY <2>2 DEF Mapping!Tick
    <3>2. now' \in 0..MaxTime /\ now <= now'
      BY <1>1, <3>1
    <3>. QED
      BY <2>1, <3>1, <3>2 DEF Mapping!TypeOK
  <2>3. CASE Mapping!StepClock
    <3>1. /\ steps < MaxSteps /\ steps' = steps + 1 /\ UNCHANGED now
          /\ \E by \in {-1, 1} : \/ node' = node + by /\ UNCHANGED reference
                                 \/ reference' = reference + by /\ UNCHANGED node
      BY <2>3 DEF Mapping!StepClock
    <3>2. steps' \in 0..MaxSteps /\ node' \in Int /\ reference' \in Int /\ now <= now'
      BY <1>1, <3>1
    <3>. QED
      BY <2>1, <3>1, <3>2 DEF Mapping!TypeOK
  <2>4. CASE Mapping!Begin
    <3>1. UNCHANGED <<now, node, reference, steps>>
      BY <2>4 DEF Mapping!Begin, Mapping!clocks
    <3>. QED
      BY <1>1, <2>1, <3>1 DEF Mapping!TypeOK
  <2>. QED
    BY <2>2, <2>3, <2>4
<1>3. UNCHANGED <<axis, exchange, samples, calibration>> /\ cached' \in {cached, <<>>}
  BY DEF Mapping!Tick, Mapping!StepClock, Mapping!Begin, Mapping!clocks, Mapping!measuring
<1>4. span' = span \/ span' \in [wall : Int, mono : Int]
  BY <1>1 DEF Mapping!Tick, Mapping!StepClock, Mapping!Begin, Mapping!Wall
<1>5. Mapping!MappingIsTrue'
  BY DEF Mapping!Tick, Mapping!StepClock, Mapping!Begin, Mapping!Unrecorded, Mapping!MappingIsTrue
<1>. QED
  BY <1>2, <1>3, <1>4, <1>5, OnlyTime

(* What a step of a calibration keeps.                                     *)
LEMMA OnlyMeasures ==
  ASSUME MappingInv, Mapping!Measuring, sent' \in 0..MaxSent,
         axis' \in Seq(Int), Len(axis) <= Len(axis'), \A s \in 1..Len(axis) : axis'[s] = axis[s],
         samples' \in Seq(Measurements), Len(samples') <= 2,
         \A v \in Mapping!ToSet(samples') \cup calibration' : v \in Held \/ Truthful(v)',
         exchange' = Mapping!None \/ Sent' \/ Answered'
  PROVE  MappingInv'
<1>1. /\ UNCHANGED <<now, node, reference, steps, cached, span>> /\ record' = Mapping!None
      /\ axis \in Seq(Int) /\ axis # <<>> /\ axis' # <<>>
  <2>1. Len(axis) \in Nat \ {0}
    BY EmptySeq DEF MappingInv, Mapping!TypeOK
  <2>2. axis' # <<>>
    BY <2>1
  <2>. QED
    BY <2>2 DEF Mapping!Measuring, Mapping!Unrecorded, Mapping!clocks, MappingInv, Mapping!TypeOK
<1>2. \A v \in Held : Truthful(v)'
  BY <1>1, TruthStays DEF MappingInv
<1>3. \A v \in Held' : Truthful(v)'
  BY <1>1, <1>2 DEF Held
<1>4. Mapping!TypeOK'
  BY <1>1 DEF MappingInv, Mapping!TypeOK
<1>. QED
  BY <1>1, <1>3, <1>4 DEF MappingInv, Mapping!MappingIsTrue

LEMMA SendKept == ASSUME MappingInv, Mapping!Send PROVE MappingInv'
<1>1. now \in Int /\ node \in Int /\ sent \in 0..MaxSent /\ MaxSent \in Nat /\ sent < MaxSent
  BY SubsystemsAssumption DEF MappingInv, Mapping!TypeOK, Mapping!Send
<1>2. exchange' = [t1 |-> now + node, m1 |-> now] /\ now' = now
  BY DEF Mapping!Send, Mapping!Measuring, Mapping!clocks, Mapping!Wall
<1>3. Sent'
  BY <1>1, <1>2 DEF Sent
<1>4. sent' \in 0..MaxSent
  BY <1>1 DEF Mapping!Send
<1>5. UNCHANGED <<axis, samples, calibration>> /\ Mapping!Measuring
  BY DEF Mapping!Send
<1>. QED
  BY <1>3, <1>4, <1>5, OnlyMeasures DEF MappingInv, Mapping!TypeOK, Held

LEMMA LoseKept == ASSUME MappingInv, Mapping!Lose PROVE MappingInv'
<1>1. UNCHANGED <<axis, samples, sent, calibration>> /\ Mapping!Measuring /\ exchange' = Mapping!None
  BY DEF Mapping!Lose
<1>. QED
  BY <1>1, OnlyMeasures DEF MappingInv, Mapping!TypeOK, Held, Mapping!None

LEMMA AnswerKept == ASSUME MappingInv, Mapping!Answer PROVE MappingInv'
<1>1. Sent
  BY Shapes DEF MappingInv, Mapping!Answer, Mapping!Unanswered, Answered
<1>2. /\ axis \in Seq(Int) /\ Len(axis) \in Nat \ {0} /\ reference \in Int /\ now \in Int
      /\ exchange.t1 \in Int /\ exchange.m1 \in Int /\ exchange.m1 <= now
  BY <1>1, EmptySeq DEF MappingInv, Mapping!TypeOK, Sent
<1>. DEFINE stable == Mapping!Within(reference, Mapping!Last(axis))
<1>3. /\ axis' = IF stable THEN axis ELSE Append(axis, reference)
      /\ exchange' = [t1 |-> exchange.t1, m1 |-> exchange.m1, t2 |-> now + reference,
                      session |-> Len(axis'), stable |-> stable]
  BY DEF Mapping!Answer
<1>4. stable \in BOOLEAN /\ (stable => axis[Len(axis)] = reference)
  BY DEF Mapping!Within, Mapping!Last
<1>. HIDE DEF stable
<1>5. /\ axis' \in Seq(Int) /\ Len(axis') \in Nat \ {0} /\ Len(axis) <= Len(axis')
      /\ \A s \in 1..Len(axis) : axis'[s] = axis[s]
      /\ axis'[Len(axis')] = reference
  <2>1. CASE stable
    BY <1>2, <1>3, <1>4, <2>1
  <2>2. CASE ~stable
    BY <1>2, <1>3, <2>2, AppendProperties
  <2>. QED
    BY <2>1, <2>2
<1>6. /\ UNCHANGED <<samples, sent, calibration>> /\ Mapping!Measuring /\ now' = now
  BY DEF Mapping!Answer, Mapping!Measuring, Mapping!clocks
<1>7. Answered'
  <2>1. /\ exchange' \in [t1 : Int, m1 : Int, t2 : Int, session : Nat, stable : BOOLEAN]
        /\ exchange'.session = Len(axis') /\ exchange'.t2 = now + reference /\ exchange'.m1 = exchange.m1
    BY <1>2, <1>3, <1>4, <1>5
  <2>2. exchange'.session \in 1..Len(axis') /\ axis'[exchange'.session] = reference
    BY <1>5, <2>1
  <2>3. exchange'.t2 - axis'[exchange'.session] = now
    BY <1>2, <2>1, <2>2
  <2>. QED
    BY <1>2, <1>6, <2>1, <2>2, <2>3 DEF Answered
<1>. QED
  BY <1>5, <1>6, <1>7, OnlyMeasures DEF MappingInv, Mapping!TypeOK, Held

(* The heart of it: half the round trip bounds the error.                  *)
LEMMA MeasuredIsTrue ==
  ASSUME MappingInv, Answered, now - exchange.m1 = Mapping!Wall - exchange.t1
  PROVE  Truthful(Mapping!Measured)
<1>. DEFINE s == exchange.session  a == axis[s]  t1 == exchange.t1  m1 == exchange.m1  t2 == exchange.t2
            v == Mapping!Measured
<1>1. /\ now \in Int /\ node \in Int /\ t1 \in Int /\ m1 \in Int /\ t2 \in Int
      /\ s \in Nat /\ s \in 1..Len(axis) /\ axis \in Seq(Int) /\ TTL \in Int
  BY SubsystemsAssumption DEF MappingInv, Mapping!TypeOK, Answered
<1>2. a \in Int
  BY <1>1, ElementOfSeq
<1>3. m1 <= t2 - a /\ t2 - a <= now /\ now - m1 = (now + node) - t1
  BY DEF Answered, Mapping!Wall
<1>4. v = [offset |-> (t2 - t1) + (t2 - (now + node)), uncertainty |-> now - m1, anchor |-> now + node,
           mono |-> now, from |-> t1, until |-> (now + node) + TTL, session |-> s]
  BY DEF Mapping!Measured, Mapping!Wall
<1>. HIDE DEF a, t1, m1, t2, v, s
<1>5. /\ v.offset = (t2 - t1) + (t2 - (now + node)) /\ v.uncertainty = now - m1 /\ v.anchor = now + node
      /\ v.mono = now /\ v.from = t1 /\ v.until = (now + node) + TTL /\ v.session = s
  BY <1>4
<1>6. now - m1 \in Nat
  BY <1>1, <1>2, <1>3
<1>7. v \in Measurements
  <2>1. (t2 - t1) + (t2 - (now + node)) \in Int /\ now + node \in Int /\ (now + node) + TTL \in Int
    BY <1>1
  <2>. QED
    BY <1>1, <1>4, <1>6, <2>1 DEF Measurements
<1>. DEFINE here == 2 * (now + node) + ((t2 - t1) + (t2 - (now + node)))  there == 2 * (now + a)  u == now - m1
<1>8. here \in Int /\ there \in Int /\ u \in Int /\ here - there <= u /\ there - here <= u
  BY <1>1, <1>2, <1>3
<1>. HIDE DEF here, there, u
<1>9. Mapping!Distance(here, there) <= u
  BY <1>8, Near
<1>10. Mapping!Distance(2 * v.anchor + v.offset, 2 * (v.mono + axis[v.session])) <= v.uncertainty
  BY <1>5, <1>9 DEF here, there, u, a
<1>. QED
  BY <1>1, <1>5, <1>7, <1>10 DEF Truthful, v

LEMMA ReceiveKept == ASSUME MappingInv, Mapping!Receive PROVE MappingInv'
<1>1. Answered
  BY Shapes DEF MappingInv, Mapping!Receive, Mapping!Unanswered, Sent
<1>2. now - exchange.m1 = Mapping!Wall - exchange.t1 /\ Len(samples) < 2
  BY DEF Mapping!Receive, Mapping!Within
<1>3. Truthful(Mapping!Measured) /\ Mapping!Measured \in Measurements
  BY <1>1, <1>2, MeasuredIsTrue DEF Truthful
<1>4. /\ UNCHANGED <<axis, sent, calibration>> /\ Mapping!Measuring /\ exchange' = Mapping!None
  BY DEF Mapping!Receive
<1>5. samples' \in {<<>>, Append(samples, Mapping!Measured)} /\ samples \in Seq(Measurements)
  BY DEF Mapping!Receive, MappingInv
<1>6. /\ samples' \in Seq(Measurements) /\ Len(samples') <= 2
      /\ Mapping!ToSet(samples') \subseteq Mapping!ToSet(samples) \cup {Mapping!Measured}
  <2>1. CASE samples' = <<>>
    BY <2>1 DEF Mapping!ToSet
  <2>2. CASE samples' = Append(samples, Mapping!Measured)
    <3>. DEFINE more == Append(samples, Mapping!Measured)
    <3>1. /\ more \in Seq(Measurements) /\ Len(more) = Len(samples) + 1 /\ Len(samples) \in Nat
          /\ \A i \in 1..Len(samples) : more[i] = samples[i]
          /\ more[Len(samples) + 1] = Mapping!Measured
      BY <1>3, <1>5, AppendProperties
    <3>2. DOMAIN more = 1..(Len(samples) + 1) /\ DOMAIN samples = 1..Len(samples)
      BY <1>5, <3>1, LenProperties
    <3>. HIDE DEF more
    <3>3. \A i \in DOMAIN more : i \in DOMAIN samples \/ i = Len(samples) + 1
      BY <3>1, <3>2
    <3>4. Mapping!ToSet(more) \subseteq Mapping!ToSet(samples) \cup {Mapping!Measured}
      BY <3>1, <3>2, <3>3 DEF Mapping!ToSet
    <3>. QED
      BY <1>2, <2>2, <3>1, <3>4 DEF more
  <2>. QED
    BY <1>5, <2>1, <2>2
<1>7. Truthful(Mapping!Measured) => \A v : v = Mapping!Measured => Truthful(v)'
  BY <1>4 DEF Truthful
<1>. QED
  BY <1>3, <1>4, <1>6, <1>7, OnlyMeasures DEF MappingInv, Mapping!TypeOK, Held, Mapping!None

LEMMA Sharpest ==
  ASSUME NEW S, \A v \in S : Truthful(v), S # {}
  PROVE  Mapping!SharpestIn(S) \in S
<1>. DEFINE U == {v.uncertainty : v \in S}
<1>1. U \in SUBSET Nat /\ U # {}
  BY DEF Truthful, Measurements
<1>2. PICK least \in U : \A x \in U : least <= x
  BY <1>1, Least
<1>3. \E v \in S : \A w \in S : v.uncertainty <= w.uncertainty
  BY <1>2
<1>. QED
  BY <1>3 DEF Mapping!SharpestIn

LEMMA SaveKept == ASSUME MappingInv, Mapping!Save PROVE MappingInv'
<1>. DEFINE usable == {v \in Mapping!ToSet(samples) : Mapping!Usable(v)}
<1>1. /\ UNCHANGED <<axis, exchange, sent>> /\ Mapping!Measuring /\ samples' = <<>> /\ exchange = Mapping!None
      /\ calibration' = IF usable = {} THEN calibration
                        ELSE {Mapping!SharpestIn(usable)}
                             \cup {old \in calibration : Mapping!Agrees(old, Mapping!SharpestIn(usable))}
  BY DEF Mapping!Save
<1>2. usable # {} => Mapping!SharpestIn(usable) \in usable
  BY Sharpest DEF MappingInv, Held
<1>3. calibration' \subseteq Held
  BY <1>1, <1>2 DEF Held
<1>4. Mapping!ToSet(samples') = {} /\ samples' \in Seq(Measurements) /\ Len(samples') <= 2
  BY <1>1 DEF Mapping!ToSet
<1>5. /\ axis' = axis /\ axis \in Seq(Int) /\ Len(axis) \in Nat /\ sent' \in 0..MaxSent
      /\ exchange' = Mapping!None
  BY <1>1 DEF MappingInv, Mapping!TypeOK
<1>6. \A v \in Mapping!ToSet(samples') \cup calibration' : v \in Held \/ Truthful(v)'
  BY <1>3, <1>4
<1>7. Len(axis) <= Len(axis') /\ \A s \in 1..Len(axis) : axis'[s] = axis[s]
  BY <1>5
<1>. HIDE DEF usable
<1>. QED
  BY <1>1, <1>4, <1>5, <1>6, <1>7, OnlyMeasures

(* A mapping that is steady now says of any time since its anchor, whose   *)
(* wall clock differs from the monotonic one as now, what it says of now.  *)
LEMMA Mapped ==
  ASSUME Mapping!TypeOK, NEW v, Truthful(v), Mapping!Steady(v),
         NEW wall \in Int, NEW mono \in Int, wall - mono = node
  PROVE  Mapping!Distance(2 * wall + v.offset, 2 * (mono + axis[v.session])) <= v.uncertainty
<1>. DEFINE a == axis[v.session]  o == v.offset  u == v.uncertainty  w == v.anchor  m == v.mono
<1>1. /\ now \in Int /\ node \in Int /\ axis \in Seq(Int) /\ v.session \in 1..Len(axis)
      /\ o \in Int /\ u \in Int /\ w \in Int /\ m \in Int
  BY DEF Mapping!TypeOK, Truthful, Measurements
<1>2. a \in Int
  BY <1>1, ElementOfSeq
<1>3. (now + node) - w = now - m
  BY DEF Mapping!Steady, Mapping!Within, Mapping!Wall
<1>4. Mapping!Distance(2 * w + o, 2 * (m + a)) <= u
  BY DEF Truthful
<1>. HIDE DEF a, o, u, w, m
<1>. DEFINE l1 == 2 * w + o  r1 == 2 * (m + a)  l2 == 2 * wall + o  r2 == 2 * (mono + a)
<1>5. l1 \in Int /\ r1 \in Int /\ l2 \in Int /\ r2 \in Int /\ l1 - r1 = l2 - r2 /\ r1 - l1 = r2 - l2
  BY <1>1, <1>2, <1>3
<1>. HIDE DEF l1, r1, l2, r2
<1>6. Mapping!Distance(l1, r1) <= u
  BY <1>4 DEF l1, r1
<1>7. Mapping!Distance(l2, r2) <= u
  BY <1>1, <1>5, <1>6, Near
<1>. QED
  BY <1>7 DEF l2, r2, a, o, u

LEMMA MappingEndKept == ASSUME MappingInv, Mapping!End PROVE MappingInv'
<1>1. /\ UNCHANGED <<now, node, reference, steps, axis, exchange, samples, sent, calibration>>
      /\ span # Mapping!None /\ span' = Mapping!None /\ cached' = <<Mapping!Mappings>>
  BY DEF Mapping!End, Mapping!clocks, Mapping!measuring
<1>2. Mapping!TypeOK' /\ Mapping!TypeOK
  BY <1>1 DEF MappingInv, Mapping!TypeOK
<1>3. span \in [wall : Int, mono : Int] /\ now \in Int /\ node \in Int
  BY <1>1 DEF MappingInv, Mapping!TypeOK
<1>4. Mapping!MappingIsTrue'
  <2>. DEFINE v == Mapping!Project(span.wall)
  <2>1. SUFFICES ASSUME record' # Mapping!None PROVE Mapping!MappingIsTrue'
    BY DEF Mapping!MappingIsTrue, Mapping!None
  <2>2. /\ Mapping!Within(Mapping!Wall - span.wall, now - span.mono) /\ v # Mapping!None
        /\ record' = [start |-> span.wall, end |-> Mapping!Wall, began |-> span.mono, ended |-> now, mapping |-> v]
    BY <2>1 DEF Mapping!End
  <2>3. v \in Mapping!Covering(span.wall) /\ Mapping!Steady(v)
    <3>1. Mapping!Covering(span.wall) \subseteq Held
      BY DEF Mapping!Covering, Mapping!Mappings, Held
    <3>2. Mapping!Covering(span.wall) # {} /\ v = Mapping!SharpestIn(Mapping!Covering(span.wall))
          /\ Mapping!Steady(v)
      BY <2>2 DEF Mapping!Project
    <3>. QED
      BY <3>1, <3>2, Sharpest DEF MappingInv
  <2>4. Truthful(v)
    BY <2>3 DEF Mapping!Covering, Mapping!Mappings, Held, MappingInv
  <2>. HIDE DEF v
  <2>5. /\ Mapping!Wall \in Int /\ Mapping!Wall - now = node /\ span.wall \in Int /\ span.mono \in Int
        /\ span.wall - span.mono = node
    BY <1>3, <2>2 DEF Mapping!Wall, Mapping!Within
  <2>6. /\ Mapping!Distance(2 * span.wall + v.offset, 2 * (span.mono + axis[v.session])) <= v.uncertainty
        /\ Mapping!Distance(2 * Mapping!Wall + v.offset, 2 * (now + axis[v.session])) <= v.uncertainty
    BY <1>2, <1>3, <2>3, <2>4, <2>5, Mapped
  <2>. QED
    BY <1>1, <2>2, <2>6 DEF Mapping!MappingIsTrue
<1>. QED
  BY <1>1, <1>2, <1>3, <1>4, OnlyTime

LEMMA MappingKept == ASSUME MappingInv, Mapping!Next PROVE MappingInv'
BY TimeKept, SendKept, LoseKept, AnswerKept, ReceiveKept, SaveKept, MappingEndKept DEF Mapping!Next

LEMMA MappingStays == ASSUME MappingInv, UNCHANGED mapping PROVE MappingInv'
<1>1. /\ now' = now /\ node' = node /\ reference' = reference /\ axis' = axis /\ exchange' = exchange
      /\ samples' = samples /\ calibration' = calibration /\ cached' = cached /\ span' = span
      /\ record' = record /\ steps' = steps /\ sent' = sent
  BY DEF mapping
<1>2. Mapping!TypeOK' /\ Mapping!MappingIsTrue'
  BY <1>1 DEF MappingInv, Mapping!TypeOK, Mapping!MappingIsTrue
<1>3. exchange' = Mapping!None \/ Sent' \/ Answered'
  BY <1>1 DEF MappingInv, Sent, Answered, Mapping!None
<1>4. \A v \in Held' : Truthful(v)'
  BY <1>1 DEF MappingInv, Held, Truthful
<1>. QED
  BY <1>1, <1>2, <1>3, <1>4 DEF MappingInv

-----------------------------------------------------------------------------
Stored == [path : Collector!Paths, stamp : Nat, size : Nat]

LEMMA BytesIs ==
  ASSUME NEW s \in Seq(Stored)
  PROVE  \E f \in [0..Len(s) -> Nat] :
           /\ f[0] = 0 /\ \A k \in 1..Len(s) : f[k] = f[k - 1] + s[k].size
           /\ Collector!Bytes(s) = f[Len(s)]
<1>. DEFINE n == Len(s)
            Sum(f) == f = [k \in 0..n |-> IF k = 0 THEN 0 ELSE f[k - 1] + s[k].size]
            sum == CHOOSE f : Sum(f)
            step == [x \in (1..n) \X Nat |-> x[2] + s[x[1]].size]
<1>1. n \in Nat /\ \A k \in 1..n : s[k] \in Stored
  BY ElementOfSeq
<1>2. \A k \in 1..n : s[k].size \in Nat
  BY <1>1 DEF Stored
<1>3. step \in [(1..n) \X Nat -> Nat]
  BY <1>1, <1>2
<1>4. PICK f \in [0..n -> Nat] : f[0] = 0 /\ \A k \in 1..n : f[k] = step[<<k, f[k - 1]>>]
  <2>. HIDE DEF step, n
  <2>1. \E f : Solves(n, Nat, 0, step, f)
    BY <1>1, <1>3, Recursion
  <2>. QED
    BY <2>1 DEF Solves
<1>5. \A k \in 1..n : f[k] = f[k - 1] + s[k].size
  <2>1. ASSUME NEW k \in 1..n PROVE f[k] = f[k - 1] + s[k].size
    <3>1. k - 1 \in 0..n
      BY <1>1
    <3>2. <<k, f[k - 1]>> \in (1..n) \X Nat
      BY <3>1
    <3>. QED
      BY <1>4, <3>2
  <2>. QED
    BY <2>1
<1>6. Sum(f)
  <2>1. \A k \in 0..n : f[k] = IF k = 0 THEN 0 ELSE f[k - 1] + s[k].size
    BY <1>1, <1>4, <1>5
  <2>. QED
    BY <2>1
<1>7. Sum(sum)
  BY <1>6
<1>8. Collector!Bytes(s) = sum[n]
  BY DEF Collector!Bytes
<1>. HIDE DEF sum, step, n
<1>9. sum[0] = 0 /\ \A k \in 1..n : sum[k] = sum[k - 1] + s[k].size
  BY <1>1, <1>7
<1>10. \A k \in 0..n : sum[k] = f[k]
  <2>1. SameSteps(n, sum, f)
    BY <1>4, <1>5, <1>9 DEF SameSteps
  <2>2. Agree(n, sum, f)
    BY <1>1, <2>1, Unique
  <2>. QED
    BY <2>2 DEF Agree
<1>11. Collector!Bytes(s) = f[n]
  BY <1>1, <1>8, <1>10
<1>. QED
  BY <1>4, <1>5, <1>11 DEF n

LEMMA BytesNat == ASSUME NEW s \in Seq(Stored) PROVE Collector!Bytes(s) \in Nat
BY BytesIs

LEMMA NoBytes == Collector!Bytes(<<>>) = 0
<1>1. <<>> \in Seq(Stored) /\ Len(<<>>) = 0
  BY EmptySeq
<1>. QED
  BY <1>1, BytesIs

LEMMA MoreBytes ==
  ASSUME NEW s \in Seq(Stored), NEW e \in Stored
  PROVE  Collector!Bytes(Append(s, e)) = Collector!Bytes(s) + e.size /\ Collector!Bytes(s) \in Nat
<1>. DEFINE n == Len(s)  r == Append(s, e)
<1>1. /\ r \in Seq(Stored) /\ n \in Nat /\ Len(r) = n + 1
      /\ (\A k \in 1..n : r[k] = s[k]) /\ r[n + 1] = e
  BY AppendProperties
<1>. HIDE DEF r
<1>2. PICK f \in [0..n -> Nat] : /\ f[0] = 0 /\ \A k \in 1..n : f[k] = f[k - 1] + s[k].size
                                 /\ Collector!Bytes(s) = f[n]
  BY BytesIs
<1>. HIDE DEF n
<1>3. PICK g \in [0..(n + 1) -> Nat] : /\ g[0] = 0 /\ \A k \in 1..(n + 1) : g[k] = g[k - 1] + r[k].size
                                       /\ Collector!Bytes(r) = g[n + 1]
  BY <1>1, BytesIs
<1>4. \A k \in 0..n : f[k] = g[k]
  <2>1. SameSteps(n, f, g)
    <3>1. f[0] = g[0]
      BY <1>2, <1>3
    <3>2. \A k \in 1..n : k \in 1..(n + 1) /\ r[k] = s[k]
      BY <1>1
    <3>3. \A k \in 1..n : f[k] = f[k - 1] + s[k].size /\ g[k] = g[k - 1] + s[k].size
      BY <1>2, <1>3, <3>2
    <3>. QED
      BY <3>1, <3>3 DEF SameSteps
  <2>2. Agree(n, f, g)
    BY <1>1, <2>1, Unique
  <2>. QED
    BY <2>2 DEF Agree
<1>5. g[n + 1] = g[n] + e.size /\ f[n] = g[n]
  BY <1>1, <1>3, <1>4
<1>. QED
  BY <1>1, <1>2, <1>3, <1>5 DEF r

LEMMA BytesOf ==
  ASSUME NEW s \in Seq(Stored), NEW i \in 1..Len(s)
  PROVE  s[i].size <= Collector!Bytes(s)
<1>. DEFINE P == {r \in Seq(Stored) : \A k \in 1..Len(r) : r[k].size <= Collector!Bytes(r)}
<1>1. <<>> \in P
  BY EmptySeq
<1>2. ASSUME NEW r \in P, NEW e \in Stored PROVE Append(r, e) \in P
  <2>1. /\ Collector!Bytes(Append(r, e)) = Collector!Bytes(r) + e.size
        /\ Collector!Bytes(r) \in Nat /\ e.size \in Nat
    BY MoreBytes DEF Stored
  <2>2. r \in Seq(Stored) /\ \A k \in 1..Len(r) : r[k].size <= Collector!Bytes(r) /\ r[k].size \in Nat
    <3>1. r \in Seq(Stored) /\ \A k \in 1..Len(r) : r[k].size <= Collector!Bytes(r)
      OBVIOUS
    <3>2. \A k \in 1..Len(r) : r[k] \in Stored
      BY <3>1, ElementOfSeq
    <3>. QED
      BY <3>1, <3>2 DEF Stored
  <2>. DEFINE t == Append(r, e)
  <2>3. t \in Seq(Stored) /\ Len(t) = Len(r) + 1 /\ (\A k \in 1..Len(r) : t[k] = r[k]) /\ t[Len(r) + 1] = e
    BY <2>2, AppendProperties
  <2>. HIDE DEF t
  <2>4. ASSUME NEW k \in 1..Len(t) PROVE t[k].size <= Collector!Bytes(r) + e.size
    <3>1. Len(r) \in Nat
      BY <2>2
    <3>2. CASE k = Len(r) + 1
      BY <2>1, <2>3, <3>2
    <3>3. CASE k \in 1..Len(r)
      BY <2>1, <2>2, <2>3, <3>3
    <3>. QED
      BY <2>3, <3>1, <3>2, <3>3
  <2>. QED
    BY <2>1, <2>3, <2>4 DEF t
<1>. HIDE DEF P
<1>3. P = Seq(Stored)
  <2>1. P \in SUBSET Seq(Stored)
    BY DEF P
  <2>. QED
    BY <1>1, <1>2, <2>1, Appending
<1>. QED
  BY <1>3 DEF P

LEMMA BytesApart ==
  ASSUME NEW s \in Seq(Stored), NEW t \in Seq(Stored)
  PROVE  Collector!Bytes(s \o t) = Collector!Bytes(s) + Collector!Bytes(t)
<1>. DEFINE P == {r \in Seq(Stored) : Collector!Bytes(s \o r) = Collector!Bytes(s) + Collector!Bytes(r)}
<1>1. <<>> \in P
  <2>1. s \o <<>> = s /\ <<>> \in Seq(Stored) /\ Collector!Bytes(s) \in Nat
    BY MoreBytes, ConcatEmptySeq, BytesIs
  <2>. QED
    BY <2>1, NoBytes
<1>2. ASSUME NEW r \in P, NEW e \in Stored PROVE Append(r, e) \in P
  <2>1. r \in Seq(Stored) /\ s \o r \in Seq(Stored) /\ Append(r, e) \in Seq(Stored)
    BY AppendProperties, ConcatProperties
  <2>2. s \o Append(r, e) = Append(s \o r, e)
    <3>. DEFINE a == s \o Append(r, e)  b == Append(s \o r, e)
    <3>1. /\ a \in Seq(Stored) /\ b \in Seq(Stored) /\ Len(a) = Len(b)
          /\ \A i \in 1..Len(a) : a[i] = b[i]
      BY <2>1
    <3>. HIDE DEF a, b
    <3>2. a = b
      BY <3>1, SeqEqual
    <3>. QED
      BY <3>2 DEF a, b
  <2>. DEFINE sr == s \o r
  <2>3. Collector!Bytes(sr) = Collector!Bytes(s) + Collector!Bytes(r)
    OBVIOUS
  <2>. HIDE DEF sr
  <2>4. sr \in Seq(Stored)
    BY <2>1 DEF sr
  <2>5. /\ Collector!Bytes(Append(sr, e)) = Collector!Bytes(sr) + e.size
        /\ Collector!Bytes(Append(r, e)) = Collector!Bytes(r) + e.size
        /\ Collector!Bytes(s) \in Nat /\ Collector!Bytes(r) \in Nat /\ e.size \in Nat
    BY <2>1, <2>4, MoreBytes DEF Stored
  <2>6. Collector!Bytes(Append(sr, e)) = Collector!Bytes(s) + Collector!Bytes(Append(r, e))
    BY <2>3, <2>5
  <2>. QED
    BY <2>1, <2>2, <2>6 DEF sr
<1>. HIDE DEF P
<1>3. P = Seq(Stored)
  <2>1. P \in SUBSET Seq(Stored)
    BY DEF P
  <2>. QED
    BY <1>1, <1>2, <2>1, Appending
<1>. QED
  BY <1>3 DEF P
-----------------------------------------------------------------------------
LEMMA OfIs ==
  ASSUME NEW s \in Seq(Stored), NEW S
  PROVE  \E f \in [0..Len(s) -> Seq(Stored)] :
           /\ f[0] = <<>>
           /\ \A k \in 1..Len(s) : f[k] = IF s[k].path \in S THEN Append(f[k - 1], s[k]) ELSE f[k - 1]
           /\ Collector!Of(s, S) = f[Len(s)]
<1>. DEFINE n == Len(s)
            Sum(f) == f = [k \in 0..n |-> IF k = 0 THEN <<>>
                                          ELSE IF s[k].path \in S THEN Append(f[k - 1], s[k]) ELSE f[k - 1]]
            sum == CHOOSE f : Sum(f)
            step == [x \in (1..n) \X Seq(Stored) |->
                       IF s[x[1]].path \in S THEN Append(x[2], s[x[1]]) ELSE x[2]]
<1>1. n \in Nat /\ (\A k \in 1..n : s[k] \in Stored) /\ <<>> \in Seq(Stored)
  BY ElementOfSeq, EmptySeq
<1>2. step \in [(1..n) \X Seq(Stored) -> Seq(Stored)]
  BY <1>1, AppendProperties
<1>3. PICK f \in [0..n -> Seq(Stored)] : f[0] = <<>> /\ \A k \in 1..n : f[k] = step[<<k, f[k - 1]>>]
  <2>. HIDE DEF step, n
  <2>1. \E f : Solves(n, Seq(Stored), <<>>, step, f)
    BY <1>1, <1>2, Recursion
  <2>. QED
    BY <2>1 DEF Solves
<1>4. \A k \in 1..n : f[k] = IF s[k].path \in S THEN Append(f[k - 1], s[k]) ELSE f[k - 1]
  <2>1. ASSUME NEW k \in 1..n
        PROVE  f[k] = IF s[k].path \in S THEN Append(f[k - 1], s[k]) ELSE f[k - 1]
    <3>1. k - 1 \in 0..n
      BY <1>1
    <3>2. <<k, f[k - 1]>> \in (1..n) \X Seq(Stored)
      BY <3>1
    <3>. QED
      BY <1>3, <3>2
  <2>. QED
    BY <2>1
<1>5. Sum(f)
  <2>1. \A k \in 0..n : f[k] = IF k = 0 THEN <<>>
                               ELSE IF s[k].path \in S THEN Append(f[k - 1], s[k]) ELSE f[k - 1]
    <3>1. \A k \in 0..n : k = 0 \/ k \in 1..n
      BY <1>1
    <3>. HIDE DEF n
    <3>. QED
      BY <1>3, <1>4, <3>1
  <2>. QED
    BY <2>1
<1>6. Sum(sum)
  BY <1>5
<1>7. Collector!Of(s, S) = sum[n]
  BY DEF Collector!Of
<1>. HIDE DEF sum, step, n
<1>8. /\ sum[0] = <<>>
      /\ \A k \in 1..n : sum[k] = IF s[k].path \in S THEN Append(sum[k - 1], s[k]) ELSE sum[k - 1]
  <2>1. \A k \in 0..n : sum[k] = IF k = 0 THEN <<>>
                                 ELSE IF s[k].path \in S THEN Append(sum[k - 1], s[k]) ELSE sum[k - 1]
    BY <1>6
  <2>2. 0 \in 0..n /\ \A k \in 1..n : k \in 0..n /\ k # 0
    BY <1>1
  <2>. HIDE DEF Sum
  <2>. QED
    BY <2>1, <2>2
<1>9. \A k \in 0..n : sum[k] = f[k]
  <2>1. SameSteps(n, sum, f)
    BY <1>3, <1>4, <1>8 DEF SameSteps
  <2>2. Agree(n, sum, f)
    BY <1>1, <2>1, Unique
  <2>. QED
    BY <2>2 DEF Agree
<1>10. Collector!Of(s, S) = f[n]
  BY <1>1, <1>7, <1>9
<1>. QED
  BY <1>3, <1>4, <1>10 DEF n

LEMMA OfNone == ASSUME NEW S PROVE Collector!Of(<<>>, S) = <<>>
<1>1. ASSUME NEW s \in Seq(Stored), Len(s) = 0 PROVE Collector!Of(s, S) = <<>>
  <2>1. PICK f \in [0..Len(s) -> Seq(Stored)] :
          /\ f[0] = <<>>
          /\ \A k \in 1..Len(s) : f[k] = IF s[k].path \in S THEN Append(f[k - 1], s[k]) ELSE f[k - 1]
          /\ Collector!Of(s, S) = f[Len(s)]
    BY OfIs
  <2>. QED
    BY <1>1, <2>1
<1>2. <<>> \in Seq(Stored) /\ Len(<<>>) = 0
  BY EmptySeq
<1>. QED
  BY <1>1, <1>2

LEMMA OfMore ==
  ASSUME NEW s \in Seq(Stored), NEW e \in Stored, NEW S
  PROVE  /\ Collector!Of(Append(s, e), S) = IF e.path \in S THEN Append(Collector!Of(s, S), e)
                                            ELSE Collector!Of(s, S)
         /\ Collector!Of(s, S) \in Seq(Stored)
<1>. DEFINE n == Len(s)  r == Append(s, e)
<1>1. /\ r \in Seq(Stored) /\ n \in Nat /\ Len(r) = n + 1
      /\ (\A k \in 1..n : r[k] = s[k]) /\ r[n + 1] = e
  BY AppendProperties
<1>. HIDE DEF r
<1>2. PICK f \in [0..n -> Seq(Stored)] :
        /\ f[0] = <<>>
        /\ \A k \in 1..n : f[k] = IF s[k].path \in S THEN Append(f[k - 1], s[k]) ELSE f[k - 1]
        /\ Collector!Of(s, S) = f[n]
  BY OfIs
<1>. HIDE DEF n
<1>3. PICK g \in [0..(n + 1) -> Seq(Stored)] :
        /\ g[0] = <<>>
        /\ \A k \in 1..(n + 1) : g[k] = IF r[k].path \in S THEN Append(g[k - 1], r[k]) ELSE g[k - 1]
        /\ Collector!Of(r, S) = g[n + 1]
  <2>1. PICK g \in [0..Len(r) -> Seq(Stored)] :
          /\ g[0] = <<>>
          /\ \A k \in 1..Len(r) : g[k] = IF r[k].path \in S THEN Append(g[k - 1], r[k]) ELSE g[k - 1]
          /\ Collector!Of(r, S) = g[Len(r)]
    BY <1>1, OfIs
  <2>2. Len(r) = n + 1
    BY <1>1
  <2>. QED
    BY <2>1, <2>2
<1>4. \A k \in 0..n : f[k] = g[k]
  <2>1. SameSteps(n, f, g)
    <3>1. f[0] = g[0]
      BY <1>2, <1>3
    <3>2. \A k \in 1..n : k \in 1..(n + 1) /\ r[k] = s[k]
      BY <1>1
    <3>3. \A k \in 1..n : g[k] = IF s[k].path \in S THEN Append(g[k - 1], s[k]) ELSE g[k - 1]
      BY <1>3, <3>2
    <3>. QED
      BY <1>2, <3>1, <3>3 DEF SameSteps
  <2>2. Agree(n, f, g)
    BY <1>1, <2>1, Unique
  <2>. QED
    BY <2>2 DEF Agree
<1>5. /\ n + 1 \in 1..(n + 1) /\ (n + 1) - 1 = n /\ n \in 0..n
  BY <1>1
<1>6. g[n + 1] = IF e.path \in S THEN Append(g[n], e) ELSE g[n]
  BY <1>1, <1>3, <1>5
<1>. QED
  BY <1>1, <1>2, <1>3, <1>4, <1>5, <1>6 DEF r

(* What is left and what is taken out make up what there was.              *)
LEMMA Parted ==
  ASSUME NEW s \in Seq(Stored), NEW S
  PROVE  LET in == Collector!Of(s, S)  out == Collector!Of(s, Collector!Paths \ S)
         IN  /\ in \in Seq(Stored) /\ out \in Seq(Stored)
             /\ Len(s) = Len(in) + Len(out)
             /\ Collector!Bytes(s) = Collector!Bytes(in) + Collector!Bytes(out)
<1>. DEFINE T == Collector!Paths \ S
            P == {r \in Seq(Stored) :
                    /\ Len(r) = Len(Collector!Of(r, S)) + Len(Collector!Of(r, T))
                    /\ Collector!Bytes(r) = Collector!Bytes(Collector!Of(r, S)) + Collector!Bytes(Collector!Of(r, T))}
<1>1. <<>> \in P
  BY EmptySeq, OfNone, NoBytes
<1>2. ASSUME NEW r \in P, NEW e \in Stored PROVE Append(r, e) \in P
  <2>. DEFINE a == Collector!Of(r, S)  b == Collector!Of(r, T)  t == Append(r, e)
  <2>1. /\ r \in Seq(Stored) /\ Len(r) = Len(a) + Len(b)
        /\ Collector!Bytes(r) = Collector!Bytes(a) + Collector!Bytes(b)
    OBVIOUS
  <2>2. /\ t \in Seq(Stored) /\ Len(t) = Len(r) + 1 /\ Collector!Bytes(t) = Collector!Bytes(r) + e.size
        /\ Collector!Bytes(r) \in Nat /\ Len(r) \in Nat
    BY <2>1, AppendProperties, MoreBytes
  <2>3. /\ a \in Seq(Stored) /\ Collector!Of(t, S) = IF e.path \in S THEN Append(a, e) ELSE a
        /\ b \in Seq(Stored) /\ Collector!Of(t, T) = IF e.path \in T THEN Append(b, e) ELSE b
    BY <2>1, OfMore
  <2>4. e.size \in Nat /\ (e.path \in T <=> e.path \notin S)
    BY DEF Stored
  <2>. HIDE DEF a, b, t, T
  <2>5. /\ Len(Append(a, e)) = Len(a) + 1 /\ Len(Append(b, e)) = Len(b) + 1 /\ Len(a) \in Nat /\ Len(b) \in Nat
        /\ Collector!Bytes(Append(a, e)) = Collector!Bytes(a) + e.size /\ Collector!Bytes(a) \in Nat
        /\ Collector!Bytes(Append(b, e)) = Collector!Bytes(b) + e.size /\ Collector!Bytes(b) \in Nat
    BY <2>3, AppendProperties, MoreBytes
  <2>6. /\ Len(t) = Len(Collector!Of(t, S)) + Len(Collector!Of(t, T))
        /\ Collector!Bytes(t) = Collector!Bytes(Collector!Of(t, S)) + Collector!Bytes(Collector!Of(t, T))
    <3>1. CASE e.path \in S
      <4>1. Collector!Of(t, S) = Append(a, e) /\ Collector!Of(t, T) = b
        BY <2>3, <2>4, <3>1
      <4>. QED
        BY <2>1, <2>2, <2>4, <2>5, <4>1
    <3>2. CASE e.path \notin S
      <4>1. Collector!Of(t, S) = a /\ Collector!Of(t, T) = Append(b, e)
        BY <2>3, <2>4, <3>2
      <4>. QED
        BY <2>1, <2>2, <2>4, <2>5, <4>1
    <3>. QED
      BY <3>1, <3>2
  <2>. QED
    BY <2>2, <2>6 DEF t
<1>. HIDE DEF P
<1>3. P = Seq(Stored)
  <2>1. P \in SUBSET Seq(Stored)
    BY DEF P
  <2>. QED
    BY <1>1, <1>2, <2>1, Appending
<1>4. s \in P
  BY <1>3
<1>5. Collector!Of(s, S) \in Seq(Stored) /\ Collector!Of(s, T) \in Seq(Stored)
  <2>1. PICK f \in [0..Len(s) -> Seq(Stored)] : Collector!Of(s, S) = f[Len(s)]
    BY OfIs
  <2>2. PICK g \in [0..Len(s) -> Seq(Stored)] : Collector!Of(s, T) = g[Len(s)]
    BY OfIs
  <2>. QED
    BY <2>1, <2>2
<1>. QED
  BY <1>4, <1>5 DEF P
-----------------------------------------------------------------------------
Snapshots == [stamp : Nat, size : Nat]
Stays(p) == file[p] = before.file[p] /\ file[p] # Collector!Absent /\ p[1] \notin finished
Shown(p) == p[1] \in DOMAIN selected /\ selected[p[1]] >= file[p].stamp

CollectorTypes ==
  /\ file \in [Collector!Paths -> Snapshots] /\ written \in 0..MaxObserved
  /\ \A p \in Collector!Paths : file[p].stamp <= written /\ file[p].size \in Sizes \cup {0}
  /\ finished \subseteq Jobs /\ active \subseteq Collector!Paths
  /\ before \in [file : [Collector!Paths -> Snapshots], finished : SUBSET Jobs, on : BOOLEAN]
  /\ \A p \in Collector!Paths : before.file[p].stamp <= written
  /\ left \in [runs : SUBSET Jobs, paths : SUBSET Collector!Paths]
  /\ selected \in [DOMAIN selected -> Nat]

CacheHolds ==
  /\ entries \in Seq(Stored) /\ bytes = Collector!Bytes(entries)
  /\ bytes <= MaxBytes /\ Len(entries) <= MaxFiles

PollCovers ==
  /\ before.finished \subseteq finished
  /\ ~before.on => left = Collector!Idle
  /\ \A p \in left.paths : p[1] \notin before.finished
  /\ \A r \in DOMAIN selected : r \notin before.finished
  /\ \A p \in Collector!Paths : Stays(p) => p[1] \in left.runs \/ p \in left.paths \/ Shown(p)

CollectorInv == CollectorTypes /\ CacheHolds /\ PollCovers

LEMMA CollectorNumbers ==
  /\ MaxObserved \in Nat /\ MaxFiles \in Nat \ {0} /\ MaxBytes \in Nat \ {0} /\ Sizes \subseteq Nat
BY SubsystemsAssumption

LEMMA CollectorIsFresh ==
  ASSUME CollectorInv PROVE Collector!TypeOK /\ Collector!CollectorIsFresh
<1>1. Collector!CacheIsBounded
  BY DEF CollectorInv, CacheHolds, Collector!CacheIsBounded
<1>2. Collector!TypeOK
  <2>1. bytes \in 0..MaxBytes
    <3>1. bytes \in Nat
      BY BytesIs DEF CollectorInv, CacheHolds
    <3>. QED
      BY <3>1, CollectorNumbers DEF CollectorInv, CacheHolds
  <2>2. \A p \in Collector!Paths : file[p].stamp \in 0..MaxObserved
    <3>1. \A p \in Collector!Paths : file[p].stamp \in Nat /\ file[p].stamp <= written
      BY DEF CollectorInv, CollectorTypes, Snapshots
    <3>. QED
      BY <3>1, CollectorNumbers DEF CollectorInv, CollectorTypes
  <2>. QED
    BY <2>1, <2>2 DEF CollectorInv, CollectorTypes, CacheHolds, Collector!TypeOK
<1>3. Collector!PublishesLatest
  BY DEF CollectorInv, PollCovers, Stays, Shown, Collector!PublishesLatest, Collector!Idle
<1>. QED
  BY <1>1, <1>2, <1>3 DEF Collector!CollectorIsFresh

LEMMA CollectorStarts == ASSUME Collector!Init PROVE CollectorInv
<1>1. Collector!Absent \in Snapshots /\ Collector!Absent.stamp = 0 /\ Collector!Absent.size = 0
  BY DEF Collector!Absent, Snapshots
<1>2. /\ file = [p \in Collector!Paths |-> Collector!Absent] /\ written = 0 /\ finished = {} /\ active = {}
      /\ before = [file |-> file, finished |-> {}, on |-> FALSE] /\ left = [runs |-> {}, paths |-> {}]
      /\ selected = <<>> /\ entries = <<>> /\ bytes = 0
  BY DEF Collector!Init, Collector!Idle
<1>3. file \in [Collector!Paths -> Snapshots] /\ \A p \in Collector!Paths : file[p] = Collector!Absent
  BY <1>1, <1>2
<1>4. selected \in [DOMAIN selected -> Nat] /\ DOMAIN selected = {}
  BY <1>2
<1>5. CollectorTypes
  BY <1>1, <1>2, <1>3, <1>4, CollectorNumbers DEF CollectorTypes
<1>6. CacheHolds
  BY <1>2, NoBytes, EmptySeq, CollectorNumbers DEF CacheHolds
<1>7. PollCovers
  BY <1>2, <1>3, <1>4 DEF PollCovers, Stays, Collector!Idle
<1>. QED
  BY <1>5, <1>6, <1>7 DEF CollectorInv

(* What the producers do meanwhile takes nothing from what a poll covers.  *)
LEMMA ProducedKept ==
  ASSUME CollectorInv, UNCHANGED <<entries, bytes, left, active, selected, before>>,
         file' \in [Collector!Paths -> Snapshots], written' \in 0..MaxObserved, written <= written',
         \A p \in Collector!Paths : file'[p].stamp <= written' /\ file'[p].size \in Sizes \cup {0},
         finished' \subseteq Jobs, finished \subseteq finished',
         \A p \in Collector!Paths : file'[p] = file[p] \/ file'[p] = Collector!Absent \/ file'[p].stamp > written
  PROVE  CollectorInv'
<1>1. /\ entries' = entries /\ bytes' = bytes /\ left' = left /\ active' = active /\ selected' = selected
      /\ before' = before
  OBVIOUS
<1>2. \A p \in Collector!Paths : before.file[p].stamp \in Nat /\ before.file[p].stamp <= written
  BY DEF CollectorInv, CollectorTypes, Snapshots
<1>3. written \in Nat /\ written' \in Nat
  BY CollectorNumbers DEF CollectorInv, CollectorTypes
<1>4. CollectorTypes'
  <2>1. \A p \in Collector!Paths : before.file[p].stamp <= written'
    BY <1>2, <1>3
  <2>. QED
    BY <1>1, <2>1 DEF CollectorInv, CollectorTypes
<1>5. CacheHolds'
  BY <1>1 DEF CollectorInv, CacheHolds
<1>6. PollCovers'
  <2>1. ASSUME NEW p \in Collector!Paths, Stays(p)' PROVE p[1] \in left.runs \/ p \in left.paths \/ Shown(p)'
    <3>1. file'[p] = before.file[p] /\ file'[p] # Collector!Absent /\ p[1] \notin finished'
      BY <1>1, <2>1 DEF Stays
    <3>2. ~(file'[p].stamp > written)
      BY <1>2, <1>3, <3>1
    <3>3. file'[p] = file[p]
      BY <3>1, <3>2
    <3>4. Stays(p)
      BY <3>1, <3>3 DEF Stays
    <3>. QED
      BY <1>1, <3>3, <3>4 DEF CollectorInv, PollCovers, Shown
  <2>. QED
    BY <1>1, <2>1 DEF CollectorInv, PollCovers, Collector!Idle
<1>. QED
  BY <1>4, <1>5, <1>6 DEF CollectorInv

LEMMA ProducerKept ==
  ASSUME CollectorInv,
         \/ \E p \in Collector!Paths : Collector!Replace(p) \/ Collector!Vanish(p)
         \/ \E r \in Jobs : Collector!FinishRun(r)
  PROVE  CollectorInv'
<1>1. written \in Nat /\ written <= MaxObserved /\ MaxObserved \in Nat /\ Sizes \subseteq Nat
  BY CollectorNumbers DEF CollectorInv, CollectorTypes
<1>2. /\ file \in [Collector!Paths -> Snapshots] /\ finished \subseteq Jobs
      /\ \A p \in Collector!Paths : file[p].stamp <= written /\ file[p].size \in Sizes \cup {0}
      /\ \A p \in Collector!Paths : file[p].stamp \in Nat
  BY DEF CollectorInv, CollectorTypes, Snapshots
<1>3. CASE \E p \in Collector!Paths : Collector!Replace(p)
  <2>1. PICK p \in Collector!Paths, size \in Sizes :
          /\ written < MaxObserved /\ written' = written + 1
          /\ file' = [file EXCEPT ![p] = [stamp |-> written', size |-> size]]
          /\ UNCHANGED <<finished, entries, bytes, left, active, selected, before>>
    BY <1>3 DEF Collector!Replace, Collector!cache, Collector!poll
  <2>2. written' \in 0..MaxObserved /\ written <= written' /\ written' > written /\ written' \in Nat
    BY <1>1, <2>1
  <2>3. [stamp |-> written', size |-> size] \in Snapshots
    BY <1>1, <2>2 DEF Snapshots
  <2>4. file' \in [Collector!Paths -> Snapshots]
    BY <1>2, <2>1, <2>3
  <2>5. ASSUME NEW q \in Collector!Paths
        PROVE  /\ file'[q].stamp <= written' /\ file'[q].size \in Sizes \cup {0}
               /\ file'[q] = file[q] \/ file'[q].stamp > written
    <3>1. CASE q = p
      BY <1>1, <1>2, <2>1, <2>2, <3>1
    <3>2. CASE q # p
      BY <1>1, <1>2, <2>1, <2>2, <3>2
    <3>. QED
      BY <3>1, <3>2
  <2>. QED
    BY <1>2, <2>1, <2>2, <2>4, <2>5, ProducedKept
<1>4. CASE \E p \in Collector!Paths : Collector!Vanish(p)
  <2>1. PICK p \in Collector!Paths :
          /\ file' = [file EXCEPT ![p] = Collector!Absent]
          /\ UNCHANGED <<written, finished, entries, bytes, left, active, selected, before>>
    BY <1>4 DEF Collector!Vanish, Collector!cache, Collector!poll
  <2>2. Collector!Absent \in Snapshots /\ Collector!Absent.stamp = 0 /\ Collector!Absent.size = 0
    BY DEF Collector!Absent, Snapshots
  <2>3. file' \in [Collector!Paths -> Snapshots] /\ written' \in 0..MaxObserved /\ written <= written'
    BY <1>1, <1>2, <2>1, <2>2
  <2>4. ASSUME NEW q \in Collector!Paths
        PROVE  /\ file'[q].stamp <= written' /\ file'[q].size \in Sizes \cup {0}
               /\ file'[q] = file[q] \/ file'[q] = Collector!Absent
    <3>1. CASE q = p
      BY <1>1, <1>2, <2>1, <2>2, <3>1
    <3>2. CASE q # p
      BY <1>1, <1>2, <2>1, <2>2, <3>2
    <3>. QED
      BY <3>1, <3>2
  <2>. QED
    BY <1>2, <2>1, <2>3, <2>4, ProducedKept
<1>5. CASE \E r \in Jobs : Collector!FinishRun(r)
  <2>1. PICK r \in Jobs : /\ finished' = finished \cup {r}
                          /\ UNCHANGED <<file, written, entries, bytes, left, active, selected, before>>
    BY <1>5 DEF Collector!FinishRun, Collector!cache, Collector!poll
  <2>2. written' \in 0..MaxObserved /\ written <= written'
    BY <1>1, <2>1
  <2>. QED
    BY <1>2, <2>1, <2>2, ProducedKept
<1>. QED
  BY <1>3, <1>4, <1>5

LEMMA CollectorBeginKept == ASSUME CollectorInv, Collector!Begin PROVE CollectorInv'
<1>1. /\ UNCHANGED <<file, written, finished, entries, bytes>>
      /\ before' = [file |-> file, finished |-> finished, on |-> TRUE]
      /\ left' = [runs |-> Jobs, paths |-> {}] /\ active' = {} /\ selected' = <<>>
  BY DEF Collector!Begin, Collector!producers, Collector!cache
<1>2. selected' \in [DOMAIN selected' -> Nat] /\ DOMAIN selected' = {}
  BY <1>1
<1>3. CollectorTypes'
  BY <1>1, <1>2 DEF CollectorInv, CollectorTypes
<1>4. CacheHolds'
  BY <1>1 DEF CollectorInv, CacheHolds
<1>5. PollCovers'
  <2>1. \A p \in Collector!Paths : p[1] \in Jobs
    BY DEF Collector!Paths
  <2>. QED
    BY <1>1, <1>2, <2>1 DEF PollCovers
<1>. QED
  BY <1>3, <1>4, <1>5 DEF CollectorInv

LEMMA ListKept == ASSUME CollectorInv, Collector!List PROVE CollectorInv'
<1>. DEFINE Found(r) == {p \in {r} \X {1, 2} : r \notin finished /\ file[p] # Collector!Absent}
<1>1. PICK r \in left.runs :
        /\ left.paths = {} /\ left' = [runs |-> left.runs \ {r}, paths |-> Found(r)]
        /\ active' = active \cup Found(r)
        /\ UNCHANGED <<file, written, finished, entries, bytes, selected, before>>
  BY DEF Collector!List, Collector!producers, Collector!cache
<1>2. /\ file' = file /\ written' = written /\ finished' = finished /\ entries' = entries /\ bytes' = bytes
      /\ selected' = selected /\ before' = before
  BY <1>1
<1>3. r \in Jobs /\ Found(r) \subseteq Collector!Paths /\ left'.runs \in SUBSET Jobs
  BY <1>1 DEF CollectorInv, CollectorTypes, Collector!Paths
<1>4. \A p \in Found(r) : p[1] = r /\ r \notin finished
  OBVIOUS
<1>5. ASSUME NEW p \in Collector!Paths, Stays(p), p[1] = r PROVE p \in Found(r)
  <2>1. p \in {r} \X {1, 2}
    BY <1>5 DEF Collector!Paths
  <2>. QED
    BY <1>5, <2>1 DEF Stays
<1>. HIDE DEF Found
<1>6. CollectorTypes'
  BY <1>1, <1>2, <1>3 DEF CollectorInv, CollectorTypes
<1>7. CacheHolds'
  BY <1>2 DEF CollectorInv, CacheHolds
<1>8. left'.runs = left.runs \ {r} /\ left'.paths = Found(r)
  BY <1>1
<1>9. PollCovers'
  <2>1. \A p \in left'.paths : p[1] \notin before'.finished
    BY <1>2, <1>4, <1>8 DEF CollectorInv, PollCovers
  <2>2. before'.on
    <3>1. left # Collector!Idle
      BY <1>1 DEF Collector!Idle
    <3>. QED
      BY <1>2, <3>1 DEF CollectorInv, PollCovers
  <2>3. ASSUME NEW p \in Collector!Paths, Stays(p)'
        PROVE  p[1] \in left'.runs \/ p \in left'.paths \/ Shown(p)'
    <3>1. Stays(p) /\ (Shown(p) => Shown(p)')
      BY <1>2, <2>3 DEF Stays, Shown
    <3>2. p[1] \in left.runs \/ Shown(p)
      BY <1>1, <3>1 DEF CollectorInv, PollCovers
    <3>. QED
      BY <1>5, <1>8, <3>1, <3>2
  <2>. QED
    BY <1>2, <2>1, <2>2, <2>3 DEF CollectorInv, PollCovers
<1>. QED
  BY <1>6, <1>7, <1>9 DEF CollectorInv

LEMMA PublishKept == ASSUME CollectorInv, Collector!Publish PROVE CollectorInv'
<1>. DEFINE in == Collector!Of(entries, active)  out == Collector!Of(entries, Collector!Paths \ active)
<1>1. /\ UNCHANGED <<file, written, finished, left, active, selected>> /\ left = Collector!Idle
      /\ entries' = in /\ bytes' = bytes - Collector!Bytes(out)
      /\ before' = [before EXCEPT !.on = FALSE]
  BY DEF Collector!Publish, Collector!producers
<1>2. /\ before' \in [file : [Collector!Paths -> Snapshots], finished : SUBSET Jobs, on : BOOLEAN]
      /\ before'.file = before.file /\ before'.finished = before.finished
  BY <1>1 DEF CollectorInv, CollectorTypes
<1>3. CollectorTypes'
  BY <1>1, <1>2 DEF CollectorInv, CollectorTypes
<1>4. /\ in \in Seq(Stored) /\ out \in Seq(Stored) /\ Len(entries) = Len(in) + Len(out)
      /\ Collector!Bytes(entries) = Collector!Bytes(in) + Collector!Bytes(out)
  BY Parted DEF CollectorInv, CacheHolds
<1>. HIDE DEF in, out
<1>5. Collector!Bytes(in) \in Nat /\ Collector!Bytes(out) \in Nat /\ Len(in) \in Nat /\ Len(out) \in Nat
  BY <1>4, BytesNat
<1>6. CacheHolds'
  BY <1>1, <1>4, <1>5, CollectorNumbers DEF CollectorInv, CacheHolds
<1>7. PollCovers'
  BY <1>1, <1>2 DEF CollectorInv, PollCovers, Stays, Shown
<1>. QED
  BY <1>3, <1>6, <1>7 DEF CollectorInv

(* The cache, when the entry of p is taken out and put back or renewed.    *)
LEMMA Evicting ==
  ASSUME NEW s \in Seq(Stored), NEW size \in Nat, size <= MaxBytes, Len(s) <= MaxFiles
  PROVE  LET gone == Collector!Evicted(s, Collector!Bytes(s), size)
             kept == SubSeq(s, gone + 1, Len(s))
             lost == Collector!Bytes(SubSeq(s, 1, gone))
         IN  /\ kept \in Seq(Stored) /\ Collector!Bytes(kept) = Collector!Bytes(s) - lost
             /\ Collector!Bytes(kept) + size <= MaxBytes /\ Len(kept) < MaxFiles
<1>. DEFINE held == Collector!Bytes(s)
            Fits(k) == \/ k = Len(s)
                       \/ Len(s) - k < MaxFiles /\ held - Collector!Bytes(SubSeq(s, 1, k)) + size <= MaxBytes
            K == {k \in 0..Len(s) : Fits(k)}
            gone == Collector!Evicted(s, held, size)
<1>1. Len(s) \in Nat /\ K \in SUBSET Nat /\ Len(s) \in K
  OBVIOUS
<1>2. gone = Collector!Min(K)
  BY DEF Collector!Evicted
<1>. HIDE DEF K
<1>3. gone \in K
  <2>1. PICK least \in K : \A x \in K : least <= x
    BY <1>1, Least
  <2>. QED
    BY <1>2, <2>1 DEF Collector!Min
<1>4. gone \in 0..Len(s) /\ Fits(gone)
  BY <1>3 DEF K
<1>. HIDE DEF gone
<1>. DEFINE first == SubSeq(s, 1, gone)  kept == SubSeq(s, gone + 1, Len(s))
<1>5. first \in Seq(Stored) /\ kept \in Seq(Stored) /\ s = first \o kept /\ Len(kept) = Len(s) - gone
  <2>1. first \in Seq(Stored) /\ kept \in Seq(Stored) /\ Len(first) = gone /\ Len(kept) = Len(s) - gone
    BY <1>1, <1>4
  <2>2. \A i \in 1..gone : first[i] = s[i]
    BY <1>1, <1>4
  <2>3. \A i \in 1..(Len(s) - gone) : kept[i] = s[gone + i]
    BY <1>1, <1>4
  <2>. HIDE DEF first, kept
  <2>. DEFINE whole == first \o kept
  <2>4. /\ whole \in Seq(Stored) /\ Len(whole) = Len(s)
        /\ \A i \in 1..Len(s) : whole[i] = IF i <= gone THEN first[i] ELSE kept[i - gone]
    BY <1>1, <1>4, <2>1, ConcatProperties
  <2>. HIDE DEF whole
  <2>5. ASSUME NEW i \in 1..Len(s) PROVE whole[i] = s[i]
    <3>1. CASE i <= gone
      BY <1>1, <1>4, <2>2, <2>4, <3>1
    <3>2. CASE ~(i <= gone)
      <4>1. i - gone \in 1..(Len(s) - gone) /\ gone + (i - gone) = i
        BY <1>1, <1>4, <3>2
      <4>. QED
        BY <2>3, <2>4, <3>2, <4>1
    <3>. QED
      BY <3>1, <3>2
  <2>6. s = whole
    BY <2>4, <2>5, SeqEqual
  <2>. QED
    BY <2>1, <2>6 DEF whole
<1>. HIDE DEF first, kept
<1>6. /\ Collector!Bytes(s) = Collector!Bytes(first) + Collector!Bytes(kept)
      /\ Collector!Bytes(first) \in Nat /\ Collector!Bytes(kept) \in Nat
  BY <1>5, BytesApart, BytesNat
<1>7. Fits(gone) => gone = Len(s) \/ (Len(s) - gone < MaxFiles /\ held - Collector!Bytes(first) + size <= MaxBytes)
  BY DEF first
<1>. HIDE DEF Fits
<1>8. Collector!Bytes(kept) + size <= MaxBytes /\ Len(kept) < MaxFiles
  <2>1. CASE gone = Len(s)
    <3>1. Len(kept) = 0 /\ kept = <<>>
      BY <1>1, <1>5, <2>1, EmptySeq
    <3>2. Collector!Bytes(kept) = 0
      BY <3>1, NoBytes
    <3>. QED
      BY <3>1, <3>2, CollectorNumbers
  <2>2. CASE Len(s) - gone < MaxFiles /\ held - Collector!Bytes(first) + size <= MaxBytes
    BY <1>1, <1>4, <1>5, <1>6, <2>2, CollectorNumbers
  <2>. QED
    BY <1>4, <1>7, <2>1, <2>2
<1>9. Collector!Bytes(kept) = Collector!Bytes(s) - Collector!Bytes(first)
  BY <1>6
<1>. QED
  BY <1>5, <1>8, <1>9 DEF first, kept, gone

LEMMA Putting ==
  ASSUME NEW s \in Seq(Stored), NEW e \in Stored,
         Len(s) < MaxFiles, Collector!Bytes(s) + e.size <= MaxBytes,
         entries' = Append(s, e), bytes' = Collector!Bytes(s) + e.size
  PROVE  CacheHolds'
<1>1. Append(s, e) \in Seq(Stored) /\ Len(Append(s, e)) = Len(s) + 1 /\ Len(s) \in Nat
  BY AppendProperties
<1>2. Collector!Bytes(Append(s, e)) = Collector!Bytes(s) + e.size
  BY MoreBytes
<1>. QED
  BY <1>1, <1>2, CollectorNumbers DEF CacheHolds

LEMMA ReadHolds == ASSUME CollectorInv, NEW p \in left.paths,
         \/ /\ file[p] # Collector!Absent /\ Collector!ReadFile(p)
         \/ entries' = Collector!Without(p) /\ bytes' = bytes - Collector!Bytes(Collector!Cached(p))
  PROVE  CacheHolds'
<1>. DEFINE cut == Collector!Without(p)  old == Collector!Cached(p)  size == file[p].size
            held == bytes - Collector!Bytes(old)
<1>1. p \in Collector!Paths
  BY DEF CollectorInv, CollectorTypes
<1>2. /\ old \in Seq(Stored) /\ cut \in Seq(Stored) /\ Len(entries) = Len(old) + Len(cut)
      /\ Collector!Bytes(entries) = Collector!Bytes(old) + Collector!Bytes(cut)
  BY Parted DEF CollectorInv, CacheHolds, Collector!Without, Collector!Cached
<1>3. size \in Nat /\ file[p].stamp \in Nat
  BY <1>1 DEF CollectorInv, CollectorTypes, Snapshots
<1>. DEFINE fresh == [path |-> p, stamp |-> file[p].stamp, size |-> size]
            gone == Collector!Evicted(cut, held, size)
            kept == SubSeq(cut, gone + 1, Len(cut))
            lost == Collector!Bytes(SubSeq(cut, 1, gone))
<1>4. fresh \in Stored /\ fresh.size = size
  BY <1>1, <1>3 DEF Stored
<1>5. \/ old # <<>> /\ entries' = Append(cut, old[1]) /\ bytes' = held + old[1].size
      \/ entries' = cut /\ bytes' = held
      \/ size <= MaxBytes /\ entries' = Append(kept, fresh) /\ bytes' = held - lost + size
  <2>1. CASE entries' = cut /\ bytes' = held
    BY <2>1
  <2>2. CASE Collector!ReadFile(p)
    <3>. HIDE DEF cut, old
    <3>1. CASE Collector!Hit(p)
      BY <2>2, <3>1 DEF Collector!ReadFile, Collector!Hit, cut, old
    <3>2. CASE ~Collector!Hit(p)
      BY <2>2, <3>2 DEF Collector!ReadFile, cut, old
    <3>. QED
      BY <3>1, <3>2
  <2>. QED
    BY <2>1, <2>2
<1>. HIDE DEF cut, old, size, fresh
<1>6. /\ Collector!Bytes(old) \in Nat /\ Collector!Bytes(cut) \in Nat /\ Len(old) \in Nat /\ Len(cut) \in Nat
      /\ bytes = Collector!Bytes(entries) /\ bytes <= MaxBytes /\ Len(entries) <= MaxFiles
  BY <1>2, BytesNat DEF CollectorInv, CacheHolds
<1>7. held = Collector!Bytes(cut) /\ held <= MaxBytes /\ Len(cut) <= MaxFiles
  BY <1>2, <1>6, CollectorNumbers
<1>8. CASE old # <<>> /\ entries' = Append(cut, old[1]) /\ bytes' = held + old[1].size
  <2>1. Len(old) >= 1 /\ 1 \in 1..Len(old)
    BY <1>2, <1>6, <1>8, EmptySeq
  <2>2. old[1] \in Stored /\ old[1].size \in Nat /\ old[1].size <= Collector!Bytes(old)
    <3>1. \A i \in 1..Len(old) : old[i] \in Stored /\ old[i].size <= Collector!Bytes(old)
      BY <1>2, BytesOf, ElementOfSeq
    <3>2. old[1] \in Stored /\ old[1].size <= Collector!Bytes(old)
      BY <2>1, <3>1
    <3>. QED
      BY <3>2 DEF Stored
  <2>3. Len(cut) < MaxFiles /\ Collector!Bytes(cut) + old[1].size <= MaxBytes
    BY <1>2, <1>6, <2>1, <2>2, CollectorNumbers
  <2>4. bytes' = Collector!Bytes(cut) + old[1].size
    BY <1>7, <1>8
  <2>. QED
    BY <1>2, <1>8, <2>2, <2>3, <2>4, Putting
<1>9. CASE entries' = cut /\ bytes' = held
  BY <1>2, <1>7, <1>9 DEF CacheHolds
<1>10. CASE size <= MaxBytes /\ entries' = Append(kept, fresh) /\ bytes' = held - lost + size
  <2>1. gone = Collector!Evicted(cut, Collector!Bytes(cut), size)
    BY <1>7
  <2>. HIDE DEF gone, held
  <2>2. /\ kept \in Seq(Stored) /\ Collector!Bytes(kept) = Collector!Bytes(cut) - lost
        /\ Collector!Bytes(kept) + size <= MaxBytes /\ Len(kept) < MaxFiles
    BY <1>2, <1>3, <1>7, <1>10, <2>1, Evicting DEF size
  <2>. HIDE DEF kept, lost
  <2>3. bytes' = Collector!Bytes(kept) + fresh.size
    BY <1>4, <1>7, <1>10, <2>2
  <2>. QED
    BY <1>4, <1>10, <2>2, <2>3, Putting
<1>. QED
  BY <1>5, <1>8, <1>9, <1>10

LEMMA Newest ==
  ASSUME CollectorTypes, NEW r, NEW stamp \in Nat
  PROVE  LET latest == Collector!Newer(r, stamp)
         IN  /\ latest \in [DOMAIN latest -> Nat] /\ DOMAIN latest = DOMAIN selected \cup {r}
             /\ latest[r] >= stamp /\ \A q \in DOMAIN selected : latest[q] >= selected[q]
<1>1. \A q \in DOMAIN selected : selected[q] \in Nat
  BY DEF CollectorTypes
<1>. DEFINE latest == Collector!Newer(r, stamp)
<1>2. CASE r \in DOMAIN selected /\ selected[r] > stamp
  <2>1. latest = selected
    BY <1>2 DEF Collector!Newer
  <2>2. /\ selected \in [DOMAIN selected -> Nat] /\ DOMAIN selected = DOMAIN selected \cup {r}
        /\ selected[r] >= stamp /\ \A q \in DOMAIN selected : selected[q] >= selected[q]
    <3>1. selected \in [DOMAIN selected -> Nat]
      BY DEF CollectorTypes
    <3>2. selected[r] \in Nat
      BY <1>1, <1>2
    <3>3. selected[r] >= stamp
      BY <1>2, <3>2
    <3>4. ASSUME NEW q \in DOMAIN selected PROVE selected[q] >= selected[q]
      <4>1. selected[q] \in Nat
        BY <1>1
      <4>. QED
        BY <4>1
    <3>5. DOMAIN selected = DOMAIN selected \cup {r}
      BY <1>2
    <3>. QED
      BY <3>1, <3>3, <3>4, <3>5
  <2>. QED
    BY <2>1, <2>2, Zenon
<1>3. CASE ~(r \in DOMAIN selected /\ selected[r] > stamp)
  <2>1. latest = [q \in DOMAIN selected \cup {r} |-> IF q = r THEN stamp ELSE selected[q]]
    BY <1>3 DEF Collector!Newer
  <2>. HIDE DEF latest
  <2>2. DOMAIN latest = DOMAIN selected \cup {r} /\ latest[r] = stamp
    BY <2>1
  <2>3. \A q \in DOMAIN latest : latest[q] \in Nat
    BY <1>1, <2>1
  <2>4. \A q \in DOMAIN selected : latest[q] >= selected[q]
    BY <1>1, <1>3, <2>1
  <2>5. latest = [q \in DOMAIN latest |-> latest[q]]
    BY <2>1
  <2>6. latest \in [DOMAIN latest -> Nat] /\ latest[r] >= stamp
    BY <2>2, <2>3, <2>5
  <2>. QED
    BY <2>2, <2>4, <2>6 DEF latest
<1>. QED
  BY <1>2, <1>3

LEMMA ReadKept == ASSUME CollectorInv, Collector!Read PROVE CollectorInv'
<1>1. PICK p \in left.paths :
        /\ left' = [left EXCEPT !.paths = @ \ {p}]
        /\ IF file[p] # Collector!Absent THEN Collector!ReadFile(p)
           ELSE /\ entries' = Collector!Without(p) /\ bytes' = bytes - Collector!Bytes(Collector!Cached(p))
                /\ UNCHANGED selected
  BY DEF Collector!Read
<1>2. file' = file /\ written' = written /\ finished' = finished /\ active' = active /\ before' = before
  BY DEF Collector!Read, Collector!producers
<1>3. CacheHolds'
  BY <1>1, ReadHolds
<1>4. p \in Collector!Paths /\ file[p].stamp \in Nat
  BY DEF CollectorInv, CollectorTypes, Snapshots
<1>5. /\ left' \in [runs : SUBSET Jobs, paths : SUBSET Collector!Paths]
      /\ left'.runs = left.runs /\ left'.paths = left.paths \ {p}
  BY <1>1 DEF CollectorInv, CollectorTypes
<1>6. /\ selected' \in [DOMAIN selected' -> Nat] /\ DOMAIN selected' \subseteq DOMAIN selected \cup {p[1]}
      /\ \A q \in DOMAIN selected : q \in DOMAIN selected' /\ selected'[q] >= selected[q]
      /\ file[p] # Collector!Absent => p[1] \in DOMAIN selected' /\ selected'[p[1]] >= file[p].stamp
  <2>1. CASE file[p] = Collector!Absent
    <3>1. selected' = selected
      BY <1>1, <2>1
    <3>2. \A q \in DOMAIN selected : selected[q] \in Nat
      BY DEF CollectorInv, CollectorTypes
    <3>. QED
      BY <2>1, <3>1, <3>2 DEF CollectorInv, CollectorTypes
  <2>2. CASE file[p] # Collector!Absent
    <3>. DEFINE stamp == file[p].stamp  latest == Collector!Newer(p[1], stamp)
    <3>1. selected' = latest
      <4>1. CASE Collector!Hit(p)
        BY <1>1, <2>2, <4>1 DEF Collector!ReadFile, Collector!Hit
      <4>2. CASE ~Collector!Hit(p)
        BY <1>1, <2>2, <4>2 DEF Collector!ReadFile
      <4>. QED
        BY <4>1, <4>2
    <3>2. /\ latest \in [DOMAIN latest -> Nat] /\ DOMAIN latest = DOMAIN selected \cup {p[1]}
          /\ latest[p[1]] >= stamp /\ \A q \in DOMAIN selected : latest[q] >= selected[q]
      BY <1>4, Newest DEF CollectorInv
    <3>. HIDE DEF latest
    <3>. QED
      BY <3>1, <3>2
  <2>. QED
    BY <2>1, <2>2
<1>7. CollectorTypes'
  BY <1>2, <1>5, <1>6 DEF CollectorInv, CollectorTypes
<1>8. PollCovers'
  <2>1. p[1] \notin before.finished /\ before.on
    <3>1. left # Collector!Idle
      BY <1>1 DEF Collector!Idle
    <3>. QED
      BY <3>1 DEF CollectorInv, PollCovers
  <2>2. ASSUME NEW q \in Collector!Paths, Stays(q)'
        PROVE  q[1] \in left'.runs \/ q \in left'.paths \/ Shown(q)'
    <3>1. Stays(q) /\ file[q] # Collector!Absent
      BY <1>2, <2>2 DEF Stays
    <3>2. q[1] \in left.runs \/ q \in left.paths \/ Shown(q)
      BY <3>1 DEF CollectorInv, PollCovers
    <3>3. Shown(q) => Shown(q)'
      <4>1. file[q].stamp \in Nat
        BY DEF CollectorInv, CollectorTypes, Snapshots
      <4>2. \A r \in DOMAIN selected : selected[r] \in Nat /\ selected'[r] \in Nat
        BY <1>6 DEF CollectorInv, CollectorTypes
      <4>. QED
        BY <1>2, <1>6, <4>1, <4>2 DEF Shown
    <3>4. q = p => Shown(q)'
      BY <1>2, <1>6, <3>1 DEF Shown
    <3>. QED
      BY <1>5, <3>2, <3>3, <3>4
  <2>. QED
    BY <1>2, <1>5, <1>6, <2>1, <2>2 DEF CollectorInv, PollCovers
<1>. QED
  BY <1>3, <1>7, <1>8 DEF CollectorInv

LEMMA CollectorKept == ASSUME CollectorInv, Collector!Next PROVE CollectorInv'
BY ProducerKept, CollectorBeginKept, ListKept, ReadKept, PublishKept DEF Collector!Next

LEMMA CollectorStays == ASSUME CollectorInv, UNCHANGED collector PROVE CollectorInv'
<1>1. /\ file' = file /\ written' = written /\ finished' = finished /\ entries' = entries /\ bytes' = bytes
      /\ left' = left /\ active' = active /\ selected' = selected /\ before' = before
  BY DEF collector
<1>. QED
  BY <1>1 DEF CollectorInv, CollectorTypes, CacheHolds, PollCovers, Stays, Shown, Collector!Idle

-----------------------------------------------------------------------------
Reports == [revision : {1, 2}, provisional : BOOLEAN, run : {"own", "other"}, packet : {Measured}]
Best == {<<>>} \cup {<<r>> : r \in Reports}

LEMMA NewerIsBest ==
  ASSUME NEW b \in Best, NEW r \in Reports
  PROVE  /\ Llm!Newer(b, r) \in Best /\ Llm!Newer(b, r) # <<>>
         /\ Llm!Newer(b, r) \in {b, <<r>>} /\ Llm!Newer(b, r)[1].revision >= r.revision
         /\ b # <<>> => Llm!Newer(b, r)[1].revision >= b[1].revision
<1>1. b = <<>> \/ \E q \in Reports : b = <<q>>
  BY DEF Best
<1>2. <<r>> # <<>> /\ <<r>>[1] = r /\ <<r>> \in Best /\ r.revision \in {1, 2}
  BY DEF Best, Reports
<1>3. CASE b = <<>>
  BY <1>2, <1>3 DEF Llm!Newer
<1>4. ASSUME NEW q \in Reports, b = <<q>> PROVE
        /\ Llm!Newer(b, r) \in {b, <<r>>} /\ Llm!Newer(b, r) # <<>> /\ Llm!Newer(b, r)[1].revision >= r.revision
        /\ Llm!Newer(b, r)[1].revision >= b[1].revision
  <2>1. b # <<>> /\ b[1] = q /\ q.revision \in {1, 2}
    BY <1>4 DEF Reports
  <2>2. CASE r.revision >= q.revision
    <3>1. Llm!Newer(b, r) = <<r>>
      BY <2>1, <2>2 DEF Llm!Newer
    <3>. QED
      BY <1>2, <2>1, <2>2, <3>1
  <2>3. CASE ~(r.revision >= q.revision)
    <3>1. Llm!Newer(b, r) = b
      BY <2>1, <2>3 DEF Llm!Newer
    <3>. QED
      BY <1>2, <2>1, <2>3, <3>1
  <2>. QED
    BY <2>2, <2>3
<1>. QED
  BY <1>1, <1>2, <1>3, <1>4

LEMMA SelectedIs ==
  ASSUME NEW s \in Seq(Reports)
  PROVE  \E f \in [0..Len(s) -> Best] :
           /\ f[0] = <<>> /\ \A k \in 1..Len(s) : f[k] = Llm!Newer(f[k - 1], s[k])
           /\ Llm!Selected(s) = f[Len(s)]
<1>. DEFINE n == Len(s)
            Sum(f) == f = [k \in 0..n |-> IF k = 0 THEN <<>> ELSE Llm!Newer(f[k - 1], s[k])]
            sum == CHOOSE f : Sum(f)
            step == [x \in (1..n) \X Best |-> Llm!Newer(x[2], s[x[1]])]
<1>1. n \in Nat /\ (\A k \in 1..n : s[k] \in Reports) /\ <<>> \in Best
  BY ElementOfSeq DEF Best
<1>2. step \in [(1..n) \X Best -> Best]
  <2>1. \A x \in (1..n) \X Best : x[2] \in Best /\ s[x[1]] \in Reports
    BY <1>1
  <2>2. \A x \in (1..n) \X Best : Llm!Newer(x[2], s[x[1]]) \in Best
    BY <2>1, NewerIsBest
  <2>. QED
    BY <2>2
<1>3. PICK f \in [0..n -> Best] : f[0] = <<>> /\ \A k \in 1..n : f[k] = step[<<k, f[k - 1]>>]
  <2>. HIDE DEF step, n
  <2>1. \E f : Solves(n, Best, <<>>, step, f)
    BY <1>1, <1>2, Recursion
  <2>. QED
    BY <2>1 DEF Solves
<1>4. \A k \in 1..n : f[k] = Llm!Newer(f[k - 1], s[k])
  <2>1. ASSUME NEW k \in 1..n PROVE f[k] = Llm!Newer(f[k - 1], s[k])
    <3>1. k - 1 \in 0..n
      BY <1>1
    <3>2. <<k, f[k - 1]>> \in (1..n) \X Best
      BY <3>1
    <3>. QED
      BY <1>3, <3>2
  <2>. QED
    BY <2>1
<1>5. Sum(f)
  <2>1. \A k \in 0..n : f[k] = IF k = 0 THEN <<>> ELSE Llm!Newer(f[k - 1], s[k])
    <3>1. \A k \in 0..n : k = 0 \/ k \in 1..n
      BY <1>1
    <3>. HIDE DEF n
    <3>. QED
      BY <1>3, <1>4, <3>1
  <2>. QED
    BY <2>1
<1>6. Sum(sum)
  BY <1>5
<1>7. Llm!Selected(s) = sum[n]
  BY DEF Llm!Selected
<1>. HIDE DEF sum, step, n
<1>8. sum[0] = <<>> /\ \A k \in 1..n : sum[k] = Llm!Newer(sum[k - 1], s[k])
  <2>1. \A k \in 0..n : sum[k] = IF k = 0 THEN <<>> ELSE Llm!Newer(sum[k - 1], s[k])
    BY <1>6
  <2>2. 0 \in 0..n /\ \A k \in 1..n : k \in 0..n /\ k # 0
    BY <1>1
  <2>. HIDE DEF Sum
  <2>. QED
    BY <2>1, <2>2
<1>9. Agree(n, sum, f)
  <2>1. SameSteps(n, sum, f)
    BY <1>3, <1>4, <1>8 DEF SameSteps
  <2>. QED
    BY <1>1, <2>1, Unique
<1>10. Llm!Selected(s) = f[n]
  BY <1>1, <1>7, <1>9 DEF Agree
<1>. QED
  BY <1>3, <1>4, <1>10 DEF n

(* The report that is selected is one of them, and none has a higher       *)
(* revision.                                                               *)
IsNewest(b, s) ==
  /\ b = <<>> => s = <<>>
  /\ b # <<>> => (\E i \in 1..Len(s) : b = <<s[i]>>) /\ \A i \in 1..Len(s) : s[i].revision <= b[1].revision

LEMMA SelectedIsNewest ==
  ASSUME NEW s \in Seq(Reports) PROVE IsNewest(Llm!Selected(s), s)
<1>. DEFINE n == Len(s)
<1>1. n \in Nat /\ (\A k \in 1..n : s[k] \in Reports)
  BY ElementOfSeq
<1>2. PICK f \in [0..n -> Best] : /\ f[0] = <<>> /\ \A k \in 1..n : f[k] = Llm!Newer(f[k - 1], s[k])
                                 /\ Llm!Selected(s) = f[n]
  BY SelectedIs
<1>3. n = 0 => s = <<>>
  BY EmptySeq
<1>. HIDE DEF n
<1>. DEFINE Good(k) == /\ k = 0 \/ f[k] # <<>>
                       /\ f[k] # <<>> => /\ \E i \in 1..k : f[k] = <<s[i]>>
                                         /\ \A i \in 1..k : s[i].revision <= f[k][1].revision
            S == {k \in Nat : k <= n => Good(k)}
<1>4. 0 \in S
  BY <1>2
<1>5. ASSUME NEW k \in Nat, k \in S PROVE k + 1 \in S
  <2>1. SUFFICES ASSUME k + 1 <= n PROVE Good(k + 1)
    OBVIOUS
  <2>. DEFINE b == f[k]  r == s[k + 1]  c == f[k + 1]
  <2>2. /\ k \in 0..n /\ k + 1 \in 0..n /\ k + 1 \in 1..n /\ (k + 1) - 1 = k
        /\ 1..k \subseteq 1..n /\ (\A i \in 1..(k + 1) : i \in 1..k \/ i = k + 1) /\ k + 1 \in 1..(k + 1)
        /\ 1..k \subseteq 1..(k + 1) /\ (k = 0 => 1..k = {})
    BY <1>1, <2>1
  <2>3. b \in Best /\ r \in Reports /\ c = Llm!Newer(b, r)
    BY <1>1, <1>2, <2>2
  <2>4. Good(k)
    BY <1>5, <2>1, <2>2
  <2>5. k = 0 => b = <<>>
    BY <1>2
  <2>. HIDE DEF b, c, r
  <2>6. /\ c # <<>> /\ c \in {b, <<r>>} /\ c \in Best /\ c[1].revision >= r.revision
        /\ b # <<>> => c[1].revision >= b[1].revision
    BY <2>3, NewerIsBest
  <2>7. \E i \in 1..(k + 1) : c = <<s[i]>>
    <3>1. CASE c = <<r>>
      BY <2>2, <3>1 DEF r
    <3>2. CASE c = b
      BY <2>2, <2>4, <2>6, <3>2 DEF b
    <3>. QED
      BY <2>6, <3>1, <3>2
  <2>8. ASSUME NEW i \in 1..(k + 1) PROVE s[i].revision <= c[1].revision
    <3>1. \A q \in Reports : q.revision \in {1, 2}
      BY DEF Reports
    <3>2. /\ s[i].revision \in {1, 2} /\ r.revision \in {1, 2} /\ c[1].revision \in {1, 2}
          /\ b # <<>> => b[1].revision \in {1, 2}
      <4>1. \A x \in Best : x # <<>> => x[1] \in Reports
        BY DEF Best
      <4>. QED
        BY <1>1, <2>2, <2>3, <2>6, <3>1, <4>1
    <3>3. CASE i = k + 1
      BY <2>6, <3>2, <3>3 DEF r
    <3>4. CASE i \in 1..k
      <4>1. b # <<>> /\ s[i].revision <= b[1].revision
        BY <2>2, <2>4, <3>4 DEF b
      <4>. QED
        BY <2>6, <3>2, <4>1
    <3>. QED
      BY <2>2, <3>3, <3>4
  <2>. QED
    BY <2>6, <2>7, <2>8 DEF c
<1>6. Good(n)
  <2>1. Nat \subseteq S
    <3>. HIDE DEF S
    <3>. QED
      BY <1>4, <1>5, Induction
  <2>. QED
    BY <1>1, <2>1
<1>. QED
  BY <1>1, <1>2, <1>3, <1>6 DEF IsNewest, n
-----------------------------------------------------------------------------
Asking == {"tags", "version", "draft", "review", "late"}
Drafts == {<<>>} \cup {<<a>> : a \in Answers}

(* What a command that has got to its questions knows of its report, and   *)
(* one that has got past them of the answer.                               *)
OfNewest ==
  /\ packet[1] = chosen[1].packet /\ ~chosen[1].provisional
  /\ \A i \in 1..known : journal[i].run = chosen[1].run /\ journal[i].revision <= chosen[1].revision
IsReviewed ==
  /\ review # <<>> /\ review[1].answer \in Answers /\ Llm!Valid(review[1].answer, packet[1])
  /\ review[1].decision = "accept" => review[1].answer = draft[1]

LlmInv ==
  /\ Llm!TypeOK /\ journal \in Seq(Reports) /\ mode \in {"run", "file", "collect"} /\ attempt \in Nat
  /\ stage \in Asking => mode # "collect"
  /\ stage = "project" => mode = "run" /\ output = [attempt |-> attempt, kind |-> "diagnosis"]
  /\ stage \in Asking \cup {"write", "project"} => packet # <<>> /\ (mode = "run" => OfNewest)
  /\ stage = "late" => IsReviewed
  /\ stage \in {"write", "project"} /\ mode # "collect" => IsReviewed /\ remains > 0
  /\ stage # "idle" => attempt > 0 /\ attempt \notin projected
  /\ Llm!OutputIsTheCommands

LEMMA LlmStarts == ASSUME Llm!Init PROVE LlmInv
<1>1. <<>> \in Seq(Reports) /\ Len(<<>>) = 0
  BY EmptySeq
<1>2. TTL \in Nat
  BY SubsystemsAssumption
<1>3. /\ journal = <<>> /\ stage = "idle" /\ attempt = 0 /\ mode = "file" /\ chosen = <<>> /\ known = 0
      /\ packet = <<>> /\ remains = 0 /\ draft = <<>> /\ review = <<>>
      /\ output = [attempt |-> 0, kind |-> "none"] /\ exit = "none" /\ projected = {}
  BY DEF Llm!Init
<1>4. Llm!TypeOK
  BY <1>1, <1>2, <1>3 DEF Llm!TypeOK
<1>5. Llm!OutputIsTheCommands
  BY <1>3 DEF Llm!OutputIsTheCommands
<1>. QED
  BY <1>1, <1>3, <1>4, <1>5 DEF LlmInv, Asking

LEMMA QuietKept ==
  ASSUME LlmInv, stage \in Asking,
         UNCHANGED <<journal, attempt, mode, chosen, known, packet, output, exit, projected>>,
         remains' \in 0..TTL, draft' \in Drafts, stage' \in Asking \cup {"write", "failed"},
         stage' \in {"late", "write"} => IsReviewed', stage' = "write" => remains' > 0
  PROVE  LlmInv'
<1>1. /\ journal' = journal /\ attempt' = attempt /\ mode' = mode /\ chosen' = chosen /\ known' = known
      /\ packet' = packet /\ output' = output /\ exit' = exit /\ projected' = projected
  OBVIOUS
<1>2. Llm!TypeOK'
  BY <1>1 DEF LlmInv, Llm!TypeOK, Asking, Drafts
<1>3. stage' # "idle" /\ stage' # "project"
  BY DEF Asking
<1>4. Llm!OutputIsTheCommands'
  BY <1>3 DEF Llm!OutputIsTheCommands
<1>5. packet # <<>> /\ (mode = "run" => OfNewest) /\ mode # "collect" /\ attempt > 0 /\ attempt \notin projected
  BY DEF LlmInv, Asking
<1>6. mode' = "run" => OfNewest'
  BY <1>1, <1>5 DEF OfNewest
<1>. QED
  BY <1>1, <1>2, <1>3, <1>4, <1>5, <1>6 DEF LlmInv

LEMMA TimeLeft ==
  ASSUME LlmInv
  PROVE  /\ remains \in 0..TTL /\ TTL \in Nat
         /\ \A cap : (cap = 1 \/ cap = remains) /\ Llm!Waits(cap) => remains' \in 0..TTL
<1>1. remains \in 0..TTL /\ TTL \in Nat
  BY SubsystemsAssumption DEF LlmInv, Llm!TypeOK
<1>2. ASSUME NEW cap, cap = 1 \/ cap = remains, Llm!Waits(cap) PROVE remains' \in 0..TTL
  <2>1. remains > 0 /\ \E d \in 0..(IF remains < cap THEN remains ELSE cap) : remains' = remains - d
    BY <1>2 DEF Llm!Waits
  <2>2. (IF remains < cap THEN remains ELSE cap) <= remains /\ (IF remains < cap THEN remains ELSE cap) \in Int
    BY <1>1, <1>2
  <2>. QED
    BY <1>1, <2>1, <2>2
<1>. QED
  BY <1>1, <1>2

LEMMA RaiseKept ==
  ASSUME LlmInv, stage \in Asking, Llm!Raise, remains' \in 0..TTL
  PROVE  LlmInv'
<1>1. /\ stage' = "failed" /\ draft' = draft
      /\ UNCHANGED <<journal, attempt, mode, chosen, known, packet, output, exit, projected>>
  BY DEF Llm!Raise, Llm!inputs, Llm!results
<1>2. draft \in Drafts
  BY DEF LlmInv, Llm!TypeOK, Drafts
<1>. QED
  BY <1>1, <1>2, QuietKept

LEMMA AskKept ==
  ASSUME LlmInv, Llm!Work \/ Llm!Ask("tags", "version") \/ Llm!Ask("version", "draft")
  PROVE  LlmInv'
<1>1. stage \in Asking
  BY DEF Llm!Work, Llm!Ask, Asking
<1>2. remains' \in 0..TTL
  BY TimeLeft DEF Llm!Work, Llm!Ask, Llm!Expired
<1>3. CASE Llm!Raise
  BY <1>1, <1>2, <1>3, RaiseKept
<1>4. CASE ~Llm!Raise
  <2>1. /\ stage' \in {stage, "version", "draft"} /\ draft' = draft /\ review' = review
        /\ UNCHANGED <<journal, attempt, mode, chosen, known, packet, output, exit, projected>>
    BY <1>4 DEF Llm!Work, Llm!Ask, Llm!Expired, Llm!inputs, Llm!results
  <2>2. draft \in Drafts
    BY DEF LlmInv, Llm!TypeOK, Drafts
  <2>3. stage' = "late" => IsReviewed'
    BY <2>1 DEF LlmInv, IsReviewed
  <2>4. stage' \in Asking
    BY <1>1, <2>1 DEF Asking
  <2>5. stage' # "write"
    BY <2>4 DEF Asking
  <2>. QED
    BY <1>1, <1>2, <2>1, <2>2, <2>3, <2>4, <2>5, QuietKept
<1>. QED
  BY <1>3, <1>4

LEMMA DraftKept == ASSUME LlmInv, Llm!Draft PROVE LlmInv'
<1>1. stage = "draft" /\ stage \in Asking
  BY DEF Llm!Draft, Asking
<1>2. remains' \in 0..TTL
  BY TimeLeft DEF Llm!Draft, Llm!Expired
<1>3. CASE Llm!Raise
  BY <1>1, <1>2, <1>3, RaiseKept
<1>4. CASE ~Llm!Raise
  <2>1. PICK answer \in Answers :
          /\ stage' = "review" /\ draft' = <<answer>>
          /\ UNCHANGED <<journal, attempt, mode, chosen, known, packet, output, exit, projected>>
    BY <1>4 DEF Llm!Draft, Llm!Expired, Llm!inputs, Llm!results
  <2>2. draft' \in Drafts /\ stage' \in Asking /\ stage' \notin {"late", "write"}
    BY <2>1 DEF Drafts, Asking
  <2>. QED
    BY <1>1, <1>2, <2>1, <2>2, QuietKept
<1>. QED
  BY <1>3, <1>4

LEMMA ReviewKept == ASSUME LlmInv, Llm!Review PROVE LlmInv'
<1>1. stage = "review" /\ stage \in Asking
  BY DEF Llm!Review, Asking
<1>2. remains' \in 0..TTL
  BY TimeLeft DEF Llm!Review, Llm!Expired
<1>3. CASE Llm!Raise
  BY <1>1, <1>2, <1>3, RaiseKept
<1>4. CASE ~Llm!Raise
  <2>1. PICK answer \in Answers, decision \in {"accept", "revise", "reject"}, issues \in BOOLEAN :
          /\ Llm!Reviewed(decision, issues, answer, draft[1], packet[1])
          /\ stage' = "late" /\ review' = <<[decision |-> decision, answer |-> answer]>> /\ draft' = draft
          /\ UNCHANGED <<journal, attempt, mode, chosen, known, packet, output, exit, projected>>
    BY <1>4 DEF Llm!Review, Llm!Expired, Llm!inputs, Llm!results
  <2>2. draft' \in Drafts /\ stage' \in Asking
    BY <2>1 DEF LlmInv, Llm!TypeOK, Drafts, Asking
  <2>3. /\ review' # <<>> /\ review'[1].answer = answer /\ review'[1].decision = decision
        /\ Llm!Valid(answer, packet[1]) /\ (decision = "accept" => answer = draft[1])
    BY <2>1 DEF Llm!Reviewed
  <2>4. packet' = packet
    BY <2>1
  <2>5. IsReviewed'
    BY <2>1, <2>3, <2>4 DEF IsReviewed
  <2>. QED
    BY <1>1, <1>2, <2>1, <2>2, <2>5, QuietKept
<1>. QED
  BY <1>3, <1>4

LEMMA PassKept == ASSUME LlmInv, Llm!Publish PROVE LlmInv'
<1>1. stage = "late" /\ stage \in Asking
  BY DEF Llm!Publish, Asking
<1>2. remains' = remains /\ remains' \in 0..TTL
  BY TimeLeft DEF Llm!Publish, Llm!Expired
<1>3. CASE Llm!Raise
  BY <1>1, <1>2, <1>3, RaiseKept
<1>4. CASE ~Llm!Raise
  <2>1. /\ remains > 0 /\ stage' = "write" /\ draft' = draft /\ review' = review /\ packet' = packet
        /\ UNCHANGED <<journal, attempt, mode, chosen, known, packet, output, exit, projected>>
    BY <1>4 DEF Llm!Publish, Llm!Expired, Llm!inputs, Llm!results
  <2>2. draft' \in Drafts
    BY <2>1 DEF LlmInv, Llm!TypeOK, Drafts
  <2>3. IsReviewed'
    BY <1>1, <2>1 DEF LlmInv, IsReviewed
  <2>. QED
    BY <1>1, <1>2, <2>1, <2>2, <2>3, QuietKept
<1>. QED
  BY <1>3, <1>4

LEMMA EndsKept ==
  ASSUME LlmInv, NEW how, Llm!Ends(how),
         output' \in [attempt : 0..attempt, kind : {"none", "packet", "diagnosis", "failure"}],
         projected' \subseteq 1..attempt, Llm!OutputIsTheCommands'
  PROVE  LlmInv'
<1>1. /\ stage' = "idle" /\ mode' = "file" /\ chosen' = <<>> /\ known' = 0 /\ packet' = <<>> /\ remains' = 0
      /\ draft' = <<>> /\ review' = <<>> /\ journal' = journal /\ attempt' = attempt
  BY DEF Llm!Ends
<1>2. journal \in Seq(Reports) /\ attempt \in Nat /\ TTL \in Nat
  BY SubsystemsAssumption DEF LlmInv
<1>3. Len(journal') \in Nat
  BY <1>1, <1>2
<1>4. Llm!TypeOK'
  BY <1>1, <1>2, <1>3 DEF Llm!TypeOK
<1>. QED
  BY <1>1, <1>2, <1>4 DEF LlmInv, Asking

LEMMA WriteKept ==
  ASSUME LlmInv, Llm!Write \/ Llm!RecordFailure \/ Llm!Project \/ Llm!Kill PROVE LlmInv'
<1>1. /\ stage # "idle" /\ attempt \in Nat /\ attempt > 0 /\ attempt \notin projected
      /\ output \in [attempt : 0..attempt, kind : {"none", "packet", "diagnosis", "failure"}]
      /\ projected \subseteq 1..attempt
  BY DEF Llm!Write, Llm!RecordFailure, Llm!Project, Llm!Kill, LlmInv, Llm!TypeOK
<1>2. ASSUME NEW how \in {"traceback", "killed"}, Llm!Ends(how), UNCHANGED <<output, projected>> PROVE LlmInv'
  <2>1. attempt' = attempt /\ output' = output /\ projected' = projected /\ exit' = how
    BY <1>2 DEF Llm!Ends
  <2>2. Llm!OutputIsTheCommands'
    BY <1>1, <2>1 DEF Llm!OutputIsTheCommands
  <2>. QED
    BY <1>1, <1>2, <2>1, <2>2, EndsKept
<1>3. ASSUME NEW kind \in {"packet", "diagnosis", "failure"}, NEW how \in {"success", "failure"},
             how = "failure" <=> kind = "failure",
             Llm!Ends(how), Llm!Writes(kind), projected' = projected PROVE LlmInv'
  <2>1. attempt' = attempt /\ output' = [attempt |-> attempt, kind |-> kind] /\ exit' = how
    BY <1>3 DEF Llm!Ends, Llm!Writes
  <2>2. /\ output' \in [attempt : 0..attempt, kind : {"none", "packet", "diagnosis", "failure"}]
        /\ output'.attempt = attempt /\ output'.kind = kind
    BY <1>1, <2>1
  <2>3. Llm!OutputIsTheCommands'
    BY <1>1, <1>3, <2>1, <2>2 DEF Llm!OutputIsTheCommands
  <2>. QED
    BY <1>1, <1>3, <2>2, <2>3, EndsKept
<1>4. CASE Llm!Write
  <2>1. CASE Llm!Ends("traceback") /\ UNCHANGED <<output, projected>>
    BY <1>2, <2>1
  <2>2. CASE projected' = projected /\ Llm!Ends("success") /\ (Llm!Writes("packet") \/ Llm!Writes("diagnosis"))
    BY <1>3, <2>2
  <2>3. CASE /\ stage = "write" /\ mode = "run" /\ Llm!Writes("diagnosis") /\ stage' = "project"
             /\ UNCHANGED <<journal, attempt, mode, chosen, known, packet, remains, draft, review, exit, projected>>
    <3>1. /\ journal' = journal /\ attempt' = attempt /\ mode' = mode /\ chosen' = chosen /\ known' = known
          /\ packet' = packet /\ remains' = remains /\ draft' = draft /\ review' = review /\ projected' = projected
          /\ output' = [attempt |-> attempt, kind |-> "diagnosis"]
      BY <2>3 DEF Llm!Writes
    <3>2. output' \in [attempt : 0..attempt, kind : {"none", "packet", "diagnosis", "failure"}]
      BY <1>1, <3>1
    <3>3. Llm!TypeOK'
      BY <2>3, <3>1, <3>2 DEF LlmInv, Llm!TypeOK
    <3>4. packet # <<>> /\ OfNewest /\ IsReviewed /\ remains > 0
      BY <2>3 DEF LlmInv
    <3>5. OfNewest' /\ IsReviewed'
      BY <3>1, <3>4 DEF OfNewest, IsReviewed
    <3>6. Llm!OutputIsTheCommands'
      BY <2>3 DEF Llm!OutputIsTheCommands
    <3>7. journal \in Seq(Reports)
      BY DEF LlmInv
    <3>. QED
      BY <1>1, <2>3, <3>1, <3>3, <3>4, <3>5, <3>6, <3>7 DEF LlmInv, Asking
  <2>. QED
    BY <1>4, <2>1, <2>2, <2>3 DEF Llm!Write, Llm!inputs
<1>5. CASE Llm!RecordFailure
  BY <1>2, <1>3, <1>5 DEF Llm!RecordFailure
<1>6. CASE Llm!Kill
  BY <1>2, <1>6 DEF Llm!Kill
<1>7. CASE Llm!Project
  <2>1. CASE Llm!Ends("traceback") /\ UNCHANGED <<output, projected>>
    BY <1>2, <2>1
  <2>2. CASE Llm!Ends("success") /\ projected' = projected \cup {attempt} /\ output' = output
    <3>1. output = [attempt |-> attempt, kind |-> "diagnosis"]
      BY <1>7 DEF LlmInv, Llm!Project
    <3>2. attempt' = attempt /\ exit' = "success"
      BY <2>2 DEF Llm!Ends
    <3>3. Llm!OutputIsTheCommands'
      BY <1>1, <2>2, <3>1, <3>2 DEF Llm!OutputIsTheCommands
    <3>4. projected' \subseteq 1..attempt
      BY <1>1, <2>2
    <3>. QED
      BY <1>1, <2>2, <3>3, <3>4, EndsKept
  <2>. QED
    BY <1>7, <2>1, <2>2 DEF Llm!Project
<1>. QED
  BY <1>4, <1>5, <1>6, <1>7

LEMMA ReportKept == ASSUME LlmInv, Llm!Report PROVE LlmInv'
<1>1. PICK n \in 1..2, provisional \in BOOLEAN, who \in {"own", "other"}, p \in {Measured} :
        journal' = Append(journal, [revision |-> n, provisional |-> provisional, run |-> who, packet |-> p])
  BY DEF Llm!Report
<1>2. /\ stage = "idle" /\ stage' = stage /\ attempt' = attempt /\ mode' = mode /\ chosen' = chosen
      /\ known' = known /\ packet' = packet /\ remains' = remains /\ draft' = draft /\ review' = review
      /\ output' = output /\ exit' = exit /\ projected' = projected
  BY DEF Llm!Report, Llm!results
<1>. DEFINE r == [revision |-> n, provisional |-> provisional, run |-> who, packet |-> p]
<1>3. r \in Reports /\ journal \in Seq(Reports) /\ known \in 0..Len(journal)
  BY DEF Reports, LlmInv, Llm!TypeOK
<1>. HIDE DEF r
<1>4. Append(journal, r) \in Seq(Reports) /\ Len(Append(journal, r)) = Len(journal) + 1 /\ Len(journal) \in Nat
  BY <1>3, AppendProperties
<1>5. journal' \in Seq(Reports) /\ known' \in 0..Len(journal')
  BY <1>1, <1>2, <1>3, <1>4 DEF r
<1>6. Llm!TypeOK'
  BY <1>2, <1>5 DEF LlmInv, Llm!TypeOK
<1>7. Llm!OutputIsTheCommands'
  BY <1>2 DEF LlmInv, Llm!OutputIsTheCommands
<1>. QED
  BY <1>2, <1>5, <1>6, <1>7 DEF LlmInv, Asking

LEMMA StartKept == ASSUME LlmInv, Llm!Start PROVE LlmInv'
<1>1. /\ attempt' = attempt + 1 /\ remains' = TTL /\ known' = Len(journal) /\ draft' = <<>> /\ journal' = journal
      /\ output' = output /\ projected' = projected
  BY DEF Llm!Start
<1>2. /\ attempt \in Nat /\ TTL \in Nat /\ journal \in Seq(Reports) /\ Len(journal) \in Nat
      /\ projected \subseteq 1..attempt
      /\ output \in [attempt : 0..attempt, kind : {"none", "packet", "diagnosis", "failure"}]
  BY SubsystemsAssumption DEF LlmInv, Llm!TypeOK
<1>3. /\ attempt' \in Nat /\ attempt' > 0 /\ attempt' \notin projected' /\ projected' \subseteq 1..attempt'
      /\ output' \in [attempt : 0..attempt', kind : {"none", "packet", "diagnosis", "failure"}]
  BY <1>1, <1>2
<1>4. \/ /\ mode' \in {"file", "collect"}
         /\ \E p \in Packets : packet' = <<p>> /\ stage' \in {"failed", IF mode' = "collect" THEN "write" ELSE "tags"}
      \/ /\ mode' = "run" /\ stage' = "failed" /\ packet' = <<>>
      \/ /\ mode' = "run" /\ chosen' = Llm!Selected(journal) /\ ~Llm!Ambiguous(journal)
         /\ chosen' # <<>> /\ ~chosen'[1].provisional
         /\ packet' = <<chosen'[1].packet>> /\ stage' \in {"failed", "tags"}
  <2>1. CASE mode' \in {"file", "collect"} /\ \E p \in Packets : Llm!Has(p)
    BY <2>1 DEF Llm!Has
  <2>2. CASE /\ mode' = "run" /\ chosen' = Llm!Selected(journal)
             /\ IF Llm!Ambiguous(journal) \/ chosen' = <<>> \/ (chosen' # <<>> /\ chosen'[1].provisional)
                THEN stage' = "failed" /\ packet' = <<>>
                ELSE Llm!Has(chosen'[1].packet)
    BY <2>2 DEF Llm!Has
  <2>. QED
    BY <2>1, <2>2 DEF Llm!Start
<1>5. /\ \A p \in Packets : <<p>> # <<>>
      /\ packet' \in {<<>>} \cup {<<p>> : p \in Packets}
      /\ mode' \in {"run", "file", "collect"} /\ stage' \in {"failed", "tags", "write"}
      /\ stage' = "write" => mode' = "collect"
      /\ stage' = "tags" => mode' # "collect"
      /\ stage' # "failed" => packet' # <<>>
      /\ mode' = "run" /\ stage' # "failed" => OfNewest'
  <2>1. CASE /\ mode' \in {"file", "collect"}
             /\ \E p \in Packets : packet' = <<p>> /\ stage' \in {"failed", IF mode' = "collect" THEN "write" ELSE "tags"}
    BY <2>1
  <2>2. CASE mode' = "run" /\ stage' = "failed" /\ packet' = <<>>
    BY <2>2
  <2>3. CASE /\ mode' = "run" /\ chosen' = Llm!Selected(journal) /\ ~Llm!Ambiguous(journal)
             /\ chosen' # <<>> /\ ~chosen'[1].provisional
             /\ packet' = <<chosen'[1].packet>> /\ stage' \in {"failed", "tags"}
    <3>1. IsNewest(chosen', journal)
      BY <1>2, <2>3, SelectedIsNewest
    <3>2. PICK k \in 1..Len(journal) : chosen' = <<journal[k]>>
      BY <2>3, <3>1 DEF IsNewest
    <3>3. /\ chosen'[1] = journal[k] /\ journal[k] \in Reports
          /\ \A i \in 1..Len(journal) : journal[i].revision <= chosen'[1].revision
      BY <1>2, <2>3, <3>1, <3>2, ElementOfSeq DEF IsNewest
    <3>4. \A i \in 1..Len(journal) : journal[i].run = journal[k].run
      BY <1>2, <2>3 DEF Llm!Ambiguous, Llm!Range
    <3>5. chosen'[1].packet \in Packets
      BY <3>3 DEF Reports, Packets
    <3>6. packet'[1] = chosen'[1].packet /\ packet' # <<>>
      BY <2>3
    <3>7. OfNewest'
      BY <1>1, <2>3, <3>3, <3>4, <3>6 DEF OfNewest
    <3>. QED
      BY <2>3, <3>5, <3>6, <3>7
  <2>. QED
    BY <1>4, <2>1, <2>2, <2>3
<1>6. Llm!TypeOK'
  BY <1>1, <1>2, <1>3, <1>5 DEF Llm!TypeOK
<1>7. Llm!OutputIsTheCommands'
  BY <1>5 DEF Llm!OutputIsTheCommands
<1>. QED
  BY <1>1, <1>2, <1>3, <1>5, <1>6, <1>7 DEF LlmInv, Asking

LEMMA LlmKept == ASSUME LlmInv, Llm!Next PROVE LlmInv'
BY ReportKept, StartKept, AskKept, DraftKept, ReviewKept, PassKept, WriteKept DEF Llm!Next

LEMMA LlmStays == ASSUME LlmInv, UNCHANGED llm PROVE LlmInv'
<1>1. /\ journal' = journal /\ stage' = stage /\ attempt' = attempt /\ mode' = mode /\ chosen' = chosen
      /\ known' = known /\ packet' = packet /\ remains' = remains /\ draft' = draft /\ review' = review
      /\ output' = output /\ exit' = exit /\ projected' = projected
  BY DEF llm
<1>2. Llm!TypeOK' /\ Llm!OutputIsTheCommands'
  BY <1>1 DEF LlmInv, Llm!TypeOK, Llm!OutputIsTheCommands
<1>3. (OfNewest => OfNewest') /\ (IsReviewed => IsReviewed')
  BY <1>1 DEF OfNewest, IsReviewed
<1>. QED
  BY <1>1, <1>2, <1>3 DEF LlmInv
-----------------------------------------------------------------------------
LEMMA AtMostOne ==
  ASSUME NEW S, IsFiniteSet(S), ~(Cardinality(S) > 1), NEW x \in S, NEW y \in S PROVE x = y
<1>1. SUFFICES ASSUME x # y PROVE FALSE
  OBVIOUS
<1>. DEFINE R == S \ {x}  Q == R \ {y}
<1>2. /\ IsFiniteSet(R) /\ Cardinality(R) = Cardinality(S) - 1
  BY FS_RemoveElement
<1>3. y \in R
  BY <1>1
<1>. HIDE DEF R
<1>4. IsFiniteSet(Q) /\ Cardinality(Q) = Cardinality(R) - 1
  BY <1>2, <1>3, FS_RemoveElement
<1>5. Cardinality(Q) \in Nat /\ Cardinality(S) \in Nat
  BY <1>4, FS_CardinalityType
<1>. QED
  BY <1>2, <1>4, <1>5

LEMMA FiniteImage ==
  ASSUME NEW S, IsFiniteSet(S), NEW f PROVE IsFiniteSet({f[x] : x \in S})
<1>. DEFINE g == [x \in S |-> f[x]]  T == {f[x] : x \in S}
<1>1. g \in Surjection(S, T)
  BY DEF Surjection
<1>. HIDE DEF g, T
<1>2. IsFiniteSet(T)
  BY <1>1, FS_Surjection
<1>. QED
  BY <1>2 DEF T

LEMMA Counted == \A S : Llm!Cardinality(S) = Cardinality(S)
  BY DEF Llm!Cardinality, Cardinality

LEMMA FewRows == ASSUME NEW p \in Packets PROVE IsFiniteSet(Llm!Rows(p))
<1>1. DOMAIN Measured.observations = 1..3
  BY DEF Measured
<1>2. DOMAIN p.observations = DOMAIN Measured.observations
  <2>1. /\ DOMAIN Measured = {"observations", "window", "clock", "baselineClock"}
    BY DEF Measured
  <2>2. CASE p = Measured
    BY <2>2
  <2>3. CASE p = [Measured EXCEPT !.observations[3].status = "stale"]
    BY <2>1, <2>3
  <2>4. CASE p = [Measured EXCEPT !.clock = "unsafe"]
    BY <2>1, <2>4
  <2>5. CASE p = [Measured EXCEPT !.observations[3].id = 1]
    BY <2>1, <2>5
  <2>6. CASE p = Served
    BY <2>1, <2>6 DEF Served
  <2>. QED
    BY <2>2, <2>3, <2>4, <2>5, <2>6 DEF Packets
<1>3. IsFiniteSet(1..3)
  <2>1. \A a, b \in Int : IsFiniteSet(a..b)
    BY FS_Interval
  <2>2. 1 \in Int /\ 3 \in Int
    OBVIOUS
  <2>. QED
    BY <2>1, <2>2, Zenon
<1>. DEFINE o == p.observations  S == DOMAIN o
<1>4. IsFiniteSet(S)
  BY <1>1, <1>2, <1>3
<1>5. Llm!Rows(p) = {o[x] : x \in S}
  BY DEF Llm!Rows, Llm!Range
<1>. HIDE DEF o, S
<1>. QED
  BY <1>4, <1>5, FiniteImage

(* Of names that are not mixed, two agree in one part or in the other.     *)
LEMMA NotMixed ==
  ASSUME NEW named, IsFiniteSet(named), ~Llm!Mixed(named), NEW a \in named, NEW b \in named
  PROVE  a[1] = b[1] \/ a[2] = b[2]
<1>. DEFINE f == [n \in named |-> n[1]]
            g == [n \in named |-> n[2]]
            firsts == {f[n] : n \in named}
            seconds == {g[n] : n \in named}
<1>1. firsts = {n[1] : n \in named} /\ seconds = {n[2] : n \in named}
  OBVIOUS
<1>2. ~(Cardinality(firsts) > 1) \/ ~(Cardinality(seconds) > 1)
  BY <1>1, Counted DEF Llm!Mixed
<1>3. f[a] = a[1] /\ f[b] = b[1] /\ g[a] = a[2] /\ g[b] = b[2]
  OBVIOUS
<1>. HIDE DEF f, g
<1>4. IsFiniteSet(firsts) /\ IsFiniteSet(seconds)
  BY FiniteImage
<1>5. f[a] \in firsts /\ f[b] \in firsts /\ g[a] \in seconds /\ g[b] \in seconds
  OBVIOUS
<1>. HIDE DEF firsts, seconds
<1>6. f[a] = f[b] \/ g[a] = g[b]
  BY <1>2, <1>4, <1>5, AtMostOne
<1>. QED
  BY <1>3, <1>6

LEMMA NotMixedOf ==
  ASSUME NEW S, IsFiniteSet(S), NEW e, NEW g, ~Llm!Mixed({<<e[r], g[r]>> : r \in S}), NEW x \in S, NEW y \in S
  PROVE  e[x] = e[y] \/ g[x] = g[y]
<1>. DEFINE f == [r \in S |-> <<e[r], g[r]>>]
            named == {f[r] : r \in S}
<1>1. named = {<<e[r], g[r]>> : r \in S}
  OBVIOUS
<1>2. f[x] = <<e[x], g[x]>> /\ f[y] = <<e[y], g[y]>>
  OBVIOUS
<1>. HIDE DEF f
<1>3. IsFiniteSet(named)
  BY FiniteImage
<1>4. f[x] \in named /\ f[y] \in named
  OBVIOUS
<1>. HIDE DEF named
<1>5. f[x][1] = f[y][1] \/ f[x][2] = f[y][2]
  BY <1>1, <1>3, <1>4, NotMixed
<1>. QED
  BY <1>2, <1>5

(* Two of the rows that are cited for a cause and carry the same l are *)
(* of one signal or of one entity.                                         *)
LEMMA NotCombined ==
  ASSUME NEW p \in Packets, NEW ids, NEW l, ~Llm!Combines(Llm!Of(p, ids), l),
         NEW o \in Llm!Of(p, ids), NEW q \in Llm!Of(p, ids), l \in DOMAIN o.labels, l \in DOMAIN q.labels
  PROVE  o.signal = q.signal \/ Llm!Namespace(o, l) = Llm!Namespace(q, l)
<1>. DEFINE scoped == {r \in Llm!Of(p, ids) : l \in DOMAIN r.labels}
            e == [r \in scoped |-> Llm!Namespace(r, l)]
            g == [r \in scoped |-> r.signal]
<1>1. scoped \subseteq Llm!Rows(p)
  BY DEF Llm!Of
<1>2. o \in scoped /\ q \in scoped
  OBVIOUS
<1>3. {<<e[r], g[r]>> : r \in scoped} = {<<Llm!Namespace(r, l), r.signal>> : r \in scoped}
  OBVIOUS
<1>4. ~Llm!Mixed({<<e[r], g[r]>> : r \in scoped})
  BY <1>3 DEF Llm!Combines
<1>5. /\ e[o] = Llm!Namespace(o, l) /\ e[q] = Llm!Namespace(q, l)
      /\ g[o] = o.signal /\ g[q] = q.signal
  BY <1>2
<1>. HIDE DEF scoped, e, g
<1>6. IsFiniteSet(scoped)
  BY <1>1, FewRows, FS_Subset
<1>7. e[o] = e[q] \/ g[o] = g[q]
  BY <1>2, <1>4, <1>6, NotMixedOf
<1>. QED
  BY <1>5, <1>7

(* And two metrics of vLLM that name their endpoints are of one signal or  *)
(* of one endpoint.                                                        *)
Serving(p, ids) == {r \in Llm!Of(p, ids) : r.vllm /\ r.endpoint # ""}

LEMMA OneEndpoint ==
  ASSUME NEW p \in Packets, NEW ids, ~Llm!CombinesEndpoints(Llm!Of(p, ids)),
         NEW o \in Serving(p, ids), NEW q \in Serving(p, ids)
  PROVE  o.signal = q.signal \/ <<o.node, o.endpoint>> = <<q.node, q.endpoint>>
<1>. DEFINE S == Serving(p, ids)
            e == [r \in S |-> <<r.node, r.endpoint>>]
            g == [r \in S |-> r.signal]
<1>1. S \subseteq Llm!Rows(p)
  BY DEF Serving, Llm!Of
<1>2. {<<e[r], g[r]>> : r \in S} = {<<<<r.node, r.endpoint>>, r.signal>> : r \in S}
  OBVIOUS
<1>3. ~Llm!Mixed({<<e[r], g[r]>> : r \in S})
  BY <1>2 DEF Llm!CombinesEndpoints, Serving
<1>4. /\ e[o] = <<o.node, o.endpoint>> /\ e[q] = <<q.node, q.endpoint>>
      /\ g[o] = o.signal /\ g[q] = q.signal
  OBVIOUS
<1>. HIDE DEF e, g
<1>5. IsFiniteSet(S)
  BY <1>1, FewRows, FS_Subset
<1>6. e[o] = e[q] \/ g[o] = g[q]
  BY <1>3, <1>5, NotMixedOf
<1>. QED
  BY <1>4, <1>6

LEMMA Candidates ==
  ASSUME NEW a \in Answers
  PROVE  \A c \in Llm!Range(a.candidates) : c.evidence # <<>> => 1 \in DOMAIN c.evidence
<1>1. \A c \in Supposed : c.evidence # <<>> => 1 \in DOMAIN c.evidence
  BY DEF Supposed, Citing
<1>2. Citing(<<1>>, <<>>, {1}, {}) \in Supposed
  BY DEF Supposed
<1>3. a.candidates = <<>> \/ \E c \in Supposed : a.candidates = <<c>>
  BY <1>2 DEF Answers
<1>. QED
  BY <1>1, <1>3 DEF Llm!Range

LEMMA CitedIsSound ==
  ASSUME NEW p \in Packets, NEW a \in Answers, Llm!Valid(a, p), NEW c \in Llm!Range(a.candidates)
  PROVE  LET cited == Llm!Of(p, Llm!Range(c.evidence) \cup Llm!Range(c.counter))
         IN  /\ Llm!TimingUsable(p) /\ cited # {}
             /\ \A o \in cited : o.status = "observed" /\ o.limits \subseteq c.missing
             /\ \A o, q \in Llm!Of(p, Llm!Range(c.evidence)) : o.signal # q.signal =>
                  /\ \A l \in {"engine", "gpu"} : l \in DOMAIN o.labels \cap DOMAIN q.labels =>
                       <<o.node, o.labels[l]>> = <<q.node, q.labels[l]>>
                  /\ o.vllm /\ q.vllm /\ "" \notin {o.endpoint, q.endpoint} =>
                       <<o.node, o.endpoint>> = <<q.node, q.endpoint>>
<1>. DEFINE cited == Llm!Of(p, Llm!Range(c.evidence) \cup Llm!Range(c.counter))
<1>1. a.candidates # <<>>
  BY DEF Llm!Range
<1>2. Llm!TimingUsable(p)
  BY <1>1 DEF Llm!Valid
<1>3. Llm!Acceptable(c, p)
  BY DEF Llm!Valid
<1>4. cited # {}
  <2>1. 1 \in DOMAIN c.evidence
    BY <1>3, Candidates DEF Llm!Acceptable
  <2>2. c.evidence[1] \in Llm!Range(c.evidence) /\ c.evidence[1] \in Llm!Ids(p)
    BY <1>3, <2>1 DEF Llm!Acceptable, Llm!Cited, Llm!Range
  <2>3. PICK o \in Llm!Rows(p) : o.id = c.evidence[1]
    BY <2>2 DEF Llm!Ids
  <2>4. o \in cited
    BY <2>2, <2>3 DEF Llm!Of
  <2>. QED
    BY <2>4
<1>5. cited = Llm!Of(p, Llm!Cited(c))
  BY DEF Llm!Cited
<1>6. \A o \in cited : o.status = "observed" /\ o.limits \subseteq c.missing
  BY <1>3, <1>5 DEF Llm!Acceptable, Llm!Usable
<1>7. ASSUME NEW o \in Llm!Of(p, Llm!Range(c.evidence)), NEW q \in Llm!Of(p, Llm!Range(c.evidence)),
             o.signal # q.signal
      PROVE  /\ \A l \in {"engine", "gpu"} : l \in DOMAIN o.labels \cap DOMAIN q.labels =>
                  <<o.node, o.labels[l]>> = <<q.node, q.labels[l]>>
             /\ o.vllm /\ q.vllm /\ "" \notin {o.endpoint, q.endpoint} =>
                  <<o.node, o.endpoint>> = <<q.node, q.endpoint>>
  <2>1. ASSUME NEW l \in {"engine", "gpu"}, l \in DOMAIN o.labels, l \in DOMAIN q.labels
        PROVE  <<o.node, o.labels[l]>> = <<q.node, q.labels[l]>>
    <3>1. l \in Llm!Entities
      BY DEF Llm!Entities, Llm!Engines
    <3>2. ~Llm!Combines(Llm!Of(p, Llm!Range(c.evidence)), l)
      BY <1>3, <3>1 DEF Llm!Acceptable
    <3>3. Llm!Namespace(o, l) = Llm!Namespace(q, l)
      BY <1>7, <2>1, <3>2, NotCombined
    <3>. QED
      BY <3>3 DEF Llm!Namespace
  <2>2. ASSUME o.vllm, q.vllm, o.endpoint # "", q.endpoint # ""
        PROVE  <<o.node, o.endpoint>> = <<q.node, q.endpoint>>
    <3>1. ~Llm!CombinesEndpoints(Llm!Of(p, Llm!Range(c.evidence)))
      BY <1>3 DEF Llm!Acceptable
    <3>2. o \in Serving(p, Llm!Range(c.evidence)) /\ q \in Serving(p, Llm!Range(c.evidence))
      BY <2>2 DEF Serving
    <3>3. o.signal = q.signal \/ <<o.node, o.endpoint>> = <<q.node, q.endpoint>>
      BY <3>1, <3>2, OneEndpoint
    <3>. QED
      BY <1>7, <3>3
  <2>. QED
    BY <2>1, <2>2
<1>. QED
  BY <1>2, <1>4, <1>6, <1>7

LEMMA DiagnosisIsSound ==
  ASSUME LlmInv PROVE Llm!TypeOK /\ Llm!PublishedIsGrounded /\ Llm!OutputIsTheCommands
<1>1. ASSUME stage \in {"write", "project"}, mode # "collect" PROVE Llm!PublishedIsGrounded
  <2>1. /\ remains > 0 /\ packet # <<>> /\ (mode = "run" => OfNewest)
        /\ review # <<>> /\ review[1].answer \in Answers /\ Llm!Valid(review[1].answer, packet[1])
        /\ (review[1].decision = "accept" => review[1].answer = draft[1])
    BY <1>1 DEF LlmInv, IsReviewed
  <2>2. packet[1] \in Packets
    BY <2>1 DEF LlmInv, Llm!TypeOK
  <2>3. ASSUME NEW c \in Llm!Range(review[1].answer.candidates)
        PROVE  LET cited == Llm!Of(packet[1], Llm!Range(c.evidence) \cup Llm!Range(c.counter))
               IN  /\ Llm!TimingUsable(packet[1]) /\ cited # {}
                   /\ \A o \in cited : o.status = "observed" /\ o.limits \subseteq c.missing
                   /\ \A o, q \in Llm!Of(packet[1], Llm!Range(c.evidence)) : o.signal # q.signal =>
                        /\ \A l \in {"engine", "gpu"} : l \in DOMAIN o.labels \cap DOMAIN q.labels =>
                             <<o.node, o.labels[l]>> = <<q.node, q.labels[l]>>
                        /\ o.vllm /\ q.vllm /\ "" \notin {o.endpoint, q.endpoint} =>
                             <<o.node, o.endpoint>> = <<q.node, q.endpoint>>
    BY <2>1, <2>2, CitedIsSound
  <2>. QED
    BY <2>1, <2>3 DEF Llm!PublishedIsGrounded, OfNewest
<1>2. Llm!PublishedIsGrounded
  BY <1>1 DEF Llm!PublishedIsGrounded
<1>. QED
  BY <1>2 DEF LlmInv
-----------------------------------------------------------------------------
(* Every step is one of each part, or leaves it as it is.                  *)
LEMMA EvidenceStep ==
  ASSUME [SubsystemsNext]_<<part, vars, transport, cache, installer, mapping, collector, profiler, llm>>
  PROVE  /\ Cache!Next \/ UNCHANGED cache
         /\ Mapping!Next \/ UNCHANGED mapping
         /\ Collector!Next \/ UNCHANGED collector
         /\ Llm!Next \/ UNCHANGED llm
  BY DEF SubsystemsNext

(* However a file is appended to, torn and replaced while its rows are     *)
(* decoded, the rows that are served are those of one file as it was at    *)
(* some time of the read (IncrementalJsonlCache).  However the producers   *)
(* replace and remove their snapshots during a poll and runs end, what is  *)
(* published of a producer is nothing older than any of its files that     *)
(* stayed, and the cache holds what its bounds allow (SnapshotCache,       *)
(* collect_once).  Whichever wall clock is stepped while a mapping is      *)
(* measured, saved, cached and used, a span that carries one lies no       *)
(* further from where it was than its uncertainty (clock.py).              *)
THEOREM FreshCaches == SubsystemsSpec => []CachesAreFresh
<1> DEFINE Inv == CacheInv /\ MappingInv /\ CollectorInv
<1>1. SubsystemsInit => Inv
  BY CacheStarts, MappingStarts, CollectorStarts DEF SubsystemsInit
<1>2. Inv /\ [SubsystemsNext]_<<part, vars, transport, cache, installer, mapping, collector, profiler, llm>>
        => Inv'
  BY EvidenceStep, CacheKept, CacheStays, MappingKept, MappingStays, CollectorKept, CollectorStays
<1>3. Inv => CachesAreFresh
  <2>1. MappingInv => Mapping!TypeOK /\ Mapping!MappingIsTrue
    BY DEF MappingInv
  <2>. QED
    BY <2>1, CacheIsTrue, CollectorIsFresh DEF CachesAreFresh
<1>. QED
  BY <1>1, <1>2, <1>3, PTL DEF SubsystemsSpec

(* Whatever the model answers, fails to answer or answers late, and        *)
(* whenever the command is killed and run again: the diagnosis that is     *)
(* written was reviewed in time and rests on current measurements of the   *)
(* packet, that of a step on its final report of the highest revision, and *)
(* the output and the dashboard never pair a command with the result of    *)
(* another one (review_diagnosis, validate_diagnosis, selected_report,     *)
(* write_result).                                                          *)
THEOREM GroundedDiagnosis == SubsystemsSpec => []DiagnosisIsGrounded
<1>1. SubsystemsInit => LlmInv
  BY LlmStarts DEF SubsystemsInit
<1>2. LlmInv /\ [SubsystemsNext]_<<part, vars, transport, cache, installer, mapping, collector, profiler, llm>>
        => LlmInv'
  BY EvidenceStep, LlmKept, LlmStays
<1>3. LlmInv => DiagnosisIsGrounded
  BY DiagnosisIsSound DEF DiagnosisIsGrounded
<1>. QED
  BY <1>1, <1>2, <1>3, PTL DEF SubsystemsSpec

=============================================================================
