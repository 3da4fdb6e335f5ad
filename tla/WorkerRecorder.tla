--------------------------- MODULE WorkerRecorder ---------------------------
(***************************************************************************)
(* The recorder handle of a tool adapter (xlayer_telemetry/                *)
(* worker_events.py).  A worker process is reused for one job after        *)
(* another; each tool call asks the handle for a recorder and emits its    *)
(* records on it.  The handle makes a recorder for the Run the environment *)
(* names and, when the environment has changed, closes the old one without *)
(* waiting and makes another.                                              *)
(*                                                                         *)
(* The background writer of a recorder is BoundedWriter, reduced here to   *)
(* what the handle can tell apart: what is queued, what is being written,  *)
(* and the doors that close() and a failure shut.  Records are numbered in *)
(* the order they are emitted.                                             *)
(***************************************************************************)
EXTENDS Naturals, Sequences, FiniteSets, Functions

CONSTANTS
  Threads,      (* threads of the worker that run tools                    *)
  Runs,         (* values of the environment (_CONTEXT_KEYS)               *)
  NoRecorder,   (* None                                                    *)
  MaxRecorders, (* bound of the model: recorders made                      *)
  MaxRecords,   (* bound of the model: records emitted                     *)
  MaxSwitches   (* bound of the model: changes of the environment          *)

ASSUME HandleAssumption ==
  /\ NoRecorder \notin Nat \cup Threads
  /\ MaxRecorders \in Nat \ {0} /\ MaxRecords \in Nat /\ MaxSwitches \in Nat

Recorders == 1..MaxRecorders

VARIABLES
  run,       (* the Run the environment names now                          *)
  switches,  (* number of times it changed                                 *)
  owner,     (* thread inside get(), which holds the handle's lock, or     *)
             (* NoRecorder                                                 *)
  handle,    (* [recorder, run, closed]: _recorder, _context, _closed      *)
  made,      (* number of recorders made                                   *)
  label,     (* label[r]: Run of recorder r, in all its records            *)
  queue,     (* queue[r]: records queued in r's writer                     *)
  writing,   (* writing[r]: record in the hands of r's callback, or 0      *)
  shut,      (* shut[r]: r's writer was closed                             *)
  failed,    (* failed[r]: r's writer met an error                         *)
  pc,        (* pc[t]: where thread t is in its tool call                  *)
  got,       (* got[t]: what get() returned to t                           *)
  wanted,    (* history: wanted[t], the Run when t called get()            *)
  emitted,   (* number of records emitted                                  *)
  rows,      (* history: the records in files, as [id, run]                *)
  intended   (* history: intended[id], the Run whose tool emitted record id *)

env     == <<run, switches>>
writers == <<label, queue, writing, shut, failed>>
threads == <<pc, got, wanted>>
history == <<emitted, rows, intended>>
vars == <<env, owner, handle, made, writers, threads, history>>

Init ==
  /\ run \in Runs /\ switches = 0
  /\ owner = NoRecorder
  /\ handle = [recorder |-> NoRecorder, run |-> run, closed |-> FALSE]
  /\ made = 0
  /\ label = [r \in Recorders |-> run]
  /\ queue = [r \in Recorders |-> <<>>]
  /\ writing = [r \in Recorders |-> 0]
  /\ shut = [r \in Recorders |-> FALSE]
  /\ failed = [r \in Recorders |-> FALSE]
  /\ pc = [t \in Threads |-> "idle"]
  /\ got = [t \in Threads |-> NoRecorder]
  /\ wanted = [t \in Threads |-> run]
  /\ emitted = 0 /\ rows = {} /\ intended = <<>>

Busy(r) == queue[r] # <<>> \/ writing[r] # 0
-----------------------------------------------------------------------------
(* The worker gets another job: its environment changes between, not       *)
(* during, the calls of get().                                             *)
Switch(other) ==
  /\ switches < MaxSwitches /\ other # run
  /\ owner = NoRecorder
  /\ run' = other /\ switches' = switches + 1
  /\ UNCHANGED <<owner, handle, made, writers, threads, history>>

(* get().  The handle's lock is held from GetBegin to the return.          *)

(* Mutant: the first Run's recorder serves for good.                       *)
StaleNever == FALSE

(* The environment names another Run than the recorder at hand.            *)
Stale == handle.recorder # NoRecorder /\ run # handle.run

(* Mutant: the tool uses what get() returned unseen.                       *)
ReturnUnseen(t, r) ==
  /\ got' = [got EXCEPT ![t] = r]
  /\ pc' = [pc EXCEPT ![t] = "tool"]
  /\ owner' = NoRecorder

(* A tool that gets None runs without instrumentation.                     *)
Return(t, r) ==
  /\ got' = [got EXCEPT ![t] = r]
  /\ pc' = [pc EXCEPT ![t] = IF r = NoRecorder THEN "idle" ELSE "tool"]
  /\ owner' = NoRecorder

(* A recorder labelled with the Run of the environment.                    *)
Make(t) ==
  /\ made < MaxRecorders
  /\ made' = made + 1
  /\ handle' = [handle EXCEPT !.recorder = made + 1, !.run = run]
  /\ label' = [label EXCEPT ![made + 1] = run]
  /\ Return(t, made + 1)
  /\ UNCHANGED <<queue, writing, shut, failed>>

GetBegin(t) ==
  /\ pc[t] = "idle" /\ owner = NoRecorder
  /\ wanted' = [wanted EXCEPT ![t] = run]
  /\ \/ /\ handle.closed
        /\ Return(t, NoRecorder)
        /\ UNCHANGED <<handle, made, writers>>
     \/ /\ ~handle.closed /\ Stale
        /\ owner' = t
        /\ pc' = [pc EXCEPT ![t] = "shut"]
        /\ UNCHANGED <<got, handle, made, writers>>
     \/ /\ ~handle.closed /\ ~Stale /\ handle.recorder = NoRecorder
        /\ Make(t)
     \/ /\ ~handle.closed /\ ~Stale /\ handle.recorder # NoRecorder
        /\ Return(t, handle.recorder)
        /\ UNCHANGED <<handle, made, writers>>
  /\ UNCHANGED <<env, history>>

(* close(0) of the old recorder, in the three sections of its writer's     *)
(* lock: shut the door, look whether it is drained, cancel what is queued. *)
Shut(t) ==
  /\ pc[t] = "shut"
  /\ shut' = [shut EXCEPT ![handle.recorder] = TRUE]
  /\ pc' = [pc EXCEPT ![t] = "look"]
  /\ UNCHANGED <<env, owner, handle, made, label, queue, writing, failed, got,
                 wanted, history>>

(* Mutant: what the callback holds is not looked at.                       *)
LookAtQueue(t) ==
  /\ pc[t] = "look"
  /\ pc' = [pc EXCEPT ![t] = IF queue[handle.recorder] # <<>> THEN "cancel" ELSE "replace"]
  /\ UNCHANGED <<env, owner, handle, made, writers, got, wanted, history>>

Look(t) ==
  /\ pc[t] = "look"
  /\ pc' = [pc EXCEPT ![t] = IF Busy(handle.recorder) THEN "cancel" ELSE "replace"]
  /\ UNCHANGED <<env, owner, handle, made, writers, got, wanted, history>>

Cancel(t) ==
  /\ pc[t] = "cancel"
  /\ queue' = [queue EXCEPT ![handle.recorder] = <<>>]
  /\ Return(t, NoRecorder)
  /\ UNCHANGED <<env, handle, made, label, writing, shut, failed, wanted, history>>

Replace(t) ==
  /\ pc[t] = "replace"
  /\ Make(t)
  /\ UNCHANGED <<env, wanted, history>>

Get(t) == GetBegin(t) \/ Shut(t) \/ Look(t) \/ Cancel(t) \/ Replace(t)
-----------------------------------------------------------------------------
(* The tool emits records on the recorder it got, then ends.  A recorder   *)
(* that is shut or failed drops them.                                      *)
Emit(t) ==
  /\ pc[t] = "tool" /\ emitted < MaxRecords
  /\ emitted' = emitted + 1
  /\ intended' = Append(intended, wanted[t])
  /\ IF shut[got[t]] \/ failed[got[t]]
       THEN UNCHANGED queue
       ELSE queue' = [queue EXCEPT ![got[t]] = Append(@, emitted + 1)]
  /\ UNCHANGED <<env, owner, handle, made, label, writing, shut, failed, threads, rows>>

EndTool(t) ==
  /\ pc[t] = "tool"
  /\ pc' = [pc EXCEPT ![t] = "idle"]
  /\ UNCHANGED <<env, owner, handle, made, writers, got, wanted, history>>

(* The recorder's writer thread takes a record, and its callback returns   *)
(* or raises.                                                              *)
Take(r) ==
  /\ queue[r] # <<>> /\ writing[r] = 0
  /\ writing' = [writing EXCEPT ![r] = Head(queue[r])]
  /\ queue' = [queue EXCEPT ![r] = Tail(@)]
  /\ UNCHANGED <<env, owner, handle, made, label, shut, failed, threads, history>>

Written(r) ==
  /\ writing[r] # 0
  /\ writing' = [writing EXCEPT ![r] = 0]
  /\ rows' = rows \cup {[id |-> writing[r], run |-> label[r]]}
  /\ UNCHANGED <<env, owner, handle, made, label, queue, shut, failed, threads,
                 emitted, intended>>

WriteFails(r) ==
  /\ writing[r] # 0
  /\ writing' = [writing EXCEPT ![r] = 0]
  /\ queue' = [queue EXCEPT ![r] = <<>>]
  /\ failed' = [failed EXCEPT ![r] = TRUE]
  /\ UNCHANGED <<env, owner, handle, made, label, shut, threads, history>>

(* close() of the handle: its flag under the handle's lock, then close()   *)
(* of the recorder outside it, cut short by its timeout or not.            *)
CloseHandle ==
  /\ ~handle.closed /\ owner = NoRecorder
  /\ handle' = [handle EXCEPT !.closed = TRUE]
  /\ UNCHANGED <<env, owner, made, writers, threads, history>>

ShutLast ==
  /\ handle.closed /\ handle.recorder # NoRecorder
  /\ ~shut[handle.recorder]
  /\ shut' = [shut EXCEPT ![handle.recorder] = TRUE]
  /\ UNCHANGED <<env, owner, handle, made, label, queue, writing, failed, threads,
                 history>>

CancelLast ==
  /\ handle.closed /\ handle.recorder # NoRecorder
  /\ shut[handle.recorder] /\ queue[handle.recorder] # <<>>
  /\ queue' = [queue EXCEPT ![handle.recorder] = <<>>]
  /\ UNCHANGED <<env, owner, handle, made, label, writing, shut, failed, threads,
                 history>>

(* fork() between tool calls.  From here on the behaviour is the child's:  *)
(* _reset() gives it a fresh handle and a fresh lock, whoever held the old *)
(* one, and BoundedWriter's own hook empties the writers.                  *)

Fork(t) ==
  /\ pc[t] = "idle"
  /\ owner' = NoRecorder
  /\ handle' = [recorder |-> NoRecorder, run |-> run, closed |-> FALSE]
  /\ queue' = [r \in Recorders |-> <<>>]
  /\ writing' = [r \in Recorders |-> 0]
  /\ pc' = [u \in Threads |-> "idle"]
  /\ rows' = {}
  /\ UNCHANGED <<env, made, label, shut, failed, got, wanted, emitted, intended>>

Writer(r) == Take(r) \/ Written(r)

Next ==
  \/ \E other \in Runs : Switch(other)
  \/ \E t \in Threads : Get(t) \/ Emit(t) \/ EndTool(t) \/ Fork(t)
  \/ \E r \in Recorders : Writer(r) \/ WriteFails(r)
  \/ CloseHandle \/ ShutLast \/ CancelLast

Spec == Init /\ [][Next]_vars
-----------------------------------------------------------------------------
Getting == {"shut", "look", "cancel", "replace"}

(* The values the handle and its threads can have.                         *)
TypeOK ==
  /\ run \in Runs /\ switches \in 0..MaxSwitches
  /\ owner \in Threads \cup {NoRecorder}
  /\ handle \in [recorder : Recorders \cup {NoRecorder}, run : Runs, closed : BOOLEAN]
  /\ made \in 0..MaxRecorders
  /\ label \in [Recorders -> Runs]
  /\ \A r \in Recorders : Range(queue[r]) \subseteq 1..emitted
  /\ writing \in [Recorders -> 0..MaxRecords]
  /\ shut \in [Recorders -> BOOLEAN] /\ failed \in [Recorders -> BOOLEAN]
  /\ pc \in [Threads -> {"idle", "tool"} \cup Getting]
  /\ got \in [Threads -> Recorders \cup {NoRecorder}]
  /\ \A t \in Threads : pc[t] = "tool" => got[t] # NoRecorder
  /\ wanted \in [Threads -> Runs]
  /\ emitted \in 0..MaxRecords
  /\ rows \subseteq [id : 1..emitted, run : Runs]

(* No recorder but the handle's own has anything queued or in the          *)
(* filesystem: however often the environment changes while storage is      *)
(* stuck, one writer thread and one queue are all the worker has.          *)
OneBusyWriter == \A r \in Recorders : Busy(r) => r = handle.recorder

(* A reused worker never labels a record of one job with another job's     *)
(* Run, whatever the other threads' get() calls do to the recorder while a *)
(* tool still holds it.                                                    *)
RightRun == \A row \in rows : row.run = intended[row.id]

(* The handle's lock is held by a thread that is inside get(), in a forked *)
(* child too, where the thread that held it may not exist.                 *)
LockIsHeldInGet == owner # NoRecorder => pc[owner] \in Getting

(* Whatever storage, the environment and forks do, a later get() finds the *)
(* lock free or a holder that will free it, at most one busy writer, and   *)
(* no tool with a recorder that is none.                                   *)
HandleStaysUsable == TypeOK /\ OneBusyWriter /\ LockIsHeldInGet

(* As long as close() has not ended the worker's instrumentation, get()    *)
(* returns a recorder that still takes records.                            *)
GetReturnsOpenRecorder ==
  [][\A t \in Threads : (pc[t] # "tool" /\ pc'[t] = "tool") => ~shut'[got'[t]]]_vars
=============================================================================
