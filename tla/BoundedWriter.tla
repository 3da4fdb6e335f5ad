--------------------------- MODULE BoundedWriter ----------------------------
(***************************************************************************)
(* The SDK's optional background writer (xlayer_telemetry/io_writer.py).   *)
(* Application threads submit serialized records to a bounded queue; one   *)
(* daemon thread, started on demand and retired after an idle second, hands *)
(* them to a callback that appends to a file; flush() and close() wait for *)
(* a bounded time.  Each section of the code under `self._condition' is    *)
(* one action; the callback runs outside it and so is several.             *)
(*                                                                         *)
(* A record is the number of the submit() call that offered it and its     *)
(* size.  After Fork the behaviour is the child's: the fork hook replaces  *)
(* the writer's state, and the other threads do not exist in the child.    *)
(***************************************************************************)
EXTENDS Naturals, Sequences, FiniteSets, Functions

CONSTANTS
  Callers,     (* threads that call flush() and close()                    *)
  Capacity,    (* queue_capacity                                           *)
  MaxBytes,    (* max_queue_bytes                                          *)
  Sizes,       (* sizes of the records submitted                           *)
  MaxOffers,   (* bound of the model: number of submit() calls             *)
  MaxTimeouts  (* bound of the model: flush timeouts of one process        *)

ASSUME WriterAssumption ==
  /\ Capacity \in Nat \ {0}
  /\ MaxBytes \in Nat \ {0}
  /\ Sizes \subseteq Nat
  /\ MaxOffers \in Nat
  /\ MaxTimeouts \in Nat

VARIABLES
  latestOnly,     (* latest_only: TRUE for metric snapshots, FALSE for events *)
  queue,          (* _queue: sequence of [id, size]                        *)
  queuedBytes,    (* _queued_bytes                                         *)
  worker,         (* where the writer thread is; "none" is _thread = None  *)
  current,        (* record the writer thread took from the queue          *)
  closed, failed, (* _closed, _failed                                      *)
  disabled,       (* what on_error sets in the recorder                    *)
  accepted, written, dropped, writeErrors, flushTimeouts, forkDiscarded,
                  (* _counts                                               *)
  call,           (* call[c]: where caller c is in flush() or close()      *)
  answer,         (* answer[c]: what the last call of c returned           *)
  since,          (* since[c]: records offered when that call began        *)
  offered,        (* history: number of submit() calls so far              *)
  forkPoint,      (* history: number offered before this process existed   *)
  log,            (* history: records this process put into the file       *)
  lost,           (* history: records accepted, then discarded or failed   *)
  refused         (* history: records turned away at the door              *)

buffer   == <<queue, queuedBytes>>
thread   == <<worker, current>>
flags    == <<closed, failed, disabled>>
entering == <<accepted, offered, refused>>
calls    == <<call, answer, since, flushTimeouts>>
origin   == <<forkPoint, forkDiscarded>>
moving == <<buffer, thread, flags, entering, written, dropped, writeErrors,
            calls, origin, log, lost>>
vars == <<latestOnly, moving>>

Ids(q) == {q[i].id : i \in DOMAIN q}

(* Mutants: the record counts as in flight only once the callback is back; *)
(* or no longer once it is counted.                                        *)
InflightFromReturn  == worker \in {"wrote", "raised", "report", "settle"}
InflightUntilCounted == worker \in {"write", "wrote", "raised"}

(* _inflight: set when a record is taken, cleared in the finally section.  *)
Inflight == worker \in {"write", "wrote", "raised", "report", "settle"}

Quiet == queue = <<>> /\ ~Inflight

Init ==
  /\ latestOnly \in BOOLEAN
  /\ queue = <<>> /\ queuedBytes = 0
  /\ worker = "none" /\ current = 0
  /\ closed = FALSE /\ failed = FALSE /\ disabled = FALSE
  /\ accepted = 0 /\ written = 0 /\ dropped = 0
  /\ writeErrors = 0 /\ flushTimeouts = 0 /\ forkDiscarded = 0
  /\ call = [c \in Callers |-> "idle"]
  /\ answer = [c \in Callers |-> "none"]
  /\ since = [c \in Callers |-> 0]
  /\ offered = 0 /\ forkPoint = 0 /\ log = <<>> /\ lost = {} /\ refused = {}
-----------------------------------------------------------------------------
(* submit().                                                               *)

(* Mutants: events are coalesced too; coalescing forgets the byte count,   *)
(* or the drop count, or subtracts the wrong way round.                    *)
KeptNothing      == <<>>
CoalescedUncounted == 0
(* latest_only replaces what is queued, never the write in flight.         *)
Kept      == IF latestOnly THEN <<>> ELSE queue
KeptBytes == IF latestOnly THEN 0 ELSE queuedBytes
Coalesced == Len(queue) - Len(Kept)

ClearQueue == queue' = <<>> /\ queuedBytes' = 0

(* What a failure drops: all that is queued, and the record being handled. *)
QueuedAndOneMore == Len(queue) + 1

(* Mutant: submit() overlooks close().                                     *)
BarredAfterFailure(size) == failed \/ size > MaxBytes

Barred(size) == closed \/ failed \/ size > MaxBytes

Full(size) == Len(Kept) >= Capacity \/ KeptBytes + size > MaxBytes

Offer == offered < MaxOffers /\ offered' = offered + 1

RefuseBarred(size) ==
  /\ Offer
  /\ Barred(size)
  /\ dropped' = dropped + 1
  /\ refused' = refused \cup {offered + 1}
  /\ UNCHANGED <<buffer, thread, flags, accepted, written, writeErrors, calls,
                 origin, log, lost>>

RefuseFull(size) ==
  /\ Offer
  /\ ~Barred(size) /\ Full(size)
  /\ queue' = Kept /\ queuedBytes' = KeptBytes
  /\ dropped' = dropped + Coalesced + 1
  /\ refused' = refused \cup {offered + 1}
  /\ lost' = lost \cup (Ids(queue) \ Ids(Kept))
  /\ UNCHANGED <<thread, flags, accepted, written, writeErrors, calls, origin, log>>

StartedOnce == IF worker = "none" /\ accepted = 0 THEN "top" ELSE worker  \* mutant

(* A missing writer thread is started, at first and after an idle interval. *)
Started == IF worker = "none" THEN "top" ELSE worker

Accept(size) ==
  /\ Offer
  /\ ~Barred(size) /\ ~Full(size)
  /\ queue' = Append(Kept, [id |-> offered + 1, size |-> size])
  /\ queuedBytes' = KeptBytes + size
  /\ accepted' = accepted + 1
  /\ dropped' = dropped + Coalesced
  /\ lost' = lost \cup (Ids(queue) \ Ids(Kept))
  /\ worker' = Started
  /\ UNCHANGED <<current, flags, refused, written, writeErrors, calls, origin, log>>

(* Starting the thread raises: everything queued is dropped and on_error   *)
(* runs while the lock is still held.                                      *)
AcceptCannotStart(size) ==
  /\ Offer
  /\ ~Barred(size) /\ ~Full(size)
  /\ worker = "none"
  /\ failed' = TRUE /\ disabled' = TRUE
  /\ writeErrors' = writeErrors + 1
  /\ accepted' = accepted + 1
  /\ dropped' = dropped + QueuedAndOneMore
  /\ lost' = lost \cup Ids(queue) \cup {offered + 1}
  /\ ClearQueue
  /\ UNCHANGED <<thread, closed, refused, written, calls, origin, log>>

Submit(size) ==
  \/ RefuseBarred(size) \/ RefuseFull(size)
  \/ Accept(size) \/ AcceptCannotStart(size)
-----------------------------------------------------------------------------
(* _run(): the writer thread.                                              *)

(* Mutant: the newest record is taken first.                               *)
TakeNewest ==
  /\ queue # <<>>
  /\ worker' = "write"
  /\ current' = queue[Len(queue)].id
  /\ queue' = SubSeq(queue, 1, Len(queue) - 1)
  /\ queuedBytes' = queuedBytes - queue[Len(queue)].size

TakeHead ==
  /\ queue # <<>>
  /\ worker' = "write"
  /\ current' = Head(queue).id
  /\ queue' = Tail(queue)
  /\ queuedBytes' = queuedBytes - Head(queue).size

Retire ==
  /\ queue = <<>>
  /\ worker' = "none"
  /\ UNCHANGED <<queue, queuedBytes, current>>

(* At the loop's top: wait only when there is nothing to do and the writer *)
(* is open.                                                                *)
Top ==
  /\ worker = "top"
  /\ \/ TakeHead
     \/ closed /\ Retire
     \/ /\ ~closed /\ queue = <<>>
        /\ worker' = "wait"
        /\ UNCHANGED <<queue, queuedBytes, current>>
  /\ UNCHANGED <<flags, entering, written, dropped, writeErrors, calls, origin,
                 log, lost>>

(* A notification, or the end of the idle second.                          *)
Wake ==
  /\ worker = "wait"
  /\ TakeHead \/ Retire
  /\ UNCHANGED <<flags, entering, written, dropped, writeErrors, calls, origin,
                 log, lost>>

WriteReturns ==
  /\ worker = "write"
  /\ worker' = "wrote"
  /\ log' = Append(log, current)
  /\ UNCHANGED <<buffer, current, flags, entering, written, dropped, writeErrors,
                 calls, origin, lost>>

(* The callback raises; the record may have reached the file all the same. *)
WriteRaises ==
  /\ worker = "write"
  /\ worker' = "raised"
  /\ log' \in {log, Append(log, current)}
  /\ UNCHANGED <<buffer, current, flags, entering, written, dropped, writeErrors,
                 calls, origin, lost>>

CountWritten ==
  /\ worker = "wrote"
  /\ worker' = "settle"
  /\ written' = written + 1
  /\ UNCHANGED <<buffer, current, flags, entering, dropped, writeErrors, calls,
                 origin, log, lost>>

RecordFailure ==
  /\ worker = "raised"
  /\ worker' = "report"
  /\ failed' = TRUE
  /\ writeErrors' = writeErrors + 1
  /\ dropped' = dropped + QueuedAndOneMore
  /\ lost' = lost \cup Ids(queue) \cup {current}
  /\ ClearQueue
  /\ UNCHANGED <<current, closed, disabled, entering, written, calls, origin, log>>

(* on_error, outside the lock: the recorder disables itself.               *)
ReportError ==
  /\ worker = "report"
  /\ worker' = "settle"
  /\ disabled' = TRUE
  /\ UNCHANGED <<buffer, current, closed, failed, entering, written, dropped,
                 writeErrors, calls, origin, log, lost>>

(* finally: the record is no longer in flight.                             *)
Settle ==
  /\ worker = "settle"
  /\ worker' = IF failed THEN "leave" ELSE "top"
  /\ UNCHANGED <<buffer, current, flags, entering, written, dropped, writeErrors,
                 calls, origin, log, lost>>

LeaveFailed ==
  /\ worker = "leave"
  /\ worker' = "none"
  /\ UNCHANGED <<buffer, current, flags, entering, written, dropped, writeErrors,
                 calls, origin, log, lost>>

WriterThread ==
  Top \/ Wake \/ CountWritten \/ RecordFailure \/ ReportError \/ Settle \/ LeaveFailed

Callback == WriteReturns \/ WriteRaises
-----------------------------------------------------------------------------
(* flush() and close().  close() is flush() between two sections: one that *)
(* closes the door, one that cancels what is still queued.                 *)

Waiting(c) == call[c] \in {"flush", "close"}

Begin(c, kind) ==
  /\ call[c] = "idle"
  /\ flushTimeouts + Cardinality({d \in Callers : Waiting(d)}) < MaxTimeouts
  /\ call' = [call EXCEPT ![c] = kind]
  /\ answer' = [answer EXCEPT ![c] = "none"]
  /\ since' = [since EXCEPT ![c] = offered]
  /\ UNCHANGED <<buffer, thread, failed, disabled, entering, written, dropped,
                 writeErrors, flushTimeouts, origin, log, lost>>

BeginFlush(c) == Begin(c, "flush") /\ UNCHANGED closed

BeginClose(c) == Begin(c, "close") /\ closed' = TRUE

AfterWait(c) == IF call[c] = "flush" THEN "idle" ELSE "sweep"

FlushDrained(c) ==
  /\ Waiting(c)
  /\ Quiet
  /\ call' = [call EXCEPT ![c] = AfterWait(c)]
  /\ answer' = [answer EXCEPT ![c] = "drained"]
  /\ UNCHANGED <<buffer, thread, flags, entering, written, dropped, writeErrors,
                 since, flushTimeouts, origin, log, lost>>

(* Mutant: the deadline does not apply to the write in flight.             *)
FlushAwaitsWrite(c) ==
  /\ Waiting(c)
  /\ queue # <<>> /\ ~Inflight
  /\ flushTimeouts' = flushTimeouts + 1
  /\ call' = [call EXCEPT ![c] = AfterWait(c)]
  /\ answer' = [answer EXCEPT ![c] = "timedout"]
  /\ UNCHANGED <<buffer, thread, flags, entering, written, dropped, writeErrors,
                 since, origin, log, lost>>

(* The deadline has passed and something is still queued or in flight.     *)
FlushTimesOut(c) ==
  /\ Waiting(c)
  /\ ~Quiet
  /\ flushTimeouts' = flushTimeouts + 1
  /\ call' = [call EXCEPT ![c] = AfterWait(c)]
  /\ answer' = [answer EXCEPT ![c] = "timedout"]
  /\ UNCHANGED <<buffer, thread, flags, entering, written, dropped, writeErrors,
                 since, origin, log, lost>>

Sweep(c) ==
  /\ call[c] = "sweep"
  /\ call' = [call EXCEPT ![c] = "idle"]
  /\ dropped' = dropped + Len(queue)
  /\ lost' = lost \cup Ids(queue)
  /\ ClearQueue
  /\ UNCHANGED <<thread, flags, entering, written, writeErrors, answer, since,
                 flushTimeouts, origin, log>>

Caller(c) ==
  BeginFlush(c) \/ BeginClose(c) \/ FlushDrained(c) \/ FlushTimesOut(c) \/ Sweep(c)
-----------------------------------------------------------------------------
(* os.fork() in a thread that is not inside the writer, followed in the    *)
(* child: _after_fork() runs _check_pid() before anything else does.       *)
Fork ==
  /\ forkDiscarded' = Len(queue) + (IF Inflight THEN 1 ELSE 0)
  /\ ClearQueue
  /\ worker' = "none" /\ current' = 0
  /\ accepted' = 0 /\ written' = 0 /\ dropped' = 0
  /\ writeErrors' = 0 /\ flushTimeouts' = 0
  /\ call' = [c \in Callers |-> "idle"]
  /\ answer' = [c \in Callers |-> "none"]
  /\ since' = [c \in Callers |-> offered]
  /\ forkPoint' = offered
  /\ log' = <<>> /\ lost' = {} /\ refused' = {}
  /\ UNCHANGED <<flags, offered>>

Next ==
  /\ \/ \E size \in Sizes : Submit(size)
     \/ WriterThread
     \/ Callback
     \/ \E c \in Callers : Caller(c)
     \/ Fork
  /\ UNCHANGED latestOnly

Spec == Init /\ [][Next]_vars
-----------------------------------------------------------------------------
WorkerStates ==
  {"none", "top", "wait", "write", "wrote", "raised", "report", "settle", "leave"}

Record == [id : Nat \ {0}, size : Sizes]

(* The values the writer's attributes can take.                            *)
TypeOK ==
  /\ queue \in Seq(Record)
  /\ queuedBytes \in Int
  /\ worker \in WorkerStates
  /\ current \in Nat
  /\ closed \in BOOLEAN /\ failed \in BOOLEAN /\ disabled \in BOOLEAN
  /\ accepted \in Nat /\ written \in Nat /\ dropped \in Nat
  /\ writeErrors \in Nat /\ flushTimeouts \in Nat /\ forkDiscarded \in Nat
  /\ call \in [Callers -> {"idle", "flush", "close", "sweep"}]
  /\ answer \in [Callers -> {"none", "drained", "timedout"}]
  /\ since \in [Callers -> Nat]
  /\ offered \in Nat /\ forkPoint \in Nat
  /\ log \in Seq(Nat)
  /\ lost \subseteq Nat /\ refused \subseteq Nat

(* status(): written + dropped + queued + inflight.                        *)
Reported ==
  written + dropped + Len(queue) + (IF Inflight THEN 1 ELSE 0)

(* What status() reports adds up to every submit() call of this process,   *)
(* except between the section that counts a record and the finally section *)
(* that clears _inflight, when that one record is reported twice.          *)
StatusAddsUp ==
  Reported = (offered - forkPoint) + (IF worker \in {"report", "settle"} THEN 1 ELSE 0)

(* The totals of the sizes of the first records of q, up to its last.      *)
RunningTotals(q) ==
  {total \in [0..Len(q) -> 0..MaxBytes] :
     total[0] = 0 /\ \A i \in DOMAIN q : total[i] = total[i - 1] + q[i].size}

(* The queue keeps its documented limits, and _queued_bytes is the sum of  *)
(* the sizes it stands for after every coalescing, failure and sweep.      *)
WithinLimits ==
  /\ Len(queue) <= (IF latestOnly THEN 1 ELSE Capacity)
  /\ \E total \in RunningTotals(queue) : queuedBytes = total[Len(queue)]

(* A record offered later is never in the file before one offered earlier, *)
(* none is in the file twice, and a forked child writes none of the        *)
(* records its parent had queued or in flight.                             *)
InOrderNoReplay ==
  /\ \A i \in DOMAIN log : log[i] > forkPoint
  /\ \A i, j \in DOMAIN log : i < j => log[i] < log[j]
  /\ \A i \in DOMAIN log : \A id \in Ids(queue) : log[i] < id

(* flush() or close() returned True: every record offered before the call  *)
(* is in the file, was discarded and counted, or was turned away; none is  *)
(* still on its way.                                                       *)
DrainedMeansSettled ==
  \A c \in Callers : answer[c] = "drained" =>
    \A id \in (forkPoint + 1)..since[c] : id \in Range(log) \cup lost \cup refused

(* Once a writer that met an error has nothing queued or in flight - the   *)
(* moment a flush() after the failure returns - the recorder has been      *)
(* disabled.  (A child forked between the failure and on_error inherits    *)
(* _failed alone; its own writeErrors is 0.)                               *)
QuietFailureIsReported == writeErrors > 0 /\ Quiet => disabled

(* An open, healthy writer loses no accepted event, and of accepted metric *)
(* snapshots never the newest.                                             *)
NewestIsKept ==
  ~closed /\ ~failed =>
    /\ ~latestOnly => lost = {}
    /\ \A id \in lost : \E newer \in (Range(log) \cup Ids(queue) \cup {current}) : newer > id

(* The limits hold, and what they cost is never the newest snapshot nor    *)
(* any event of a healthy writer.                                          *)
LimitsKeepTheNewest == WithinLimits /\ NewestIsKept

(* The writer is a lossy channel: the record in the callback's hands is    *)
(* still pending, and a failed writer is shut like a closed one.           *)
Channel == INSTANCE LossyChannel WITH
  last      <- offered,
  pending   <- Ids(queue) \cup (IF worker = "write" THEN {current} ELSE {}),
  delivered <- log,
  shut      <- closed \/ failed

ImplementsChannel == Channel!Spec
-----------------------------------------------------------------------------
(* Deadlines pass and close() goes on whatever the callback does.          *)
CallerFairness ==
  \A c \in Callers : WF_moving(FlushDrained(c) \/ FlushTimesOut(c) \/ Sweep(c))

(* The thread runs whenever it can: its only wait has a timeout.           *)
ThreadFairness == WF_moving(WriterThread)

(* Nothing says that storage answers: a callback may never return.         *)
LiveSpec == Spec /\ CallerFairness /\ ThreadFairness

StorageAnswers == WF_moving(Callback)

(* flush() and close() return even when the callback never does, unless    *)
(* the call's thread is left behind by a fork.                             *)
CallsReturn == \A c \in Callers : (call[c] # "idle") ~> (call[c] = "idle")

(* With storage that answers, no record stays queued or in flight forever: *)
(* the idle thread that retires is always restarted or had nothing left.   *)
NothingStranded == StorageAnswers => [](~Quiet => <>Quiet)
=============================================================================
