------------------------ MODULE BoundedWriterProofs -------------------------
(***************************************************************************)
(* What holds of the background writer for every capacity, byte limit, set *)
(* of record sizes and number of threads that flush and close it.          *)
(***************************************************************************)
EXTENDS BoundedWriter, TLAPS

LEMMA KeptType ==
  ASSUME TypeOK
  PROVE  /\ Kept \in Seq(Record)
         /\ KeptBytes \in Int
         /\ Len(Kept) \in Nat
         /\ Coalesced \in Nat
         /\ Ids(queue) \subseteq Nat
         /\ Len(queue) \in Nat
<1>1. queue \in Seq(Record) /\ Len(queue) \in Nat
  BY DEF TypeOK
<1>2. Kept \in Seq(Record) /\ Len(Kept) \in Nat
  <2>1. CASE latestOnly
    BY <2>1 DEF Kept
  <2>2. CASE ~latestOnly
    BY <1>1, <2>2 DEF Kept
  <2>. QED
    BY <2>1, <2>2, WriterAssumption
<1>3. Coalesced \in Nat
  BY <1>1, WriterAssumption DEF Kept, Coalesced
<1>4. KeptBytes \in Int
  BY DEF KeptBytes, TypeOK
<1>5. \A i \in DOMAIN queue : queue[i].id \in Nat
  <2> SUFFICES ASSUME NEW i \in DOMAIN queue PROVE queue[i].id \in Nat
    OBVIOUS
  <2>1. queue[i] \in Record
    BY <1>1
  <2>. QED
    BY <2>1 DEF Record
<1>6. Ids(queue) \subseteq Nat
  BY <1>5 DEF Ids
<1>. QED
  BY <1>1, <1>2, <1>3, <1>4, <1>6

(* Every attribute of the writer keeps its type.                           *)
THEOREM Typing == Spec => []TypeOK
<1>1. Init => TypeOK
  <2> SUFFICES ASSUME Init PROVE TypeOK
    OBVIOUS
  <2>1. /\ queue \in Seq(Record) /\ log \in Seq(Nat)
        /\ lost \subseteq Nat /\ refused \subseteq Nat
    BY DEF Init
  <2>2. /\ call \in [Callers -> {"idle", "flush", "close", "sweep"}]
        /\ answer \in [Callers -> {"none", "drained", "timedout"}]
        /\ since \in [Callers -> Nat]
    BY DEF Init
  <2>3. closed \in BOOLEAN /\ failed \in BOOLEAN /\ disabled \in BOOLEAN
    BY DEF Init
  <2>4. worker \in WorkerStates /\ current \in Nat /\ queuedBytes \in Int
    BY DEF Init, WorkerStates
  <2>5. /\ accepted \in Nat /\ written \in Nat /\ dropped \in Nat
        /\ writeErrors \in Nat /\ flushTimeouts \in Nat /\ forkDiscarded \in Nat
        /\ offered \in Nat /\ forkPoint \in Nat
    BY DEF Init
  <2>. QED
    BY <2>1, <2>2, <2>3, <2>4, <2>5 DEF TypeOK
<1>2. TypeOK /\ [Next]_vars => TypeOK'
  <2> SUFFICES ASSUME TypeOK, [Next]_vars PROVE TypeOK'
    OBVIOUS
  <2>0. /\ Kept \in Seq(Record) /\ KeptBytes \in Int /\ Len(Kept) \in Nat
        /\ Coalesced \in Nat /\ Ids(queue) \subseteq Nat /\ Len(queue) \in Nat
    BY KeptType
  <2>22. <<>> \in Seq(Record)
    OBVIOUS
  <2> USE <2>0 DEF TypeOK
  <2>1. ASSUME NEW size \in Sizes, RefuseBarred(size) PROVE TypeOK'
    BY <2>1 DEF RefuseBarred, Offer, buffer, thread, flags, calls, origin
  <2>2. ASSUME NEW size \in Sizes, RefuseFull(size) PROVE TypeOK'
    <3>1. lost' \subseteq Nat
      BY <2>2 DEF RefuseFull
    <3>2. refused' \subseteq Nat
      BY <2>2 DEF RefuseFull
    <3>. QED
      BY <2>2, <3>1, <3>2 DEF RefuseFull, Offer, thread, flags, calls, origin
  <2>3. ASSUME NEW size \in Sizes, Accept(size) PROVE TypeOK'
    <3>1. [id |-> offered + 1, size |-> size] \in Record
      BY DEF Record
    <3>2. queue' \in Seq(Record)
      BY <2>3, <3>1 DEF Accept
    <3>3. queuedBytes' \in Int
      BY <2>3 DEF Accept
    <3>4. worker' \in WorkerStates
      BY <2>3 DEF Accept, Started, WorkerStates
    <3>5. lost' \subseteq Nat /\ refused' \subseteq Nat
      BY <2>3 DEF Accept
    <3>. QED
      BY <2>3, <3>2, <3>3, <3>4, <3>5 DEF Accept, Offer, flags, calls, origin
  <2>4. ASSUME NEW size \in Sizes, AcceptCannotStart(size) PROVE TypeOK'
    <3>1. queue' \in Seq(Record) /\ queuedBytes' \in Int
      BY <2>4, <2>22 DEF AcceptCannotStart, ClearQueue
    <3>2. lost' \subseteq Nat /\ refused' \subseteq Nat
      <4>1. lost' = lost \cup Ids(queue) \cup {offered + 1} /\ refused' = refused
        BY <2>4 DEF AcceptCannotStart
      <4>2. offered + 1 \in Nat
        OBVIOUS
      <4>. QED
        BY <4>1, <4>2, Zenon
    <3>. QED
      BY <2>4, <3>1, <3>2 DEF AcceptCannotStart, Offer, ClearQueue, QueuedAndOneMore, thread, calls, origin
  <2>5. ASSUME TakeHead PROVE /\ queue' \in Seq(Record)
                              /\ queuedBytes' \in Int
                              /\ worker' \in WorkerStates
                              /\ current' \in Nat
    <3>1. Head(queue) \in Record /\ Tail(queue) \in Seq(Record)
      BY <2>5 DEF TakeHead
    <3>. QED
      BY <2>5, <3>1 DEF TakeHead, WorkerStates, Record
  <2>6. CASE Top
    BY <2>6, <2>5 DEF Top, Retire, WorkerStates, flags, entering, calls, origin
  <2>7. CASE Wake
    BY <2>7, <2>5 DEF Wake, Retire, WorkerStates, flags, entering, calls, origin
  <2>8. CASE WriteReturns
    BY <2>8 DEF WriteReturns, WorkerStates, buffer, flags, entering, calls, origin
  <2>9. CASE WriteRaises
    <3>1. log' \in Seq(Nat)
      <4>1. Append(log, current) \in Seq(Nat)
        OBVIOUS
      <4>. QED
        BY <2>9, <4>1 DEF WriteRaises
    <3>. QED
      BY <2>9, <3>1 DEF WriteRaises, WorkerStates, buffer, flags, entering, calls, origin
  <2>10. CASE CountWritten
    BY <2>10 DEF CountWritten, WorkerStates, buffer, flags, entering, calls, origin
  <2>11. CASE RecordFailure
    <3>1. queue' \in Seq(Record) /\ queuedBytes' \in Int
      BY <2>11, <2>22 DEF RecordFailure, WorkerStates, ClearQueue, QueuedAndOneMore, entering, calls, origin
    <3>2. lost' \subseteq Nat /\ refused' \subseteq Nat
      BY <2>11 DEF RecordFailure, WorkerStates, ClearQueue, QueuedAndOneMore, entering, calls, origin
    <3>. QED
      BY <2>11, <3>1, <3>2 DEF RecordFailure, WorkerStates, ClearQueue, QueuedAndOneMore, entering, calls, origin
  <2>12. CASE ReportError
    BY <2>12 DEF ReportError, WorkerStates, buffer, entering, calls, origin
  <2>13. CASE Settle
    BY <2>13 DEF Settle, WorkerStates, buffer, flags, entering, calls, origin
  <2>14. CASE LeaveFailed
    BY <2>14 DEF LeaveFailed, WorkerStates, buffer, flags, entering, calls, origin
  <2>15. ASSUME NEW c \in Callers, BeginFlush(c) PROVE TypeOK'
    BY <2>15 DEF BeginFlush, Begin, buffer, thread, entering, origin
  <2>16. ASSUME NEW c \in Callers, BeginClose(c) PROVE TypeOK'
    BY <2>16 DEF BeginClose, Begin, buffer, thread, entering, origin
  <2>17. ASSUME NEW c \in Callers, FlushDrained(c) PROVE TypeOK'
    BY <2>17 DEF FlushDrained, AfterWait, buffer, thread, flags, entering, origin
  <2>18. ASSUME NEW c \in Callers, FlushTimesOut(c) PROVE TypeOK'
    BY <2>18 DEF FlushTimesOut, AfterWait, buffer, thread, flags, entering, origin
  <2>19. ASSUME NEW c \in Callers, Sweep(c) PROVE TypeOK'
    <3>1. queue' \in Seq(Record) /\ queuedBytes' \in Int
      BY <2>19, <2>22 DEF Sweep, ClearQueue, thread, flags, entering, origin
    <3>2. lost' \subseteq Nat /\ refused' \subseteq Nat
      BY <2>19 DEF Sweep, ClearQueue, thread, flags, entering, origin
    <3>. QED
      BY <2>19, <3>1, <3>2 DEF Sweep, ClearQueue, thread, flags, entering, origin
  <2>20. CASE Fork
    BY <2>20 DEF Fork, WorkerStates, ClearQueue, flags
  <2>21. CASE UNCHANGED vars
    BY <2>21 DEF vars, moving, buffer, thread, flags, entering, calls, origin
  <2>. QED
    BY <2>1, <2>2, <2>3, <2>4, <2>6, <2>7, <2>8, <2>9, <2>10, <2>11, <2>12, <2>13,
       <2>14, <2>15, <2>16, <2>17, <2>18, <2>19, <2>20, <2>21
       DEF Next, Submit, WriterThread, Callback, Caller
<1>. QED
  BY <1>1, <1>2, PTL DEF Spec
-----------------------------------------------------------------------------
LEMMA QueueLengths ==
  ASSUME TypeOK
  PROVE  /\ Len(queue) \in Nat /\ Len(Kept) \in Nat
         /\ Coalesced = Len(queue) - Len(Kept)
         /\ \A rec : Len(Append(Kept, rec)) = Len(Kept) + 1
         /\ queue # <<>> => Len(Tail(queue)) = Len(queue) - 1
         /\ queue = <<>> => Len(queue) = 0
         /\ Len(<<>>) = 0
<1>1. queue \in Seq(Record) /\ Kept \in Seq(Record)
  BY KeptType DEF TypeOK
<1>. QED
  BY <1>1 DEF Coalesced

(* status() accounts for every submit() call, whatever the interleaving of *)
(* submitters, writer thread, closers, failures and forks.                 *)
THEOREM StatusAccounting == Spec => []StatusAddsUp
<1> USE DEF StatusAddsUp, Reported
<1>1. Init => StatusAddsUp
  BY DEF Init, Inflight
<1>2. TypeOK /\ StatusAddsUp /\ [Next]_vars => StatusAddsUp'
  <2> SUFFICES ASSUME TypeOK, StatusAddsUp, [Next]_vars PROVE StatusAddsUp'
    OBVIOUS
  <2>0. /\ Len(queue) \in Nat /\ Len(Kept) \in Nat
        /\ Coalesced = Len(queue) - Len(Kept)
        /\ \A rec : Len(Append(Kept, rec)) = Len(Kept) + 1
        /\ queue # <<>> => Len(Tail(queue)) = Len(queue) - 1
        /\ queue = <<>> => Len(queue) = 0
        /\ Len(<<>>) = 0
    BY QueueLengths
  <2>t. /\ written \in Nat /\ dropped \in Nat /\ offered \in Nat /\ forkPoint \in Nat
    BY DEF TypeOK
  <2> USE <2>0, <2>t DEF Inflight
  <2>1. ASSUME NEW size \in Sizes, RefuseBarred(size) PROVE StatusAddsUp'
    BY <2>1 DEF RefuseBarred, Offer, buffer, thread, origin
  <2>2. ASSUME NEW size \in Sizes, RefuseFull(size) PROVE StatusAddsUp'
    BY <2>2 DEF RefuseFull, Offer, thread, origin
  <2>3. ASSUME NEW size \in Sizes, Accept(size) PROVE StatusAddsUp'
    BY <2>3 DEF Accept, Offer, Started, origin
  <2>4. ASSUME NEW size \in Sizes, AcceptCannotStart(size) PROVE StatusAddsUp'
    BY <2>4 DEF AcceptCannotStart, Offer, ClearQueue, QueuedAndOneMore, thread, origin
  <2>5. CASE Top
    BY <2>5 DEF Top, TakeHead, Retire, entering, origin
  <2>6. CASE Wake
    BY <2>6 DEF Wake, TakeHead, Retire, entering, origin
  <2>7. CASE WriteReturns
    BY <2>7 DEF WriteReturns, buffer, entering, origin
  <2>8. CASE WriteRaises
    BY <2>8 DEF WriteRaises, buffer, entering, origin
  <2>9. CASE CountWritten
    BY <2>9 DEF CountWritten, buffer, entering, origin
  <2>10. CASE RecordFailure
    BY <2>10 DEF RecordFailure, ClearQueue, QueuedAndOneMore, entering, origin
  <2>11. CASE ReportError
    BY <2>11 DEF ReportError, buffer, entering, origin
  <2>12. CASE Settle
    BY <2>12 DEF Settle, buffer, entering, origin
  <2>13. CASE LeaveFailed
    BY <2>13 DEF LeaveFailed, buffer, entering, origin
  <2>14. ASSUME NEW c \in Callers, BeginFlush(c) \/ BeginClose(c) PROVE StatusAddsUp'
    BY <2>14 DEF BeginFlush, BeginClose, Begin, buffer, thread, entering, origin
  <2>15. ASSUME NEW c \in Callers, FlushDrained(c) \/ FlushTimesOut(c) PROVE StatusAddsUp'
    BY <2>15 DEF FlushDrained, FlushTimesOut, buffer, thread, entering, origin
  <2>16. ASSUME NEW c \in Callers, Sweep(c) PROVE StatusAddsUp'
    BY <2>16 DEF Sweep, ClearQueue, thread, entering, origin
  <2>17. CASE Fork
    BY <2>17 DEF Fork, ClearQueue
  <2>18. CASE UNCHANGED vars
    BY <2>18 DEF vars, moving, buffer, thread, entering, origin
  <2>. QED
    BY <2>1, <2>2, <2>3, <2>4, <2>5, <2>6, <2>7, <2>8, <2>9, <2>10, <2>11, <2>12,
       <2>13, <2>14, <2>15, <2>16, <2>17, <2>18
       DEF Next, Submit, WriterThread, Callback, Caller
<1>. QED
  BY <1>1, <1>2, Typing, PTL DEF Spec

(* When a writer that met an error has come to rest, on_error has run.     *)
FailureReported == writeErrors > 0 => disabled \/ worker = "report"

THEOREM FailuresAreReported == Spec => []QuietFailureIsReported
<1>1. Init => FailureReported
  BY DEF Init, FailureReported
<1>2. TypeOK /\ FailureReported /\ [Next]_vars => FailureReported'
  <2> SUFFICES ASSUME TypeOK, FailureReported, [Next]_vars PROVE FailureReported'
    OBVIOUS
  <2> USE DEF FailureReported
  <2>1. ASSUME NEW size \in Sizes, Submit(size) PROVE FailureReported'
    <3>1. CASE RefuseBarred(size) \/ RefuseFull(size)
      BY <3>1 DEF RefuseBarred, RefuseFull, thread, flags
    <3>2. CASE Accept(size)
      BY <3>2 DEF Accept, Started, flags
    <3>3. CASE AcceptCannotStart(size)
      BY <3>3 DEF AcceptCannotStart
    <3>. QED
      BY <2>1, <3>1, <3>2, <3>3 DEF Submit
  <2>2. CASE Top \/ Wake
    BY <2>2 DEF Top, Wake, TakeHead, Retire, flags
  <2>3. CASE WriteReturns \/ WriteRaises \/ CountWritten
    BY <2>3 DEF WriteReturns, WriteRaises, CountWritten, flags
  <2>4. CASE RecordFailure
    BY <2>4 DEF RecordFailure
  <2>5. CASE ReportError
    BY <2>5 DEF ReportError
  <2>6. CASE Settle \/ LeaveFailed
    BY <2>6 DEF Settle, LeaveFailed, flags
  <2>7. ASSUME NEW c \in Callers, Caller(c) PROVE FailureReported'
    BY <2>7 DEF Caller, BeginFlush, BeginClose, Begin, FlushDrained, FlushTimesOut,
                Sweep, thread, flags
  <2>8. CASE Fork
    BY <2>8 DEF Fork
  <2>9. CASE UNCHANGED vars
    BY <2>9 DEF vars, moving, thread, flags
  <2>. QED
    BY <2>1, <2>2, <2>3, <2>4, <2>5, <2>6, <2>7, <2>8, <2>9
       DEF Next, WriterThread, Callback
<1>3. FailureReported => QuietFailureIsReported
  BY DEF FailureReported, QuietFailureIsReported, Quiet, Inflight
<1>. QED
  BY <1>1, <1>2, <1>3, Typing, PTL DEF Spec
-----------------------------------------------------------------------------
(* Records pass through the queue, the thread's hands and the file in the  *)
(* order they were offered, and none offered before a fork is among them.  *)
QueueOrdered ==
  /\ \A i \in DOMAIN queue : forkPoint < queue[i].id /\ queue[i].id <= offered
  /\ \A i, j \in DOMAIN queue : i < j => queue[i].id < queue[j].id

InHandOrdered ==
  worker = "write" =>
    /\ forkPoint < current /\ current <= offered
    /\ \A i \in DOMAIN queue : current < queue[i].id
    /\ \A i \in DOMAIN log : log[i] < current

LogOrdered ==
  /\ \A i \in DOMAIN log : forkPoint < log[i] /\ log[i] <= offered
  /\ \A i, j \in DOMAIN log : i < j => log[i] < log[j]
  /\ \A i \in DOMAIN log : \A j \in DOMAIN queue : log[i] < queue[j].id

OrderInv == forkPoint <= offered /\ QueueOrdered /\ InHandOrdered /\ LogOrdered

LEMMA AppendCases ==
  ASSUME NEW S, NEW s \in Seq(S), NEW e \in S
  PROVE  /\ \A i \in DOMAIN Append(s, e) :
              \/ i \in DOMAIN s /\ Append(s, e)[i] = s[i]
              \/ i = Len(s) + 1 /\ Append(s, e)[i] = e
         /\ \A i, j \in DOMAIN Append(s, e) :
              i < j => i \in DOMAIN s /\ Append(s, e)[i] = s[i]
<1>1. /\ Len(s) \in Nat /\ DOMAIN s = 1..Len(s)
      /\ DOMAIN Append(s, e) = 1..(Len(s) + 1)
      /\ \A i \in 1..Len(s) : Append(s, e)[i] = s[i]
      /\ Append(s, e)[Len(s) + 1] = e
  OBVIOUS
<1>2. \A n \in Nat : \A i \in 1..(n + 1) : i \in 1..n \/ i = n + 1
  OBVIOUS
<1>3. \A n \in Nat : \A i, j \in 1..(n + 1) : i < j => i \in 1..n
  OBVIOUS
<1>. QED
  BY <1>1, <1>2, <1>3

(* What a section of the code leaves in the queue is all of it or nothing, *)
(* perhaps with the record now offered at the tail.                        *)
LEMMA QueueKeepsOrder ==
  ASSUME TypeOK, OrderInv, NEW q \in Seq(Record), q = <<>> \/ q = queue,
         \/ queue' = q /\ offered' \in {offered, offered + 1}
         \/ /\ offered' = offered + 1
            /\ \E rec \in Record : rec.id = offered + 1 /\ queue' = Append(q, rec),
         UNCHANGED <<current, forkPoint, log>>,
         worker' = "write" => worker = "write"
  PROVE  OrderInv'
<1>1. /\ offered \in Nat /\ forkPoint \in Nat /\ current \in Nat
      /\ forkPoint <= offered /\ queue \in Seq(Record) /\ log \in Seq(Nat)
  BY DEF TypeOK, OrderInv
<1>2. \A i \in DOMAIN log : log[i] \in Nat
  BY <1>1
<1>3. \A i \in DOMAIN q : q[i].id \in Nat
  <2> SUFFICES ASSUME NEW i \in DOMAIN q PROVE q[i].id \in Nat
    OBVIOUS
  <2>1. q[i] \in Record
    OBVIOUS
  <2>. QED
    BY <2>1 DEF Record
<1>4. /\ \A i \in DOMAIN q :
           /\ forkPoint < q[i].id /\ q[i].id <= offered
           /\ \A j \in DOMAIN log : log[j] < q[i].id
           /\ worker = "write" => current < q[i].id
      /\ \A i, j \in DOMAIN q : i < j => q[i].id < q[j].id
  BY DEF OrderInv, QueueOrdered, InHandOrdered, LogOrdered
<1>5. /\ \A i \in DOMAIN log : forkPoint < log[i] /\ log[i] <= offered
      /\ \A i, j \in DOMAIN log : i < j => log[i] < log[j]
      /\ worker = "write" =>
           /\ forkPoint < current /\ current <= offered
           /\ \A i \in DOMAIN log : log[i] < current
  BY DEF OrderInv, InHandOrdered, LogOrdered
<1>6. CASE queue' = q /\ offered' \in {offered, offered + 1}
  BY <1>1, <1>2, <1>3, <1>4, <1>5, <1>6 DEF OrderInv, QueueOrdered, InHandOrdered, LogOrdered
<1>7. ASSUME offered' = offered + 1,
             NEW rec \in Record, rec.id = offered + 1, queue' = Append(q, rec)
      PROVE  OrderInv'
  <2>1. /\ \A i \in DOMAIN queue' : (i \in DOMAIN q /\ queue'[i] = q[i]) \/ queue'[i] = rec
        /\ \A i, j \in DOMAIN queue' : i < j => i \in DOMAIN q /\ queue'[i] = q[i]
    BY <1>7, AppendCases
  <2>2. \A i \in DOMAIN queue' :
          (i \in DOMAIN q /\ queue'[i].id = q[i].id) \/ queue'[i].id = offered + 1
    BY <2>1, <1>7
  <2>3. \A i, j \in DOMAIN queue' : i < j => i \in DOMAIN q /\ queue'[i].id = q[i].id
    BY <2>1
  <2>u. /\ offered' = offered + 1 /\ forkPoint' = forkPoint
        /\ current' = current /\ log' = log
    BY <1>7
  <2>4. /\ \A i \in DOMAIN queue' : forkPoint < queue'[i].id /\ queue'[i].id <= offered + 1
        /\ \A i \in DOMAIN queue' : \A j \in DOMAIN log : log[j] < queue'[i].id
        /\ worker = "write" => \A i \in DOMAIN queue' : current < queue'[i].id
    <3>1. forkPoint < offered + 1 /\ \A j \in DOMAIN log : log[j] < offered + 1
      BY <1>1, <1>2, <1>5
    <3>2. worker = "write" => current < offered + 1
      BY <1>1, <1>5
    <3> SUFFICES ASSUME NEW i \in DOMAIN queue'
                 PROVE  /\ forkPoint < queue'[i].id /\ queue'[i].id <= offered + 1
                        /\ \A j \in DOMAIN log : log[j] < queue'[i].id
                        /\ worker = "write" => current < queue'[i].id
      OBVIOUS
    <3>3. CASE i \in DOMAIN q /\ queue'[i].id = q[i].id
      <4>1. forkPoint < q[i].id /\ q[i].id <= offered /\ q[i].id \in Nat
        BY <3>3, <1>3, <1>4
      <4>2. \A j \in DOMAIN log : log[j] < q[i].id
        BY <3>3, <1>4
      <4>3. worker = "write" => current < q[i].id
        BY <3>3, <1>4
      <4>. QED
        BY <3>3, <4>1, <4>2, <4>3, <1>1
    <3>4. CASE queue'[i].id = offered + 1
      BY <3>1, <3>2, <3>4, <1>1
    <3>. QED
      BY <2>2, <3>3, <3>4
  <2>5. ASSUME NEW i \in DOMAIN queue', NEW j \in DOMAIN queue', i < j
        PROVE  queue'[i].id < queue'[j].id
    <3>1. i \in DOMAIN q /\ queue'[i].id = q[i].id
      BY <2>3, <2>5
    <3>2. CASE j \in DOMAIN q /\ queue'[j].id = q[j].id
      BY <3>1, <3>2, <2>5, <1>4
    <3>3. CASE queue'[j].id = offered + 1
      BY <3>1, <3>3, <1>1, <1>3, <1>4
    <3>. QED
      BY <2>2, <3>2, <3>3
  <2>6. worker = "write" => current <= offered + 1
    BY <1>1, <1>5
  <2>7. QueueOrdered'
    BY <2>4, <2>5, <2>u DEF QueueOrdered
  <2>8. InHandOrdered'
    BY <2>4, <2>6, <2>u, <1>5 DEF InHandOrdered
  <2>9. LogOrdered'
    <3>1. \A i \in DOMAIN log : log[i] <= offered + 1
      BY <1>1, <1>2, <1>5
    <3>. QED
      BY <2>4, <2>u, <3>1, <1>5 DEF LogOrdered
  <2>. QED
    BY <2>7, <2>8, <2>9, <2>u, <1>1 DEF OrderInv
<1>. QED
  BY <1>6, <1>7

LEMMA TakeKeepsOrder ==
  ASSUME TypeOK, OrderInv, TakeHead, UNCHANGED <<offered, forkPoint, log>>
  PROVE  OrderInv'
<1>1. /\ Len(queue) \in Nat \ {0} /\ DOMAIN queue = 1..Len(queue)
      /\ DOMAIN queue' = 1..(Len(queue) - 1)
      /\ \A i \in 1..(Len(queue) - 1) : queue'[i] = queue[i + 1]
      /\ current' = queue[1].id
  BY DEF TypeOK, TakeHead
<1>2. \A i \in DOMAIN queue' :
        i + 1 \in DOMAIN queue /\ 1 < i + 1 /\ queue'[i] = queue[i + 1]
  BY <1>1
<1>3. 1 \in DOMAIN queue
  BY <1>1
<1>4. \A i, j \in DOMAIN queue' : i < j => i + 1 < j + 1
  BY <1>1
<1>5. QueueOrdered'
  BY <1>2, <1>4 DEF OrderInv, QueueOrdered
<1>6. InHandOrdered'
  BY <1>1, <1>2, <1>3 DEF OrderInv, QueueOrdered, InHandOrdered, LogOrdered
<1>7. LogOrdered'
  BY <1>2 DEF OrderInv, LogOrdered
<1>. QED
  BY <1>5, <1>6, <1>7 DEF OrderInv

LEMMA LandKeepsOrder ==
  ASSUME TypeOK, OrderInv, worker = "write", worker' # "write",
         log' = Append(log, current), UNCHANGED <<queue, offered, forkPoint>>
  PROVE  OrderInv'
<1>1. log \in Seq(Nat) /\ current \in Nat
  BY DEF TypeOK
<1>2. \A i \in DOMAIN log' : (i \in DOMAIN log /\ log'[i] = log[i]) \/ log'[i] = current
  BY <1>1, AppendCases
<1>3. \A i, j \in DOMAIN log' : i < j => i \in DOMAIN log /\ log'[i] = log[i]
  BY <1>1, AppendCases
<1>4. QueueOrdered' /\ InHandOrdered'
  BY DEF OrderInv, QueueOrdered, InHandOrdered
<1>5. LogOrdered'
  BY <1>2, <1>3 DEF OrderInv, InHandOrdered, LogOrdered
<1>. QED
  BY <1>4, <1>5 DEF OrderInv

(* The order of records is kept by every step of submitters, thread,       *)
(* closers and forks.                                                      *)
LEMMA OrderIsInvariant == Spec => []OrderInv
<1>1. Init => OrderInv
  BY DEF Init, OrderInv, QueueOrdered, InHandOrdered, LogOrdered
<1>2. TypeOK /\ OrderInv /\ [Next]_vars => OrderInv'
  <2> SUFFICES ASSUME TypeOK, OrderInv, [Next]_vars PROVE OrderInv'
    OBVIOUS
  <2>0. queue \in Seq(Record) /\ <<>> \in Seq(Record) /\ Kept \in {<<>>, queue}
    BY DEF TypeOK, Kept
  <2>1. ASSUME NEW size \in Sizes, Submit(size) PROVE OrderInv'
    <3>1. CASE RefuseBarred(size)
      BY <3>1, <2>0, QueueKeepsOrder DEF RefuseBarred, Offer, buffer, thread, origin
    <3>2. CASE RefuseFull(size)
      BY <3>2, <2>0, QueueKeepsOrder DEF RefuseFull, Offer, thread, origin
    <3>3. CASE Accept(size)
      <4>1. [id |-> offered + 1, size |-> size] \in Record
        BY DEF Record, TypeOK
      <4>. QED
        BY <3>3, <4>1, <2>0, QueueKeepsOrder DEF Accept, Offer, Started, origin
    <3>4. CASE AcceptCannotStart(size)
      BY <3>4, <2>0, QueueKeepsOrder DEF AcceptCannotStart, ClearQueue, Offer, thread, origin
    <3>. QED
      BY <2>1, <3>1, <3>2, <3>3, <3>4 DEF Submit
  <2>2. CASE Top \/ Wake
    <3>1. CASE TakeHead
      BY <2>2, <3>1, TakeKeepsOrder DEF Top, Wake, entering, origin
    <3>2. CASE ~TakeHead
      BY <2>2, <3>2, <2>0, QueueKeepsOrder DEF Top, Wake, Retire, entering, origin
    <3>. QED
      BY <3>1, <3>2
  <2>3. CASE WriteReturns
    BY <2>3, LandKeepsOrder DEF WriteReturns, buffer, entering, origin
  <2>4. CASE WriteRaises
    <3>1. CASE log' = log
      BY <2>4, <3>1, <2>0, QueueKeepsOrder DEF WriteRaises, buffer, entering, origin
    <3>2. CASE log' = Append(log, current)
      BY <2>4, <3>2, LandKeepsOrder DEF WriteRaises, buffer, entering, origin
    <3>. QED
      BY <2>4, <3>1, <3>2 DEF WriteRaises
  <2>5. CASE CountWritten \/ ReportError \/ Settle \/ LeaveFailed
    BY <2>5, <2>0, QueueKeepsOrder
       DEF CountWritten, ReportError, Settle, LeaveFailed, buffer, entering, origin
  <2>6. CASE RecordFailure
    BY <2>6, <2>0, QueueKeepsOrder DEF RecordFailure, ClearQueue, entering, origin
  <2>7. ASSUME NEW c \in Callers, Caller(c) PROVE OrderInv'
    <3>1. CASE Sweep(c)
      BY <3>1, <2>0, QueueKeepsOrder DEF Sweep, ClearQueue, thread, entering, origin
    <3>2. CASE ~Sweep(c)
      BY <2>7, <3>2, <2>0, QueueKeepsOrder
         DEF Caller, BeginFlush, BeginClose, Begin, FlushDrained, FlushTimesOut,
             buffer, thread, entering, origin
    <3>. QED
      BY <3>1, <3>2
  <2>8. CASE Fork
    BY <2>8 DEF Fork, ClearQueue, OrderInv, QueueOrdered, InHandOrdered, LogOrdered, TypeOK
  <2>9. CASE UNCHANGED vars
    BY <2>9, <2>0, QueueKeepsOrder DEF vars, moving, buffer, thread, entering, origin
  <2>. QED
    BY <2>1, <2>2, <2>3, <2>4, <2>5, <2>6, <2>7, <2>8, <2>9
       DEF Next, WriterThread, Callback
<1>. QED
  BY <1>1, <1>2, Typing, PTL DEF Spec

(* Records reach the file in the order they were offered, each at most     *)
(* once, and a forked child replays none of its parent's.                  *)
THEOREM InOrderDelivery == Spec => []InOrderNoReplay
<1>1. OrderInv => InOrderNoReplay
  BY DEF OrderInv, LogOrdered, InOrderNoReplay, Ids
<1>. QED
  BY <1>1, OrderIsInvariant, PTL
-----------------------------------------------------------------------------
LEMMA IdsOfQueue ==
  ASSUME NEW q \in Seq(Record)
  PROVE  /\ Ids(<<>>) = {}
         /\ \A rec \in Record : Ids(Append(q, rec)) = Ids(q) \cup {rec.id}
         /\ q # <<>> => Ids(q) = {Head(q).id} \cup Ids(Tail(q))
<1>1. Ids(<<>>) = {}
  BY DEF Ids
<1>2. ASSUME NEW rec \in Record
      PROVE  Ids(Append(q, rec)) = Ids(q) \cup {rec.id}
  <2>1. /\ Len(q) \in Nat /\ DOMAIN q = 1..Len(q)
        /\ DOMAIN Append(q, rec) = 1..(Len(q) + 1)
        /\ \A i \in 1..Len(q) : Append(q, rec)[i] = q[i]
        /\ Append(q, rec)[Len(q) + 1] = rec
    OBVIOUS
  <2>2. \A n \in Nat : /\ \A i \in 1..(n + 1) : i \in 1..n \/ i = n + 1
                      /\ \A i \in 1..n : i \in 1..(n + 1)
                      /\ n + 1 \in 1..(n + 1)
    OBVIOUS
  <2>. QED
    BY <2>1, <2>2 DEF Ids
<1>3. ASSUME q # <<>>
      PROVE  Ids(q) = {Head(q).id} \cup Ids(Tail(q))
  <2>1. /\ Len(q) \in Nat \ {0} /\ DOMAIN q = 1..Len(q) /\ Head(q) = q[1]
        /\ DOMAIN Tail(q) = 1..(Len(q) - 1)
        /\ \A i \in 1..(Len(q) - 1) : Tail(q)[i] = q[i + 1]
    BY <1>3
  <2>2. \A n \in Nat \ {0} : /\ 1 \in 1..n
                             /\ \A i \in 1..n : i = 1 \/ (i - 1 \in 1..(n - 1) /\ (i - 1) + 1 = i)
                             /\ \A i \in 1..(n - 1) : i + 1 \in 1..n
    OBVIOUS
  <2>3. ASSUME NEW i \in DOMAIN q PROVE q[i].id \in {Head(q).id} \cup Ids(Tail(q))
    <3>1. CASE i = 1
      BY <2>1, <3>1
    <3>2. CASE i - 1 \in 1..(Len(q) - 1) /\ (i - 1) + 1 = i
      <4>1. i - 1 \in DOMAIN Tail(q) /\ Tail(q)[i - 1] = q[i]
        BY <2>1, <3>2
      <4>. QED
        BY <4>1 DEF Ids
    <3>. QED
      BY <2>1, <2>2, <3>1, <3>2
  <2>4. Head(q).id \in Ids(q)
    BY <2>1, <2>2 DEF Ids
  <2>5. ASSUME NEW i \in DOMAIN Tail(q) PROVE Tail(q)[i].id \in Ids(q)
    <3>1. i + 1 \in DOMAIN q /\ Tail(q)[i] = q[i + 1]
      BY <2>1, <2>2
    <3>. QED
      BY <3>1 DEF Ids
  <2>. QED
    BY <2>3, <2>4, <2>5 DEF Ids
<1>. QED
  BY <1>1, <1>2, <1>3

LEMMA RangeOfLog ==
  ASSUME NEW s \in Seq(Nat), NEW e \in Nat
  PROVE  Range(s) \cup {e} \subseteq Range(Append(s, e))
<1>1. /\ Len(s) \in Nat /\ DOMAIN s = 1..Len(s)
      /\ DOMAIN Append(s, e) = 1..(Len(s) + 1)
      /\ \A i \in 1..Len(s) : Append(s, e)[i] = s[i]
      /\ Append(s, e)[Len(s) + 1] = e
  OBVIOUS
<1>2. \A n \in Nat : n + 1 \in 1..(n + 1) /\ \A i \in 1..n : i \in 1..(n + 1)
  OBVIOUS
<1>. QED
  BY <1>1, <1>2 DEF Range
-----------------------------------------------------------------------------
(* Every record offered to this process is somewhere: gone for good, in    *)
(* the queue, or in the writer thread's hands.                             *)
Gone == Range(log) \cup lost \cup refused

InHand == IF worker \in {"write", "raised"} THEN {current} ELSE {}

Whereabouts == Gone \cup Ids(queue) \cup InHand

OneFate == (forkPoint + 1)..offered \subseteq Whereabouts

SettleInv ==
  /\ OneFate
  /\ DrainedMeansSettled
  /\ \A c \in Callers : since[c] <= offered

(* What every step but a fork does to a record: gone records stay gone, no *)
(* record disappears, a new one is somewhere; and a caller is told         *)
(* "drained" only by a writer that is quiet.                               *)
KeepsTrack ==
  /\ forkPoint' = forkPoint
  /\ Gone \subseteq Gone' /\ Whereabouts \subseteq Whereabouts'
  /\ \/ offered' = offered
     \/ offered' = offered + 1 /\ offered + 1 \in Whereabouts'

AnswersStand ==
  \A c \in Callers :
    \/ since'[c] = since[c] /\ answer'[c] = answer[c]
    \/ since'[c] = offered /\ answer'[c] = "none"
    \/ since'[c] = since[c] /\ answer'[c] = "timedout"
    \/ since'[c] = since[c] /\ queue = <<>> /\ ~Inflight

LEMMA TrackedStep ==
  ASSUME TypeOK, SettleInv, KeepsTrack, AnswersStand
  PROVE  SettleInv'
<1>1. forkPoint \in Nat /\ offered \in Nat /\ since \in [Callers -> Nat]
  BY DEF TypeOK
<1>2. OneFate'
  <2>1. (forkPoint + 1)..(offered + 1) \subseteq (forkPoint + 1)..offered \cup {offered + 1}
    BY <1>1
  <2>. QED
    BY <2>1 DEF SettleInv, OneFate, KeepsTrack
<1>3. ASSUME NEW c \in Callers
      PROVE  since'[c] <= offered'
  BY <1>1, <1>3 DEF SettleInv, KeepsTrack, AnswersStand
<1>4. ASSUME NEW c \in Callers, answer'[c] = "drained",
             NEW id \in (forkPoint' + 1)..since'[c]
      PROVE  id \in Gone'
  <2>1. CASE since'[c] = since[c] /\ answer'[c] = answer[c]
    <3>1. id \in Gone
      BY <1>4, <2>1 DEF SettleInv, DrainedMeansSettled, Gone, KeepsTrack
    <3>. QED
      BY <3>1 DEF KeepsTrack
  <2>2. CASE since'[c] = since[c] /\ queue = <<>> /\ ~Inflight
    <3>1. id \in (forkPoint + 1)..offered
      BY <1>1, <1>4, <2>2 DEF SettleInv, KeepsTrack
    <3>2. Ids(queue) = {} /\ InHand = {}
      BY <2>2 DEF Ids, InHand, Inflight
    <3>3. id \in Gone
      BY <3>1, <3>2 DEF SettleInv, OneFate, Whereabouts
    <3>. QED
      BY <3>3 DEF KeepsTrack
  <2>. QED
    BY <1>4, <2>1, <2>2 DEF AnswersStand
<1>5. DrainedMeansSettled'
  BY <1>4 DEF DrainedMeansSettled, Gone
<1>. QED
  BY <1>2, <1>3, <1>5 DEF SettleInv

(* flush() or close() answers True only when every record offered before   *)
(* the call is in the file, discarded and counted, or turned away.         *)
THEOREM DrainedIsSettled == Spec => []DrainedMeansSettled
<1>1. Init => SettleInv
  <2>1. Init => 1..0 = {} /\ (0 + 1)..0 = {}
    OBVIOUS
  <2>. QED
    BY <2>1 DEF Init, SettleInv, OneFate, DrainedMeansSettled
<1>2. TypeOK /\ SettleInv /\ [Next]_vars => SettleInv'
  <2> SUFFICES ASSUME TypeOK, SettleInv, [Next]_vars PROVE SettleInv'
    OBVIOUS
  <2>0. /\ queue \in Seq(Record) /\ Kept \in Seq(Record) /\ log \in Seq(Nat)
        /\ current \in Nat /\ Ids(<<>>) = {}
        /\ call \in [Callers -> {"idle", "flush", "close", "sweep"}]
        /\ answer \in [Callers -> {"none", "drained", "timedout"}]
        /\ since \in [Callers -> Nat]
    BY KeptType, IdsOfQueue DEF TypeOK
  <2>1. ASSUME NEW size \in Sizes, Submit(size) PROVE SettleInv'
    <3>1. AnswersStand
      BY <2>1 DEF Submit, RefuseBarred, RefuseFull, Accept, AcceptCannotStart, calls, AnswersStand
    <3>2. ASSUME RefuseBarred(size) PROVE KeepsTrack
      BY <3>2 DEF RefuseBarred, Offer, buffer, thread, origin, KeepsTrack, Gone, InHand, Whereabouts
    <3>3. ASSUME RefuseFull(size) PROVE KeepsTrack
      BY <3>3 DEF RefuseFull, Offer, thread, origin, KeepsTrack, Gone, InHand, Whereabouts
    <3>4. ASSUME Accept(size) PROVE KeepsTrack
      <4>1. [id |-> offered + 1, size |-> size] \in Record
        BY DEF Record, TypeOK
      <4>2. Ids(queue') = Ids(Kept) \cup {offered + 1}
        BY <3>4, <4>1, <2>0, IdsOfQueue DEF Accept
      <4>3. InHand' = InHand
        BY <3>4 DEF Accept, Started, InHand
      <4>. QED
        BY <3>4, <4>2, <4>3 DEF Accept, Offer, origin, KeepsTrack, Gone, Whereabouts
    <3>5. ASSUME AcceptCannotStart(size) PROVE KeepsTrack
      BY <3>5 DEF AcceptCannotStart, Offer, thread, origin, KeepsTrack, Gone, InHand, Whereabouts
    <3>. QED
      BY <2>1, <3>1, <3>2, <3>3, <3>4, <3>5, TrackedStep DEF Submit
  <2>2. CASE Top \/ Wake
    <3>1. AnswersStand
      BY <2>2 DEF Top, Wake, calls, AnswersStand
    <3>2. ASSUME TakeHead PROVE KeepsTrack
      <4>1. Ids(queue) = {current'} \cup Ids(queue')
        BY <3>2, <2>0, IdsOfQueue DEF TakeHead
      <4>2. InHand = {} /\ InHand' = {current'}
        BY <2>2, <3>2 DEF Top, Wake, TakeHead, InHand
      <4>. QED
        BY <2>2, <4>1, <4>2 DEF Top, Wake, entering, origin, KeepsTrack, Gone, Whereabouts
    <3>3. ASSUME ~TakeHead PROVE KeepsTrack
      <4>1. queue' = queue /\ InHand = {} /\ InHand' = {}
        BY <2>2, <3>3 DEF Top, Wake, Retire, InHand
      <4>. QED
        BY <2>2, <4>1 DEF Top, Wake, entering, origin, KeepsTrack, Gone, Whereabouts
    <3>. QED
      BY <3>1, <3>2, <3>3, TrackedStep
  <2>3. CASE WriteReturns \/ WriteRaises
    <3>1. AnswersStand
      BY <2>3 DEF WriteReturns, WriteRaises, calls, AnswersStand
    <3>2. Range(log) \cup {current} \subseteq Range(Append(log, current))
      BY <2>0, RangeOfLog
    <3>3. Range(log) \subseteq Range(log') /\ Range(log) \cup InHand \subseteq Range(log') \cup InHand'
      BY <2>3, <3>2 DEF WriteReturns, WriteRaises, InHand
    <3>4. KeepsTrack
      BY <2>3, <3>3 DEF WriteReturns, WriteRaises, buffer, entering, origin, KeepsTrack, Gone, Whereabouts
    <3>. QED
      BY <3>1, <3>4, TrackedStep
  <2>4. CASE CountWritten \/ ReportError \/ Settle \/ LeaveFailed
    <3>1. AnswersStand
      BY <2>4 DEF CountWritten, ReportError, Settle, LeaveFailed, calls, AnswersStand
    <3>2. InHand = {} /\ InHand' = {}
      BY <2>4 DEF CountWritten, ReportError, Settle, LeaveFailed, InHand
    <3>3. KeepsTrack
      BY <2>4, <3>2 DEF CountWritten, ReportError, Settle, LeaveFailed, buffer, entering,
                        origin, KeepsTrack, Gone, Whereabouts
    <3>. QED
      BY <3>1, <3>3, TrackedStep
  <2>5. CASE RecordFailure
    <3>1. AnswersStand
      BY <2>5 DEF RecordFailure, calls, AnswersStand
    <3>2. InHand = {current} /\ InHand' = {}
      BY <2>5 DEF RecordFailure, InHand
    <3>3. KeepsTrack
      BY <2>5, <3>2 DEF RecordFailure, entering, origin, KeepsTrack, Gone, Whereabouts
    <3>. QED
      BY <3>1, <3>3, TrackedStep
  <2>6. ASSUME NEW c \in Callers, Caller(c) PROVE SettleInv'
    <3>1. AnswersStand
      BY <2>6, <2>0 DEF Caller, BeginFlush, BeginClose, Begin, FlushDrained, FlushTimesOut,
                        Sweep, Quiet, AnswersStand
    <3>2. ASSUME Sweep(c) PROVE KeepsTrack
      BY <3>2 DEF Sweep, thread, entering, origin, KeepsTrack, Gone, InHand, Whereabouts
    <3>3. ASSUME ~Sweep(c) PROVE KeepsTrack
      BY <2>6, <3>3 DEF Caller, BeginFlush, BeginClose, Begin, FlushDrained, FlushTimesOut,
                        buffer, thread, entering, origin, KeepsTrack, Gone, InHand, Whereabouts
    <3>. QED
      BY <3>1, <3>2, <3>3, TrackedStep
  <2>7. CASE Fork
    <3>1. \A c \in Callers : answer'[c] = "none" /\ since'[c] = offered
      BY <2>7 DEF Fork
    <3>2. (forkPoint' + 1)..offered' = {}
      BY <2>7 DEF Fork, TypeOK
    <3>3. offered' = offered /\ offered \in Nat
      BY <2>7 DEF Fork, TypeOK
    <3>. QED
      BY <3>1, <3>2, <3>3 DEF SettleInv, OneFate, DrainedMeansSettled
  <2>8. CASE UNCHANGED vars
    BY <2>8, TrackedStep DEF vars, moving, buffer, thread, flags, entering, calls, origin, KeepsTrack,
                             AnswersStand, Gone, InHand, Whereabouts
  <2>. QED
    BY <2>1, <2>2, <2>3, <2>4, <2>5, <2>6, <2>7, <2>8 DEF Next, WriterThread, Callback
<1>3. SettleInv => DrainedMeansSettled
  BY DEF SettleInv
<1>. QED
  BY <1>1, <1>2, <1>3, Typing, PTL DEF Spec
-----------------------------------------------------------------------------
Pending == Ids(queue) \cup (IF worker = "write" THEN {current} ELSE {})

LEMMA OldestIsLeast ==
  ASSUME NEW S \in SUBSET Nat, NEW least \in S, \A other \in S : least <= other
  PROVE  Channel!Oldest(S) = least
<1>1. \A id \in S : (\A other \in S : id <= other) => id = least
  OBVIOUS
<1>. QED
  BY <1>1 DEF Channel!Oldest

LEMMA ChannelStep ==
  ASSUME TypeOK, OrderInv, [Next]_vars
  PROVE  [Channel!Next]_(Channel!chanVars)
<1> USE DEF Pending
<1>0. /\ queue \in Seq(Record) /\ Kept \in Seq(Record) /\ Ids(<<>>) = {}
      /\ Ids(Kept) \subseteq Ids(queue) /\ Ids(queue) \subseteq Nat /\ current \in Nat
  <2>1. Kept = <<>> \/ Kept = queue
    BY DEF Kept
  <2>. QED
    BY <2>1, KeptType, IdsOfQueue DEF TypeOK
<1>t. closed \in BOOLEAN /\ failed \in BOOLEAN
  BY DEF TypeOK
<1>1. ASSUME NEW size \in Sizes, RefuseBarred(size) \/ RefuseFull(size)
      PROVE  Channel!TurnAway
  <2>1. /\ offered' = offered + 1 /\ log' = log
        /\ closed' = closed /\ failed' = failed
    BY <1>1 DEF RefuseBarred, RefuseFull, Offer, flags
  <2>2. Pending' \subseteq Pending
    BY <1>0, <1>1 DEF RefuseBarred, RefuseFull, buffer, thread
  <2>. QED
    BY <2>1, <2>2 DEF Channel!TurnAway
<1>2. ASSUME NEW size \in Sizes, Accept(size)
      PROVE  Channel!LetIn
  <2>1. /\ offered' = offered + 1 /\ log' = log
        /\ closed' = closed /\ failed' = failed /\ ~(closed \/ failed)
    BY <1>2 DEF Accept, Offer, Barred, flags
  <2>2. [id |-> offered + 1, size |-> size] \in Record
    BY DEF Record, TypeOK
  <2>3. Ids(queue') = Ids(Kept) \cup {offered + 1}
    BY <1>0, <1>2, <2>2, IdsOfQueue DEF Accept
  <2>4. worker' = "write" <=> worker = "write"
    BY <1>2 DEF Accept, Started
  <2>5. current' = current
    BY <1>2 DEF Accept
  <2> DEFINE kept == Ids(Kept) \cup (IF worker = "write" THEN {current} ELSE {})
  <2>6. kept \in SUBSET Pending /\ Pending' = kept \cup {offered + 1}
    BY <1>0, <2>3, <2>4, <2>5
  <2>. QED
    BY <2>1, <2>6 DEF Channel!LetIn
<1>3. ASSUME NEW size \in Sizes, AcceptCannotStart(size)
      PROVE  Channel!TurnAway
  <2>1. /\ offered' = offered + 1 /\ log' = log /\ (closed \/ failed)' = TRUE
    BY <1>3 DEF AcceptCannotStart, Offer
  <2>2. Pending' \subseteq Pending
    BY <1>0, <1>3 DEF AcceptCannotStart, ClearQueue, thread
  <2>. QED
    BY <2>1, <2>2 DEF Channel!TurnAway
<1>4. ASSUME Top \/ Wake
      PROVE  UNCHANGED Channel!chanVars
  <2>1. offered' = offered /\ log' = log /\ closed' = closed /\ failed' = failed
    BY <1>4 DEF Top, Wake, flags, entering
  <2>2. Pending' = Pending
    <3>1. CASE TakeHead
      <4>1. Ids(queue) = {current'} \cup Ids(queue') /\ worker' = "write" /\ worker # "write"
        BY <1>0, <1>4, <3>1, IdsOfQueue DEF TakeHead, Top, Wake
      <4>. QED
        BY <4>1
    <3>2. CASE ~TakeHead
      BY <1>4, <3>2 DEF Top, Wake, Retire
    <3>. QED
      BY <3>1, <3>2
  <2>. QED
    BY <2>1, <2>2 DEF Channel!chanVars
<1>5. ASSUME worker = "write", worker' # "write", log' = Append(log, current),
             UNCHANGED <<queue, offered, closed, failed>>
      PROVE  Channel!Deliver
  <2>1. \A id \in Ids(queue) : current < id
    BY <1>5 DEF OrderInv, InHandOrdered, Ids
  <2>2. /\ Pending \in SUBSET Nat /\ current \in Pending
        /\ \A other \in Pending : current <= other
    BY <1>0, <1>5, <2>1
  <2>3. Channel!Oldest(Pending) = current
    BY <2>2, OldestIsLeast
  <2>4. Pending' = Pending \ {current}
    BY <1>0, <1>5, <2>1
  <2>. QED
    BY <1>5, <2>2, <2>3, <2>4 DEF Channel!Deliver
<1>6. ASSUME Pending' \subseteq Pending, UNCHANGED <<offered, log>>,
             (closed \/ failed)' \in {closed \/ failed, TRUE}
      PROVE  Channel!Lose
  BY <1>6 DEF Channel!Lose
<1>7. CASE WriteReturns
  BY <1>5, <1>7 DEF WriteReturns, buffer, flags, entering, Channel!Next
<1>8. CASE WriteRaises
  <2>1. CASE log' = Append(log, current)
    BY <1>5, <1>8, <2>1 DEF WriteRaises, buffer, flags, entering, Channel!Next
  <2>2. CASE log' = log
    <3>1. Pending' \subseteq Pending
      BY <1>8 DEF WriteRaises, buffer
    <3>. QED
      BY <1>6, <1>8, <2>2, <3>1 DEF WriteRaises, flags, entering, Channel!Next
  <2>. QED
    BY <1>8, <2>1, <2>2 DEF WriteRaises
<1>9. CASE CountWritten \/ ReportError \/ Settle \/ LeaveFailed
  <2>1. Pending' = Pending
    BY <1>9 DEF CountWritten, ReportError, Settle, LeaveFailed, buffer
  <2>. QED
    BY <1>9, <2>1 DEF CountWritten, ReportError, Settle, LeaveFailed, flags, entering,
                      Channel!chanVars
<1>10. CASE RecordFailure
  <2>1. Pending' \subseteq Pending
    BY <1>0, <1>10 DEF RecordFailure, ClearQueue
  <2>. QED
    BY <1>6, <1>10, <2>1 DEF RecordFailure, entering, Channel!Next
<1>11. ASSUME NEW c \in Callers, Caller(c)
       PROVE  Channel!Lose
  <2>1. Pending' \subseteq Pending
    BY <1>0, <1>11 DEF Caller, BeginFlush, BeginClose, Begin, FlushDrained, FlushTimesOut,
                       Sweep, ClearQueue, buffer, thread
  <2>2. failed' = failed /\ (closed' = closed \/ closed' = TRUE)
    BY <1>11 DEF Caller, BeginFlush, BeginClose, Begin, FlushDrained, FlushTimesOut,
                 Sweep, flags
  <2>3. (closed \/ failed)' \in {closed \/ failed, TRUE}
    <3>1. CASE closed' = closed
      <4>1. (closed \/ failed)' = (closed \/ failed)
        BY <2>2, <3>1
      <4>. QED
        BY <4>1
    <3>2. CASE closed' = TRUE
      <4>1. (closed \/ failed)' = TRUE
        BY <3>2
      <4>. QED
        BY <4>1
    <3>. QED
      BY <2>2, <3>1, <3>2
  <2>. QED
    BY <1>6, <1>11, <2>1, <2>3
       DEF Caller, BeginFlush, BeginClose, Begin, FlushDrained, FlushTimesOut, Sweep, entering
<1>12. CASE Fork
  <2>1. Pending' = {} /\ UNCHANGED <<offered, closed, failed>> /\ log' = <<>>
    BY <1>0, <1>12 DEF Fork, ClearQueue, flags
  <2>. QED
    BY <2>1 DEF Channel!Fork, Channel!Next
<1>13. CASE UNCHANGED vars
  BY <1>13 DEF vars, moving, buffer, thread, flags, entering, Channel!chanVars, Ids
<1>. QED
  BY <1>1, <1>2, <1>3, <1>4, <1>7, <1>8, <1>9, <1>10, <1>11, <1>12, <1>13
     DEF Next, Submit, WriterThread, Callback, Channel!Next

(* Everything the writer does, LossyChannel allows: at-most-once delivery  *)
(* in order, nothing let in after close() or a failure, a fresh channel in *)
(* a forked child.                                                         *)
THEOREM WriterImplementsChannel == Spec => ImplementsChannel
<1>1. Init => Channel!Init
  BY DEF Init, Channel!Init, Ids
<1>2. Spec => []OrderInv
  BY OrderIsInvariant
<1>. QED
  BY <1>1, <1>2, ChannelStep, Typing, PTL DEF Spec, Channel!Spec, ImplementsChannel
-----------------------------------------------------------------------------
(* The bytes of the queue, as running totals that never fall.              *)
Bytes(q, n) ==
  \E total \in RunningTotals(q) :
    /\ n = total[Len(q)]
    /\ \A i, j \in 0..Len(q) : i <= j => total[i] <= total[j]

LEMMA BytesOfNone == Bytes(<<>>, 0)
<1> DEFINE total == [i \in 0..0 |-> 0]
<1>1. total \in [0..0 -> 0..MaxBytes] /\ total[0] = 0
  BY WriterAssumption
<1>2. Len(<<>>) = 0 /\ DOMAIN <<>> = {}
  OBVIOUS
<1>3. \A i, j \in 0..0 : i <= j => total[i] <= total[j]
  BY <1>1
<1> HIDE DEF total
<1>. QED
  BY <1>1, <1>2, <1>3 DEF Bytes, RunningTotals

LEMMA BytesOfMore ==
  ASSUME NEW q \in Seq(Record), NEW n, Bytes(q, n), NEW rec \in Record, n + rec.size <= MaxBytes
  PROVE  Bytes(Append(q, rec), n + rec.size)
<1>1. PICK total \in RunningTotals(q) :
        n = total[Len(q)] /\ \A i, j \in 0..Len(q) : i <= j => total[i] <= total[j]
  BY DEF Bytes
<1> DEFINE size == Len(q)  more == Append(q, rec)
           new == [i \in 0..(size + 1) |-> IF i <= size THEN total[i] ELSE n + rec.size]
<1>2. size \in Nat /\ rec.size \in Nat /\ MaxBytes \in Nat
  <2>1. rec.size \in Sizes
    BY DEF Record
  <2>2. size \in Nat
    OBVIOUS
  <2>. QED
    BY <2>1, <2>2, WriterAssumption
<1>3. /\ total \in [0..size -> 0..MaxBytes] /\ total[0] = 0
      /\ \A i \in DOMAIN q : total[i] = total[i - 1] + q[i].size
  BY <1>1 DEF RunningTotals
<1>4. /\ DOMAIN q = 1..size /\ DOMAIN more = 1..(size + 1) /\ Len(more) = size + 1
      /\ \A i \in 1..size : more[i] = q[i] /\ more[size + 1] = rec
      /\ more[size + 1] = rec
  OBVIOUS
<1> HIDE DEF size, more
<1>5. n \in 0..MaxBytes /\ n + rec.size \in 0..MaxBytes /\ size \in 0..size
  <2>1. size \in 0..size
    BY <1>2
  <2>2. n \in 0..MaxBytes
    BY <1>1, <1>3, <2>1 DEF size
  <2>. QED
    BY <1>2, <2>1, <2>2
<1>6. \A i \in 0..(size + 1) : i \in 0..size \/ i = size + 1
  BY <1>2
<1>7. /\ \A i \in 0..size : new[i] = total[i]
      /\ new[size + 1] = n + rec.size
  BY <1>2
<1>8. new \in [0..(size + 1) -> 0..MaxBytes]
  BY <1>3, <1>5, <1>6, <1>7
<1> HIDE DEF new
<1>9. new[0] = 0
  BY <1>2, <1>3, <1>7
<1>10. ASSUME NEW i \in 1..(size + 1) PROVE new[i] = new[i - 1] + more[i].size
  <2>1. CASE i = size + 1
    <3>1. i - 1 = size
      BY <1>2, <2>1
    <3>2. new[i - 1] = n
      BY <1>1, <1>5, <1>7, <3>1 DEF size
    <3>. QED
      BY <1>4, <1>7, <2>1, <3>2
  <2>2. CASE i # size + 1
    <3>1. i \in 1..size /\ i \in 0..size /\ i - 1 \in 0..size
      BY <1>2, <2>2
    <3>. QED
      BY <1>3, <1>4, <1>7, <3>1
  <2>. QED
    BY <2>1, <2>2
<1>11. ASSUME NEW i \in 0..(size + 1), NEW j \in 0..(size + 1), i <= j PROVE new[i] <= new[j]
  <2>1. CASE j = size + 1 /\ i \in 0..size
    <3>1. i <= size
      BY <1>2, <2>1
    <3>2. total[i] <= n /\ total[i] \in Nat
      BY <1>1, <1>3, <1>5, <2>1, <3>1, <1>2 DEF size
    <3>3. n \in Nat
      BY <1>2, <1>5
    <3>4. new[i] = total[i] /\ new[j] = n + rec.size
      BY <1>7, <2>1
    <3>5. \A t, m, k \in Nat : t <= m => t <= m + k
      OBVIOUS
    <3>6. total[i] <= n + rec.size
      BY <1>2, <3>2, <3>3, <3>5
    <3>. QED
      BY <3>4, <3>6
  <2>2. CASE j = size + 1 /\ i = size + 1
    BY <1>2, <1>5, <1>7, <2>2
  <2>3. CASE j \in 0..size
    <3>1. i \in 0..size
      BY <1>2, <1>11, <2>3
    <3>. QED
      BY <1>1, <1>7, <1>11, <2>3, <3>1 DEF size
  <2>. QED
    BY <1>6, <2>1, <2>2, <2>3
<1>12. new \in RunningTotals(more)
  BY <1>4, <1>8, <1>9, <1>10 DEF RunningTotals
<1>13. Bytes(more, n + rec.size)
  BY <1>4, <1>7, <1>11, <1>12 DEF Bytes
<1>. QED
  BY <1>13 DEF more

LEMMA BytesOfRest ==
  ASSUME NEW q \in Seq(Record), q # <<>>, NEW n, Bytes(q, n)
  PROVE  Bytes(Tail(q), n - Head(q).size)
<1>1. PICK total \in RunningTotals(q) :
        n = total[Len(q)] /\ \A i, j \in 0..Len(q) : i <= j => total[i] <= total[j]
  BY DEF Bytes
<1> DEFINE size == Len(q)  rest == Tail(q)  first == Head(q).size
           new == [i \in 0..(size - 1) |-> total[i + 1] - first]
<1>2. size \in Nat \ {0} /\ MaxBytes \in Nat
  BY WriterAssumption
<1>3. /\ total \in [0..size -> 0..MaxBytes] /\ total[0] = 0
      /\ \A i \in DOMAIN q : total[i] = total[i - 1] + q[i].size
  BY <1>1 DEF RunningTotals
<1>4. /\ DOMAIN q = 1..size /\ DOMAIN rest = 1..(size - 1) /\ Len(rest) = size - 1
      /\ \A i \in 1..(size - 1) : rest[i] = q[i + 1]
      /\ first = q[1].size
  OBVIOUS
<1>5. first \in Nat
  <2>1. q[1] \in Record
    BY <1>2
  <2>. QED
    BY <1>4, <2>1, WriterAssumption DEF Record
<1> HIDE DEF size, rest, first
<1>6. total[1] = first /\ 1 \in 0..size
  <2>1. 1 \in 1..size /\ 1 \in 0..size /\ 1 - 1 = 0
    BY <1>2
  <2>2. total[1] = total[0] + q[1].size
    BY <1>3, <1>4, <2>1
  <2>. QED
    BY <1>3, <1>4, <1>5, <2>1, <2>2
<1>7. ASSUME NEW i \in 0..(size - 1)
      PROVE  /\ i + 1 \in 0..size /\ total[i + 1] \in 0..MaxBytes
             /\ first <= total[i + 1] /\ total[i + 1] - first \in 0..MaxBytes
  <2>1. i + 1 \in 0..size /\ 1 <= i + 1
    BY <1>2
  <2>2. total[i + 1] \in 0..MaxBytes
    BY <1>3, <2>1
  <2>3. first <= total[i + 1]
    BY <1>1, <1>6, <2>1 DEF size
  <2>4. \A t, m, k \in Nat : t \in 0..m /\ k <= t => t - k \in 0..m
    OBVIOUS
  <2>5. total[i + 1] \in Nat
    BY <1>2, <2>2
  <2>. QED
    BY <1>2, <1>5, <2>1, <2>2, <2>3, <2>4, <2>5
<1>8. \A i \in 0..(size - 1) : new[i] = total[i + 1] - first
  OBVIOUS
<1>9. new \in [0..(size - 1) -> 0..MaxBytes]
  BY <1>7
<1> HIDE DEF new
<1>10. new[0] = 0
  BY <1>2, <1>5, <1>6, <1>8
<1>11. ASSUME NEW i \in 1..(size - 1) PROVE new[i] = new[i - 1] + rest[i].size
  <2>1. /\ i \in 0..(size - 1) /\ i - 1 \in 0..(size - 1) /\ i + 1 \in 1..size
        /\ (i - 1) + 1 = i /\ (i + 1) - 1 = i
    BY <1>2
  <2>2. total[i + 1] = total[i] + q[i + 1].size
    BY <1>3, <1>4, <2>1
  <2>3. new[i] = total[i + 1] - first /\ new[i - 1] = total[i] - first
    BY <1>8, <2>1
  <2>4. q[i + 1] \in Record
    BY <2>1 DEF size
  <2>5. q[i + 1].size \in Nat
    BY <2>4, WriterAssumption DEF Record
  <2>6. total[i] \in Int
    <3>1. i \in 0..size
      BY <1>2
    <3>2. total[i] \in 0..MaxBytes
      BY <1>3, <3>1
    <3>. QED
      BY <1>2, <3>2
  <2>7. \A t, k, m \in Int : (t + m) - k = (t - k) + m
    OBVIOUS
  <2>8. rest[i].size = q[i + 1].size
    BY <1>4
  <2>. QED
    BY <1>5, <2>2, <2>3, <2>5, <2>6, <2>7, <2>8
<1>12. ASSUME NEW i \in 0..(size - 1), NEW j \in 0..(size - 1), i <= j PROVE new[i] <= new[j]
  <2>1. i + 1 \in 0..size /\ j + 1 \in 0..size /\ i + 1 <= j + 1
    BY <1>2, <1>12
  <2>2. total[i + 1] <= total[j + 1]
    BY <1>1, <2>1 DEF size
  <2>3. total[i + 1] \in Int /\ total[j + 1] \in Int
    BY <1>2, <1>7
  <2>4. \A t, u, k \in Int : t <= u => t - k <= u - k
    OBVIOUS
  <2>5. total[i + 1] - first <= total[j + 1] - first
    BY <1>5, <2>2, <2>3, <2>4
  <2>. QED
    BY <1>8, <2>5
<1>13. new \in RunningTotals(rest)
  BY <1>4, <1>9, <1>10, <1>11 DEF RunningTotals
<1>14. new[size - 1] = n - first
  <2>1. size - 1 \in 0..(size - 1) /\ (size - 1) + 1 = size
    BY <1>2
  <2>. QED
    BY <1>1, <1>8, <2>1 DEF size
<1>15. Bytes(rest, n - first)
  BY <1>4, <1>12, <1>13, <1>14 DEF Bytes
<1>. QED
  BY <1>15 DEF rest, first
-----------------------------------------------------------------------------
(* What the limits rest on: records are taken in the order of their        *)
(* numbers, a call to close() shuts the door first, and the running totals *)
(* of the queue never fall.                                                *)
TakenInOrder == current <= offered /\ \A i \in DOMAIN queue : current < queue[i].id
DoorShut == \A c \in Callers : call[c] \in {"close", "sweep"} => closed
QueueLimited ==
  /\ Len(queue) <= (IF latestOnly THEN 1 ELSE Capacity)
  /\ Bytes(queue, queuedBytes)

LimitInv == TakenInOrder /\ DoorShut /\ QueueLimited /\ NewestIsKept

LEMMA QueueCases ==
  ASSUME TypeOK, QueueLimited, UNCHANGED latestOnly,
         \/ UNCHANGED buffer
         \/ queue' = <<>> /\ queuedBytes' = 0
         \/ TakeHead
  PROVE  QueueLimited'
<1>1. queue \in Seq(Record) /\ Len(queue) \in Nat /\ Len(<<>>) = 0
  BY DEF TypeOK
<1>2. CASE UNCHANGED buffer
  BY <1>2 DEF QueueLimited, buffer
<1>3. CASE queue' = <<>> /\ queuedBytes' = 0
  BY <1>1, <1>3, BytesOfNone, WriterAssumption DEF QueueLimited
<1>4. CASE TakeHead
  <2>1. Bytes(Tail(queue), queuedBytes - Head(queue).size)
    BY <1>1, <1>4, BytesOfRest DEF QueueLimited, TakeHead
  <2>2. Len(Tail(queue)) <= Len(queue) /\ Len(Tail(queue)) \in Nat
    BY <1>1, <1>4 DEF TakeHead
  <2>3. queue' = Tail(queue) /\ queuedBytes' = queuedBytes - Head(queue).size
    BY <1>4 DEF TakeHead
  <2>. QED
    BY <1>1, <2>1, <2>2, <2>3, WriterAssumption DEF QueueLimited
<1>. QED
  BY <1>2, <1>3, <1>4

(* The newest accepted record is where it was, or further on its way.      *)
LEMMA NewestStays ==
  ASSUME NewestIsKept, UNCHANGED latestOnly, lost \subseteq Nat,
         ~closed' /\ ~failed' => ~closed /\ ~failed /\ lost' = lost,
         Range(log) \cup Ids(queue) \cup {current} \subseteq
           Range(log)' \cup Ids(queue)' \cup {current'}
           \/ (current \in Nat /\ current' \in Nat /\ current < current'
               /\ Range(log) \cup Ids(queue) \subseteq
                     Range(log)' \cup Ids(queue)' \cup {current'})
  PROVE  NewestIsKept'
<1> SUFFICES ASSUME ~closed', ~failed'
             PROVE  /\ ~latestOnly => lost' = {}
                    /\ \A id \in lost' : \E newer \in Range(log)' \cup Ids(queue)' \cup {current'} :
                         newer > id
  BY DEF NewestIsKept
<1>1. /\ ~latestOnly => lost = {}
      /\ \A id \in lost : \E newer \in Range(log) \cup Ids(queue) \cup {current} : newer > id
  BY DEF NewestIsKept
<1>2. lost' = lost
  OBVIOUS
<1>3. ASSUME NEW id \in lost
      PROVE  \E newer \in Range(log)' \cup Ids(queue)' \cup {current'} : newer > id
  <2>1. PICK newer \in Range(log) \cup Ids(queue) \cup {current} : newer > id
    BY <1>1
  <2>2. CASE newer \in Range(log)' \cup Ids(queue)' \cup {current'}
    BY <2>1, <2>2
  <2>3. CASE newer \notin Range(log)' \cup Ids(queue)' \cup {current'}
    <3>1. newer = current /\ current \in Nat /\ current' \in Nat /\ current < current'
      BY <2>1, <2>3
    <3>2. current' > id
      BY <2>1, <3>1
    <3>. QED
      BY <3>2
  <2>. QED
    BY <2>2, <2>3
<1>. QED
  BY <1>1, <1>2, <1>3

LEMMA AcceptLimits ==
  ASSUME TypeOK, OrderInv, LimitInv, NEW size \in Sizes, Accept(size), UNCHANGED latestOnly
  PROVE  LimitInv'
<1> DEFINE rec == [id |-> offered + 1, size |-> size]
<1>1. /\ Kept \in Seq(Record) /\ Len(Kept) \in Nat /\ queue \in Seq(Record)
      /\ offered \in Nat /\ current \in Nat /\ size \in Nat
  BY KeptType, WriterAssumption DEF TypeOK
<1>2. rec \in Record /\ rec.size = size /\ rec.id = offered + 1
  BY <1>1 DEF Record
<1> HIDE DEF rec
<1>3. queue' = Append(Kept, rec) /\ queuedBytes' = KeptBytes + size /\ offered' = offered + 1
      /\ UNCHANGED <<current, closed, failed, call, log>> /\ lost' = lost \cup (Ids(queue) \ Ids(Kept))
  BY DEF Accept, Offer, flags, calls, rec
<1>4. Len(Kept) < Capacity /\ KeptBytes + size <= MaxBytes
  <2>1. KeptBytes \in Int
    BY KeptType
  <2>. QED
    BY <1>1, <2>1, WriterAssumption DEF Accept, Full
<1>5. TakenInOrder'
  <2>1. \A i \in DOMAIN queue' : queue'[i].id = offered + 1 \/ (i \in DOMAIN queue /\ queue'[i] = queue[i])
    <3>1. Kept = <<>> \/ Kept = queue
      BY DEF Kept
    <3>. QED
      BY <1>1, <1>2, <1>3, <3>1, AppendCases
  <2>. QED
    BY <1>1, <1>3, <2>1 DEF LimitInv, TakenInOrder
<1>6. DoorShut'
  BY <1>3 DEF LimitInv, DoorShut
<1>7. QueueLimited'
  <2>1. Bytes(Kept, KeptBytes)
    BY BytesOfNone DEF LimitInv, QueueLimited, Kept, KeptBytes
  <2>2. Bytes(queue', queuedBytes')
    BY <1>1, <1>2, <1>3, <1>4, <2>1, BytesOfMore
  <2>3. Len(queue') = Len(Kept) + 1
    BY <1>1, <1>2, <1>3
  <2>4. latestOnly => Len(Kept) = 0
    BY DEF Kept
  <2>. QED
    BY <1>1, <1>4, <2>2, <2>3, <2>4, WriterAssumption DEF QueueLimited
<1>8. NewestIsKept'
  <2> SUFFICES ASSUME ~closed, ~failed
               PROVE  /\ ~latestOnly => lost' = {}
                      /\ \A id \in lost' : \E newer \in Range(log)' \cup Ids(queue)' \cup {current'} :
                           newer > id
    BY <1>3 DEF NewestIsKept
  <2>1. /\ ~latestOnly => lost = {}
        /\ \A id \in lost : \E newer \in Range(log) \cup Ids(queue) \cup {current} : newer > id
    BY DEF LimitInv, NewestIsKept
  <2>2. ~latestOnly => lost' = {}
    BY <1>3, <2>1 DEF Kept
  <2>3. \A id \in Ids(queue) : id \in Nat /\ id <= offered
    <3>1. \A i \in DOMAIN queue : queue[i].id <= offered
      BY DEF OrderInv, QueueOrdered
    <3>. QED
      BY <3>1, KeptType DEF Ids
  <2>4. \A id \in Range(log) : id \in Nat /\ id <= offered
    BY DEF OrderInv, LogOrdered, TypeOK, Range
  <2>5. ASSUME NEW id \in lost' PROVE offered + 1 > id
    <3>1. CASE id \in Ids(queue)
      BY <1>1, <2>3, <3>1
    <3>2. CASE id \in lost
      <4>1. PICK newer \in Range(log) \cup Ids(queue) \cup {current} : newer > id
        BY <2>1, <3>2
      <4>2. newer \in Nat /\ newer <= offered
        BY <1>1, <2>3, <2>4, <4>1 DEF LimitInv, TakenInOrder
      <4>3. id \in Nat
        BY <3>2 DEF TypeOK
      <4>. QED
        BY <1>1, <4>1, <4>2, <4>3
    <3>. QED
      BY <1>3, <3>1, <3>2
  <2>6. offered + 1 \in Ids(queue)'
    <3>1. Ids(Append(Kept, rec)) = Ids(Kept) \cup {rec.id}
      BY <1>1, <1>2, IdsOfQueue
    <3>2. Ids(queue)' = Ids(Append(Kept, rec))
      BY <1>3 DEF Ids
    <3>. QED
      BY <1>2, <3>1, <3>2
  <2>. QED
    BY <2>2, <2>5, <2>6
<1>. QED
  BY <1>5, <1>6, <1>7, <1>8 DEF LimitInv

LEMMA TakeLimits ==
  ASSUME TypeOK, OrderInv, LimitInv, TakeHead,
         UNCHANGED <<latestOnly, offered, closed, failed, call, log, lost>>
  PROVE  LimitInv'
<1>1. /\ queue \in Seq(Record) /\ queue # <<>> /\ current \in Nat /\ offered \in Nat
      /\ queue' = Tail(queue) /\ current' = Head(queue).id /\ lost \subseteq Nat
  BY DEF TypeOK, TakeHead
<1>2. /\ DOMAIN queue = 1..Len(queue) /\ Len(queue) \in Nat \ {0}
      /\ DOMAIN queue' = 1..(Len(queue) - 1) /\ Head(queue) = queue[1]
      /\ \A i \in 1..(Len(queue) - 1) : queue'[i] = queue[i + 1]
  BY <1>1
<1>3. /\ 1 \in DOMAIN queue
      /\ \A i \in DOMAIN queue' : i + 1 \in DOMAIN queue /\ 1 < i + 1 /\ queue'[i] = queue[i + 1]
  BY <1>2
<1>4. /\ current < current' /\ current' <= offered
      /\ \A i \in DOMAIN queue' : current' < queue'[i].id
  BY <1>1, <1>2, <1>3 DEF LimitInv, TakenInOrder, OrderInv, QueueOrdered
<1>5. TakenInOrder'
  BY <1>4 DEF TakenInOrder
<1>6. DoorShut'
  BY DEF LimitInv, DoorShut
<1>7. QueueLimited'
  BY QueueCases DEF LimitInv
<1>8. current' \in Nat
  <2>1. queue[1] \in Record
    BY <1>1, <1>2
  <2>. QED
    BY <1>1, <1>2, <2>1 DEF Record
<1>9. Range(log) \cup Ids(queue) \subseteq Range(log)' \cup Ids(queue)' \cup {current'}
  <2>1. Ids(queue) = {Head(queue).id} \cup Ids(Tail(queue))
    BY <1>1, IdsOfQueue
  <2>2. Ids(queue)' = Ids(Tail(queue)) /\ Range(log)' = Range(log)
    BY <1>1 DEF Ids, Range
  <2>. QED
    BY <1>1, <2>1, <2>2
<1>10. NewestIsKept'
  BY <1>1, <1>4, <1>8, <1>9, NewestStays DEF LimitInv
<1>. QED
  BY <1>5, <1>6, <1>7, <1>10 DEF LimitInv

(* A thread that cannot be started, a failed write, a sweep: all that was  *)
(* queued is lost, and the writer is not healthy and open any more.        *)
LEMMA DropLimits ==
  ASSUME TypeOK, LimitInv, queue' = <<>>, queuedBytes' = 0,
         UNCHANGED <<latestOnly, current, call>> \/ (UNCHANGED <<latestOnly, current>> /\ DoorShut'),
         offered' \in {offered, offered + 1}, closed => closed',
         closed' \/ failed'
  PROVE  LimitInv'
<1>1. current \in Nat /\ offered \in Nat
  BY DEF TypeOK
<1>2. TakenInOrder'
  BY <1>1 DEF LimitInv, TakenInOrder
<1>3. DoorShut'
  BY DEF LimitInv, DoorShut
<1>4. QueueLimited'
  BY QueueCases DEF LimitInv
<1>5. NewestIsKept'
  BY DEF NewestIsKept
<1>. QED
  BY <1>2, <1>3, <1>4, <1>5 DEF LimitInv

(* Steps that neither add to the queue nor take from it.                   *)
LEMMA StayLimits ==
  ASSUME TypeOK, LimitInv, UNCHANGED <<latestOnly, queue, queuedBytes, current, lost>>,
         offered' \in {offered, offered + 1}, DoorShut',
         closed => closed', failed => failed', log' \in {log, Append(log, current)}
  PROVE  LimitInv'
<1>1. current \in Nat /\ offered \in Nat /\ log \in Seq(Nat) /\ lost \subseteq Nat
  BY DEF TypeOK
<1>2. TakenInOrder'
  BY <1>1 DEF LimitInv, TakenInOrder
<1>3. QueueLimited'
  BY QueueCases DEF LimitInv, buffer
<1>4. Range(log) \subseteq Range(log)' /\ Ids(queue)' = Ids(queue)
  <2>1. CASE log' = log
    BY <2>1 DEF Range, Ids
  <2>2. CASE log' = Append(log, current)
    BY <2>2, <1>1, RangeOfLog DEF Range, Ids
  <2>. QED
    BY <2>1, <2>2
<1>5. NewestIsKept'
  BY <1>1, <1>4, NewestStays DEF LimitInv
<1>. QED
  BY <1>2, <1>3, <1>5 DEF LimitInv

(* The limits hold, and what they cost is never the newest snapshot of a   *)
(* writer that is open and healthy, nor any event of it: submit() makes    *)
(* room by coalescing snapshots alone.                                     *)
THEOREM LimitsAreKept == Spec => []LimitsKeepTheNewest
<1>1. Init => LimitInv
  <2> SUFFICES ASSUME Init PROVE LimitInv
    OBVIOUS
  <2>1. TakenInOrder /\ DoorShut /\ NewestIsKept
    BY DEF Init, TakenInOrder, DoorShut, NewestIsKept
  <2>2. QueueLimited
    BY BytesOfNone, WriterAssumption DEF Init, QueueLimited
  <2>. QED
    BY <2>1, <2>2 DEF LimitInv
<1>2. TypeOK /\ OrderInv /\ LimitInv /\ [Next]_vars => LimitInv'
  <2> SUFFICES ASSUME TypeOK, OrderInv, LimitInv, [Next]_vars PROVE LimitInv'
    OBVIOUS
  <2>0. UNCHANGED latestOnly
    BY DEF Next, vars
  <2>1. ASSUME NEW size \in Sizes, Submit(size) PROVE LimitInv'
    <3>1. CASE RefuseBarred(size)
      BY <2>0, <3>1, StayLimits
         DEF RefuseBarred, Offer, buffer, thread, flags, calls, LimitInv, DoorShut
    <3>2. CASE RefuseFull(size)
      <4>1. ~latestOnly
        <5>1. size \in Nat /\ Capacity \in Nat \ {0} /\ MaxBytes \in Nat
          BY WriterAssumption
        <5>2. ASSUME latestOnly PROVE FALSE
          <6>1. Len(Kept) = 0 /\ KeptBytes = 0
            BY <5>2 DEF Kept, KeptBytes
          <6>. QED
            BY <3>2, <5>1, <6>1 DEF RefuseFull, Barred, Full
        <5>. QED
          BY <5>2
      <4>2. UNCHANGED <<queue, queuedBytes, lost>>
        BY <3>2, <4>1 DEF RefuseFull, Kept, KeptBytes
      <4>. QED
        BY <2>0, <3>2, <4>2, StayLimits
           DEF RefuseFull, Offer, thread, flags, calls, LimitInv, DoorShut
    <3>3. CASE Accept(size)
      BY <2>0, <3>3, AcceptLimits
    <3>4. CASE AcceptCannotStart(size)
      BY <2>0, <3>4, DropLimits DEF AcceptCannotStart, Offer, ClearQueue, thread, calls
    <3>. QED
      BY <2>1, <3>1, <3>2, <3>3, <3>4 DEF Submit
  <2>2. CASE Top \/ Wake
    <3>1. CASE TakeHead
      BY <2>0, <2>2, <3>1, TakeLimits DEF Top, Wake, flags, entering, calls
    <3>2. CASE ~TakeHead
      BY <2>0, <2>2, <3>2, StayLimits
         DEF Top, Wake, Retire, flags, entering, calls, LimitInv, DoorShut
    <3>. QED
      BY <3>1, <3>2
  <2>3. CASE WriteReturns \/ WriteRaises
    BY <2>0, <2>3, StayLimits
       DEF WriteReturns, WriteRaises, buffer, flags, entering, calls, LimitInv, DoorShut
  <2>4. CASE CountWritten \/ ReportError \/ Settle \/ LeaveFailed
    BY <2>0, <2>4, StayLimits
       DEF CountWritten, ReportError, Settle, LeaveFailed, buffer, flags, entering, calls,
           LimitInv, DoorShut
  <2>5. CASE RecordFailure
    BY <2>0, <2>5, DropLimits DEF RecordFailure, ClearQueue, entering, calls
  <2>6. ASSUME NEW c \in Callers, Caller(c) PROVE LimitInv'
    <3>0. call \in [Callers -> {"idle", "flush", "close", "sweep"}]
      BY DEF TypeOK
    <3>1. CASE BeginFlush(c) \/ BeginClose(c)
      <4>1. DoorShut'
        BY <3>0, <3>1 DEF BeginFlush, BeginClose, Begin, LimitInv, DoorShut
      <4>. QED
        BY <2>0, <3>1, <4>1, StayLimits
           DEF BeginFlush, BeginClose, Begin, buffer, thread, entering
    <3>2. CASE FlushDrained(c) \/ FlushTimesOut(c)
      <4>1. DoorShut'
        BY <3>0, <3>2
           DEF FlushDrained, FlushTimesOut, Waiting, AfterWait, LimitInv, DoorShut, flags
      <4>. QED
        BY <2>0, <3>2, <4>1, StayLimits
           DEF FlushDrained, FlushTimesOut, buffer, thread, flags, entering
    <3>3. CASE Sweep(c)
      <4>1. DoorShut' /\ closed
        BY <3>0, <3>3 DEF Sweep, LimitInv, DoorShut, flags
      <4>. QED
        BY <2>0, <3>3, <4>1, DropLimits DEF Sweep, ClearQueue, thread, flags, entering
    <3>. QED
      BY <2>6, <3>1, <3>2, <3>3 DEF Caller
  <2>7. CASE Fork
    <3>1. TakenInOrder' /\ DoorShut' /\ NewestIsKept'
      BY <2>7 DEF Fork, ClearQueue, TypeOK, TakenInOrder, DoorShut, NewestIsKept
    <3>2. QueueLimited'
      BY <2>0, <2>7, QueueCases DEF Fork, ClearQueue, LimitInv
    <3>. QED
      BY <3>1, <3>2 DEF LimitInv
  <2>8. CASE UNCHANGED vars
    BY <2>8, StayLimits
       DEF vars, moving, buffer, thread, flags, entering, calls, LimitInv, DoorShut
  <2>. QED
    BY <2>1, <2>2, <2>3, <2>4, <2>5, <2>6, <2>7, <2>8 DEF Next, WriterThread, Callback
<1>3. LimitInv => LimitsKeepTheNewest
  BY DEF LimitInv, QueueLimited, Bytes, WithinLimits, LimitsKeepTheNewest
<1>. QED
  BY <1>1, <1>2, <1>3, Typing, OrderIsInvariant, PTL DEF Spec
=============================================================================
