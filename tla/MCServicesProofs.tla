-------------------------- MODULE MCServicesProofs --------------------------
(***************************************************************************)
(* Proofs about the services that MCServices puts side by side, each for   *)
(* any of its bounds and whatever the others do.                           *)
(***************************************************************************)
EXTENDS MCServices, FiniteSetTheorems, TLAPS

-----------------------------------------------------------------------------
(* The diagnosis.  The steps that a run of it has in hand are settled,     *)
(* unfinished and not in hand twice; what their reports owe is in hand     *)
(* too; and a finalizer that is not cheated of its wait takes all of them. *)

(* What is known of a step's clocks: one that was attempted had settled,   *)
(* and a deadline is never earlier than its evidence settles.              *)
SettleInv ==
  \A s \in Steps :
    /\ reported[s] = "absent" => wait[s] = Never /\ since[s] = Never
    /\ reported[s] \in {"provisional", "final"} \/ since[s] # Never => age[s] = Settle
    /\ wait[s] # Never => Settle <= age[s] + wait[s]

(* Where run_once can be in each process.                                  *)
ProcessInv ==
  /\ mode \in {"off", "ended", "finished"} => at = "idle"
  /\ mode \in {"ended", "final", "finished"} => \A s \in Steps : reported[s] # "absent"
  /\ mode = "final" => at # "periodic"
  /\ at = "failed" => ~smooth

Ahead == {"repair", "next", "analyze"}    (* the head of batch is to be analysed *)
Behind == {"journaled", "published"}      (* the head of batch has its report    *)

Later == IF at \in Behind THEN (DOMAIN batch) \ {1} ELSE DOMAIN batch

(* A batch has settled, unfinished steps, none of them twice.              *)
BatchInv ==
  /\ at \in {"analyze"} \cup Behind => batch # <<>>
  /\ at \in Ahead \cup Behind =>
       /\ \A i \in DOMAIN batch : reported[batch[i]] # "absent" /\ age[batch[i]] = Settle
       /\ \A i, j \in DOMAIN batch : batch[i] = batch[j] => i = j
       /\ \A i \in Later : batch[i] \in Unfinished

(* What is not projected is on the list of the repair, or in hand.         *)
FilesInv ==
  /\ missing \subseteq {s \in Steps : reported[s] = "final"}
  /\ at = "repair" => Unprojected \subseteq missing
  /\ at \in Behind => Unprojected \subseteq {Head(batch)}
  /\ at = "published" => fresh

Promised == smooth /\ Settle <= Budget

(* A finalizer waits for all that is unfinished, and takes all of it.      *)
FinalizerInv ==
  Promised /\ mode = "final" =>
    /\ at = "waiting" => \A s \in Unfinished : wait[s] # Never /\ wait[s] <= left
    /\ at \in Ahead \cup Behind => \A s \in Unfinished : \E i \in Later : batch[i] = s
    /\ at = "end" => Unfinished = {}

-----------------------------------------------------------------------------
(* The longest time that is counted covers both periods.                   *)
LEMMA LongestPeriod ==
  Longest \in Nat /\ Settle <= Longest /\ Retry <= Longest
<1>1. Settle \in Nat /\ Retry \in Nat
  BY ScheduleAssumption
<1>2. \E t \in {Settle, Retry} : \A u \in {Settle, Retry} : t >= u
  BY <1>1
<1>3. /\ Longest \in {Settle, Retry}
      /\ \A u \in {Settle, Retry} : Longest >= u
  BY <1>2 DEF Longest, Max
<1>. QED
  BY <1>1, <1>3

(* The members of a set of steps in their order are a sequence that has    *)
(* each of them once.                                                      *)
LEMMA OrderOfSteps ==
  ASSUME NEW S \in SUBSET Steps, NEW q \in InOrder(S)
  PROVE  /\ q \in Seq(Steps) /\ DOMAIN q = 1..Len(q) /\ Len(q) \in Nat
         /\ \A i \in DOMAIN q : q[i] \in S
         /\ \A s \in S : \E i \in DOMAIN q : q[i] = s
         /\ \A i, j \in DOMAIN q : q[i] = q[j] => i = j
<1>1. Cardinality(S) \in Nat
  <2>1. IsFiniteSet(Steps)
    BY ScheduleAssumption, FS_Interval DEF Steps
  <2>. QED
    BY <2>1, FS_Subset, FS_CardinalityType
<1>2. /\ q \in [1..Cardinality(S) -> S]
      /\ Range(q) = S
      /\ \A i, j \in DOMAIN q : i < j => q[i] < q[j]
  BY DEF InOrder
<1>3. q \in Seq(S) /\ Len(q) = Cardinality(S)
  BY <1>1, <1>2
<1>4. ASSUME NEW i \in DOMAIN q PROVE i \in Int /\ q[i] \in Nat /\ q[i] \in S /\ q[i] \in Steps
  <2>1. i \in Int /\ q[i] \in S /\ q[i] \in Steps
    BY <1>1, <1>2
  <2>. QED
    BY <2>1, ScheduleAssumption DEF Steps
<1>5. ASSUME NEW i \in DOMAIN q, NEW j \in DOMAIN q, q[i] = q[j] PROVE i = j
  <2>1. ~(i < j) /\ ~(j < i)
    BY <1>2, <1>4, <1>5
  <2>. QED
    BY <1>4, <2>1
<1>6. \A s \in S : \E i \in DOMAIN q : q[i] = s
  BY <1>2 DEF Range
<1>7. q \in Seq(Steps)
  BY <1>3
<1>. QED
  BY <1>1, <1>2, <1>3, <1>4, <1>5, <1>6, <1>7

(* What the loop takes of it has each of its steps once; a finalizer takes *)
(* all.                                                                    *)
LEMMA FirstOfSteps ==
  ASSUME NEW S \in SUBSET Steps, NEW q \in InOrder(S)
  PROVE  /\ First(q) \in Seq(Steps)
         /\ \A i \in DOMAIN First(q) : First(q)[i] \in S
         /\ \A i, j \in DOMAIN First(q) : First(q)[i] = First(q)[j] => i = j
         /\ mode = "final" => \A s \in S : \E i \in DOMAIN First(q) : First(q)[i] = s
<1>1. /\ q \in Seq(Steps) /\ DOMAIN q = 1..Len(q) /\ Len(q) \in Nat
      /\ \A i \in DOMAIN q : q[i] \in S
      /\ \A s \in S : \E i \in DOMAIN q : q[i] = s
      /\ \A i, j \in DOMAIN q : q[i] = q[j] => i = j
  BY OrderOfSteps
<1>2. CASE mode = "final" \/ Len(q) <= MaxRecords
  BY <1>1, <1>2 DEF First
<1>3. CASE ~(mode = "final" \/ Len(q) <= MaxRecords)
  <2>1. First(q) = SubSeq(q, 1, MaxRecords)
    BY <1>3 DEF First
  <2>2. MaxRecords \in Nat /\ 1 <= MaxRecords /\ MaxRecords <= Len(q)
    BY <1>1, <1>3, ScheduleAssumption
  <2>3. First(q) \in Seq(Steps) /\ Len(First(q)) = MaxRecords
        /\ \A i \in 1..MaxRecords : First(q)[i] = q[i]
    BY <1>1, <2>1, <2>2
  <2>4. DOMAIN First(q) = 1..MaxRecords /\ 1..MaxRecords \subseteq DOMAIN q
    BY <1>1, <2>2, <2>3
  <2>. QED
    BY <1>1, <1>3, <2>3, <2>4
<1>. QED
  BY <1>2, <1>3

LEMMA SettleLeftType ==
  ASSUME ScheduleTypeOK, NEW s \in Steps, NEW sameAxis \in BOOLEAN
  PROVE  SettleLeft(s, sameAxis) \in 0..Settle
<1>1. Settle \in Nat /\ age[s] \in 0..Settle /\ since[s] \in 0..Longest \cup {Never}
  BY ScheduleAssumption DEF ScheduleTypeOK
<1>2. Longest \in Nat
  BY LongestPeriod
<1> DEFINE byAge == Settle - (IF sameAxis THEN age[s] ELSE 0)
           bySince == IF since[s] < Settle THEN Settle - since[s] ELSE 0
<1>3. byAge \in 0..Settle
  BY <1>1
<1>4. CASE since[s] = Never
  BY <1>3, <1>4 DEF SettleLeft
<1>5. CASE since[s] # Never
  <2>1. bySince \in 0..Settle
    BY <1>1, <1>2, <1>5
  <2>2. SettleLeft(s, sameAxis) \in {byAge, bySince}
    BY <1>5 DEF SettleLeft, AtMost
  <2>. QED
    BY <1>3, <2>1, <2>2
<1>. QED
  BY <1>4, <1>5

LEMMA DeadlineTypes ==
  ASSUME ScheduleTypeOK, NEW sameAxis \in BOOLEAN
  PROVE  Deadlines(sameAxis) \in [Steps -> 0..Settle \cup {Never}]
<1>1. ASSUME NEW s \in Steps PROVE Deadlines(sameAxis)[s] \in 0..Settle \cup {Never}
  <2>1. wait[s] \in 0..Settle \cup {Never} /\ SettleLeft(s, sameAxis) \in 0..Settle
    BY SettleLeftType DEF ScheduleTypeOK
  <2>. QED
    BY <2>1 DEF Deadlines
<1>. QED
  BY <1>1 DEF Deadlines

(* A finalizer awaits its evidence, or a batch is taken.                   *)
LEMMA PrepareCases ==
  ASSUME ScheduleTypeOK, Prepare
  PROVE  \E sameAxis \in BOOLEAN :
           /\ wait' = Deadlines(sameAxis)
           /\ \/ /\ mode = "final" /\ at = "idle"
                 /\ \E longest \in 1..Settle :
                      /\ \A s \in Steps :
                           Deadlines(sameAxis)[s] # Never => Deadlines(sameAxis)[s] <= longest
                      /\ \E s \in Steps : Deadlines(sameAxis)[s] = longest
                      /\ Await(longest)
              \/ /\ mode = "final" /\ at = "idle" =>
                      \A s \in Steps : Deadlines(sameAxis)[s] \in {0, Never}
                 /\ Take(Deadlines(sameAxis))
<1>0. PICK sameAxis \in BOOLEAN :
        /\ wait' = Deadlines(sameAxis)
        /\ \E longest \in Waits(Deadlines(sameAxis)) :
             /\ \A other \in Waits(Deadlines(sameAxis)) : other <= longest
             /\ IF mode = "final" /\ at = "idle" /\ longest > 0
                  THEN Await(longest) ELSE Take(Deadlines(sameAxis))
  BY DEF Prepare
<1>1. PICK longest \in Waits(Deadlines(sameAxis)) :
        /\ \A other \in Waits(Deadlines(sameAxis)) : other <= longest
        /\ IF mode = "final" /\ at = "idle" /\ longest > 0
             THEN Await(longest) ELSE Take(Deadlines(sameAxis))
  BY <1>0
<1> DEFINE deadlines == Deadlines(sameAxis)
<1>2. deadlines \in [Steps -> 0..Settle \cup {Never}] /\ Settle \in Nat /\ Never \notin Nat
  BY DeadlineTypes, ScheduleAssumption
<1>3. \A s \in Steps : deadlines[s] # Never =>
        deadlines[s] <= longest /\ deadlines[s] \in 0..Settle
  BY <1>1, <1>2 DEF Waits
<1>4. longest \in 0..Settle /\ (longest > 0 => \E s \in Steps : deadlines[s] = longest)
  BY <1>2 DEF Waits
<1> HIDE DEF deadlines
<1>5. CASE mode = "final" /\ at = "idle" /\ longest > 0
  <2>1. longest \in 1..Settle
    BY <1>2, <1>4, <1>5
  <2>. QED
    BY <1>0, <1>1, <1>3, <1>4, <1>5, <2>1 DEF deadlines
<1>6. CASE ~(mode = "final" /\ at = "idle" /\ longest > 0)
  <2>1. mode = "final" /\ at = "idle" => \A s \in Steps : deadlines[s] \in {0, Never}
    BY <1>2, <1>3, <1>4, <1>6
  <2>. QED
    BY <1>0, <1>1, <1>6, <2>1 DEF deadlines
<1>. QED
  BY <1>5, <1>6
-----------------------------------------------------------------------------
(* The variables keep their types.                                         *)
LEMMA TypeKept ==
  ASSUME ScheduleTypeOK, BatchInv, [ScheduleNext]_schedule
  PROVE  ScheduleTypeOK'
<1>1. ASSUME NEW s \in Steps, Observe(s) PROVE ScheduleTypeOK'
  BY <1>1 DEF Observe, ScheduleTypeOK, files, run
<1>2. CASE Tick
  <2>1. /\ Settle \in Nat /\ Longest \in Nat /\ Interval \in Nat /\ Never \notin Nat
    BY ScheduleAssumption, LongestPeriod
  <2>2. \A n \in Nat : \A t \in 0..n \cup {Never} :
          Less(t) \in 0..n \cup {Never} /\ More(t, n) \in 0..n \cup {Never}
    BY <2>1 DEF Less, More
  <2>3. \A n \in Nat : \A t \in 0..n : Less(t) \in 0..n /\ More(t, n) \in 0..n
    BY <2>1 DEF Less, More
  <2>4. age' \in [Steps -> 0..Settle]
    BY <1>2, <2>1, <2>3 DEF Tick, ScheduleTypeOK
  <2>5. wait' \in [Steps -> 0..Settle \cup {Never}]
    BY <1>2, <2>1, <2>2 DEF Tick, ScheduleTypeOK
  <2>6. since' \in [Steps -> 0..Longest \cup {Never}]
    BY <1>2, <2>1, <2>2 DEF Tick, ScheduleTypeOK
  <2>7. due' \in [Steps -> 0..Interval]
    BY <1>2, <2>1, <2>3 DEF Tick, ScheduleTypeOK
  <2>8. attempt' \in 0..Longest
    BY <1>2, <2>1, <2>3 DEF Tick, ScheduleTypeOK
  <2>9. left' \in Nat
    BY <1>2, <2>1 DEF Tick, ScheduleTypeOK, Less
  <2>. QED
    BY <1>2, <2>4, <2>5, <2>6, <2>7, <2>8, <2>9 DEF Tick, ScheduleTypeOK, files
<1>3. CASE Prepare
  <2>1. PICK sameAxis \in BOOLEAN :
          /\ wait' = Deadlines(sameAxis)
          /\ (\E longest \in 1..Settle : Await(longest)) \/ Take(Deadlines(sameAxis))
    BY <1>3, PrepareCases
  <2>2. wait' \in [Steps -> 0..Settle \cup {Never}]
    BY <2>1, DeadlineTypes
  <2>3. at' \in {"waiting", "repair"} /\ batch' \in Seq(Steps) /\ missing' \subseteq Steps
        /\ left' \in Nat
    <3>1. CASE \E longest \in 1..Settle : Await(longest)
      BY <3>1, ScheduleAssumption DEF Await, AtMost, ScheduleTypeOK
    <3>2. CASE Take(Deadlines(sameAxis))
      <4>1. Pending(Deadlines(sameAxis)) \subseteq Steps /\ Unprojected \subseteq Steps
        BY DEF Pending, Ready, Unfinished, Unprojected
      <4>. QED
        BY <3>2, <4>1, FirstOfSteps DEF Take
    <3>. QED
      BY <2>1, <3>1, <3>2
  <2>. QED
    BY <1>3, <2>2, <2>3 DEF Prepare, ScheduleTypeOK, journal, files
<1>4. CASE PrepareFails
  <2>1. wait' \in [Steps -> 0..Settle \cup {Never}] /\ faults' \in Nat
    BY <1>4 DEF PrepareFails, Fault, ScheduleTypeOK
  <2>. QED
    BY <1>4, <2>1 DEF PrepareFails, ScheduleTypeOK, journal
<1>5. CASE Repair
  BY <1>5 DEF Repair, ScheduleTypeOK, journal, clocks
<1>6. CASE Analyze
  BY <1>6, LongestPeriod DEF Analyze, ScheduleTypeOK, journal, files, clocks
<1>7. CASE Journal
  <2>0. batch # <<>>
    BY <1>7 DEF Journal, BatchInv
  <2>1. ASSUME batch # <<>> PROVE ScheduleTypeOK'
    <3> DEFINE s == Head(batch)
    <3>1. s \in Steps
      BY <2>1 DEF ScheduleTypeOK
    <3>2. SinceFirst(s) \in 0..Longest
      BY <3>1 DEF SinceFirst, ScheduleTypeOK
    <3>3. /\ Retry \in Nat /\ Interval \in Nat /\ Longest \in Nat
      BY ScheduleAssumption, LongestPeriod
    <3>4. PICK retryable \in BOOLEAN, failed \in BOOLEAN :
            /\ IF failed THEN Fault ELSE UNCHANGED faults
            /\ reported' = [reported EXCEPT ![s] =
                 IF Provisional(s, retryable) THEN "provisional" ELSE "final"]
            /\ due' = [due EXCEPT ![s] =
                 IF Provisional(s, retryable) THEN AtMost(Interval, Retry - SinceFirst(s)) ELSE 0]
            /\ wait' = IF failed THEN [t \in Steps |-> Never] ELSE wait
            /\ finals' = [finals EXCEPT ![s] = IF Provisional(s, retryable) THEN @ ELSE @ + 1]
      BY <1>7 DEF Journal
    <3> DEFINE status == IF Provisional(s, retryable) THEN "provisional" ELSE "final"
               pause == IF Provisional(s, retryable)
                          THEN AtMost(Interval, Retry - SinceFirst(s)) ELSE 0
               count == IF Provisional(s, retryable) THEN finals[s] ELSE finals[s] + 1
    <3>5. status \in {"provisional", "final"}
      OBVIOUS
    <3>6. pause \in 0..Interval
      BY <3>2, <3>3 DEF Provisional, AtMost
    <3>7. count \in Nat
      BY <3>1 DEF ScheduleTypeOK
    <3>8. /\ reported' = [reported EXCEPT ![s] = status]
          /\ due' = [due EXCEPT ![s] = pause]
          /\ finals' = [finals EXCEPT ![s] = count]
          /\ since' = [since EXCEPT ![s] = SinceFirst(s)]
      BY <1>7, <3>4 DEF Journal
    <3> HIDE DEF s, status, pause, count
    <3>9. reported' \in [Steps -> {"absent", "new", "provisional", "final"}]
      BY <3>5, <3>8 DEF ScheduleTypeOK
    <3>10. due' \in [Steps -> 0..Interval] /\ finals' \in [Steps -> Nat]
      BY <3>6, <3>7, <3>8 DEF ScheduleTypeOK
    <3>11. since' \in [Steps -> 0..Longest \cup {Never}]
      BY <3>2, <3>8 DEF ScheduleTypeOK
    <3>12. wait' \in [Steps -> 0..Settle \cup {Never}] /\ faults' \in Nat
      BY <3>4 DEF ScheduleTypeOK, Fault
    <3>13. attempt' \in 0..Longest /\ at' = "journaled" /\ fresh' = FALSE
           /\ UNCHANGED <<projected, age, mode, batch, missing, left, smooth>>
      BY <1>7, <3>3 DEF Journal
    <3>. QED
      BY <3>9, <3>10, <3>11, <3>12, <3>13 DEF ScheduleTypeOK
  <2>. QED
    BY <2>0, <2>1
<1>8. CASE Publish
  BY <1>8 DEF Publish, ScheduleTypeOK, journal, clocks
<1>9. CASE Project
  <2>1. Head(batch) \in Steps /\ Tail(batch) \in Seq(Steps)
    BY <1>9 DEF Project, BatchInv, Behind, ScheduleTypeOK
  <2>. QED
    BY <1>9, <2>1 DEF Project, ScheduleTypeOK, journal, clocks
<1>10. CASE BatchDone
  BY <1>10 DEF BatchDone, ScheduleTypeOK, journal, clocks
<1>11. CASE EndRun
  BY <1>11 DEF EndRun, ScheduleTypeOK, journal, files, clocks
<1>12. ASSUME NEW what \in {"loop", "final"}, Begin(what) PROVE ScheduleTypeOK'
  BY <1>12 DEF Begin, ScheduleTypeOK, journal, files, clocks, run
<1>13. ASSUME NEW after \in {"off", "ended"}, Lose(after),
              reported' = reported, age' = age, finals' = finals,
              fresh' = fresh, projected' = projected,
              smooth' = smooth, faults' \in Nat,
              \/ since' = since /\ due' = due
              \/ since' = [s \in Steps |-> Never] /\ due' = [s \in Steps |-> 0]
       PROVE  ScheduleTypeOK'
  <2>1. 0 \in 0..Interval /\ 0 \in 0..Longest
    BY ScheduleAssumption, LongestPeriod
  <2>2. since' \in [Steps -> 0..Longest \cup {Never}] /\ due' \in [Steps -> 0..Interval]
    BY <1>13, <2>1 DEF ScheduleTypeOK
  <2>3. wait' \in [Steps -> 0..Settle \cup {Never}]
    BY <1>13 DEF Lose
  <2>. QED
    BY <1>13, <2>1, <2>2, <2>3 DEF Lose, ScheduleTypeOK
<1>14. faults' = faults + 1 => faults' \in Nat
  BY DEF ScheduleTypeOK
<1>15. CASE Crash
  <2>1. PICK after \in {"off", "ended"} : Lose(after)
    BY <1>15 DEF Crash
  <2>2. /\ reported' = reported /\ age' = age /\ finals' = finals /\ smooth' = smooth
        /\ fresh' = fresh /\ projected' = projected /\ since' = since /\ due' = due
        /\ faults' = faults + 1
    BY <1>15 DEF Crash, Fault, journal, files
  <2>. QED
    BY <1>13, <1>14, <2>1, <2>2
<1>16. CASE Reboot
  BY <1>13, <1>14, <1>16 DEF Reboot, Fault, files
<1>17. CASE StopLoop
  <2>1. faults' \in Nat
    BY <1>17 DEF StopLoop, ScheduleTypeOK
  <2>2. /\ reported' = reported /\ age' = age /\ finals' = finals /\ smooth' = smooth
        /\ fresh' = fresh /\ projected' = projected /\ since' = since /\ due' = due
        /\ Lose("ended")
    BY <1>17 DEF StopLoop, journal, files
  <2>. QED
    BY <1>13, <2>1, <2>2
<1>18. CASE UNCHANGED schedule
  <2>1. /\ reported' = reported /\ age' = age /\ wait' = wait /\ since' = since
        /\ due' = due /\ finals' = finals /\ fresh' = fresh /\ projected' = projected
        /\ mode' = mode /\ at' = at /\ batch' = batch /\ missing' = missing
        /\ attempt' = attempt /\ left' = left /\ smooth' = smooth /\ faults' = faults
    BY <1>18 DEF schedule, journal, files, clocks, run
  <2>. QED
    BY <2>1 DEF ScheduleTypeOK
<1>. QED
  BY <1>1, <1>2, <1>3, <1>4, <1>5, <1>6, <1>7, <1>8, <1>9, <1>10, <1>11, <1>12, <1>15,
     <1>16, <1>17, <1>18 DEF ScheduleNext, Process
-----------------------------------------------------------------------------
(* The deadline of a step is not before its evidence settles, so a step    *)
(* that is ready has settled.                                              *)
LEMMA DeadlineIsSafe ==
  ASSUME ScheduleTypeOK, SettleInv, NEW s \in Steps, NEW sameAxis \in BOOLEAN
  PROVE  LET deadline == Deadlines(sameAxis)[s] IN
           /\ reported[s] = "absent" => deadline = Never
           /\ deadline # Never => Settle <= age[s] + deadline
           /\ s \in Unfinished /\ deadline \in {Never, 0} => age[s] = Settle
<1> DEFINE deadline == Deadlines(sameAxis)[s]
<1>1. /\ Settle \in Nat /\ Never \notin Nat /\ Longest \in Nat
      /\ age[s] \in 0..Settle /\ wait[s] \in 0..Settle \cup {Never}
      /\ since[s] \in 0..Longest \cup {Never}
  BY ScheduleAssumption, LongestPeriod DEF ScheduleTypeOK
<1>2. deadline = IF s \notin Unfinished \/ Settle = 0 THEN Never
                 ELSE IF wait[s] # Never THEN wait[s] ELSE SettleLeft(s, sameAxis)
  BY DEF Deadlines
<1>3. Settle <= age[s] + SettleLeft(s, sameAxis)
  <2>1. since[s] # Never => age[s] = Settle
    BY DEF SettleInv
  <2>2. SettleLeft(s, sameAxis) \in 0..Settle
    BY SettleLeftType
  <2>3. CASE since[s] # Never
    BY <1>1, <2>1, <2>2, <2>3
  <2>4. CASE since[s] = Never
    BY <1>1, <2>4 DEF SettleLeft
  <2>. QED
    BY <2>3, <2>4
<1>4. wait[s] # Never => Settle <= age[s] + wait[s]
  BY DEF SettleInv
<1>5. reported[s] = "absent" => deadline = Never
  BY <1>2 DEF Unfinished
<1>6. deadline # Never => Settle <= age[s] + deadline
  BY <1>2, <1>3, <1>4
<1>7. ASSUME s \in Unfinished, deadline \in {Never, 0} PROVE age[s] = Settle
  <2>1. CASE Settle = 0
    BY <1>1, <2>1
  <2>2. CASE Settle # 0
    <3>1. deadline # Never
      BY <1>1, <1>2, <1>7, <2>2, SettleLeftType
    <3>. QED
      BY <1>1, <1>6, <1>7, <3>1
  <2>. QED
    BY <2>1, <2>2
<1>. QED
  BY <1>5, <1>6, <1>7

(* An engine that is replaced, or a process that is gone, forgets.         *)
LEMMA Forgotten ==
  ASSUME SettleInv, reported' = reported, age' = age, wait' = [s \in Steps |-> Never],
         since' = since \/ since' = [s \in Steps |-> Never]
  PROVE  SettleInv'
BY DEF SettleInv

(* An attempt that has ended was made on settled evidence.                 *)
LEMMA HeadInHand ==
  ASSUME ScheduleTypeOK, BatchInv, at = "analyze"
  PROVE  /\ batch # <<>> /\ 1 \in DOMAIN batch /\ Head(batch) = batch[1]
         /\ Head(batch) \in Steps /\ Head(batch) \in Unfinished
         /\ age[Head(batch)] = Settle
<1>1. batch # <<>> /\ batch \in Seq(Steps)
  BY DEF BatchInv, ScheduleTypeOK
<1>2. 1 \in DOMAIN batch /\ Head(batch) = batch[1] /\ Head(batch) \in Steps
  BY <1>1
<1>3. at \in Ahead /\ Later = DOMAIN batch
  BY DEF Ahead, Behind, Later
<1>. QED
  BY <1>1, <1>2, <1>3 DEF BatchInv

LEMMA SettleKept ==
  ASSUME ScheduleTypeOK, SettleInv, BatchInv, [ScheduleNext]_schedule
  PROVE  SettleInv'
<1>1. ASSUME NEW s \in Steps, Observe(s) PROVE SettleInv'
  <2>1. wait[s] = Never /\ since[s] = Never /\ reported[s] = "absent"
    BY <1>1 DEF Observe, SettleInv
  <2>2. PICK late \in 0..Settle :
          /\ reported' = [reported EXCEPT ![s] = "new"]
          /\ age' = [age EXCEPT ![s] = late]
          /\ wait' = wait /\ since' = since
    BY <1>1 DEF Observe
  <2>3. ASSUME NEW t \in Steps
        PROVE  /\ reported'[t] = "absent" => wait'[t] = Never /\ since'[t] = Never
               /\ reported'[t] \in {"provisional", "final"} \/ since'[t] # Never
                    => age'[t] = Settle
               /\ wait'[t] # Never => Settle <= age'[t] + wait'[t]
    <3>1. CASE t = s
      BY <2>1, <2>2, <3>1 DEF ScheduleTypeOK
    <3>2. CASE t # s
      BY <2>2, <3>2 DEF ScheduleTypeOK, SettleInv
    <3>. QED
      BY <3>1, <3>2
  <2>. QED
    BY <2>3 DEF SettleInv
<1>2. CASE Tick
  <2>1. ASSUME NEW s \in Steps
        PROVE  /\ reported'[s] = "absent" => wait'[s] = Never /\ since'[s] = Never
               /\ reported'[s] \in {"provisional", "final"} \/ since'[s] # Never
                    => age'[s] = Settle
               /\ wait'[s] # Never => Settle <= age'[s] + wait'[s]
    <3>1. /\ Settle \in Nat /\ Never \notin Nat /\ Longest \in Nat
          /\ age[s] \in 0..Settle /\ wait[s] \in 0..Settle \cup {Never}
          /\ since[s] \in 0..Longest \cup {Never}
      BY ScheduleAssumption, LongestPeriod DEF ScheduleTypeOK
    <3>2. /\ reported' = reported
          /\ age'[s] = IF reported[s] = "absent" THEN 0 ELSE More(age[s], Settle)
          /\ wait'[s] = Less(wait[s]) /\ since'[s] = More(since[s], Longest)
      BY <1>2 DEF Tick
    <3>3. /\ reported[s] = "absent" => wait[s] = Never /\ since[s] = Never
          /\ reported[s] \in {"provisional", "final"} \/ since[s] # Never => age[s] = Settle
          /\ wait[s] # Never => Settle <= age[s] + wait[s]
      BY DEF SettleInv
    <3>4. Less(Never) = Never /\ More(Never, Longest) = Never
      BY DEF Less, More
    <3>5. CASE reported[s] = "absent"
      BY <3>2, <3>3, <3>4, <3>5
    <3>6. CASE reported[s] # "absent"
      <4>1. age'[s] = IF age[s] = Settle THEN Settle ELSE age[s] + 1
        BY <3>1, <3>2, <3>6 DEF More
      <4>2. since'[s] # Never => since[s] # Never
        BY <3>2, <3>4
      <4>3. wait'[s] # Never => /\ wait[s] # Never
                                /\ wait'[s] = IF wait[s] = 0 THEN 0 ELSE wait[s] - 1
        BY <3>2, <3>4 DEF Less
      <4>4. wait'[s] # Never => Settle <= age'[s] + wait'[s]
        BY <3>1, <3>3, <4>1, <4>3
      <4>. QED
        BY <3>2, <3>3, <3>6, <4>1, <4>2, <4>4
    <3>. QED
      BY <3>5, <3>6
  <2>. QED
    BY <2>1 DEF SettleInv
<1>3. CASE Prepare
  <2>1. PICK sameAxis \in BOOLEAN : wait' = Deadlines(sameAxis)
    BY <1>3 DEF Prepare
  <2>2. reported' = reported /\ age' = age /\ since' = since
    BY <1>3 DEF Prepare, journal
  <2>3. ASSUME NEW s \in Steps
        PROVE  /\ reported[s] = "absent" => wait'[s] = Never /\ since[s] = Never
               /\ wait'[s] # Never => Settle <= age[s] + wait'[s]
    BY <2>1, DeadlineIsSafe DEF SettleInv
  <2>. QED
    BY <2>2, <2>3 DEF SettleInv
<1>4. CASE PrepareFails
  BY <1>4, Forgotten DEF PrepareFails, journal
<1>5. CASE Journal
  <2> DEFINE s == Head(batch)
  <2>1. s \in Steps /\ s \in Unfinished /\ age[s] = Settle
    BY <1>5, HeadInHand DEF Journal
  <2>2. /\ age' = age /\ \A t \in Steps : wait'[t] \in {wait[t], Never}
        /\ \A t \in Steps : t # s => reported'[t] = reported[t] /\ since'[t] = since[t]
        /\ reported'[s] \in {"provisional", "final"}
    BY <1>5, <2>1 DEF Journal, ScheduleTypeOK
  <2> HIDE DEF s
  <2>3. ASSUME NEW t \in Steps
        PROVE  /\ reported'[t] = "absent" => wait'[t] = Never /\ since'[t] = Never
               /\ reported'[t] \in {"provisional", "final"} \/ since'[t] # Never
                    => age'[t] = Settle
               /\ wait'[t] # Never => Settle <= age'[t] + wait'[t]
    <3>1. CASE t = s
      BY <2>1, <2>2, <3>1 DEF SettleInv
    <3>2. CASE t # s
      BY <2>2, <3>2 DEF SettleInv
    <3>. QED
      BY <3>1, <3>2
  <2>. QED
    BY <2>3 DEF SettleInv
<1>6. ASSUME UNCHANGED <<reported, age, wait, since>> PROVE SettleInv'
  BY <1>6 DEF SettleInv
<1>7. CASE Repair \/ Analyze \/ Publish \/ Project \/ BatchDone \/ EndRun
  BY <1>6, <1>7 DEF Repair, Analyze, Publish, Project, BatchDone, EndRun, journal, clocks
<1>8. ASSUME NEW what \in {"loop", "final"}, Begin(what) PROVE SettleInv'
  BY <1>6, <1>8 DEF Begin, journal, clocks
<1>9. CASE Crash
  BY <1>9, Forgotten DEF Crash, Lose, journal
<1>10. CASE Reboot
  BY <1>10, Forgotten DEF Reboot, Lose
<1>11. CASE StopLoop
  BY <1>11, Forgotten DEF StopLoop, Lose, journal
<1>12. CASE UNCHANGED schedule
  BY <1>6, <1>12 DEF schedule, journal, clocks
<1>. QED
  BY <1>1, <1>2, <1>3, <1>4, <1>5, <1>7, <1>8, <1>9, <1>10, <1>11, <1>12
     DEF ScheduleNext, Process
-----------------------------------------------------------------------------
(* The process is at no step of a run that its mode does not take.         *)
LEMMA ProcessKept ==
  ASSUME ScheduleTypeOK, ProcessInv, [ScheduleNext]_schedule
  PROVE  ProcessInv'
<1>1. ASSUME NEW s \in Steps, Observe(s) PROVE ProcessInv'
  <2>1. \A t \in Steps : reported'[t] = "absent" => reported[t] = "absent"
    BY <1>1 DEF Observe, ScheduleTypeOK
  <2>. QED
    BY <1>1, <2>1 DEF Observe, ProcessInv, run
<1>2. ASSUME reported' = reported, mode' = mode, smooth' = smooth, mode \in {"loop", "final"},
             at' # "periodic" \/ mode = "loop", at' # "failed"
      PROVE  ProcessInv'
  BY <1>2 DEF ProcessInv
<1>3. ASSUME reported' = reported, mode' = mode, smooth' = smooth, at' = at PROVE ProcessInv'
  BY <1>3 DEF ProcessInv
<1>4. at # "idle" => mode \in {"loop", "final"}
  BY DEF ProcessInv, ScheduleTypeOK
<1>5. Idle => mode \in {"loop", "final"}
  BY DEF Idle
<1>6. CASE Tick
  BY <1>3, <1>6 DEF Tick
<1>7. CASE Prepare
  BY <1>2, <1>4, <1>5, <1>7 DEF Prepare, Await, Take, journal
<1>8. CASE PrepareFails
  BY <1>4, <1>5, <1>8 DEF PrepareFails, ProcessInv, journal
<1>9. CASE Repair
  BY <1>2, <1>3, <1>4, <1>9 DEF Repair, journal
<1>10. CASE Analyze
  BY <1>2, <1>4, <1>10 DEF Analyze, journal
<1>11. CASE Journal
  <2>1. \A t \in Steps : reported'[t] = "absent" => reported[t] = "absent"
    BY <1>11 DEF Journal, ScheduleTypeOK
  <2>. QED
    BY <1>4, <1>11, <2>1 DEF Journal, ProcessInv
<1>12. CASE Publish
  BY <1>2, <1>4, <1>12 DEF Publish, journal
<1>13. CASE Project
  BY <1>2, <1>4, <1>13 DEF Project, journal
<1>14. CASE BatchDone
  BY <1>2, <1>4, <1>14 DEF BatchDone, journal
<1>15. CASE EndRun
  BY <1>4, <1>15 DEF EndRun, ProcessInv, journal
<1>16. ASSUME NEW what \in {"loop", "final"}, Begin(what) PROVE ProcessInv'
  BY <1>16 DEF Begin, ProcessInv, journal, run
<1>17. CASE Crash
  BY <1>17 DEF Crash, Lose, ProcessInv, journal
<1>18. CASE Reboot
  BY <1>18 DEF Reboot, Lose, ProcessInv, ScheduleTypeOK
<1>19. CASE StopLoop
  BY <1>19 DEF StopLoop, Lose, ProcessInv, journal
<1>20. CASE UNCHANGED schedule
  BY <1>3, <1>20 DEF schedule, journal, run
<1>. QED
  BY <1>1, <1>6, <1>7, <1>8, <1>9, <1>10, <1>11, <1>12, <1>13, <1>14, <1>15, <1>16, <1>17,
     <1>18, <1>19, <1>20 DEF ScheduleNext, Process
-----------------------------------------------------------------------------
(* A batch is taken of what is ready, and goes through it once.            *)
LEMMA BatchTaken ==
  ASSUME ScheduleTypeOK, SettleInv, NEW sameAxis \in BOOLEAN, Take(Deadlines(sameAxis)),
         reported' = reported, age' = age
  PROVE  BatchInv'
<1> DEFINE ready == Pending(Deadlines(sameAxis))
<1>1. ready \subseteq Steps
      /\ \A s \in ready : s \in Unfinished /\ Deadlines(sameAxis)[s] \in {Never, 0}
  BY DEF Pending, Ready, Unfinished
<1>2. \A s \in ready : s \in Unfinished /\ reported[s] # "absent" /\ age[s] = Settle
  BY <1>1, DeadlineIsSafe DEF Unfinished
<1>3. PICK sorted \in InOrder(ready) : batch' = First(sorted)
  BY DEF Take
<1>4. /\ \A i \in DOMAIN batch' : batch'[i] \in ready
      /\ \A i, j \in DOMAIN batch' : batch'[i] = batch'[j] => i = j
  BY <1>1, <1>3, FirstOfSteps
<1>5. at' = "repair" /\ Unfinished' = Unfinished
  BY DEF Take, Unfinished
<1> HIDE DEF ready
<1>. QED
  BY <1>2, <1>4, <1>5 DEF BatchInv, Behind, Later

LEMMA BatchKept ==
  ASSUME ScheduleTypeOK, SettleInv, BatchInv, [ScheduleNext]_schedule
  PROVE  BatchInv'
<1>1. ASSUME NEW s \in Steps, Observe(s) PROVE BatchInv'
  <2>1. UNCHANGED <<at, batch>> /\ reported[s] = "absent"
    BY <1>1 DEF Observe, run
  <2>2. /\ \A t \in Steps : t # s => reported'[t] = reported[t] /\ age'[t] = age[t]
    BY <1>1 DEF Observe, ScheduleTypeOK
  <2>3. \A i \in DOMAIN batch : batch[i] \in Steps
    BY DEF ScheduleTypeOK
  <2>4. \A t \in Steps : t # s => (t \in Unfinished <=> t \in Unfinished')
    BY <2>2 DEF Unfinished
  <2>. QED
    BY <2>1, <2>2, <2>3, <2>4 DEF BatchInv, Later
<1>2. CASE Tick
  <2>1. UNCHANGED <<at, batch, reported>>
    BY <1>2 DEF Tick
  <2>2. \A i \in DOMAIN batch : batch[i] \in Steps
    BY DEF ScheduleTypeOK
  <2>3. \A t \in Steps : reported[t] # "absent" /\ age[t] = Settle => age'[t] = Settle
    BY <1>2 DEF Tick, More
  <2>. QED
    BY <2>1, <2>2, <2>3 DEF BatchInv, Later, Unfinished
<1>3. CASE Prepare
  <2>1. PICK sameAxis \in BOOLEAN :
          (\E longest \in 1..Settle : Await(longest)) \/ Take(Deadlines(sameAxis))
    BY <1>3, PrepareCases
  <2>2. CASE \E longest \in 1..Settle : Await(longest)
    BY <2>2 DEF Await, BatchInv, Ahead, Behind
  <2>3. CASE Take(Deadlines(sameAxis))
    BY <1>3, <2>3, BatchTaken DEF Prepare, journal
  <2>. QED
    BY <2>1, <2>2, <2>3
<1>4. ASSUME at' \notin Ahead \cup Behind PROVE BatchInv'
  BY <1>4 DEF BatchInv, Ahead
<1>5. CASE PrepareFails \/ EndRun \/ Crash \/ Reboot \/ StopLoop
  BY <1>4, <1>5 DEF PrepareFails, EndRun, Crash, Reboot, StopLoop, Lose, Ahead, Behind
<1>6. ASSUME UNCHANGED <<batch, reported, age>>, at \in Ahead, at' \in Ahead,
             at' = "analyze" => batch # <<>>
      PROVE  BatchInv'
  BY <1>6 DEF BatchInv, Ahead, Behind, Later, Unfinished
<1>7. CASE Repair
  BY <1>6, <1>7 DEF Repair, Ahead, journal, clocks
<1>8. CASE Analyze
  BY <1>6, <1>8 DEF Analyze, Ahead, journal, clocks
<1>9. CASE Journal
  <2> DEFINE s == Head(batch)
  <2>1. s \in Steps /\ 1 \in DOMAIN batch /\ s = batch[1] /\ at = "analyze" /\ batch # <<>>
    BY <1>9, HeadInHand DEF Journal
  <2>2. /\ UNCHANGED <<age, batch>> /\ at' = "journaled"
        /\ \A t \in Steps : t # s => reported'[t] = reported[t]
        /\ reported'[s] # "absent"
    BY <1>9, <2>1 DEF Journal, ScheduleTypeOK
  <2> HIDE DEF s
  <2>3. \A i \in DOMAIN batch : batch[i] \in Steps
    BY DEF ScheduleTypeOK
  <2>4. /\ \A i \in DOMAIN batch : reported[batch[i]] # "absent" /\ age[batch[i]] = Settle
        /\ \A i, j \in DOMAIN batch : batch[i] = batch[j] => i = j
        /\ \A i \in DOMAIN batch : batch[i] \in Unfinished
    BY <2>1 DEF BatchInv, Ahead, Behind, Later
  <2>5. \A i \in (DOMAIN batch) \ {1} : batch[i] # s
    BY <2>1, <2>4
  <2>6. \A i \in (DOMAIN batch) \ {1} : batch[i] \in Unfinished'
    BY <2>2, <2>3, <2>4, <2>5 DEF Unfinished
  <2>7. Later' = (DOMAIN batch) \ {1}
    BY <2>2 DEF Later, Behind
  <2>8. \A i \in DOMAIN batch : reported'[batch[i]] # "absent"
    BY <2>2, <2>3, <2>4
  <2>. QED
    BY <2>1, <2>2, <2>4, <2>6, <2>7, <2>8 DEF BatchInv
<1>10. CASE Publish
  <2>1. UNCHANGED <<batch, reported, age>>
    BY <1>10 DEF Publish, journal, clocks
  <2>2. CASE at = "journaled"
    <3>1. at' = "published"
      BY <1>10, <2>2 DEF Publish
    <3>2. Later' = Later /\ Unfinished' = Unfinished
      BY <2>1, <2>2, <3>1 DEF Later, Behind, Unfinished
    <3>. QED
      BY <2>1, <2>2, <3>1, <3>2 DEF BatchInv, Behind
  <2>3. CASE at # "journaled"
    BY <1>4, <1>10, <2>3 DEF Publish, Ahead, Behind
  <2>. QED
    BY <2>2, <2>3
<1>11. CASE Project
  <2>1. /\ UNCHANGED <<reported, age>> /\ at' = "next" /\ batch' = Tail(batch)
        /\ at = "published"
    BY <1>11 DEF Project, journal, clocks
  <2>2. batch # <<>> /\ batch \in Seq(Steps)
    BY <2>1 DEF BatchInv, Behind, ScheduleTypeOK
  <2>3. /\ DOMAIN batch' = 1..(Len(batch) - 1) /\ DOMAIN batch = 1..Len(batch)
        /\ Len(batch) \in Nat
        /\ \A i \in 1..(Len(batch) - 1) : batch'[i] = batch[i + 1]
    BY <2>1, <2>2
  <2>4. \A i \in DOMAIN batch' : /\ i + 1 \in DOMAIN batch /\ i + 1 # 1 /\ i \in Int
                                 /\ batch'[i] = batch[i + 1]
    BY <2>3
  <2>5. /\ \A i \in DOMAIN batch : reported[batch[i]] # "absent" /\ age[batch[i]] = Settle
        /\ \A i, j \in DOMAIN batch : batch[i] = batch[j] => i = j
        /\ \A i \in (DOMAIN batch) \ {1} : batch[i] \in Unfinished
    BY <2>1 DEF BatchInv, Behind, Later
  <2>6. \A i, j \in DOMAIN batch' : batch'[i] = batch'[j] => i = j
    <3>1. \A i, j \in DOMAIN batch' : batch'[i] = batch'[j] => i + 1 = j + 1
      BY <2>4, <2>5
    <3>. QED
      BY <2>4, <3>1
  <2>7. Unfinished' = Unfinished /\ Later' = DOMAIN batch'
    BY <2>1 DEF Unfinished, Later, Behind
  <2>8. \A i \in DOMAIN batch' : /\ reported[batch'[i]] # "absent" /\ age[batch'[i]] = Settle
                                 /\ batch'[i] \in Unfinished
    BY <2>4, <2>5
  <2>. QED
    BY <2>1, <2>6, <2>7, <2>8 DEF BatchInv, Behind
<1>12. CASE BatchDone
  BY <1>4, <1>12 DEF BatchDone, Ahead, Behind
<1>13. ASSUME UNCHANGED <<at, batch, reported, age>> PROVE BatchInv'
  BY <1>13 DEF BatchInv, Later, Unfinished
<1>14. ASSUME NEW what \in {"loop", "final"}, Begin(what) PROVE BatchInv'
  BY <1>13, <1>14 DEF Begin, journal, clocks, run
<1>15. CASE UNCHANGED schedule
  BY <1>13, <1>15 DEF schedule, journal, clocks, run
<1>. QED
  BY <1>1, <1>2, <1>3, <1>5, <1>7, <1>8, <1>9, <1>10, <1>11, <1>12, <1>14, <1>15
     DEF ScheduleNext, Process
-----------------------------------------------------------------------------
(* What the journal says of a step and the files derived from it.          *)
Settled == {s \in Steps : reported[s] = "final"}
Derived == FilesInv /\ FinalOnce /\ RepairedFirst

LEMMA DerivedKept ==
  ASSUME ScheduleTypeOK, BatchInv, Derived, [ScheduleNext]_schedule
  PROVE  Derived'
<1> USE DEF Derived
<1>1. ASSUME NEW s \in Steps, Observe(s) PROVE Derived'
  <2>1. /\ UNCHANGED <<finals, fresh, projected, at, batch, missing>>
        /\ \A t \in Steps : reported'[t] = "final" <=> reported[t] = "final"
    BY <1>1 DEF Observe, ScheduleTypeOK, files, run
  <2>. QED
    BY <2>1 DEF FilesInv, FinalOnce, RepairedFirst, Unprojected
<1>2. ASSUME UNCHANGED <<reported, finals, fresh, projected, at, batch, missing>>
      PROVE  Derived'
  BY <1>2 DEF FilesInv, FinalOnce, RepairedFirst, Unprojected
<1>3. CASE Tick
  BY <1>2, <1>3 DEF Tick, files
<1>4. ASSUME UNCHANGED <<reported, finals, projected>>, missing' \in {missing, {}},
             at' \notin Ahead \cup Behind
      PROVE  Derived'
  BY <1>4 DEF FilesInv, FinalOnce, RepairedFirst, Ahead, Behind
<1>5. CASE Prepare
  <2>1. UNCHANGED <<reported, finals, fresh, projected>>
    BY <1>5 DEF Prepare, journal, files
  <2>2. PICK sameAxis \in BOOLEAN :
          (\E longest \in 1..Settle : Await(longest)) \/ Take(Deadlines(sameAxis))
    BY <1>5, PrepareCases
  <2>3. CASE \E longest \in 1..Settle : Await(longest)
    BY <1>4, <2>1, <2>3 DEF Await, Ahead, Behind
  <2>4. CASE Take(Deadlines(sameAxis))
    BY <2>1, <2>4 DEF Take, FilesInv, FinalOnce, RepairedFirst, Unprojected, Behind
  <2>. QED
    BY <2>2, <2>3, <2>4
<1>6. CASE PrepareFails
  BY <1>4, <1>6 DEF PrepareFails, journal, Ahead, Behind
<1>7. CASE Repair
  <2>1. at = "repair" /\ UNCHANGED <<reported, finals>>
    BY <1>7 DEF Repair, journal
  <2>2. Unprojected \subseteq missing /\ missing \subseteq Settled
    BY <2>1 DEF FilesInv, Settled
  <2>3. CASE \E s \in missing : /\ projected' = projected \cup {s} /\ missing' = missing \ {s}
                                /\ at' = at
    <3>1. PICK s \in missing : /\ projected' = projected \cup {s} /\ missing' = missing \ {s}
                               /\ at' = at
      BY <2>3
    <3>2. Unprojected' \subseteq missing' /\ projected' \subseteq Settled
      BY <2>1, <2>2, <3>1 DEF Unprojected, Settled, FinalOnce
    <3>. QED
      BY <2>1, <2>2, <3>1, <3>2 DEF FilesInv, FinalOnce, RepairedFirst, Behind, Settled
  <2>4. CASE missing = {} /\ fresh' = TRUE /\ at' = "next" /\ UNCHANGED <<projected, missing>>
    BY <2>1, <2>2, <2>4 DEF FilesInv, FinalOnce, RepairedFirst, Unprojected, Behind
  <2>. QED
    BY <1>7, <2>1, <2>3, <2>4 DEF Repair
<1>8. CASE Analyze
  BY <1>8 DEF Analyze, journal, files, FilesInv, FinalOnce, RepairedFirst, Unprojected, Behind
<1>9. CASE Journal
  <2> DEFINE s == Head(batch)
  <2>1. s \in Steps /\ s \in Unfinished /\ at = "analyze"
    BY <1>9, HeadInHand DEF Journal
  <2>2. /\ UNCHANGED <<projected, missing, batch>> /\ at' = "journaled"
        /\ \A t \in Steps : t # s => reported'[t] = reported[t] /\ finals'[t] = finals[t]
        /\ finals'[s] = IF reported'[s] = "final" THEN finals[s] + 1 ELSE finals[s]
    BY <1>9, <2>1 DEF Journal, ScheduleTypeOK
  <2> HIDE DEF s
  <2>3. finals[s] = 0 /\ reported[s] # "final"
    BY <2>1 DEF FinalOnce, Unfinished
  <2>4. \A t \in Steps : finals'[t] = (IF reported'[t] = "final" THEN 1 ELSE 0)
    <3>1. \A t \in Steps : t # s => finals'[t] = (IF reported'[t] = "final" THEN 1 ELSE 0)
      BY <2>2 DEF FinalOnce
    <3>. QED
      BY <2>2, <2>3, <3>1
  <2>5. Settled \subseteq Settled' /\ Settled' \subseteq Settled \cup {s}
    BY <2>2, <2>3 DEF Settled
  <2>6. Unprojected = {} /\ projected \subseteq Settled /\ missing \subseteq Settled
    BY <2>1 DEF RepairedFirst, FinalOnce, FilesInv, Settled
  <2>7. Unprojected' \subseteq {s}
    BY <2>2, <2>5, <2>6 DEF Unprojected, Settled
  <2>8. projected' \subseteq Settled' /\ missing' \subseteq Settled'
    BY <2>2, <2>5, <2>6
  <2>. QED
    BY <2>2, <2>4, <2>7, <2>8 DEF FilesInv, FinalOnce, RepairedFirst, Behind, Settled, s
<1>10. CASE Publish
  <2>1. UNCHANGED <<reported, finals, projected, batch, missing>> /\ fresh' = TRUE
    BY <1>10 DEF Publish, journal
  <2>2. CASE at = "journaled"
    BY <1>10, <2>1, <2>2 DEF Publish, FilesInv, FinalOnce, RepairedFirst, Unprojected, Behind
  <2>3. CASE at # "journaled"
    BY <1>4, <1>10, <2>1, <2>3 DEF Publish, Ahead, Behind
  <2>. QED
    BY <2>2, <2>3
<1>11. CASE Project
  <2> DEFINE s == Head(batch)
             added == IF reported[s] = "final" THEN {s} ELSE {}
  <2>1. /\ at = "published" /\ at' = "next" /\ UNCHANGED <<reported, finals, fresh, missing>>
        /\ projected' = projected \cup added
    BY <1>11 DEF Project, journal
  <2>2. s \in Steps
    BY <2>1 DEF BatchInv, Behind, ScheduleTypeOK
  <2>3. Unprojected \subseteq {s} /\ fresh /\ missing \subseteq Settled
        /\ projected \subseteq Settled
    BY <2>1 DEF FilesInv, FinalOnce, Behind, Settled
  <2> HIDE DEF s
  <2>4. Unprojected' = {} /\ projected' \subseteq Settled
    BY <2>1, <2>2, <2>3 DEF Unprojected, Settled
  <2>. QED
    BY <2>1, <2>3, <2>4 DEF FilesInv, FinalOnce, RepairedFirst, Behind, Settled
<1>12. CASE BatchDone \/ EndRun
  BY <1>4, <1>12 DEF BatchDone, EndRun, journal, files, Ahead, Behind
<1>13. ASSUME NEW what \in {"loop", "final"}, Begin(what) PROVE Derived'
  BY <1>2, <1>13 DEF Begin, journal, files, run
<1>14. CASE Crash \/ StopLoop
  BY <1>4, <1>14 DEF Crash, StopLoop, Lose, journal, files, Ahead, Behind
<1>15. CASE Reboot
  BY <1>4, <1>15 DEF Reboot, Lose, files, Ahead, Behind
<1>16. CASE UNCHANGED schedule
  BY <1>2, <1>16 DEF schedule, journal, files, run
<1>. QED
  BY <1>1, <1>3, <1>5, <1>6, <1>7, <1>8, <1>9, <1>10, <1>11, <1>12, <1>13, <1>14, <1>15,
     <1>16 DEF ScheduleNext, Process
-----------------------------------------------------------------------------
(* A finalizer that waits out its deadlines takes all that is unfinished.  *)
Finalized == FinalizerInv /\ FinalizerLeavesNothing

LEMMA FinalizerTakesAll ==
  ASSUME ScheduleTypeOK, SettleInv, FinalizerInv, mode = "final", Promised,
         Prepare, NEW sameAxis \in BOOLEAN, wait' = Deadlines(sameAxis),
         at = "idle" => \A s \in Steps : Deadlines(sameAxis)[s] \in {0, Never},
         Take(Deadlines(sameAxis))
  PROVE  \A s \in Unfinished : \E i \in DOMAIN batch' : batch'[i] = s
<1> DEFINE deadlines == Deadlines(sameAxis)
<1>1. ASSUME NEW s \in Unfinished PROVE deadlines[s] \in {0, Never}
  <2>1. CASE at = "idle"
    BY <2>1 DEF Unfinished
  <2>2. CASE at # "idle"
    <3>1. at = "waiting" /\ left = 0
      BY <2>2 DEF Prepare, Idle
    <3>2. s \in Steps /\ wait[s] # Never /\ wait[s] <= 0
      BY <3>1 DEF FinalizerInv, Unfinished
    <3>3. wait[s] = 0
      BY <3>2, ScheduleAssumption DEF ScheduleTypeOK
    <3>. QED
      BY <3>2, <3>3 DEF Deadlines
  <2>. QED
    BY <2>1, <2>2
<1>2. Pending(deadlines) = Unfinished
  BY <1>1 DEF Pending, Ready
<1>3. PICK sorted \in InOrder(Pending(deadlines)) : batch' = First(sorted)
  BY DEF Take
<1>4. Unfinished \subseteq Steps
  BY DEF Unfinished
<1> HIDE DEF deadlines
<1>. QED
  BY <1>2, <1>3, <1>4, FirstOfSteps

LEMMA FinalizedKept ==
  ASSUME ScheduleTypeOK, SettleInv, ProcessInv, BatchInv, Finalized, [ScheduleNext]_schedule
  PROVE  Finalized'
<1> USE DEF Finalized, Promised
<1>1. ASSUME mode' \in {"off", "loop", "ended"} PROVE Finalized'
  BY <1>1 DEF FinalizerInv, FinalizerLeavesNothing
<1>2. ASSUME UNCHANGED <<reported, mode, smooth, at, batch>>,
             ~(mode = "final" /\ at = "waiting") \/ UNCHANGED <<wait, left>>
      PROVE  Finalized'
  <2>1. Unfinished' = Unfinished /\ Later' = Later
    BY <1>2 DEF Unfinished, Later
  <2>. QED
    BY <1>2, <2>1 DEF FinalizerInv, FinalizerLeavesNothing, Ahead, Behind
<1>3. ASSUME NEW s \in Steps, Observe(s) PROVE Finalized'
  BY <1>1, <1>3 DEF Observe, ProcessInv, ScheduleTypeOK
<1>4. CASE Tick
  <2>1. UNCHANGED <<reported, mode, smooth, at, batch>>
    BY <1>4 DEF Tick
  <2>2. CASE mode = "final" /\ at = "waiting" /\ Promised
    <3>1. ASSUME NEW s \in Unfinished PROVE wait'[s] # Never /\ wait'[s] <= left'
      <4>1. s \in Steps /\ wait[s] # Never /\ wait[s] <= left
        BY <2>2 DEF FinalizerInv, Unfinished
      <4>2. wait'[s] = Less(wait[s]) /\ left' = Less(left)
        BY <1>4, <4>1 DEF Tick
      <4>3. wait[s] \in Nat /\ left \in Nat /\ Never \notin Nat
        BY <4>1, ScheduleAssumption DEF ScheduleTypeOK
      <4>. QED
        BY <4>1, <4>2, <4>3 DEF Less
    <3>2. Unfinished' = Unfinished
      BY <2>1 DEF Unfinished
    <3>. QED
      BY <2>1, <2>2, <3>1, <3>2 DEF FinalizerInv, FinalizerLeavesNothing, Ahead, Behind
  <2>3. CASE ~(mode = "final" /\ at = "waiting" /\ Promised)
    <3>1. Unfinished' = Unfinished /\ Later' = Later
      BY <2>1 DEF Unfinished, Later
    <3>. QED
      BY <2>1, <2>3, <3>1 DEF FinalizerInv, FinalizerLeavesNothing
  <2>. QED
    BY <2>2, <2>3
<1>5. ASSUME mode = "final", mode' = "final", smooth' = smooth,
             at' # "waiting",
             Promised /\ at' \in Ahead \cup Behind
               => \A s \in Unfinished' : \E i \in Later' : batch'[i] = s,
             Promised /\ at' = "end" => Unfinished' = {}
      PROVE  Finalized'
  BY <1>5 DEF FinalizerInv, FinalizerLeavesNothing
<1>6. CASE Prepare
  <2>1. UNCHANGED <<reported, mode, smooth>> /\ mode \in {"loop", "final"}
    BY <1>6 DEF Prepare, journal, Idle, ProcessInv, ScheduleTypeOK
  <2>2. CASE mode = "loop"
    BY <1>1, <2>1, <2>2
  <2>3. CASE mode = "final"
    <3>1. PICK sameAxis \in BOOLEAN :
            /\ wait' = Deadlines(sameAxis)
            /\ \/ /\ mode = "final" /\ at = "idle"
                  /\ \E longest \in 1..Settle :
                       /\ \A s \in Steps :
                            Deadlines(sameAxis)[s] # Never => Deadlines(sameAxis)[s] <= longest
                       /\ \E s \in Steps : Deadlines(sameAxis)[s] = longest
                       /\ Await(longest)
               \/ /\ mode = "final" /\ at = "idle" =>
                       \A s \in Steps : Deadlines(sameAxis)[s] \in {0, Never}
                  /\ Take(Deadlines(sameAxis))
      BY <1>6, PrepareCases
    <3>2. CASE Take(Deadlines(sameAxis))
                 /\ (at = "idle" => \A s \in Steps : Deadlines(sameAxis)[s] \in {0, Never})
      <4>1. Promised => \A s \in Unfinished : \E i \in DOMAIN batch' : batch'[i] = s
        BY <1>6, <2>3, <3>1, <3>2, FinalizerTakesAll
      <4>2. at' = "repair" /\ Later' = DOMAIN batch' /\ Unfinished' = Unfinished
        BY <2>1, <3>2 DEF Take, Later, Behind, Unfinished
      <4>. QED
        BY <1>5, <2>1, <2>3, <4>1, <4>2
    <3>3. ASSUME NEW longest \in 1..Settle,
                 \A s \in Steps :
                   Deadlines(sameAxis)[s] # Never => Deadlines(sameAxis)[s] <= longest,
                 Await(longest)
          PROVE  Finalized'
      <4>1. at' = "waiting" /\ left' = AtMost(longest, Budget) /\ Unfinished' = Unfinished
        BY <2>1, <3>3 DEF Await, Unfinished
      <4>2. Promised => left' = longest
        BY <4>1, ScheduleAssumption DEF AtMost
      <4>3. ASSUME NEW s \in Unfinished PROVE wait'[s] # Never /\ wait'[s] <= longest
        <5>1. s \in Steps /\ Settle # 0 /\ Never \notin Nat
          BY ScheduleAssumption DEF Unfinished
        <5>2. wait'[s] = IF wait[s] # Never THEN wait[s] ELSE SettleLeft(s, sameAxis)
          BY <3>1, <5>1 DEF Deadlines
        <5>3. wait'[s] # Never
          BY <5>1, <5>2, SettleLeftType
        <5>. QED
          BY <3>1, <3>3, <5>1, <5>3
      <4>. QED
        BY <2>1, <2>3, <4>1, <4>2, <4>3 DEF FinalizerInv, FinalizerLeavesNothing, Ahead, Behind
    <3>. QED
      BY <2>3, <3>1, <3>2, <3>3
  <2>. QED
    BY <2>1, <2>2, <2>3
<1>7. ASSUME ~smooth' PROVE Finalized'
  BY <1>7 DEF FinalizerInv, FinalizerLeavesNothing
<1>8. CASE PrepareFails
  BY <1>7, <1>8 DEF PrepareFails
<1>9. at # "idle" => mode \in {"loop", "final"}
  BY DEF ProcessInv, ScheduleTypeOK
<1>10. ASSUME UNCHANGED <<reported, mode, smooth, batch>>,
              at \in Ahead, at' \in Ahead
       PROVE  Finalized'
  <2>1. Unfinished' = Unfinished /\ Later' = Later
    BY <1>10 DEF Unfinished, Later, Ahead, Behind
  <2>2. mode \in {"loop", "final"} /\ at' # "waiting" /\ at' # "end"
    BY <1>9, <1>10 DEF Ahead
  <2>. QED
    BY <1>10, <2>1, <2>2 DEF FinalizerInv, FinalizerLeavesNothing
<1>11. CASE Repair \/ Analyze
  BY <1>10, <1>11 DEF Repair, Analyze, journal, Ahead
<1>12. CASE Journal
  <2>1. at = "analyze" /\ at' = "journaled" /\ UNCHANGED <<mode, smooth, batch>>
    BY <1>12 DEF Journal
  <2>2. CASE mode = "loop"
    BY <1>1, <2>1, <2>2
  <2>3. CASE mode = "final"
    <3> DEFINE h == Head(batch)
    <3>1. h \in Steps /\ h = batch[1]
      BY <2>1, HeadInHand
    <3>2. \A retryable \in BOOLEAN : ~Provisional(h, retryable)
      BY <2>3 DEF Provisional
    <3>3. reported' = [reported EXCEPT ![h] = "final"]
      BY <1>12, <3>2 DEF Journal
    <3>4. \A s \in Unfinished' : s \in Unfinished /\ s # h
      BY <3>1, <3>3 DEF Unfinished, ScheduleTypeOK
    <3>5. Later = DOMAIN batch /\ Later' = (DOMAIN batch) \ {1}
      BY <2>1 DEF Later, Behind
    <3>6. Promised => \A s \in Unfinished : \E i \in DOMAIN batch : batch[i] = s
      BY <2>1, <2>3, <3>5 DEF FinalizerInv, Ahead
    <3> HIDE DEF h
    <3>7. Promised => \A s \in Unfinished' : \E i \in Later' : batch'[i] = s
      BY <2>1, <3>1, <3>4, <3>5, <3>6
    <3>. QED
      BY <1>5, <2>1, <2>3, <3>7
  <2>. QED
    BY <1>9, <2>1, <2>2, <2>3
<1>13. CASE Publish
  <2>1. UNCHANGED <<reported, mode, smooth, batch>> /\ at \in {"journaled", "periodic", "failed"}
    BY <1>13 DEF Publish, journal
  <2>2. CASE at = "journaled"
    <3>1. at' = "published"
      BY <1>13, <2>2 DEF Publish
    <3>2. Unfinished' = Unfinished /\ Later' = Later
      BY <2>1, <2>2, <3>1 DEF Unfinished, Later, Behind
    <3>3. mode \in {"loop", "final"}
      BY <1>9, <2>2
    <3>. QED
      BY <2>1, <2>2, <3>1, <3>2, <3>3 DEF FinalizerInv, FinalizerLeavesNothing, Behind
  <2>3. CASE at = "periodic"
    BY <1>1, <1>9, <2>1, <2>3 DEF ProcessInv
  <2>4. CASE at = "failed"
    BY <1>7, <2>1, <2>4 DEF ProcessInv
  <2>. QED
    BY <2>1, <2>2, <2>3, <2>4
<1>14. CASE Project
  <2>1. /\ UNCHANGED <<reported, mode, smooth>> /\ at = "published" /\ at' = "next"
        /\ batch' = Tail(batch)
    BY <1>14 DEF Project, journal
  <2>2. CASE mode = "loop"
    BY <1>1, <2>1, <2>2
  <2>3. CASE mode = "final"
    <3>1. batch # <<>> /\ batch \in Seq(Steps)
      BY <2>1 DEF BatchInv, Behind, ScheduleTypeOK
    <3>2. \A i \in (DOMAIN batch) \ {1} : i - 1 \in DOMAIN Tail(batch)
                                          /\ Tail(batch)[i - 1] = batch[i]
      BY <3>1
    <3>3. Later = (DOMAIN batch) \ {1} /\ Later' = DOMAIN Tail(batch)
          /\ Unfinished' = Unfinished
      BY <2>1 DEF Later, Behind, Unfinished
    <3>4. Promised => \A s \in Unfinished : \E i \in Later : batch[i] = s
      BY <2>1, <2>3 DEF FinalizerInv, Behind
    <3>5. ASSUME Promised, NEW s \in Unfinished PROVE \E j \in Later' : batch'[j] = s
      <4>1. PICK i \in (DOMAIN batch) \ {1} : batch[i] = s
        BY <3>3, <3>4, <3>5
      <4>2. i - 1 \in Later' /\ batch'[i - 1] = s
        BY <2>1, <3>2, <3>3, <4>1
      <4>. QED
        BY <4>2
    <3>. QED
      BY <1>5, <2>1, <2>3, <3>3, <3>5
  <2>. QED
    BY <1>9, <2>1, <2>2, <2>3
<1>15. CASE BatchDone
  <2>1. /\ UNCHANGED <<reported, mode, smooth>> /\ at = "next" /\ batch = <<>>
        /\ at' \in {"periodic", "end"}
    BY <1>15 DEF BatchDone, journal
  <2>2. CASE mode = "loop"
    BY <1>1, <2>1, <2>2
  <2>3. CASE mode = "final"
    <3>1. Later = {}
      BY <2>1 DEF Later, Behind
    <3>2. Promised => \A s \in Unfinished : \E i \in Later : batch[i] = s
      BY <2>1, <2>3 DEF FinalizerInv, Ahead
    <3>3. Promised => Unfinished = {}
      BY <3>1, <3>2
    <3>4. Unfinished' = Unfinished
      BY <2>1 DEF Unfinished
    <3>. QED
      BY <1>5, <2>1, <2>3, <3>3, <3>4 DEF Ahead, Behind
  <2>. QED
    BY <1>9, <2>1, <2>2, <2>3
<1>16. CASE EndRun
  <2>1. UNCHANGED <<reported, smooth>> /\ at = "end"
        /\ mode' = IF mode = "final" THEN "finished" ELSE mode
    BY <1>16 DEF EndRun, journal
  <2>2. Unfinished' = Unfinished
    BY <2>1 DEF Unfinished
  <2>3. CASE mode = "final"
    BY <2>1, <2>2, <2>3 DEF FinalizerInv, FinalizerLeavesNothing
  <2>4. CASE mode # "final"
    BY <1>1, <1>9, <2>1, <2>4
  <2>. QED
    BY <2>3, <2>4
<1>17. ASSUME NEW what \in {"loop", "final"}, Begin(what) PROVE Finalized'
  <2>1. mode' \in {"loop", "final"} /\ at' = "idle"
    BY <1>17 DEF Begin, ProcessInv, run
  <2>. QED
    BY <2>1 DEF FinalizerInv, FinalizerLeavesNothing, Ahead, Behind
<1>18. CASE Crash \/ Reboot \/ StopLoop
  BY <1>1, <1>18 DEF Crash, Reboot, StopLoop, Lose
<1>19. CASE UNCHANGED schedule
  BY <1>2, <1>19 DEF schedule, journal, clocks, run
<1>. QED
  BY <1>3, <1>4, <1>6, <1>8, <1>11, <1>12, <1>13, <1>14, <1>15, <1>16, <1>17, <1>18, <1>19
     DEF ScheduleNext, Process
-----------------------------------------------------------------------------
(* All of it together, inductive.                                          *)
ScheduleInv ==
  /\ ScheduleTypeOK
  /\ SettleInv /\ ProcessInv /\ BatchInv
  /\ Derived
  /\ Finalized

LEMMA ScheduleStarts == ASSUME ScheduleInit PROVE ScheduleInv
<1>1. ScheduleTypeOK
  BY ScheduleAssumption, LongestPeriod DEF ScheduleInit, ScheduleTypeOK
<1>2. SettleInv /\ ProcessInv /\ BatchInv
  BY DEF ScheduleInit, SettleInv, ProcessInv, BatchInv, Ahead, Behind
<1>3. Derived
  BY DEF ScheduleInit, Derived, FilesInv, FinalOnce, RepairedFirst, Behind
<1>4. Finalized
  BY DEF ScheduleInit, Finalized, FinalizerInv, FinalizerLeavesNothing
<1>. QED
  BY <1>1, <1>2, <1>3, <1>4 DEF ScheduleInv

LEMMA ScheduleKept == ASSUME ScheduleInv, [ScheduleNext]_schedule PROVE ScheduleInv'
  BY TypeKept, SettleKept, ProcessKept, BatchKept, DerivedKept, FinalizedKept DEF ScheduleInv

LEMMA ScheduleIsRight == ASSUME ScheduleInv PROVE DiagnosisIsRight
<1>1. SettledFirst
  BY HeadInHand DEF ScheduleInv, SettledFirst
<1>. QED
  BY <1>1 DEF ScheduleInv, Derived, Finalized, DiagnosisIsRight

(* The variables of the diagnosis keep their types.                        *)
THEOREM ScheduleTypes == ScheduleSpec => []ScheduleTypeOK
<1>1. ScheduleInv => ScheduleTypeOK
  BY DEF ScheduleInv
<1>. QED
  BY <1>1, ScheduleStarts, ScheduleKept, PTL DEF ScheduleSpec

(* However processes are killed, hosts rebooted and requests lost: a step  *)
(* has at most one final report and it is the last, none is analysed       *)
(* before its evidence has settled, what a dead process owed is repaired   *)
(* before more is done, and a finalizer that can wait leaves no step       *)
(* behind (run_once, _prepare_batch, scheduling.ready, write_report).      *)
THEOREM DiagnosedRight == ScheduleSpec => []DiagnosisIsRight
  BY ScheduleStarts, ScheduleKept, ScheduleIsRight, PTL DEF ScheduleSpec
-----------------------------------------------------------------------------
(* The isolated worker.  A worker that is kept for the next request has    *)
(* nothing in its pipe, and one that may have something is stopped first.  *)
Clean(w) == asked[w] = 0 /\ replied[w] = 0

IsolatedInv ==
  /\ Isolated!TypeOK /\ Isolated!WorkerIsIsolated
  /\ process # 0 => proc[process] # "unborn"
  /\ \A w \in 1..Requests :
       w > ticket \/ (w = ticket /\ step \in {"check", "start"}) => proc[w] = "unborn" /\ Clean(w)
  /\ step # "idle" => request # 0 /\ request = ticket /\ controller = "open"
  /\ controller = "open" /\ ~unreaped /\ step # "wait" /\ process # 0 => Clean(process)
  /\ step = "start" => ~unreaped
  /\ step = "wait" =>
       /\ process # 0
       /\ asked[process] \in {0, request} /\ replied[process] \in {0, request}
       /\ replied[process] # 0 => asked[process] = 0

(* What Stop leaves of the worker: nothing, or itself with a KILL.         *)
LEMMA IsolatedStop ==
  ASSUME Isolated!TypeOK, Isolated!OneWorker, process # 0 => proc[process] # "unborn",
         Isolated!Stop
  PROVE  /\ proc' \in [1..Requests -> {"unborn", "serving", "hung", "killed", "gone"}]
         /\ process' \in {0, process}
         /\ process' # 0 => proc'[process] = "killed" /\ Isolated!Alive(process)
         /\ \A w \in 1..Requests : w # process => proc'[w] = proc[w]
         /\ \A w \in 1..Requests : Isolated!Alive(w)' => w = process'
         /\ \A w \in 1..Requests : proc[w] = "unborn" <=> proc'[w] = "unborn"
<1>1. /\ proc \in [1..Requests -> {"unborn", "serving", "hung", "killed", "gone"}]
      /\ process \in 0..Requests /\ Requests \in Nat
      /\ \A w \in 1..Requests : proc[w] \in {"serving", "hung", "killed"} => w = process
  BY ServicesAssumption
     DEF Isolated!TypeOK, Isolated!OneWorker, Isolated!Workers, Isolated!Alive, Isolated!None
<1>2. process # 0 => process \in 1..Requests
  BY <1>1
<1>3. CASE process # 0 /\ proc[process] \in {"hung", "killed"}
  <2>1. proc' = [proc EXCEPT ![process] = "killed"] /\ process' = process
    BY <1>3 DEF Isolated!Stop, Isolated!None
  <2>. QED
    BY <1>1, <1>2, <1>3, <2>1 DEF Isolated!Alive, Isolated!None
<1>4. CASE process = 0
  <2>1. proc' = proc /\ process' = 0
    BY <1>4 DEF Isolated!Stop, Isolated!None
  <2>. QED
    BY <1>1, <1>4, <2>1 DEF Isolated!Alive, Isolated!None
<1>5. CASE process # 0 /\ proc[process] \notin {"hung", "killed"}
  <2>1. proc' = [proc EXCEPT ![process] = "gone"] /\ process' = 0
    BY <1>5 DEF Isolated!Stop, Isolated!None
  <2>. QED
    BY <1>1, <1>2, <1>5, <2>1 DEF Isolated!Alive, Isolated!None
<1>. QED
  BY <1>3, <1>4, <1>5

LEMMA IsolatedKept ==
  ASSUME IsolatedInv, Isolated!Next
  PROVE  IsolatedInv'
<1> USE DEF Isolated!Workers, Isolated!None, Isolated!Failed
<1>0. /\ Requests \in Nat
      /\ proc \in [1..Requests -> {"unborn", "serving", "hung", "killed", "gone"}]
      /\ asked \in [1..Requests -> 0..Requests] /\ replied \in [1..Requests -> 0..Requests]
      /\ process \in 0..Requests /\ unreaped \in BOOLEAN
      /\ request \in 0..Requests /\ ticket \in 0..Requests
      /\ step \in {"idle", "check", "start", "wait"}
      /\ result \in [1..Requests -> 0..(Requests + 1)]
      /\ controller \in {"open", "closed", "dead"}
  BY ServicesAssumption DEF IsolatedInv, Isolated!TypeOK
<1>1. CASE Isolated!Call
  BY <1>0, <1>1 DEF IsolatedInv, Isolated!TypeOK, Isolated!WorkerIsIsolated, Isolated!OneWorker,
     Isolated!AnswersItsRequest, Isolated!Alive, Clean, Isolated!Call, Isolated!worker
<1>2. ASSUME Isolated!Stop
      PROVE  /\ proc' \in [1..Requests -> {"unborn", "serving", "hung", "killed", "gone"}]
             /\ process' \in {0, process} /\ process' \in 0..Requests
             /\ process' # 0 => proc'[process] = "killed" /\ Isolated!Alive(process)
             /\ \A w \in 1..Requests : Isolated!Alive(w)' => w = process'
             /\ \A w \in 1..Requests : proc[w] = "unborn" <=> proc'[w] = "unborn"
  BY <1>0, <1>2, IsolatedStop DEF IsolatedInv, Isolated!WorkerIsIsolated
<1>3. ASSUME NEW answer \in {Requests + 1, request}, Isolated!Return(answer), request # 0
      PROVE  /\ result' \in [1..Requests -> 0..(Requests + 1)]
             /\ Isolated!AnswersItsRequest'
             /\ request' = 0 /\ step' = "idle"
  <2>1. request \in 1..Requests
    BY <1>0, <1>3
  <2>2. result' = [result EXCEPT ![request] = answer] /\ request' = 0 /\ step' = "idle"
    BY <1>3 DEF Isolated!Return
  <2>3. \A r \in 1..Requests : result[r] \in {0, Requests + 1, r}
    BY DEF IsolatedInv, Isolated!WorkerIsIsolated, Isolated!AnswersItsRequest
  <2>4. \A r \in 1..Requests : result'[r] \in {0, Requests + 1, r}
    BY <1>0, <2>1, <2>2, <2>3
  <2>5. result' \in [1..Requests -> 0..(Requests + 1)]
    BY <1>0, <2>1, <2>2
  <2>. QED
    BY <2>2, <2>4, <2>5 DEF Isolated!AnswersItsRequest
(* A request that ends with its worker stopped, whatever is in its pipe.   *)
<1>4. ASSUME Isolated!Stop, UNCHANGED <<asked, replied, ticket>>,
             result' \in [1..Requests -> 0..(Requests + 1)], Isolated!AnswersItsRequest',
             request' = 0, step' = "idle", unreaped' \in BOOLEAN,
             controller' \in {"open", "closed"},
             controller' = "open" => unreaped' \/ process' = 0
      PROVE  IsolatedInv'
  <2>0. /\ asked' = asked /\ replied' = replied /\ ticket' = ticket
        /\ request' \in 0..Requests
        /\ step' \in {"idle", "check", "start", "wait"}
        /\ controller' \in {"open", "closed", "dead"}
    BY <1>0, <1>4
  <2>1. Isolated!TypeOK'
    BY <1>0, <1>2, <1>4, <2>0 DEF Isolated!TypeOK
  <2>2. Isolated!WorkerIsIsolated'
    BY <1>2, <1>4 DEF Isolated!WorkerIsIsolated, Isolated!OneWorker
  <2>3. \A w \in 1..Requests : w > ticket => proc[w] = "unborn" /\ Clean(w)
    BY DEF IsolatedInv
  <2>4. \A w \in 1..Requests : w > ticket' => proc'[w] = "unborn" /\ Clean(w)'
    BY <1>2, <1>4, <2>3 DEF Clean
  <2>5. process' # 0 => proc'[process'] # "unborn"
    BY <1>2, <1>4
  <2>. QED
    BY <1>4, <2>1, <2>2, <2>4, <2>5 DEF IsolatedInv
<1>5. CASE Isolated!Check
  <2>1. step = "check" /\ request # 0 /\ request = ticket /\ controller = "open"
        /\ UNCHANGED <<asked, replied, ticket, controller>>
    BY <1>5 DEF Isolated!Check, IsolatedInv
  <2>2. CASE unreaped /\ process' # 0
    <3>1. Isolated!Stop /\ Isolated!Return(Requests + 1) /\ unreaped' = unreaped
      BY <1>5, <2>2 DEF Isolated!Check, Isolated!Stopped
    <3>. QED
      BY <1>0, <1>3, <1>4, <2>1, <2>2, <3>1
  <2>3. CASE ~(unreaped /\ process' # 0)
    <3>1. unreaped' = FALSE /\ step' = "start" /\ UNCHANGED <<result, request>>
      BY <1>5, <2>3 DEF Isolated!Check, Isolated!Stopped
    <3>2. CASE unreaped \/ ~Isolated!Alive(process)
      <4>1. Isolated!Stop
        BY <1>5, <3>2 DEF Isolated!Check
      <4>2. process' = 0
        BY <1>2, <2>3, <3>2, <4>1
      <4>3. \A w \in 1..Requests : w >= ticket' => proc'[w] = "unborn" /\ Clean(w)'
        BY <1>0, <1>2, <2>1, <4>1 DEF IsolatedInv, Clean
      <4>4. Isolated!TypeOK'
        <5>1. /\ asked' = asked /\ replied' = replied /\ ticket' = ticket
              /\ controller' = controller /\ result' = result /\ request' = request
              /\ unreaped' \in BOOLEAN /\ step' \in {"idle", "check", "start", "wait"}
          BY <2>1, <3>1
        <5>. QED
          BY <1>0, <1>2, <4>1, <5>1 DEF Isolated!TypeOK
      <4>5. Isolated!WorkerIsIsolated'
        BY <1>2, <3>1, <4>1
           DEF IsolatedInv, Isolated!WorkerIsIsolated, Isolated!OneWorker, Isolated!AnswersItsRequest
      <4>. QED
        BY <1>0, <2>1, <3>1, <4>2, <4>3, <4>4, <4>5 DEF IsolatedInv
    <3>3. CASE ~(unreaped \/ ~Isolated!Alive(process))
      <4>1. UNCHANGED <<proc, process>>
        BY <1>5, <3>3 DEF Isolated!Check
      <4>. QED
        BY <1>0, <2>1, <3>1, <3>3, <4>1 DEF IsolatedInv, Isolated!TypeOK,
           Isolated!WorkerIsIsolated, Isolated!OneWorker, Isolated!AnswersItsRequest,
           Isolated!Alive, Clean
    <3>. QED
      BY <3>2, <3>3
  <2>. QED
    BY <2>2, <2>3
<1>6. CASE Isolated!Start
  <2>1. /\ step = "start" /\ request # 0 /\ request = ticket /\ controller = "open"
        /\ ~unreaped /\ UNCHANGED <<unreaped, ticket, controller>>
    BY <1>6 DEF Isolated!Start, IsolatedInv
  <2>2. request \in 1..Requests /\ proc[request] = "unborn" /\ Clean(request)
    BY <1>0, <2>1 DEF IsolatedInv
  <2>3. CASE process = 0 /\ Isolated!Return(Requests + 1) /\ UNCHANGED <<proc, asked, replied, process>>
    <3>1. /\ result' \in [1..Requests -> 0..(Requests + 1)] /\ Isolated!AnswersItsRequest'
          /\ request' = 0 /\ step' = "idle"
      BY <1>3, <2>1, <2>3
    <3>. QED
      BY <1>0, <2>1, <2>3, <3>1 DEF IsolatedInv, Isolated!TypeOK, Isolated!WorkerIsIsolated,
         Isolated!OneWorker, Isolated!Alive, Clean
  <2>4. CASE ~(process = 0 /\ Isolated!Return(Requests + 1) /\ UNCHANGED <<proc, asked, replied, process>>)
    <3>1. /\ process' = (IF process = 0 THEN request ELSE process)
          /\ proc' = IF process = 0 THEN [proc EXCEPT ![request] = "serving"] ELSE proc
          /\ asked' = [asked EXCEPT ![process'] = request]
          /\ step' = "wait" /\ replied' = replied /\ result' = result /\ request' = request
      BY <1>6, <2>4 DEF Isolated!Start, Isolated!worker
    <3>2. process' \in 1..Requests
      BY <1>0, <2>2, <3>1
    <3>3. Clean(process')
      BY <2>1, <2>2, <3>1 DEF IsolatedInv
    <3>4. Isolated!TypeOK'
      BY <1>0, <2>1, <2>2, <3>1, <3>2 DEF Isolated!TypeOK
    <3>5. \A w \in 1..Requests : Isolated!Alive(w)' => w = process'
      BY <1>0, <2>2, <3>1
         DEF IsolatedInv, Isolated!WorkerIsIsolated, Isolated!OneWorker, Isolated!Alive
    <3>6. asked'[process'] = request /\ replied'[process'] = 0
      BY <1>0, <3>1, <3>2, <3>3 DEF Clean
    <3>7. \A w \in 1..Requests : w > ticket => w # process'
      BY <1>0, <2>1, <3>1, <3>2 DEF IsolatedInv
    <3>8. \A w \in 1..Requests : w > ticket' => proc'[w] = "unborn" /\ Clean(w)'
      BY <1>0, <2>1, <2>2, <3>1, <3>2, <3>7 DEF IsolatedInv, Clean
    <3>9. proc'[process'] # "unborn"
      BY <1>0, <2>2, <3>1 DEF IsolatedInv
    <3>10. Isolated!WorkerIsIsolated'
      BY <3>1, <3>5
         DEF IsolatedInv, Isolated!WorkerIsIsolated, Isolated!OneWorker, Isolated!AnswersItsRequest
    <3>. QED
      BY <1>0, <2>1, <2>2, <3>1, <3>2, <3>4, <3>6, <3>8, <3>9, <3>10 DEF IsolatedInv
  <2>. QED
    BY <2>3, <2>4
<1>7. CASE Isolated!Answered
  <2>1. /\ step = "wait" /\ controller = "open" /\ controller' = controller
        /\ request # 0 /\ request = ticket /\ process # 0
        /\ replied[process] = request /\ asked[process] = 0
        /\ replied' = [replied EXCEPT ![process] = 0] /\ UNCHANGED <<asked, ticket>>
    BY <1>7 DEF Isolated!Answered, IsolatedInv
  <2>2. process \in 1..Requests
    BY <1>0, <2>1
  <2>3. CASE Isolated!Return(replied[process]) /\ UNCHANGED <<proc, process, unreaped>>
    <3>1. /\ result' \in [1..Requests -> 0..(Requests + 1)] /\ Isolated!AnswersItsRequest'
          /\ request' = 0 /\ step' = "idle"
      BY <1>3, <2>1, <2>3
    <3>2. Isolated!TypeOK'
      BY <1>0, <2>1, <2>2, <2>3, <3>1 DEF Isolated!TypeOK
    <3>3. Clean(process)' /\ \A w \in 1..Requests : Clean(w) => Clean(w)'
      BY <1>0, <2>1, <2>2, <2>3 DEF Clean
    <3>4. Isolated!WorkerIsIsolated'
      BY <2>3, <3>1 DEF IsolatedInv, Isolated!WorkerIsIsolated, Isolated!OneWorker, Isolated!Alive
    <3>. QED
      BY <2>1, <2>3, <3>1, <3>2, <3>3, <3>4 DEF IsolatedInv
  <2>4. CASE Isolated!Return(Requests + 1) /\ Isolated!Stop /\ unreaped' = ~Isolated!Stopped
    <3>1. /\ result' \in [1..Requests -> 0..(Requests + 1)] /\ Isolated!AnswersItsRequest'
          /\ request' = 0 /\ step' = "idle"
      BY <1>3, <2>1, <2>4
    <3>2. unreaped' = (process' # 0)
      BY <2>4 DEF Isolated!Stopped
    <3>3. Isolated!TypeOK'
      <4>1. /\ replied' \in [1..Requests -> 0..Requests] /\ asked' = asked /\ ticket' = ticket
            /\ controller' = controller /\ unreaped' \in BOOLEAN /\ request' \in 0..Requests
            /\ step' \in {"idle", "check", "start", "wait"}
        BY <1>0, <2>1, <2>2, <3>1, <3>2
      <4>. QED
        BY <1>0, <1>2, <2>4, <3>1, <4>1 DEF Isolated!TypeOK
    <3>4. \A w \in 1..Requests : Clean(w) => Clean(w)'
      BY <1>0, <2>1, <2>2 DEF Clean
    <3>5. Isolated!WorkerIsIsolated'
      BY <1>2, <2>4, <3>1 DEF Isolated!WorkerIsIsolated, Isolated!OneWorker
    <3>6. process' # 0 => proc'[process'] # "unborn"
      BY <1>2, <2>4
    <3>7. \A w \in 1..Requests : w > ticket' => proc'[w] = "unborn" /\ Clean(w)'
      BY <1>2, <2>1, <2>4, <3>4 DEF IsolatedInv
    <3>. QED
      BY <3>1, <3>2, <3>3, <3>5, <3>6, <3>7 DEF IsolatedInv
  <2>. QED
    BY <1>7, <2>3, <2>4 DEF Isolated!Answered
<1>8. CASE Isolated!Deadline
  <2>1. /\ request # 0 /\ controller = "open" /\ Isolated!Stop /\ Isolated!Return(Requests + 1)
        /\ unreaped' = (process' # 0) /\ UNCHANGED <<asked, replied, ticket, controller>>
    BY <1>8 DEF Isolated!Deadline, IsolatedInv, Isolated!Stopped
  <2>. QED
    BY <1>3, <1>4, <2>1
<1>9. CASE Isolated!Close
  <2>1. Isolated!AnswersItsRequest'
    BY <1>9 DEF Isolated!Close, IsolatedInv, Isolated!WorkerIsIsolated, Isolated!AnswersItsRequest
  <2>2. /\ Isolated!Stop /\ request' = 0 /\ step' = "idle" /\ controller' = "closed"
        /\ result' = result /\ unreaped' = unreaped /\ UNCHANGED <<asked, replied, ticket>>
    BY <1>9 DEF Isolated!Close
  <2>. QED
    BY <1>0, <1>4, <2>1, <2>2
<1>10. CASE Isolated!Die
  BY <1>0, <1>10 DEF IsolatedInv, Isolated!TypeOK, Isolated!WorkerIsIsolated, Isolated!OneWorker,
     Isolated!AnswersItsRequest, Isolated!Alive, Clean, Isolated!Die, Isolated!worker
<1>11. ASSUME NEW w \in 1..Requests, Isolated!Serve(w) PROVE IsolatedInv'
  <2>1. /\ proc[w] = "serving" /\ asked[w] # 0 /\ replied[w] = 0
        /\ replied' = [replied EXCEPT ![w] = asked[w]] /\ asked' = [asked EXCEPT ![w] = 0]
        /\ UNCHANGED <<proc, process, unreaped, request, ticket, step, result, controller>>
    BY <1>11 DEF Isolated!Serve
  <2>2. Isolated!TypeOK'
    BY <1>0, <2>1 DEF Isolated!TypeOK
  <2>3. Isolated!WorkerIsIsolated'
    BY <2>1 DEF IsolatedInv, Isolated!WorkerIsIsolated, Isolated!OneWorker,
       Isolated!AnswersItsRequest, Isolated!Alive
  <2>4. ~Clean(w) /\ \A v \in 1..Requests : Clean(v) => Clean(v)'
    BY <1>0, <2>1 DEF Clean
  <2>5. step = "wait" =>
          /\ asked'[process] \in {0, request} /\ replied'[process] \in {0, request}
          /\ replied'[process] # 0 => asked'[process] = 0
    BY <1>0, <2>1 DEF IsolatedInv
  <2>6. process # 0 => process \in 1..Requests
    BY <1>0
  <2>. QED
    BY <2>1, <2>2, <2>3, <2>4, <2>5, <2>6 DEF IsolatedInv
<1>12. ASSUME NEW w \in 1..Requests, NEW to \in {"serving", "hung", "gone"},
              proc[w] \in {"serving", "hung", "killed"},
              Isolated!Changes(w, to)
       PROVE  IsolatedInv'
  <2>1. /\ proc' = [proc EXCEPT ![w] = to] /\ asked' = asked /\ replied' = replied
        /\ process' = process /\ unreaped' = unreaped /\ request' = request /\ ticket' = ticket
        /\ step' = step /\ result' = result /\ controller' = controller
    BY <1>12 DEF Isolated!Changes
  <2>2. \A v \in 1..Requests : proc[v] = "unborn" <=> proc'[v] = "unborn"
    BY <1>0, <1>12, <2>1
  <2>3. \A v \in 1..Requests : Isolated!Alive(v)' => Isolated!Alive(v)
    BY <1>0, <1>12, <2>1 DEF Isolated!Alive
  <2>4. Isolated!TypeOK'
    BY <1>0, <2>1 DEF Isolated!TypeOK
  <2>5. Isolated!WorkerIsIsolated'
    BY <2>1, <2>3
       DEF IsolatedInv, Isolated!WorkerIsIsolated, Isolated!OneWorker, Isolated!AnswersItsRequest
  <2>6. process # 0 => process \in 1..Requests
    BY <1>0
  <2>7. \A v \in 1..Requests : Clean(v) => Clean(v)'
    BY <2>1 DEF Clean
  <2>. QED
    BY <2>1, <2>2, <2>4, <2>5, <2>6, <2>7 DEF IsolatedInv
<1>13. ASSUME NEW w \in 1..Requests, Isolated!Worker(w) PROVE IsolatedInv'
  BY <1>11, <1>12, <1>13 DEF Isolated!Worker, Isolated!Exit, Isolated!Guard, Isolated!Fail,
     Isolated!Hang, Isolated!Wake, Isolated!Reap
<1>. QED
  BY <1>1, <1>5, <1>6, <1>7, <1>8, <1>9, <1>10, <1>13 DEF Isolated!Next, Isolated!Controls

-----------------------------------------------------------------------------
(* The clock server.  A connection that is open or cut is the one in hand. *)
InHandOnly ==
  /\ where \in {"register", "handle", "finish"} => serving # 0
  /\ \A c \in 1..Clients : socket[c] \in {"open", "cut"} =>
       c = serving /\ where \in {"register", "handle", "finish"}

ServerInv ==
  /\ Server!TypeOK /\ InHandOnly
  /\ active # 0 => active = serving /\ where \in {"handle", "finish"}

LEMMA ServerTypes ==
  ASSUME ServerInv, Server!Next
  PROVE  Server!TypeOK'
<1> USE DEF Server!Connections, Server!NoConnection, Server!Forever
<1>0. /\ Timeout \in Nat /\ Clients \in Nat
      /\ socket \in [1..Clients -> {"none", "waiting", "open", "cut", "closed"}]
      /\ client \in [1..Clients -> {"prompt", "stuck"}]
      /\ serving \in 0..Clients /\ active \in 0..Clients /\ remaining \in 0..Timeout
      /\ where \in {"accept", "register", "handle", "finish", "gone"}
      /\ guard \in {"awake", "asleep", "gone"} /\ alarm \in 0..(Timeout + 1)
      /\ closing \in BOOLEAN
  BY ServicesAssumption DEF ServerInv, Server!TypeOK
<1>1. 0 \in 0..Timeout /\ Timeout \in 0..Timeout /\ Timeout + 1 \in 0..(Timeout + 1)
      /\ remaining \in 0..(Timeout + 1)
  BY <1>0
<1>2. ASSUME Server!Tick PROVE Server!TypeOK'
  <2>1. remaining' \in 0..Timeout /\ alarm' \in 0..(Timeout + 1)
    BY <1>0, <1>2 DEF Server!Tick
  <2>. QED
    BY <1>0, <1>2, <2>1 DEF Server!Tick, Server!TypeOK, Server!connections, Server!thread
<1>3. ASSUME NEW c \in 1..Clients, Server!Connect(c) PROVE Server!TypeOK'
  <2>1. socket' \in [1..Clients -> {"none", "waiting", "open", "cut", "closed"}]
    BY <1>0, <1>3 DEF Server!Connect, Server!Is
  <2>2. client' \in [1..Clients -> {"prompt", "stuck"}]
    BY <1>0, <1>3 DEF Server!Connect
  <2>. QED
    BY <1>0, <1>3, <2>1, <2>2 DEF Server!Connect, Server!TypeOK, Server!thread, Server!watch
<1>4. ASSUME NEW c \in 1..Clients, Server!Accept(c) PROVE Server!TypeOK'
  <2>1. socket' \in [1..Clients -> {"none", "waiting", "open", "cut", "closed"}]
    BY <1>0, <1>4 DEF Server!Accept, Server!Is
  <2>. QED
    BY <1>0, <1>4, <2>1 DEF Server!Accept, Server!TypeOK, Server!watch
<1>5. CASE Server!StopServing \/ Server!Handle
  BY <1>0, <1>5 DEF Server!StopServing, Server!Handle, Server!TypeOK, Server!connections,
     Server!watch
<1>6. ASSUME Server!Notify \/ guard' = guard PROVE guard' \in {"awake", "asleep", "gone"}
  BY <1>0, <1>6 DEF Server!Notify
<1>7. CASE Server!Register
  <2>1. socket' \in [1..Clients -> {"none", "waiting", "open", "cut", "closed"}]
    BY <1>0, <1>7 DEF Server!Register, Server!Is
  <2>2. active' \in 0..Clients /\ remaining' \in 0..Timeout
    BY <1>0, <1>1, <1>7 DEF Server!Register, Server!watch
  <2>. QED
    BY <1>0, <1>6, <1>7, <2>1, <2>2 DEF Server!Register, Server!TypeOK
<1>8. CASE Server!Finish
  <2>1. socket' \in [1..Clients -> {"none", "waiting", "open", "cut", "closed"}]
    BY <1>0, <1>8 DEF Server!Finish, Server!Is
  <2>2. active' \in 0..Clients /\ remaining' \in 0..Timeout
    BY <1>0, <1>1, <1>8 DEF Server!Finish, Server!watch
  <2>. QED
    BY <1>0, <1>6, <1>8, <2>1, <2>2 DEF Server!Finish, Server!TypeOK
<1>9. ASSUME Server!Cut
      PROVE  /\ socket' \in [1..Clients -> {"none", "waiting", "open", "cut", "closed"}]
             /\ active' \in 0..Clients /\ remaining' \in 0..Timeout
  BY <1>0, <1>1, <1>9 DEF Server!Cut, Server!Is, Server!watch
<1>10. CASE Server!Look
  <2>1. alarm' \in 0..(Timeout + 1) /\ guard' \in {"awake", "asleep", "gone"}
    BY <1>0, <1>1, <1>10 DEF Server!Look
  <2>2. /\ socket' \in [1..Clients -> {"none", "waiting", "open", "cut", "closed"}]
        /\ active' \in 0..Clients /\ remaining' \in 0..Timeout
    BY <1>0, <1>9, <1>10 DEF Server!Look, Server!watch
  <2>. QED
    BY <1>0, <1>10, <2>1, <2>2 DEF Server!Look, Server!TypeOK, Server!thread
<1>11. CASE Server!Wake \/ Server!GuardEnds
  BY <1>0, <1>11 DEF Server!Wake, Server!GuardEnds, Server!TypeOK, Server!connections,
     Server!thread, Server!watch
<1>12. CASE Server!Close
  BY <1>0, <1>6, <1>9, <1>12 DEF Server!Close, Server!TypeOK, Server!thread
<1>. QED
  BY <1>2, <1>3, <1>4, <1>5, <1>7, <1>8, <1>10, <1>11, <1>12
     DEF Server!Next, Server!Server, Server!Guard

LEMMA ServerKept ==
  ASSUME ServerInv, Server!Next
  PROVE  ServerInv'
<1> USE DEF Server!Connections, Server!NoConnection
<1>0. /\ socket \in [1..Clients -> {"none", "waiting", "open", "cut", "closed"}]
      /\ serving \in 0..Clients /\ active \in 0..Clients /\ Clients \in Nat
      /\ where \in {"accept", "register", "handle", "finish", "gone"}
  BY ServicesAssumption DEF ServerInv, Server!TypeOK
<1>1. Server!TypeOK'
  BY ServerTypes
<1>2. ASSUME UNCHANGED <<socket, serving, where, active>> PROVE ServerInv'
  BY <1>1, <1>2 DEF ServerInv, InHandOnly
<1>3. CASE Server!Tick \/ Server!Wake \/ Server!GuardEnds
  BY <1>2, <1>3 DEF Server!Tick, Server!Wake, Server!GuardEnds, Server!connections,
     Server!thread, Server!watch
<1>4. ASSUME NEW c \in 1..Clients, Server!Connect(c) PROVE ServerInv'
  BY <1>0, <1>1, <1>4
     DEF Server!Connect, Server!Is, ServerInv, InHandOnly, Server!thread, Server!watch
<1>5. ASSUME NEW c \in 1..Clients, Server!Accept(c) PROVE ServerInv'
  BY <1>0, <1>1, <1>5 DEF Server!Accept, Server!Is, ServerInv, InHandOnly, Server!watch
<1>6. CASE Server!StopServing \/ Server!Handle
  BY <1>0, <1>1, <1>6 DEF Server!StopServing, Server!Handle, ServerInv, InHandOnly,
     Server!connections, Server!watch
<1>7. CASE Server!Register
  BY <1>0, <1>1, <1>7 DEF Server!Register, Server!Is, ServerInv, InHandOnly, Server!watch
<1>8. CASE Server!Finish
  BY <1>0, <1>1, <1>8 DEF Server!Finish, Server!Is, ServerInv, InHandOnly, Server!watch
<1>9. ASSUME Server!Cut, UNCHANGED <<serving, where>> PROVE ServerInv'
  BY <1>0, <1>1, <1>9 DEF Server!Cut, Server!Is, ServerInv, InHandOnly, Server!watch
<1>10. CASE Server!Look
  BY <1>2, <1>9, <1>10 DEF Server!Look, Server!thread, Server!watch
<1>11. CASE Server!Close
  BY <1>9, <1>11 DEF Server!Close, Server!thread
<1>. QED
  BY <1>3, <1>4, <1>5, <1>6, <1>7, <1>8, <1>10, <1>11
     DEF Server!Next, Server!Server, Server!Guard

(* A connection is cut for its own deadline.                               *)
LEMMA CutsAreDue ==
  ASSUME ServerInv, Server!Next
  PROVE  \A c \in 1..Clients : socket[c] = "open" /\ socket'[c] = "cut" => remaining = 0 \/ closing'
<1> USE DEF Server!Connections, Server!NoConnection
<1>1. socket \in [1..Clients -> {"none", "waiting", "open", "cut", "closed"}]
  BY DEF ServerInv, Server!TypeOK
<1>2. CASE Server!Tick \/ Server!Wake \/ Server!GuardEnds \/ Server!StopServing \/ Server!Handle
  BY <1>2 DEF Server!Tick, Server!Wake, Server!GuardEnds, Server!StopServing, Server!Handle,
     Server!connections
<1>3. ASSUME NEW d \in 1..Clients, Server!Connect(d) \/ Server!Accept(d)
      PROVE  \A c \in 1..Clients : socket[c] = "open" => socket'[c] # "cut"
  BY <1>1, <1>3 DEF Server!Connect, Server!Accept, Server!Is
<1>4. ASSUME Server!Register \/ Server!Finish
      PROVE  \A c \in 1..Clients : socket[c] = "open" => socket'[c] # "cut"
  BY <1>1, <1>4 DEF Server!Register, Server!Finish, Server!Is
<1>5. ASSUME Server!Look
      PROVE  remaining = 0 \/ socket' = socket
  BY <1>5 DEF Server!Look
<1>6. CASE Server!Close
  BY <1>6 DEF Server!Close
<1>. QED
  BY <1>2, <1>3, <1>4, <1>5, <1>6 DEF Server!Next, Server!Server, Server!Guard

-----------------------------------------------------------------------------
(* The supervisor.  A child that ended stays so, a child that lives was    *)
(* started, and what the shell has not stopped it tells of.                *)
Ended == {"ended", "fell", "dropped"}

HostInv ==
  /\ Host!TypeOK /\ ~hit
  /\ \A c \in reused : child[c] \in Ended
  /\ command = "launch" => \A c \in Host!Child : c >= next => child[c] = "unborn"
  /\ command = "record" => next \in Host!Child
  /\ command = "record" => \A c \in Host!Child : c > next => child[c] = "unborn"
  /\ command = "report" => \A c \in pids : c < next /\ Host!Lives(c) => c \in surviving
  /\ command = "files" => \A c \in pids : Host!Lives(c) => c \in surviving
  /\ textfiles => role = "node"
  /\ Host!NothingIsLeft

LEMMA HostKept ==
  ASSUME HostInv, Host!SupervisorNext
  PROVE  HostInv'
<1> USE DEF Host!Child
<1>0. /\ Children \in Nat \ {0} /\ Attempts \in Nat \ {0}
      /\ role \in {"node", "server"}
      /\ command \in {"launch", "record", "validate", "wait", "cleanup", "files", "gone",
                      "term", "grace", "kill", "last", "report"}
      /\ next \in 1..(Children + 1) \cup 1..Attempts /\ pids \subseteq 1..Children
      /\ child \in [1..Children ->
           {"unborn", "runs", "deaf", "stuck", "doomed", "ended", "fell", "dropped"}]
      /\ reused \subseteq 1..Children /\ textfiles \in BOOLEAN
      /\ hit = FALSE /\ surviving \subseteq 1..Children /\ cut \in BOOLEAN
  BY ServicesAssumption DEF HostInv, Host!TypeOK, Host!Follows
<1>1. /\ \A c \in reused : child[c] \in Ended
      /\ textfiles => role = "node"
  BY DEF HostInv
(* What happens on the host.                                               *)
<1>2. ASSUME role' = role, command' = command, next' = next, pids' = pids, hit' = hit,
             surviving' = surviving, cut' = cut,
             child' \in [1..Children ->
               {"unborn", "runs", "deaf", "stuck", "doomed", "ended", "fell", "dropped"}],
             \A c \in 1..Children : child[c] = "unborn" <=> child'[c] = "unborn",
             \A c \in 1..Children : Host!Lives(c)' => Host!Lives(c),
             reused' \subseteq 1..Children,
             \A c \in reused' : child'[c] \in Ended,
             textfiles' \in BOOLEAN,
             textfiles' => textfiles \/ (role = "node" /\ \E c \in 1..Children : Host!Lives(c))
      PROVE  HostInv'
  <2>1. Host!TypeOK'
    BY <1>0, <1>2 DEF Host!TypeOK, Host!Follows
  <2>2. ASSUME command = "gone", ~cut
        PROVE  /\ \A c \in pids : Host!Lives(c)' => c \in surviving
               /\ textfiles' => surviving # {} \/ \E c \in 1..Children \ pids : child'[c] # "unborn"
    <3>1. /\ \A c \in pids : Host!Lives(c) => c \in surviving
          /\ textfiles => surviving # {} \/ \E c \in 1..Children \ pids : child[c] # "unborn"
      BY <2>2 DEF HostInv, Host!NothingIsLeft
    <3>2. ASSUME NEW c \in 1..Children, Host!Lives(c)
          PROVE  surviving # {} \/ \E d \in 1..Children \ pids : child[d] # "unborn"
      BY <3>1, <3>2 DEF Host!Lives
    <3>. QED
      BY <1>0, <1>2, <3>1, <3>2
  <2>3. Host!NothingIsLeft'
    BY <1>0, <1>2, <2>2 DEF Host!NothingIsLeft
  <2>. QED
    BY <1>0, <1>1, <1>2, <2>1, <2>3 DEF HostInv
<1>3. ASSUME NEW c \in 1..Children, NEW from, NEW to,
             from \subseteq {"runs", "deaf", "stuck", "doomed"},
             to \in {"runs", "deaf", "stuck", "doomed", "ended", "fell"},
             Host!Becomes(c, from, to),
             textfiles' \in {textfiles, role = "node"}
      PROVE  HostInv'
  <2>1. /\ child[c] \in {"runs", "deaf", "stuck", "doomed"}
        /\ child' = [child EXCEPT ![c] = to]
        /\ role' = role /\ command' = command /\ next' = next /\ pids' = pids
        /\ reused' = reused /\ hit' = hit /\ surviving' = surviving /\ cut' = cut
    BY <1>3 DEF Host!Becomes, Host!shell, Host!history
  <2>2. \A d \in 1..Children : /\ child[d] = "unborn" <=> child'[d] = "unborn"
                               /\ Host!Lives(d)' => Host!Lives(d)
    BY <1>0, <1>3, <2>1 DEF Host!Lives
  <2>3. c \notin reused
    BY <1>1, <2>1 DEF Ended
  <2>4. \A d \in reused' : child'[d] \in Ended
    BY <1>0, <1>1, <2>1, <2>3
  <2>5. /\ textfiles' \in BOOLEAN
        /\ textfiles' => textfiles \/ (role = "node" /\ \E d \in 1..Children : Host!Lives(d))
    BY <1>0, <1>3, <2>1 DEF Host!Lives
  <2>6. child' \in [1..Children ->
          {"unborn", "runs", "deaf", "stuck", "doomed", "ended", "fell", "dropped"}]
    BY <1>0, <1>3, <2>1
  <2>. QED
    BY <1>0, <1>2, <2>1, <2>2, <2>4, <2>5, <2>6
<1>4. ASSUME NEW c \in 1..Children,
             \/ Host!End(c) \/ Host!Fall(c) \/ Host!Deafen(c) \/ Host!Stick(c) \/ Host!Wake(c)
      PROVE  HostInv'
  BY <1>3, <1>4 DEF Host!End, Host!Fall, Host!Deafen, Host!Stick, Host!Wake
<1>5. ASSUME NEW c \in 1..Children, Host!Publish(c) PROVE HostInv'
  <2>1. /\ role' = role /\ command' = command /\ next' = next /\ pids' = pids /\ child' = child
        /\ reused' = reused /\ hit' = hit /\ surviving' = surviving /\ cut' = cut
        /\ role = "node" /\ Host!Lives(c) /\ textfiles' = TRUE
    BY <1>5 DEF Host!Publish, Host!shell, Host!history, Host!Lives
  <2>2. \A d \in 1..Children : Host!Lives(d)' => Host!Lives(d)
    BY <2>1 DEF Host!Lives
  <2>. QED
    BY <1>0, <1>1, <1>2, <2>1, <2>2
<1>6. ASSUME NEW c \in 1..Children, Host!Reuse(c) PROVE HostInv'
  <2>1. /\ role' = role /\ command' = command /\ next' = next /\ pids' = pids /\ child' = child
        /\ reused' = reused \cup {c} /\ hit' = hit /\ surviving' = surviving /\ cut' = cut
        /\ textfiles' = textfiles /\ child[c] \in Ended
    BY <1>6 DEF Host!Reuse, Host!shell, Host!history, Ended
  <2>2. \A d \in 1..Children : Host!Lives(d)' => Host!Lives(d)
    BY <2>1 DEF Host!Lives
  <2>. QED
    BY <1>0, <1>1, <1>2, <2>1, <2>2
<1>7. ASSUME NEW c \in 1..Children, Host!Drop(c) PROVE HostInv'
  <2>1. /\ role' = role /\ command' = command /\ next' = next /\ pids' = pids
        /\ child[c] = "fell" /\ child' = [child EXCEPT ![c] = "dropped"]
        /\ reused' = reused /\ hit' = hit /\ surviving' = surviving /\ cut' = cut
        /\ textfiles' = textfiles
    BY <1>7 DEF Host!Drop, Host!shell, Host!history
  <2>2. \A d \in 1..Children : /\ child[d] = "unborn" <=> child'[d] = "unborn"
                               /\ Host!Lives(d)' => Host!Lives(d)
    BY <1>0, <2>1 DEF Host!Lives
  <2>3. \A d \in reused' : child'[d] \in Ended
    BY <1>0, <1>1, <2>1 DEF Ended
  <2>. QED
    BY <1>0, <1>2, <2>1, <2>2, <2>3
(* The shell goes to another command, and the host stays as it is.         *)
<1>8. ASSUME role' = role, child' = child, reused' = reused, textfiles' = textfiles, hit' = hit,
             pids' \subseteq 1..Children, surviving' \subseteq 1..Children, cut' \in BOOLEAN,
             next' \in 1..(Children + 1) \cup 1..Attempts,
             command' \in {"validate", "wait", "cleanup", "term", "grace", "kill", "last"}
               \/ (command' = "report" /\ next' = 1) \/ (command' = "gone" /\ cut')
      PROVE  HostInv'
  <2>1. Host!TypeOK'
    BY <1>0, <1>8 DEF Host!TypeOK, Host!Follows
  <2>2. Host!NothingIsLeft'
    BY <1>0, <1>8 DEF Host!NothingIsLeft
  <2>3. \A c \in pids' : ~(c < 1)
    BY <1>0, <1>8
  <2>. QED
    BY <1>0, <1>1, <1>8, <2>1, <2>2, <2>3 DEF HostInv
<1>9. 1 \in 1..(Children + 1)
  BY <1>0
<1>10. CASE Host!Launch
  <2>1. /\ command = "launch" /\ next \in 1..Children /\ command' = "record"
        /\ child' = [child EXCEPT ![next] = "runs"]
        /\ role' = role /\ next' = next /\ pids' = pids /\ reused' = reused
        /\ textfiles' = textfiles /\ hit' = hit /\ surviving' = surviving /\ cut' = cut
    BY <1>10 DEF Host!Launch, Host!history
  <2>2. \A c \in 1..Children : c >= next => child[c] = "unborn"
    BY <2>1 DEF HostInv
  <2>3. child[next] = "unborn"
    BY <1>0, <2>1, <2>2
  <2>4. next \notin reused
    BY <1>1, <2>3 DEF Ended
  <2>5. \A c \in reused' : child'[c] \in Ended
    BY <1>0, <1>1, <2>1, <2>4
  <2>6. \A c \in 1..Children : c > next' => child'[c] = "unborn"
    BY <1>0, <2>1, <2>2
  <2>7. Host!TypeOK'
    BY <1>0, <2>1 DEF Host!TypeOK, Host!Follows
  <2>8. Host!NothingIsLeft'
    BY <1>0, <2>1 DEF Host!NothingIsLeft
  <2>. QED
    BY <1>0, <1>1, <2>1, <2>5, <2>6, <2>7, <2>8 DEF HostInv
<1>11. CASE Host!Record
  <2>1. /\ command = "record" /\ pids' = pids \cup {next} /\ command' \in {"validate", "launch"}
        /\ next' = next + 1 /\ role' = role /\ child' = child /\ reused' = reused
        /\ textfiles' = textfiles /\ hit' = hit /\ surviving' = surviving /\ cut' = cut
    BY <1>11 DEF Host!Record, Host!host, Host!history
  <2>2. next \in 1..Children /\ \A c \in 1..Children : c > next => child[c] = "unborn"
    BY <2>1 DEF HostInv
  <2>3. next' \in 1..(Children + 1) /\ \A c \in 1..Children : c >= next' => child'[c] = "unborn"
    BY <1>0, <2>1, <2>2
  <2>4. Host!TypeOK'
    BY <1>0, <2>1, <2>2, <2>3 DEF Host!TypeOK, Host!Follows
  <2>5. Host!NothingIsLeft'
    BY <1>0, <2>1 DEF Host!NothingIsLeft
  <2>. QED
    BY <1>0, <1>1, <2>1, <2>3, <2>4, <2>5 DEF HostInv
<1>12. CASE Host!Started \/ Host!Refuse \/ Host!OneEnded \/ Host!Ignore
  BY <1>0, <1>8, <1>9, <1>12 DEF Host!Started, Host!Refuse, Host!OneEnded, Host!Ignore,
     Host!GoesTo, Host!GoTo, Host!host, Host!history
<1>13. CASE Host!Validated
  BY <1>0, <1>8, <1>9, <1>13 DEF Host!Validated, Host!GoTo, Host!host, Host!history
<1>14. CASE Host!Signal
  BY <1>0, <1>8, <1>9, <1>14 DEF Host!Signal, Host!GoTo, Host!host
<1>15. ASSUME NEW cmd, Host!ForEach(cmd)
       PROVE  /\ next < Children => command' = cmd /\ next' = next + 1
              /\ next >= Children => command' = Host!Follows[cmd] /\ next' = 1
              /\ next' \in 1..(Children + 1)
  BY <1>0, <1>15 DEF Host!ForEach, Host!GoTo
<1>16. CASE Host!Send
  <2>1. /\ command \in {"term", "kill"}
        /\ command' \in {"term", "kill", "grace", "last"} /\ next' \in 1..(Children + 1)
        /\ role' = role /\ pids' = pids /\ reused' = reused
        /\ textfiles' = textfiles /\ surviving' = surviving /\ cut' = cut
    BY <1>0, <1>15, <1>16 DEF Host!Send, Host!Follows
  <2>2. CASE ~(next \in pids /\ Host!Owned(next))
    <3>1. child' = child /\ hit' = hit
      BY <1>16, <2>2 DEF Host!Send
    <3>. QED
      BY <1>0, <1>8, <2>1, <3>1
  <2>3. CASE next \in pids /\ Host!Owned(next)
    <3>1. next \notin reused
      BY <1>1, <2>3 DEF Ended, Host!Owned, Host!Lives
    <3>2. child' = [child EXCEPT ![next] = Host!Struck(next, command)] /\ hit' = hit
      BY <1>0, <1>16, <2>3, <3>1 DEF Host!Send
    <3>3. Host!Struck(next, command) \in {"ended", "deaf", "doomed"}
      BY <1>0, <2>3 DEF Host!Struck, Host!Owned, Host!Lives
    <3>4. child' \in [1..Children ->
            {"unborn", "runs", "deaf", "stuck", "doomed", "ended", "fell", "dropped"}]
      BY <1>0, <3>2, <3>3
    <3>5. \A c \in reused' : child'[c] \in Ended
      BY <1>0, <1>1, <2>1, <3>1, <3>2
    <3>6. Host!TypeOK'
      BY <1>0, <2>1, <3>2, <3>4 DEF Host!TypeOK, Host!Follows
    <3>7. Host!NothingIsLeft'
      BY <1>0, <2>1, <3>2 DEF Host!NothingIsLeft
    <3>. QED
      BY <1>0, <1>1, <2>1, <3>2, <3>5, <3>6, <3>7 DEF HostInv
  <2>. QED
    BY <2>2, <2>3
<1>17. CASE Host!Poll
  <2>1. /\ role' = role /\ child' = child /\ reused' = reused /\ textfiles' = textfiles
        /\ hit' = hit /\ pids' = pids /\ surviving' = surviving /\ cut' = cut
    BY <1>17 DEF Host!Poll, Host!GoesTo, Host!host, Host!history
  <2>2. /\ next' \in 1..(Children + 1) \cup 1..Attempts
        /\ \/ command' \in {"grace", "last", "kill"}
           \/ command' = "report" /\ next' = 1
    <3>1. CASE next < Attempts /\ \E c \in pids : Host!Owned(c)
      <4>1. next' = next + 1 /\ command' = command /\ command \in {"grace", "last"}
        BY <1>17, <3>1 DEF Host!Poll
      <4>. QED
        BY <1>0, <3>1, <4>1
    <3>2. CASE ~(next < Attempts /\ \E c \in pids : Host!Owned(c))
      BY <1>9, <1>17, <3>2 DEF Host!Poll, Host!GoesTo, Host!GoTo, Host!Follows
    <3>. QED
      BY <3>1, <3>2
  <2>. QED
    BY <1>0, <1>8, <2>1, <2>2
<1>18. CASE Host!Report
  <2>1. /\ command = "report" /\ role' = role /\ pids' = pids /\ child' = child
        /\ reused' = reused /\ textfiles' = textfiles /\ hit' = hit /\ cut' = cut
        /\ surviving' = surviving \cup ({next} \cap {c \in pids : Host!Lives(c)})
    BY <1>18 DEF Host!Report, Host!Owned, Host!host
  <2>2. /\ next < Children => command' = "report" /\ next' = next + 1
        /\ next >= Children => command' = "files" /\ next' = 1
        /\ next' \in 1..(Children + 1)
    BY <1>15, <1>18 DEF Host!Report, Host!Follows
  <2>3. \A c \in pids : c < next /\ Host!Lives(c) => c \in surviving
    BY <2>1 DEF HostInv
  <2>4. ASSUME NEW c \in pids, Host!Lives(c), c <= next
        PROVE  c \in surviving'
    BY <1>0, <2>1, <2>3, <2>4
  <2>5. \A c \in pids : Host!Lives(c)' => Host!Lives(c)
    BY <2>1 DEF Host!Lives
  <2>6. command' = "report" => \A c \in pids' : c < next' /\ Host!Lives(c)' => c \in surviving'
    BY <1>0, <2>1, <2>2, <2>4, <2>5
  <2>7. command' = "files" => \A c \in pids' : Host!Lives(c)' => c \in surviving'
    BY <1>0, <2>1, <2>2, <2>4, <2>5
  <2>8. command' \in {"report", "files"}
    BY <1>0, <2>2
  <2>9. Host!TypeOK'
    BY <1>0, <2>1, <2>2, <2>8 DEF Host!TypeOK, Host!Follows
  <2>10. Host!NothingIsLeft'
    BY <1>0, <2>1, <2>8 DEF Host!NothingIsLeft
  <2>. QED
    BY <1>0, <1>1, <2>1, <2>6, <2>7, <2>8, <2>9, <2>10 DEF HostInv
<1>19. CASE Host!Remove
  <2>1. /\ command = "files" /\ command' = "gone" /\ next' = 1
        /\ role' = role /\ pids' = pids /\ child' = child /\ reused' = reused
        /\ hit' = hit /\ surviving' = surviving /\ cut' = cut
    BY <1>19 DEF Host!Remove, Host!GoTo, Host!history
  <2>2. textfiles' = FALSE
    BY <1>1, <1>19 DEF Host!Remove
  <2>3. \A c \in pids : Host!Lives(c) => c \in surviving
    BY <2>1 DEF HostInv
  <2>4. \A c \in pids' : Host!Lives(c)' => c \in surviving'
    BY <2>1, <2>3 DEF Host!Lives
  <2>5. Host!NothingIsLeft'
    BY <1>0, <2>1, <2>2, <2>4 DEF Host!NothingIsLeft
  <2>6. Host!TypeOK'
    BY <1>0, <1>9, <2>1, <2>2 DEF Host!TypeOK, Host!Follows
  <2>. QED
    BY <1>0, <1>1, <2>1, <2>2, <2>5, <2>6 DEF HostInv
<1>. QED
  BY <1>4, <1>5, <1>6, <1>7, <1>10, <1>11, <1>12, <1>13, <1>14, <1>16, <1>17, <1>18, <1>19
     DEF Host!SupervisorNext, Host!Shell, Host!Outside

-----------------------------------------------------------------------------
(* The services together.  A step is one of its part, and the others stay. *)
ServicesInv == ScheduleInv /\ IsolatedInv /\ ServerInv /\ HostInv

LEMMA ServicesStep ==
  ASSUME [ServicesNext]_services
  PROVE  /\ [ScheduleNext]_schedule
         /\ [Isolated!Next]_isolated
         /\ [Server!Next]_server
         /\ [Host!SupervisorNext]_host
  BY DEF ServicesNext, services

LEMMA IsolatedStays ==
  ASSUME IsolatedInv, UNCHANGED isolated
  PROVE  IsolatedInv'
<1>1. /\ proc' = proc /\ asked' = asked /\ replied' = replied /\ process' = process
      /\ unreaped' = unreaped /\ request' = request /\ ticket' = ticket /\ step' = step
      /\ result' = result /\ controller' = controller
  BY DEF isolated
<1>2. Isolated!TypeOK'
  BY <1>1 DEF IsolatedInv, Isolated!TypeOK
<1>3. Isolated!WorkerIsIsolated'
  BY <1>1 DEF IsolatedInv, Isolated!WorkerIsIsolated, Isolated!OneWorker,
     Isolated!AnswersItsRequest, Isolated!Alive
<1>. QED
  BY <1>1, <1>2, <1>3 DEF IsolatedInv, Clean

LEMMA ServerStays ==
  ASSUME ServerInv, UNCHANGED server
  PROVE  ServerInv'
  BY DEF ServerInv, InHandOnly, Server!TypeOK, server

LEMMA HostStays ==
  ASSUME HostInv, UNCHANGED host
  PROVE  HostInv'
<1>1. /\ role' = role /\ command' = command /\ next' = next /\ pids' = pids /\ child' = child
      /\ reused' = reused /\ textfiles' = textfiles /\ hit' = hit /\ surviving' = surviving
      /\ cut' = cut
  BY DEF host
<1>2. Host!TypeOK' /\ Host!NothingIsLeft'
  BY <1>1 DEF HostInv, Host!TypeOK, Host!NothingIsLeft, Host!Lives
<1>3. \A c \in pids : Host!Lives(c)' <=> Host!Lives(c)
  BY <1>1 DEF Host!Lives
<1>. QED
  BY <1>1, <1>2, <1>3 DEF HostInv

LEMMA ServicesKept == ASSUME ServicesInv, [ServicesNext]_services PROVE ServicesInv'
<1>1. ScheduleInv'
  BY ServicesStep, ScheduleKept DEF ServicesInv
<1>2. IsolatedInv'
  BY ServicesStep, IsolatedKept, IsolatedStays DEF ServicesInv
<1>3. ServerInv'
  BY ServicesStep, ServerKept, ServerStays DEF ServicesInv
<1>4. HostInv'
  BY ServicesStep, HostKept, HostStays DEF ServicesInv
<1>. QED
  BY <1>1, <1>2, <1>3, <1>4 DEF ServicesInv

LEMMA ServicesStart == ASSUME ServicesInit PROVE ServicesInv
<1>1. ScheduleInv
  BY ScheduleStarts DEF ServicesInit
<1>2. IsolatedInv
  <2>1. /\ proc = [w \in 1..Requests |-> "unborn"] /\ asked = [w \in 1..Requests |-> 0]
        /\ replied = [w \in 1..Requests |-> 0] /\ process = 0 /\ unreaped = FALSE
        /\ request = 0 /\ ticket = 0 /\ step = "idle"
        /\ result = [r \in 1..Requests |-> 0] /\ controller = "open"
    BY DEF ServicesInit, Isolated!Init, Isolated!Workers, Isolated!None
  <2>0. Requests \in Nat /\ 0 \in 0..Requests /\ 0 \in 0..(Requests + 1)
    BY ServicesAssumption
  <2>2. Isolated!TypeOK
    BY <2>0, <2>1 DEF Isolated!TypeOK, Isolated!Workers, Isolated!None, Isolated!Failed
  <2>3. Isolated!WorkerIsIsolated
    BY <2>1 DEF Isolated!WorkerIsIsolated, Isolated!OneWorker, Isolated!AnswersItsRequest,
       Isolated!Alive, Isolated!Workers, Isolated!None, Isolated!Failed
  <2>. QED
    BY <2>1, <2>2, <2>3 DEF IsolatedInv, Clean
<1>3. ServerInv
  <2>1. /\ socket = [c \in 1..Clients |-> "none"] /\ client = [c \in 1..Clients |-> "prompt"]
        /\ serving = 0 /\ where = "accept" /\ active = 0 /\ remaining = 0
        /\ guard = "awake" /\ alarm = Timeout + 1 /\ closing = FALSE
    BY DEF ServicesInit, Server!Init, Server!Connections, Server!NoConnection, Server!Forever
  <2>0. /\ Clients \in Nat /\ Timeout \in Nat /\ 0 \in 0..Clients /\ 0 \in 0..Timeout
        /\ Timeout + 1 \in 0..(Timeout + 1)
    BY ServicesAssumption
  <2>2. Server!TypeOK
    BY <2>0, <2>1
       DEF Server!TypeOK, Server!Connections, Server!NoConnection, Server!Forever
  <2>. QED
    BY <2>1, <2>2 DEF ServerInv, InHandOnly
<1>4. HostInv
  <2>1. /\ role \in {"node", "server"} /\ command = "launch" /\ next = 1 /\ pids = {}
        /\ child = [c \in 1..Children |-> "unborn"] /\ reused = {}
        /\ textfiles = (role = "node") /\ hit = FALSE /\ surviving = {} /\ cut = FALSE
    BY DEF ServicesInit, Host!Init, Host!Child
  <2>0. 1 \in 1..(Children + 1)
    BY ServicesAssumption
  <2>2. Host!TypeOK
    BY <2>0, <2>1 DEF Host!TypeOK, Host!Child, Host!Follows
  <2>. QED
    BY <2>1, <2>2 DEF HostInv, Host!NothingIsLeft, Host!Child
<1>. QED
  BY <1>1, <1>2, <1>3, <1>4 DEF ServicesInv

LEMMA ServicesInvHolds == ServicesSpec => []ServicesInv
  BY ServicesStart, ServicesKept, PTL DEF ServicesSpec

(* The variables of all four services keep their types.                    *)
THEOREM ServicesTypes == ServicesSpec => []TypesOK
<1>1. ServicesInv => TypesOK
  BY DEF ServicesInv, ScheduleInv, IsolatedInv, ServerInv, HostInv, TypesOK
<1>. QED
  BY <1>1, ServicesInvHolds, PTL

(* The answer to a request was written for it by a worker that is alone,   *)
(* though workers fail, hang and outlive their KILL (IsolatedAnalyzer's    *)
(* process, _stop and _reap), and the deadline of the clock server is that *)
(* of the connection in hand (_ConnectionDeadlines).                       *)
THEOREM RequestsIsolated == ServicesSpec => []RequestsAreIsolated
<1>1. ServicesInv => RequestsAreIsolated
  BY DEF ServicesInv, IsolatedInv, ServerInv, InHandOnly, RequestsAreIsolated,
     Server!OnlyInHandIsWatched, Server!TypeOK, Server!Connections, Server!NoConnection
<1>. QED
  BY <1>1, ServicesInvHolds, PTL

(* A connection is cut when its time is over or the server closes, and at  *)
(* no other time (_ConnectionDeadlines._run).                              *)
THEOREM CutWhenDue == ServicesSpec => Server!CutIsDue
<1>1. ServicesInv /\ [ServicesNext]_services =>
        [\A c \in Server!Connections :
           socket[c] = "open" /\ socket'[c] = "cut" => remaining = 0 \/ closing']_(Server!vars)
  <2> SUFFICES ASSUME ServicesInv, [ServicesNext]_services, ~UNCHANGED Server!vars
               PROVE  \A c \in Server!Connections :
                        socket[c] = "open" /\ socket'[c] = "cut" => remaining = 0 \/ closing'
    OBVIOUS
  <2>1. Server!Next
    BY ServicesStep DEF server, Server!vars, Server!connections, Server!thread, Server!watch
  <2>. QED
    BY <2>1, CutsAreDue DEF ServicesInv, Server!Connections
<1>. QED
  BY <1>1, ServicesInvHolds, PTL DEF ServicesSpec, Server!CutIsDue

(* Whatever its children ignore and whenever a signal comes, the shell     *)
(* that is gone after a whole cleanup has stopped what it had recorded or  *)
(* told of it, has signalled no stranger, and leaves no sample to scrape   *)
(* that nobody will write again (run_telemetry.sh: child_is_owned, cleanup). *)
THEOREM NothingLeft == ServicesSpec => []NothingIsLeft
<1>1. ServicesInv => NothingIsLeft
  BY DEF ServicesInv, HostInv, NothingIsLeft
<1>. QED
  BY <1>1, ServicesInvHolds, PTL
=============================================================================
