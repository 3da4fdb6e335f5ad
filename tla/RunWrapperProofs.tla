-------------------------- MODULE RunWrapperProofs --------------------------
(***************************************************************************)
(* What holds of the run wrapper with and without diagnostics, wherever a  *)
(* signal arrives, whatever hangs and whichever numbers are used again.    *)
(* The invariant speaks of the order of the commands that are left, never  *)
(* of places in the script: of the two scripts themselves it is proved     *)
(* once, from the lists.                                                   *)
(***************************************************************************)
EXTENDS RunWrapper, SequenceTheorems, TLAPS

Verbs    == {"spawn", "name", "announce", "await", "stop", "export", "finish", "exit"}
Commands == Verbs \X (Sessions \union {"shell"})

(* Command c is on the list sc; every c on it is followed by a d; no c on  *)
(* it is followed by a d.                                                  *)
In(c, sc)        == \E i \in 1..Len(sc) : sc[i] = c
Leads(c, d, sc)  == \A i \in 1..Len(sc) : sc[i] = c => \E j \in (i + 1)..Len(sc) : sc[j] = d
Closes(c, d, sc) == \A i \in 1..Len(sc) : sc[i] = c => \A j \in (i + 1)..Len(sc) : sc[j] # d

(* The order of the commands that the properties rest on.  What is left of *)
(* an ordered list is ordered.                                             *)
Ordered(sc) ==
  /\ \A s \in Sessions : /\ Leads(<<"name", s>>, <<"stop", s>>, sc)
                         /\ Closes(<<"name", s>>, <<"spawn", s>>, sc)
                         /\ Closes(<<"spawn", s>>, <<"spawn", s>>, sc)
                         /\ Closes(<<"export", s>>, <<"stop", s>>, sc)
  /\ Leads(<<"stop", "health">>, <<"finish", "shell">>, sc)
  /\ Leads(<<"announce", "shell">>, <<"finish", "shell">>, sc)
  /\ Leads(<<"await", "workload">>, <<"finish", "shell">>, sc)
  /\ \A c \in Commands : /\ c # <<"exit", "shell">> => Leads(c, <<"exit", "shell">>, sc)
                         /\ Closes(<<"exit", "shell">>, c, sc)
  /\ \A i \in 1..Len(sc) : sc[i] = <<"spawn", "logger">> =>
       i + 2 <= Len(sc) /\ sc[i+1] = <<"name", "logger">> /\ sc[i+2] = <<"await", "logger">>

Left(c) == In(c, script)

(* After a trap only the short script is left.                             *)
ScriptInv ==
  /\ script \in Seq(Commands)
  /\ Ordered(script)
  /\ caught # "none" => \A c \in Commands : Left(c) => c[1] \in {"stop", "finish", "exit"}

(* A stop under way holds a number, and its TERM left no child of the      *)
(* shell that had not become what it runs.                                 *)
StageInv ==
  /\ stage = "running" => \E s \in Sessions : At("export", s)
  /\ stage \in {"term", "kill"} => \E s \in Sessions : At("stop", s) /\ pid[s] = "held"
  /\ \A s \in Sessions : At("stop", s) /\ stage = "term" => leader[s] # "new"

(* A session that is held is still to be stopped; before the trap one that *)
(* is unset is still to be named, but for a logger without a file.         *)
PidInv ==
  \A s \in Sessions :
    /\ pid[s] = "held" => Left(<<"stop", s>>)
    /\ Left(<<"spawn", s>>) => pid[s] = "unset" /\ leader[s] = "none"
    /\ caught = "none" /\ s # "logger" /\ pid[s] = "unset" => Left(<<"name", s>>)

(* A session that has had its KILL: a sidecar is down or doomed, and what  *)
(* still lives was told of.                                                *)
Past(s)    == pid[s] = "cleared" \/ (stage = "kill" /\ At("stop", s))
Settled(s) == leader[s] \notin {"new", "up", "hung"} /\ rest[s] \notin {"up", "hung"}
PastInv ==
  \A s \in Sessions :
    /\ Past(s) /\ s # "workload" => Settled(s)
    /\ Past(s) /\ Lives(s) => told[s] # "nothing"
    /\ pid[s] = "cleared" /\ s # "workload" /\ Owned(s) => told[s] = "pending"

(* A stranger carries the number of a sidecar only when nothing of it is   *)
(* alive.                                                                  *)
StrayInv ==
  \A s \in Sessions :
    /\ stray[s] # "hit"
    /\ s # "workload" /\ stray[s] # "no" => leader[s] = "gone" /\ rest[s] \notin Alive

(* What has been run of the script shows in the record and the exit.       *)
RecordInv ==
  /\ caught = "none" /\ ~Left(<<"await", "workload">>) => leader["workload"] = "gone"
  /\ ~Left(<<"finish", "shell">>) =>
       \/ record = [status |-> "finished", code |-> Outcome]
       \/ told["record"] = "unrecorded" \/ ObserverLeft
  /\ ~Left(<<"exit", "shell">>) => script = <<>> /\ code = Outcome

WrapperInv == ScriptInv /\ StageInv /\ PidInv /\ PastInv /\ StrayInv /\ RecordInv /\ TypeOK
-----------------------------------------------------------------------------
(* The two scripts, with and without diagnostics.                          *)
LEMMA NormalFull ==
  ASSUME "diagnostics" \in Sidecars
  PROVE  /\ Len(Normal) = 22
         /\ Normal[1] = <<"spawn", "bridge">> /\ Normal[2] = <<"name", "bridge">>
         /\ Normal[3] = <<"spawn", "diagnostics">> /\ Normal[4] = <<"name", "diagnostics">>
         /\ Normal[5] = <<"announce", "shell">> /\ Normal[6] = <<"spawn", "workload">>
         /\ Normal[7] = <<"name", "workload">> /\ Normal[8] = <<"spawn", "health">>
         /\ Normal[9] = <<"name", "health">> /\ Normal[10] = <<"await", "workload">>
         /\ Normal[11] = <<"stop", "workload">> /\ Normal[12] = <<"spawn", "logger">>
         /\ Normal[13] = <<"name", "logger">> /\ Normal[14] = <<"await", "logger">>
         /\ Normal[15] = <<"stop", "logger">> /\ Normal[16] = <<"stop", "health">>
         /\ Normal[17] = <<"stop", "bridge">> /\ Normal[18] = <<"stop", "diagnostics">>
         /\ Normal[19] = <<"export", "bridge">> /\ Normal[20] = <<"export", "diagnostics">>
         /\ Normal[21] = <<"finish", "shell">> /\ Normal[22] = <<"exit", "shell">>
BY SMTT(60) DEF Normal, Launch, Option, Run, Stop

LEMMA NormalBare ==
  ASSUME "diagnostics" \notin Sidecars
  PROVE  /\ Len(Normal) = 18
         /\ Normal[1] = <<"spawn", "bridge">> /\ Normal[2] = <<"name", "bridge">>
         /\ Normal[3] = <<"announce", "shell">> /\ Normal[4] = <<"spawn", "workload">>
         /\ Normal[5] = <<"name", "workload">> /\ Normal[6] = <<"spawn", "health">>
         /\ Normal[7] = <<"name", "health">> /\ Normal[8] = <<"await", "workload">>
         /\ Normal[9] = <<"stop", "workload">> /\ Normal[10] = <<"spawn", "logger">>
         /\ Normal[11] = <<"name", "logger">> /\ Normal[12] = <<"await", "logger">>
         /\ Normal[13] = <<"stop", "logger">> /\ Normal[14] = <<"stop", "health">>
         /\ Normal[15] = <<"stop", "bridge">> /\ Normal[16] = <<"export", "bridge">>
         /\ Normal[17] = <<"finish", "shell">> /\ Normal[18] = <<"exit", "shell">>
BY SMTT(60) DEF Normal, Launch, Option, Run, Stop

LEMMA InterruptedFull ==
  ASSUME "diagnostics" \in Sidecars
  PROVE  /\ Len(Interrupted) = 7
         /\ Interrupted[1] = <<"stop", "workload">> /\ Interrupted[2] = <<"stop", "health">>
         /\ Interrupted[3] = <<"finish", "shell">> /\ Interrupted[4] = <<"stop", "logger">>
         /\ Interrupted[5] = <<"stop", "bridge">> /\ Interrupted[6] = <<"stop", "diagnostics">>
         /\ Interrupted[7] = <<"exit", "shell">>
BY SMTT(60) DEF Interrupted, Sidestops, Option, Run, Stop

LEMMA InterruptedBare ==
  ASSUME "diagnostics" \notin Sidecars
  PROVE  /\ Len(Interrupted) = 6
         /\ Interrupted[1] = <<"stop", "workload">> /\ Interrupted[2] = <<"stop", "health">>
         /\ Interrupted[3] = <<"finish", "shell">> /\ Interrupted[4] = <<"stop", "logger">>
         /\ Interrupted[5] = <<"stop", "bridge">> /\ Interrupted[6] = <<"exit", "shell">>
BY SMTT(60) DEF Interrupted, Sidestops, Option, Run, Stop

LEMMA NormalPlacesFull ==
  ASSUME "diagnostics" \in Sidecars, NEW i \in 1..22, NEW s
  PROVE  /\ Normal[i] = <<"name", s>> =>
              \/ i = 2 /\ s = "bridge"
              \/ i = 4 /\ s = "diagnostics"
              \/ i = 7 /\ s = "workload"
              \/ i = 9 /\ s = "health"
              \/ i = 13 /\ s = "logger"
         /\ Normal[i] = <<"spawn", s>> =>
              \/ i = 1 /\ s = "bridge"
              \/ i = 3 /\ s = "diagnostics"
              \/ i = 6 /\ s = "workload"
              \/ i = 8 /\ s = "health"
              \/ i = 12 /\ s = "logger"
         /\ Normal[i] = <<"stop", s>> =>
              \/ i = 11 /\ s = "workload"
              \/ i = 15 /\ s = "logger"
              \/ i = 16 /\ s = "health"
              \/ i = 17 /\ s = "bridge"
              \/ i = 18 /\ s = "diagnostics"
         /\ Normal[i] = <<"export", s>> =>
              \/ i = 19 /\ s = "bridge"
              \/ i = 20 /\ s = "diagnostics"
         /\ Normal[i] = <<"announce", s>> =>
              \/ i = 5 /\ s = "shell"
         /\ Normal[i] = <<"await", s>> =>
              \/ i = 10 /\ s = "workload"
              \/ i = 14 /\ s = "logger"
         /\ Normal[i] = <<"finish", s>> =>
              \/ i = 21 /\ s = "shell"
         /\ Normal[i] = <<"exit", s>> =>
              \/ i = 22 /\ s = "shell"
<1>1. i = 1 \/ i = 2 \/ i = 3 \/ i = 4 \/ i = 5 \/ i = 6 \/ i = 7 \/ i = 8 \/ i = 9 \/
     i = 10 \/ i = 11 \/ i = 12 \/ i = 13 \/ i = 14 \/ i = 15 \/ i = 16 \/ i = 17 \/ i = 18 \/ i = 19 \/ i = 20 \/ i = 21 \/ i = 22
  OBVIOUS
<1>. QED
  BY <1>1, NormalFull

LEMMA NormalPlacesBare ==
  ASSUME "diagnostics" \notin Sidecars, NEW i \in 1..18, NEW s
  PROVE  /\ Normal[i] = <<"name", s>> =>
              \/ i = 2 /\ s = "bridge"
              \/ i = 5 /\ s = "workload"
              \/ i = 7 /\ s = "health"
              \/ i = 11 /\ s = "logger"
         /\ Normal[i] = <<"spawn", s>> =>
              \/ i = 1 /\ s = "bridge"
              \/ i = 4 /\ s = "workload"
              \/ i = 6 /\ s = "health"
              \/ i = 10 /\ s = "logger"
         /\ Normal[i] = <<"stop", s>> =>
              \/ i = 9 /\ s = "workload"
              \/ i = 13 /\ s = "logger"
              \/ i = 14 /\ s = "health"
              \/ i = 15 /\ s = "bridge"
         /\ Normal[i] = <<"export", s>> =>
              \/ i = 16 /\ s = "bridge"
         /\ Normal[i] = <<"announce", s>> =>
              \/ i = 3 /\ s = "shell"
         /\ Normal[i] = <<"await", s>> =>
              \/ i = 8 /\ s = "workload"
              \/ i = 12 /\ s = "logger"
         /\ Normal[i] = <<"finish", s>> =>
              \/ i = 17 /\ s = "shell"
         /\ Normal[i] = <<"exit", s>> =>
              \/ i = 18 /\ s = "shell"
<1>1. i = 1 \/ i = 2 \/ i = 3 \/ i = 4 \/ i = 5 \/ i = 6 \/ i = 7 \/ i = 8 \/ i = 9 \/
     i = 10 \/ i = 11 \/ i = 12 \/ i = 13 \/ i = 14 \/ i = 15 \/ i = 16 \/ i = 17 \/ i = 18
  OBVIOUS
<1>. QED
  BY <1>1, NormalBare

LEMMA InterruptedPlacesFull ==
  ASSUME "diagnostics" \in Sidecars, NEW i \in 1..7, NEW s
  PROVE  /\ Interrupted[i] = <<"name", s>> =>
              FALSE
         /\ Interrupted[i] = <<"spawn", s>> =>
              FALSE
         /\ Interrupted[i] = <<"stop", s>> =>
              \/ i = 1 /\ s = "workload"
              \/ i = 2 /\ s = "health"
              \/ i = 4 /\ s = "logger"
              \/ i = 5 /\ s = "bridge"
              \/ i = 6 /\ s = "diagnostics"
         /\ Interrupted[i] = <<"export", s>> =>
              FALSE
         /\ Interrupted[i] = <<"announce", s>> =>
              FALSE
         /\ Interrupted[i] = <<"await", s>> =>
              FALSE
         /\ Interrupted[i] = <<"finish", s>> =>
              \/ i = 3 /\ s = "shell"
         /\ Interrupted[i] = <<"exit", s>> =>
              \/ i = 7 /\ s = "shell"
<1>1. i = 1 \/ i = 2 \/ i = 3 \/ i = 4 \/ i = 5 \/ i = 6 \/ i = 7
  OBVIOUS
<1>. QED
  BY <1>1, InterruptedFull

LEMMA InterruptedPlacesBare ==
  ASSUME "diagnostics" \notin Sidecars, NEW i \in 1..6, NEW s
  PROVE  /\ Interrupted[i] = <<"name", s>> =>
              FALSE
         /\ Interrupted[i] = <<"spawn", s>> =>
              FALSE
         /\ Interrupted[i] = <<"stop", s>> =>
              \/ i = 1 /\ s = "workload"
              \/ i = 2 /\ s = "health"
              \/ i = 4 /\ s = "logger"
              \/ i = 5 /\ s = "bridge"
         /\ Interrupted[i] = <<"export", s>> =>
              FALSE
         /\ Interrupted[i] = <<"announce", s>> =>
              FALSE
         /\ Interrupted[i] = <<"await", s>> =>
              FALSE
         /\ Interrupted[i] = <<"finish", s>> =>
              \/ i = 3 /\ s = "shell"
         /\ Interrupted[i] = <<"exit", s>> =>
              \/ i = 6 /\ s = "shell"
<1>1. i = 1 \/ i = 2 \/ i = 3 \/ i = 4 \/ i = 5 \/ i = 6
  OBVIOUS
<1>. QED
  BY <1>1, InterruptedBare

LEMMA ScriptsAreCommands == Normal \in Seq(Commands) /\ Interrupted \in Seq(Commands)
<1>1. \A c \in Verbs, s \in Sessions \union {"shell"} : <<c, s>> \in Commands
  BY DEF Commands
<1>2. {"bridge", "health", "logger", "workload"} \subseteq Sessions
  BY SidecarsAssumption DEF Sessions
<1>3. "diagnostics" \in Sidecars => "diagnostics" \in Sessions
  BY DEF Sessions
<1>. QED
  BY <1>1, <1>2, <1>3 DEF Normal, Interrupted, Sidestops, Launch, Option, Run, Stop, Verbs

LEMMA NormalIsOrdered == Ordered(Normal)
<1>1. CASE "diagnostics" \in Sidecars
  <2>. Len(Normal) = 22
    BY <1>1, NormalFull
  <2>1. ASSUME NEW i \in 1..22, NEW s, Normal[i] = <<"name", s>>
        PROVE  \E j \in (i + 1)..22 : Normal[j] = <<"stop", s>>
    BY <1>1, <2>1, NormalPlacesFull, NormalFull
  <2>2. ASSUME NEW i \in 1..22, NEW s, Normal[i] = <<"name", s>>, NEW j \in (i + 1)..22
        PROVE  Normal[j] # <<"spawn", s>>
    BY <1>1, <2>2, NormalPlacesFull
  <2>3. ASSUME NEW i \in 1..22, NEW s, Normal[i] = <<"spawn", s>>, NEW j \in (i + 1)..22
        PROVE  Normal[j] # <<"spawn", s>>
    BY <1>1, <2>3, NormalPlacesFull
  <2>4. ASSUME NEW i \in 1..22, NEW s, Normal[i] = <<"export", s>>, NEW j \in (i + 1)..22
        PROVE  Normal[j] # <<"stop", s>>
    BY <1>1, <2>4, NormalPlacesFull
  <2>5. ASSUME NEW i \in 1..22,
               \/ Normal[i] = <<"stop", "health">> \/ Normal[i] = <<"announce", "shell">>
               \/ Normal[i] = <<"await", "workload">>
        PROVE  \E j \in (i + 1)..22 : Normal[j] = <<"finish", "shell">>
    BY <1>1, <2>5, NormalPlacesFull, NormalFull
  <2>6. ASSUME NEW i \in 1..22
        PROVE  Normal[i] = <<"exit", "shell">> <=> i = 22
    BY <1>1, NormalPlacesFull, NormalFull
  <2>7. ASSUME NEW i \in 1..22, Normal[i] = <<"spawn", "logger">>
        PROVE  i + 2 <= 22 /\ Normal[i+1] = <<"name", "logger">> /\ Normal[i+2] = <<"await", "logger">>
    BY <1>1, <2>7, NormalPlacesFull, NormalFull
  <2>8. \A s \in Sessions : Leads(<<"name", s>>, <<"stop", s>>, Normal)
    BY <2>1 DEF Leads
  <2>9. \A s \in Sessions : /\ Closes(<<"name", s>>, <<"spawn", s>>, Normal)
                             /\ Closes(<<"spawn", s>>, <<"spawn", s>>, Normal)
                             /\ Closes(<<"export", s>>, <<"stop", s>>, Normal)
    BY <2>2, <2>3, <2>4 DEF Closes
  <2>10. /\ Leads(<<"stop", "health">>, <<"finish", "shell">>, Normal)
         /\ Leads(<<"announce", "shell">>, <<"finish", "shell">>, Normal)
         /\ Leads(<<"await", "workload">>, <<"finish", "shell">>, Normal)
    BY <2>5 DEF Leads
  <2>11. ASSUME NEW c \in Commands
         PROVE  /\ c # <<"exit", "shell">> => Leads(c, <<"exit", "shell">>, Normal)
                /\ Closes(<<"exit", "shell">>, c, Normal)
    <3>1. c # <<"exit", "shell">> => Leads(c, <<"exit", "shell">>, Normal)
      BY <2>6 DEF Leads
    <3>2. Closes(<<"exit", "shell">>, c, Normal)
      BY <2>6 DEF Closes
    <3>. QED
      BY <3>1, <3>2
  <2>. QED
    BY <2>7, <2>8, <2>9, <2>10, <2>11 DEF Ordered
<1>2. CASE "diagnostics" \notin Sidecars
  <2>. Len(Normal) = 18
    BY <1>2, NormalBare
  <2>1. ASSUME NEW i \in 1..18, NEW s, Normal[i] = <<"name", s>>
        PROVE  \E j \in (i + 1)..18 : Normal[j] = <<"stop", s>>
    BY <1>2, <2>1, NormalPlacesBare, NormalBare
  <2>2. ASSUME NEW i \in 1..18, NEW s, Normal[i] = <<"name", s>>, NEW j \in (i + 1)..18
        PROVE  Normal[j] # <<"spawn", s>>
    BY <1>2, <2>2, NormalPlacesBare
  <2>3. ASSUME NEW i \in 1..18, NEW s, Normal[i] = <<"spawn", s>>, NEW j \in (i + 1)..18
        PROVE  Normal[j] # <<"spawn", s>>
    BY <1>2, <2>3, NormalPlacesBare
  <2>4. ASSUME NEW i \in 1..18, NEW s, Normal[i] = <<"export", s>>, NEW j \in (i + 1)..18
        PROVE  Normal[j] # <<"stop", s>>
    BY <1>2, <2>4, NormalPlacesBare
  <2>5. ASSUME NEW i \in 1..18,
               \/ Normal[i] = <<"stop", "health">> \/ Normal[i] = <<"announce", "shell">>
               \/ Normal[i] = <<"await", "workload">>
        PROVE  \E j \in (i + 1)..18 : Normal[j] = <<"finish", "shell">>
    BY <1>2, <2>5, NormalPlacesBare, NormalBare
  <2>6. ASSUME NEW i \in 1..18
        PROVE  Normal[i] = <<"exit", "shell">> <=> i = 18
    BY <1>2, NormalPlacesBare, NormalBare
  <2>7. ASSUME NEW i \in 1..18, Normal[i] = <<"spawn", "logger">>
        PROVE  i + 2 <= 18 /\ Normal[i+1] = <<"name", "logger">> /\ Normal[i+2] = <<"await", "logger">>
    BY <1>2, <2>7, NormalPlacesBare, NormalBare
  <2>8. \A s \in Sessions : Leads(<<"name", s>>, <<"stop", s>>, Normal)
    BY <2>1 DEF Leads
  <2>9. \A s \in Sessions : /\ Closes(<<"name", s>>, <<"spawn", s>>, Normal)
                             /\ Closes(<<"spawn", s>>, <<"spawn", s>>, Normal)
                             /\ Closes(<<"export", s>>, <<"stop", s>>, Normal)
    BY <2>2, <2>3, <2>4 DEF Closes
  <2>10. /\ Leads(<<"stop", "health">>, <<"finish", "shell">>, Normal)
         /\ Leads(<<"announce", "shell">>, <<"finish", "shell">>, Normal)
         /\ Leads(<<"await", "workload">>, <<"finish", "shell">>, Normal)
    BY <2>5 DEF Leads
  <2>11. ASSUME NEW c \in Commands
         PROVE  /\ c # <<"exit", "shell">> => Leads(c, <<"exit", "shell">>, Normal)
                /\ Closes(<<"exit", "shell">>, c, Normal)
    <3>1. c # <<"exit", "shell">> => Leads(c, <<"exit", "shell">>, Normal)
      BY <2>6 DEF Leads
    <3>2. Closes(<<"exit", "shell">>, c, Normal)
      BY <2>6 DEF Closes
    <3>. QED
      BY <3>1, <3>2
  <2>. QED
    BY <2>7, <2>8, <2>9, <2>10, <2>11 DEF Ordered
<1>. QED
  BY <1>1, <1>2

LEMMA InterruptedIsOrdered == Ordered(Interrupted)
<1>1. CASE "diagnostics" \in Sidecars
  <2>. Len(Interrupted) = 7
    BY <1>1, InterruptedFull
  <2>1. ASSUME NEW i \in 1..7, NEW s, Interrupted[i] = <<"name", s>>
        PROVE  \E j \in (i + 1)..7 : Interrupted[j] = <<"stop", s>>
    BY <1>1, <2>1, InterruptedPlacesFull, InterruptedFull
  <2>2. ASSUME NEW i \in 1..7, NEW s, Interrupted[i] = <<"name", s>>, NEW j \in (i + 1)..7
        PROVE  Interrupted[j] # <<"spawn", s>>
    BY <1>1, <2>2, InterruptedPlacesFull
  <2>3. ASSUME NEW i \in 1..7, NEW s, Interrupted[i] = <<"spawn", s>>, NEW j \in (i + 1)..7
        PROVE  Interrupted[j] # <<"spawn", s>>
    BY <1>1, <2>3, InterruptedPlacesFull
  <2>4. ASSUME NEW i \in 1..7, NEW s, Interrupted[i] = <<"export", s>>, NEW j \in (i + 1)..7
        PROVE  Interrupted[j] # <<"stop", s>>
    BY <1>1, <2>4, InterruptedPlacesFull
  <2>5. ASSUME NEW i \in 1..7,
               \/ Interrupted[i] = <<"stop", "health">> \/ Interrupted[i] = <<"announce", "shell">>
               \/ Interrupted[i] = <<"await", "workload">>
        PROVE  \E j \in (i + 1)..7 : Interrupted[j] = <<"finish", "shell">>
    BY <1>1, <2>5, InterruptedPlacesFull, InterruptedFull
  <2>6. ASSUME NEW i \in 1..7
        PROVE  Interrupted[i] = <<"exit", "shell">> <=> i = 7
    BY <1>1, InterruptedPlacesFull, InterruptedFull
  <2>7. ASSUME NEW i \in 1..7, Interrupted[i] = <<"spawn", "logger">>
        PROVE  i + 2 <= 7 /\ Interrupted[i+1] = <<"name", "logger">> /\ Interrupted[i+2] = <<"await", "logger">>
    BY <1>1, <2>7, InterruptedPlacesFull, InterruptedFull
  <2>8. \A s \in Sessions : Leads(<<"name", s>>, <<"stop", s>>, Interrupted)
    BY <2>1 DEF Leads
  <2>9. \A s \in Sessions : /\ Closes(<<"name", s>>, <<"spawn", s>>, Interrupted)
                             /\ Closes(<<"spawn", s>>, <<"spawn", s>>, Interrupted)
                             /\ Closes(<<"export", s>>, <<"stop", s>>, Interrupted)
    BY <2>2, <2>3, <2>4 DEF Closes
  <2>10. /\ Leads(<<"stop", "health">>, <<"finish", "shell">>, Interrupted)
         /\ Leads(<<"announce", "shell">>, <<"finish", "shell">>, Interrupted)
         /\ Leads(<<"await", "workload">>, <<"finish", "shell">>, Interrupted)
    BY <2>5 DEF Leads
  <2>11. ASSUME NEW c \in Commands
         PROVE  /\ c # <<"exit", "shell">> => Leads(c, <<"exit", "shell">>, Interrupted)
                /\ Closes(<<"exit", "shell">>, c, Interrupted)
    <3>1. c # <<"exit", "shell">> => Leads(c, <<"exit", "shell">>, Interrupted)
      BY <2>6 DEF Leads
    <3>2. Closes(<<"exit", "shell">>, c, Interrupted)
      BY <2>6 DEF Closes
    <3>. QED
      BY <3>1, <3>2
  <2>. QED
    BY <2>7, <2>8, <2>9, <2>10, <2>11 DEF Ordered
<1>2. CASE "diagnostics" \notin Sidecars
  <2>. Len(Interrupted) = 6
    BY <1>2, InterruptedBare
  <2>1. ASSUME NEW i \in 1..6, NEW s, Interrupted[i] = <<"name", s>>
        PROVE  \E j \in (i + 1)..6 : Interrupted[j] = <<"stop", s>>
    BY <1>2, <2>1, InterruptedPlacesBare, InterruptedBare
  <2>2. ASSUME NEW i \in 1..6, NEW s, Interrupted[i] = <<"name", s>>, NEW j \in (i + 1)..6
        PROVE  Interrupted[j] # <<"spawn", s>>
    BY <1>2, <2>2, InterruptedPlacesBare
  <2>3. ASSUME NEW i \in 1..6, NEW s, Interrupted[i] = <<"spawn", s>>, NEW j \in (i + 1)..6
        PROVE  Interrupted[j] # <<"spawn", s>>
    BY <1>2, <2>3, InterruptedPlacesBare
  <2>4. ASSUME NEW i \in 1..6, NEW s, Interrupted[i] = <<"export", s>>, NEW j \in (i + 1)..6
        PROVE  Interrupted[j] # <<"stop", s>>
    BY <1>2, <2>4, InterruptedPlacesBare
  <2>5. ASSUME NEW i \in 1..6,
               \/ Interrupted[i] = <<"stop", "health">> \/ Interrupted[i] = <<"announce", "shell">>
               \/ Interrupted[i] = <<"await", "workload">>
        PROVE  \E j \in (i + 1)..6 : Interrupted[j] = <<"finish", "shell">>
    BY <1>2, <2>5, InterruptedPlacesBare, InterruptedBare
  <2>6. ASSUME NEW i \in 1..6
        PROVE  Interrupted[i] = <<"exit", "shell">> <=> i = 6
    BY <1>2, InterruptedPlacesBare, InterruptedBare
  <2>7. ASSUME NEW i \in 1..6, Interrupted[i] = <<"spawn", "logger">>
        PROVE  i + 2 <= 6 /\ Interrupted[i+1] = <<"name", "logger">> /\ Interrupted[i+2] = <<"await", "logger">>
    BY <1>2, <2>7, InterruptedPlacesBare, InterruptedBare
  <2>8. \A s \in Sessions : Leads(<<"name", s>>, <<"stop", s>>, Interrupted)
    BY <2>1 DEF Leads
  <2>9. \A s \in Sessions : /\ Closes(<<"name", s>>, <<"spawn", s>>, Interrupted)
                             /\ Closes(<<"spawn", s>>, <<"spawn", s>>, Interrupted)
                             /\ Closes(<<"export", s>>, <<"stop", s>>, Interrupted)
    BY <2>2, <2>3, <2>4 DEF Closes
  <2>10. /\ Leads(<<"stop", "health">>, <<"finish", "shell">>, Interrupted)
         /\ Leads(<<"announce", "shell">>, <<"finish", "shell">>, Interrupted)
         /\ Leads(<<"await", "workload">>, <<"finish", "shell">>, Interrupted)
    BY <2>5 DEF Leads
  <2>11. ASSUME NEW c \in Commands
         PROVE  /\ c # <<"exit", "shell">> => Leads(c, <<"exit", "shell">>, Interrupted)
                /\ Closes(<<"exit", "shell">>, c, Interrupted)
    <3>1. c # <<"exit", "shell">> => Leads(c, <<"exit", "shell">>, Interrupted)
      BY <2>6 DEF Leads
    <3>2. Closes(<<"exit", "shell">>, c, Interrupted)
      BY <2>6 DEF Closes
    <3>. QED
      BY <3>1, <3>2
  <2>. QED
    BY <2>7, <2>8, <2>9, <2>10, <2>11 DEF Ordered
<1>. QED
  BY <1>1, <1>2

(* What the two scripts hold.                                               *)
LEMMA NormalHolds ==
  /\ \A s \in Sessions \ {"logger"} : In(<<"name", s>>, Normal)
  /\ In(<<"await", "workload">>, Normal) /\ In(<<"finish", "shell">>, Normal)
  /\ In(<<"exit", "shell">>, Normal)
<1>1. CASE "diagnostics" \in Sidecars
  <2>0. \A i \in 1..22 : In(Normal[i], Normal)
    BY <1>1, NormalFull DEF In
  <2>1. /\ In(Normal[2], Normal) /\ In(Normal[4], Normal) /\ In(Normal[7], Normal)
        /\ In(Normal[9], Normal) /\ In(Normal[10], Normal) /\ In(Normal[21], Normal)
        /\ In(Normal[22], Normal)
    BY <2>0
  <2>2. /\ In(<<"name", "bridge">>, Normal)
        /\ In(<<"name", "diagnostics">>, Normal)
        /\ In(<<"name", "health">>, Normal)
        /\ In(<<"name", "workload">>, Normal)
        /\ In(<<"await", "workload">>, Normal) /\ In(<<"finish", "shell">>, Normal)
        /\ In(<<"exit", "shell">>, Normal)
    BY <1>1, <2>1, NormalFull
  <2>. QED
    BY <1>1, <2>2, SidecarsAssumption DEF Sessions
<1>2. CASE "diagnostics" \notin Sidecars
  <2>0. \A i \in 1..18 : In(Normal[i], Normal)
    BY <1>2, NormalBare DEF In
  <2>1. /\ In(<<"name", "bridge">>, Normal)
        /\ In(<<"name", "health">>, Normal)
        /\ In(<<"name", "workload">>, Normal)
        /\ In(<<"await", "workload">>, Normal) /\ In(<<"finish", "shell">>, Normal)
        /\ In(<<"exit", "shell">>, Normal)
    BY <1>2, <2>0, NormalBare
  <2>. QED
    BY <1>2, <2>1, SidecarsAssumption DEF Sessions
<1>. QED
  BY <1>1, <1>2

LEMMA InterruptedHolds ==
  /\ \A s \in Sessions : In(<<"stop", s>>, Interrupted)
  /\ In(<<"finish", "shell">>, Interrupted) /\ In(<<"exit", "shell">>, Interrupted)
  /\ \A c \in Commands : In(c, Interrupted) => c[1] \in {"stop", "finish", "exit"}
<1>1. CASE "diagnostics" \in Sidecars
  <2>0. \A i \in 1..7 : In(Interrupted[i], Interrupted)
    BY <1>1, InterruptedFull DEF In
  <2>1. /\ In(<<"stop", "bridge">>, Interrupted)
        /\ In(<<"stop", "diagnostics">>, Interrupted)
        /\ In(<<"stop", "health">>, Interrupted)
        /\ In(<<"stop", "logger">>, Interrupted)
        /\ In(<<"stop", "workload">>, Interrupted)
        /\ In(<<"finish", "shell">>, Interrupted) /\ In(<<"exit", "shell">>, Interrupted)
    BY <1>1, <2>0, InterruptedFull
  <2>2. ASSUME NEW i \in 1..7
        PROVE  Interrupted[i][1] \in {"stop", "finish", "exit"}
    BY <1>1, InterruptedFull
  <2>3. \A c \in Commands : In(c, Interrupted) => c[1] \in {"stop", "finish", "exit"}
    BY <1>1, <2>2, InterruptedFull DEF In
  <2>. QED
    BY <1>1, <2>1, <2>3, SidecarsAssumption DEF Sessions
<1>2. CASE "diagnostics" \notin Sidecars
  <2>0. \A i \in 1..6 : In(Interrupted[i], Interrupted)
    BY <1>2, InterruptedBare DEF In
  <2>1. /\ In(<<"stop", "bridge">>, Interrupted)
        /\ In(<<"stop", "health">>, Interrupted)
        /\ In(<<"stop", "logger">>, Interrupted)
        /\ In(<<"stop", "workload">>, Interrupted)
        /\ In(<<"finish", "shell">>, Interrupted) /\ In(<<"exit", "shell">>, Interrupted)
    BY <1>2, <2>0, InterruptedBare
  <2>2. ASSUME NEW i \in 1..6
        PROVE  Interrupted[i][1] \in {"stop", "finish", "exit"}
    BY <1>2, InterruptedBare
  <2>3. \A c \in Commands : In(c, Interrupted) => c[1] \in {"stop", "finish", "exit"}
    BY <1>2, <2>2, InterruptedBare DEF In
  <2>. QED
    BY <1>2, <2>1, <2>3, SidecarsAssumption DEF Sessions
<1>. QED
  BY <1>1, <1>2

-----------------------------------------------------------------------------
(* Running the command at the head leaves what stands behind it.           *)
LEMMA BehindTheHead ==
  ASSUME NEW sc \in Seq(Commands), sc # <<>>, NEW c
  PROVE  /\ Tail(sc) \in Seq(Commands)
         /\ In(c, Tail(sc)) => In(c, sc)
         /\ In(c, sc) => c = Head(sc) \/ In(c, Tail(sc))
         /\ In(Head(sc), sc)
         /\ Leads(Head(sc), c, sc) => In(c, Tail(sc))
         /\ Closes(Head(sc), c, sc) => ~In(c, Tail(sc))
<1>1. /\ Tail(sc) \in Seq(Commands) /\ Len(sc) \in Nat \ {0} /\ Len(Tail(sc)) = Len(sc) - 1
      /\ Head(sc) = sc[1] /\ \A i \in 1..Len(Tail(sc)) : Tail(sc)[i] = sc[i + 1]
  OBVIOUS
<1>2. ASSUME NEW i \in 2..Len(sc)
      PROVE  i - 1 \in 1..Len(Tail(sc)) /\ Tail(sc)[i - 1] = sc[i]
  BY <1>1
<1>3. In(c, Tail(sc)) => In(c, sc)
  BY <1>1 DEF In
<1>4. In(c, sc) => c = Head(sc) \/ In(c, Tail(sc))
  BY <1>1, <1>2 DEF In
<1>5. Leads(Head(sc), c, sc) => In(c, Tail(sc))
  BY <1>1, <1>2 DEF In, Leads
<1>6. Closes(Head(sc), c, sc) => ~In(c, Tail(sc))
  BY <1>1 DEF In, Closes
<1>. QED
  BY <1>1, <1>3, <1>4, <1>5, <1>6 DEF In

LEMMA OrderOfTheTail ==
  ASSUME NEW sc \in Seq(Commands), sc # <<>>, Ordered(sc)
  PROVE  Ordered(Tail(sc))
<1> DEFINE tl == Tail(sc)
<1>1. /\ Len(sc) \in Nat \ {0} /\ Len(tl) = Len(sc) - 1
      /\ \A i \in 1..Len(tl) : tl[i] = sc[i + 1]
  OBVIOUS
<1>2. ASSUME NEW i \in 2..Len(sc)
      PROVE  i - 1 \in 1..Len(tl) /\ tl[i - 1] = sc[i]
  BY <1>1
<1> HIDE DEF tl
<1>3. ASSUME NEW c, NEW d, Leads(c, d, sc)
      PROVE  Leads(c, d, tl)
  <2> SUFFICES ASSUME NEW i \in 1..Len(tl), tl[i] = c
               PROVE  \E j \in (i + 1)..Len(tl) : tl[j] = d
    BY DEF Leads
  <2>1. i + 1 \in 1..Len(sc) /\ sc[i + 1] = c
    BY <1>1
  <2>2. PICK j \in (i + 2)..Len(sc) : sc[j] = d
    BY <2>1, <1>3, <1>1 DEF Leads
  <2>3. j \in 2..Len(sc) /\ j - 1 \in (i + 1)..Len(tl)
    BY <2>2, <1>1
  <2>. QED
    BY <2>2, <2>3, <1>2
<1>4. ASSUME NEW c, NEW d, Closes(c, d, sc)
      PROVE  Closes(c, d, tl)
  <2> SUFFICES ASSUME NEW i \in 1..Len(tl), tl[i] = c, NEW j \in (i + 1)..Len(tl)
               PROVE  tl[j] # d
    BY DEF Closes
  <2>1. /\ i + 1 \in 1..Len(sc) /\ sc[i + 1] = c
        /\ j + 1 \in (i + 2)..Len(sc) /\ sc[j + 1] = tl[j]
    BY <1>1
  <2>. QED
    BY <2>1, <1>4 DEF Closes
<1>5. ASSUME NEW i \in 1..Len(tl), tl[i] = <<"spawn", "logger">>
      PROVE  i + 2 <= Len(tl) /\ tl[i+1] = <<"name", "logger">> /\ tl[i+2] = <<"await", "logger">>
  <2>1. i + 1 \in 1..Len(sc) /\ sc[i + 1] = <<"spawn", "logger">>
    BY <1>5, <1>1
  <2>2. /\ (i + 1) + 2 <= Len(sc)
        /\ sc[(i + 1) + 1] = <<"name", "logger">> /\ sc[(i + 1) + 2] = <<"await", "logger">>
    BY <2>1 DEF Ordered
  <2>3. i + 1 \in 1..Len(tl) /\ i + 2 \in 1..Len(tl)
    BY <2>2, <1>1
  <2>4. tl[i + 1] = sc[(i + 1) + 1] /\ tl[i + 2] = sc[(i + 2) + 1] /\ (i + 2) + 1 = (i + 1) + 2
    BY <2>3, <1>1
  <2>. QED
    BY <2>2, <2>3, <2>4
<1>6. /\ \A s \in Sessions : /\ Leads(<<"name", s>>, <<"stop", s>>, tl)
                             /\ Closes(<<"name", s>>, <<"spawn", s>>, tl)
                             /\ Closes(<<"spawn", s>>, <<"spawn", s>>, tl)
                             /\ Closes(<<"export", s>>, <<"stop", s>>, tl)
      /\ Leads(<<"stop", "health">>, <<"finish", "shell">>, tl)
      /\ Leads(<<"announce", "shell">>, <<"finish", "shell">>, tl)
      /\ Leads(<<"await", "workload">>, <<"finish", "shell">>, tl)
      /\ \A c \in Commands : /\ c # <<"exit", "shell">> => Leads(c, <<"exit", "shell">>, tl)
                             /\ Closes(<<"exit", "shell">>, c, tl)
  BY <1>3, <1>4 DEF Ordered
<1>7. Ordered(tl)
  BY <1>5, <1>6 DEF Ordered
<1>. QED
  BY <1>7 DEF tl

(* Without a logger file, three commands are passed over.                  *)
LEMMA ThreeFurther ==
  ASSUME NEW sc \in Seq(Commands), sc # <<>>, Head(sc) = <<"spawn", "logger">>, Ordered(sc)
  PROVE  /\ Tail(sc) # <<>> /\ Head(Tail(sc)) = <<"name", "logger">>
         /\ Tail(Tail(sc)) # <<>> /\ Head(Tail(Tail(sc))) = <<"await", "logger">>
         /\ SubSeq(sc, 4, Len(sc)) = Tail(Tail(Tail(sc)))
<1>1. 1 \in 1..Len(sc) /\ sc[1] = <<"spawn", "logger">>
  OBVIOUS
<1>2. Len(sc) \in Nat /\ 3 <= Len(sc) /\ sc[2] = <<"name", "logger">> /\ sc[3] = <<"await", "logger">>
  <2>1. 1 + 2 <= Len(sc) /\ sc[1 + 1] = <<"name", "logger">> /\ sc[1 + 2] = <<"await", "logger">>
    BY <1>1 DEF Ordered
  <2>. QED
    BY <2>1
<1> DEFINE t1 == Tail(sc)
           t2 == Tail(t1)
<1>3. t1 \in Seq(Commands) /\ t1 = SubSeq(sc, 2, Len(sc)) /\ Len(t1) = Len(sc) - 1
  BY TailIsSubSeq, HeadTailProperties
<1>4. t1 # <<>>
  <2>1. Len(t1) >= 1
    BY <1>2, <1>3
  <2> HIDE DEF t1
  <2>. QED
    BY <2>1, <1>3
<1>5. 2 \in 1..Len(sc) /\ 3 \in 1..Len(sc) /\ Len(sc) \in 2..Len(sc) /\ Len(sc) \in 3..Len(sc)
      /\ 2 + 1 = 3 /\ 3 + 1 = 4
  BY <1>2
<1>6. Head(t1) = sc[2] /\ t2 = SubSeq(sc, 3, Len(sc))
  BY <1>3, <1>5, HeadTailOfSubSeq
<1>7. t2 \in Seq(Commands) /\ Len(t2) = Len(t1) - 1
  BY <1>3, <1>4, HeadTailProperties
<1>8. t2 # <<>>
  <2>1. Len(t2) >= 1
    BY <1>2, <1>3, <1>7
  <2> HIDE DEF t2
  <2>. QED
    BY <2>1, <1>7
<1>9. Head(t2) = sc[3] /\ Tail(t2) = SubSeq(sc, 4, Len(sc))
  BY <1>5, <1>6, HeadTailOfSubSeq
<1>. QED
  BY <1>2, <1>4, <1>6, <1>8, <1>9
-----------------------------------------------------------------------------
(* What a command at the head leaves to be run, and what it shows to have   *)
(* been run.                                                               *)
LEMMA Known ==
  /\ {"bridge", "health", "logger", "workload"} \subseteq Sessions
  /\ Sessions \subseteq {"bridge", "diagnostics", "health", "logger", "workload"}
  /\ \A v \in Verbs, s \in Sessions \union {"shell"} : <<v, s>> \in Commands
  /\ \A c \in Commands : c[1] \in Verbs /\ c[2] \in Sessions \union {"shell"}
BY SidecarsAssumption DEF Sessions, Commands

LEMMA HeadIsLeft ==
  ASSUME ScriptInv, NEW v, NEW s, At(v, s)
  PROVE  /\ script # <<>> /\ Head(script) = <<v, s>> /\ Left(<<v, s>>)
BY BehindTheHead DEF ScriptInv, At, Left

LEMMA Advanced ==
  ASSUME ScriptInv, script # <<>>, Advance, caught' = caught
  PROVE  /\ ScriptInv' /\ stage' = "idle" /\ script' = Tail(script)
         /\ \A c : Left(c)' => Left(c)
         /\ \A c : Left(c) => c = Head(script) \/ Left(c)'
         /\ \A c : Leads(Head(script), c, script) => Left(c)'
         /\ \A c : Closes(Head(script), c, script) => ~Left(c)'
<1>1. script' = Tail(script) /\ stage' = "idle" /\ script \in Seq(Commands) /\ Ordered(script)
  BY DEF Advance, ScriptInv
<1>2. script' \in Seq(Commands) /\ Ordered(script')
  BY <1>1, HeadTailProperties, OrderOfTheTail
<1>3. \A c : /\ Left(c)' => Left(c)
             /\ Left(c) => c = Head(script) \/ Left(c)'
             /\ Leads(Head(script), c, script) => Left(c)'
             /\ Closes(Head(script), c, script) => ~Left(c)'
  BY <1>1, BehindTheHead DEF Left, In
<1>4. ScriptInv'
  BY <1>2, <1>3 DEF ScriptInv
<1>. QED
  BY <1>1, <1>3, <1>4

Settling == {<<"spawn", "logger">>, <<"name", "logger">>, <<"await", "logger">>}

LEMMA Skipped ==
  ASSUME ScriptInv, SkipSettle
  PROVE  /\ ScriptInv'
         /\ \A c : Left(c)' => Left(c)
         /\ \A c : Left(c) => Left(c)' \/ c \in Settling
<1> DEFINE t1 == Tail(script)
           t2 == Tail(t1)
           t3 == Tail(t2)
<1>1. script \in Seq(Commands) /\ script # <<>> /\ Head(script) = <<"spawn", "logger">> /\ Ordered(script)
  BY DEF ScriptInv, SkipSettle, At
<1>2. /\ t1 # <<>> /\ Head(t1) = <<"name", "logger">>
      /\ t2 # <<>> /\ Head(t2) = <<"await", "logger">>
      /\ script' = t3
  BY <1>1, ThreeFurther DEF SkipSettle
<1>3. t1 \in Seq(Commands) /\ Ordered(t1)
  BY <1>1, BehindTheHead, OrderOfTheTail
<1>4. t2 \in Seq(Commands) /\ Ordered(t2)
  BY <1>2, <1>3, BehindTheHead, OrderOfTheTail
<1>5. t3 \in Seq(Commands) /\ Ordered(t3)
  BY <1>2, <1>4, BehindTheHead, OrderOfTheTail
<1>6. ASSUME NEW c
      PROVE  /\ In(c, t3) => In(c, script)
             /\ In(c, script) => In(c, t3) \/ c \in Settling
  BY <1>1, <1>2, <1>3, <1>4, BehindTheHead DEF Settling
<1>7. \A c : /\ Left(c)' => Left(c)
             /\ Left(c) => Left(c)' \/ c \in Settling
  BY <1>2, <1>6 DEF Left
<1>8. script' \in Seq(Commands) /\ Ordered(script')
  BY <1>2, <1>5
<1>9. ScriptInv'
  BY <1>7, <1>8 DEF ScriptInv, SkipSettle
<1>. QED
  BY <1>7, <1>9

(* A script at its end has run its exit, and no other has.                 *)
LEMMA ExitIsLast ==
  ASSUME ScriptInv
  PROVE  /\ script # <<>> => Left(<<"exit", "shell">>)
         /\ script = <<>> => \A c : ~Left(c)
         /\ At("exit", "shell") => Tail(script) = <<>>
<1>1. script # <<>> => Left(<<"exit", "shell">>)
  <2> SUFFICES ASSUME script # <<>> PROVE Left(<<"exit", "shell">>)
    OBVIOUS
  <2>1. Head(script) \in Commands
    BY DEF ScriptInv
  <2>2. CASE Head(script) = <<"exit", "shell">>
    BY <2>2, BehindTheHead DEF ScriptInv, Left
  <2>3. CASE Head(script) # <<"exit", "shell">>
    BY <2>1, <2>3, BehindTheHead DEF ScriptInv, Ordered, Left
  <2>. QED
    BY <2>2, <2>3
<1>2. script = <<>> => \A c : ~Left(c)
  BY DEF Left, In
<1>3. ASSUME At("exit", "shell") PROVE Tail(script) = <<>>
  <2>1. script \in Seq(Commands) /\ script # <<>> /\ Head(script) = <<"exit", "shell">> /\ Ordered(script)
    BY <1>3 DEF ScriptInv, At
  <2>2. SUFFICES ASSUME Tail(script) # <<>> PROVE FALSE
    OBVIOUS
  <2>3. Tail(script) \in Seq(Commands) /\ Head(Tail(script)) \in Commands
    BY <2>1, <2>2, HeadTailProperties
  <2>4. In(Head(Tail(script)), Tail(script))
    BY <2>2, <2>3, BehindTheHead
  <2>5. Closes(Head(script), Head(Tail(script)), script)
    BY <2>1, <2>3 DEF Ordered
  <2>. QED
    BY <2>1, <2>4, <2>5, BehindTheHead
<1>. QED
  BY <1>1, <1>2, <1>3
-----------------------------------------------------------------------------
LEMMA InitHolds == Init => WrapperInv
<1> SUFFICES ASSUME Init PROVE WrapperInv
  OBVIOUS
<1>1. ScriptInv
  BY NormalIsOrdered, ScriptsAreCommands DEF Init, ScriptInv
<1>2. \A s \in Sessions : ~Left(<<"spawn", s>>) \/ (pid[s] = "unset" /\ leader[s] = "none")
  BY DEF Init
<1>3. PidInv
  BY <1>2, NormalHolds DEF Init, PidInv, Left
<1>4. StageInv /\ PastInv /\ StrayInv
  BY DEF Init, StageInv, PastInv, Past, StrayInv
<1>5. RecordInv
  BY NormalHolds DEF Init, RecordInv, Left
<1>6. \A i \in DOMAIN script : script[i][2] \in Sessions \union {"shell"}
  BY ScriptsAreCommands, Known DEF Init
<1>7. TypeOK
  BY <1>6 DEF Init, TypeOK, Alive
<1>. QED
  BY <1>1, <1>3, <1>4, <1>5, <1>7 DEF WrapperInv

(* The invariant, from what a script and its order say.                    *)
LEMMA WhatFollows ==
  ASSUME ScriptInv
  PROVE  /\ Left(<<"stop", "health">>) => Left(<<"finish", "shell">>)
         /\ Left(<<"await", "workload">>) => Left(<<"finish", "shell">>)
         /\ \A s \in Sessions : Left(<<"name", s>>) => Left(<<"stop", s>>)
<1>1. ASSUME NEW c, NEW d, Left(c), Leads(c, d, script)
      PROVE  Left(d)
  <2>1. PICK i \in 1..Len(script) : script[i] = c
    BY <1>1 DEF Left, In
  <2>2. PICK j \in (i + 1)..Len(script) : script[j] = d
    BY <2>1, <1>1 DEF Leads
  <2>3. j \in 1..Len(script)
    BY <2>1, <2>2 DEF ScriptInv
  <2>. QED
    BY <2>2, <2>3 DEF Left, In
<1>. QED
  BY <1>1 DEF ScriptInv, Ordered

LEMMA TargetsAreNamed ==
  ASSUME NEW sc \in Seq(Commands)
  PROVE  \A i \in DOMAIN sc : sc[i][2] \in Sessions \union {"shell"}
BY Known

-----------------------------------------------------------------------------
(* Commands that leave the processes alone.                                *)
LEMMA CommandKeeps ==
  ASSUME WrapperInv, script # <<>>, Advance,
         UNCHANGED <<pid, leader, rest, stray, locks, signal, caught, status>>,
         \A s \in Sessions : told'[s] = told[s] /\ Head(script) # <<"name", s>>
                             /\ (Head(script) = <<"stop", s>> => pid[s] # "held")
  PROVE  ScriptInv' /\ StageInv' /\ PidInv' /\ PastInv' /\ StrayInv'
<1>1. /\ ScriptInv' /\ stage' = "idle" /\ script' = Tail(script)
      /\ \A c : Left(c)' => Left(c)
      /\ \A c : Left(c) => c = Head(script) \/ Left(c)'
  BY Advanced DEF WrapperInv
<1>2. StageInv'
  BY <1>1 DEF StageInv
<1>3. PidInv'
  BY <1>1 DEF WrapperInv, PidInv
<1>4. PastInv'
  BY <1>1 DEF WrapperInv, PastInv, Past, Settled, Lives, Owned
<1>5. StrayInv'
  BY DEF WrapperInv, StrayInv
<1>. QED
  BY <1>1, <1>2, <1>3, <1>4, <1>5

(* A command other than await, finish and exit does not touch the outcome. *)
LEMMA OutcomeKept ==
  ASSUME WrapperInv, script # <<>>, Advance,
         UNCHANGED <<pid, leader, caught, status, record, told, code>>,
         Head(script) \notin {<<"finish", "shell">>, <<"exit", "shell">>},
         Head(script) = <<"await", "workload">> => leader["workload"] = "gone"
  PROVE  RecordInv'
<1>1. /\ \A c : Left(c)' => Left(c)
      /\ \A c : Left(c) => c = Head(script) \/ Left(c)'
      /\ Left(<<"exit", "shell">>)
  BY Advanced, ExitIsLast DEF WrapperInv
<1>. QED
  BY <1>1 DEF WrapperInv, RecordInv, Outcome, ObserverLeft

LEMMA AwaitKeeps ==
  ASSUME WrapperInv, NEW s \in Sessions, Await(s)
  PROVE  WrapperInv'
<1>1. script # <<>> /\ Head(script) = <<"await", s>>
  BY DEF Await, At
<1>2. ScriptInv' /\ StageInv' /\ PidInv' /\ PastInv' /\ StrayInv'
  BY <1>1, CommandKeeps DEF Await
<1>3. RecordInv'
  BY <1>1, OutcomeKept DEF Await
<1>4. TypeOK'
  BY <1>2, TargetsAreNamed DEF WrapperInv, ScriptInv, Await, Advance, TypeOK
<1>. QED
  BY <1>2, <1>3, <1>4 DEF WrapperInv

LEMMA NothingToStopKeeps ==
  ASSUME WrapperInv, NEW s \in Sessions, NothingToStop(s)
  PROVE  WrapperInv'
<1>1. script # <<>> /\ Head(script) = <<"stop", s>> /\ pid[s] # "held"
  BY DEF NothingToStop, At
<1>2. ScriptInv' /\ StageInv' /\ PidInv' /\ PastInv' /\ StrayInv'
  BY <1>1, CommandKeeps DEF NothingToStop
<1>3. RecordInv'
  BY <1>1, OutcomeKept DEF NothingToStop
<1>4. TypeOK'
  BY <1>2, TargetsAreNamed DEF WrapperInv, ScriptInv, NothingToStop, Advance, TypeOK
<1>. QED
  BY <1>2, <1>3, <1>4 DEF WrapperInv

LEMMA ExportEndsKeeps ==
  ASSUME WrapperInv, NEW s \in Sessions, ExportEnds(s)
  PROVE  WrapperInv'
<1>1. script # <<>> /\ Head(script) = <<"export", s>>
  BY DEF ExportEnds, At
<1>2. ScriptInv' /\ StageInv' /\ PidInv' /\ PastInv' /\ StrayInv'
  BY <1>1, CommandKeeps DEF ExportEnds
<1>3. RecordInv'
  BY <1>1, OutcomeKept DEF ExportEnds
<1>4. TypeOK'
  BY <1>2, TargetsAreNamed DEF WrapperInv, ScriptInv, ExportEnds, Advance, TypeOK
<1>. QED
  BY <1>2, <1>3, <1>4 DEF WrapperInv

LEMMA AnnounceKeeps ==
  ASSUME WrapperInv, Announce
  PROVE  WrapperInv'
<1>1. script # <<>> /\ Head(script) = <<"announce", "shell">>
  BY DEF Announce, At
<1>2. ScriptInv' /\ StageInv' /\ PidInv' /\ PastInv' /\ StrayInv'
  BY <1>1, CommandKeeps DEF Announce
<1>3. /\ \A c : Left(c) => c = Head(script) \/ Left(c)'
      /\ Left(<<"finish", "shell">>)' /\ Left(<<"exit", "shell">>)
  BY <1>1, Advanced, ExitIsLast DEF WrapperInv, Announce, ScriptInv, Ordered
<1>4. RecordInv'
  BY <1>1, <1>3 DEF WrapperInv, Announce, RecordInv
<1>5. TypeOK'
  BY <1>2, TargetsAreNamed DEF WrapperInv, ScriptInv, Announce, Advance, TypeOK
<1>. QED
  BY <1>2, <1>4, <1>5 DEF WrapperInv

LEMMA FinishKeeps ==
  ASSUME WrapperInv, Finish
  PROVE  WrapperInv'
<1>1. script # <<>> /\ Head(script) = <<"finish", "shell">>
  BY DEF Finish, At
<1>2. /\ told' \in [Sessions \union {"record"} -> {"nothing", "killed", "refused", "pending", "unrecorded"}]
      /\ \A s \in Sessions : told'[s] = told[s]
  <2>1. "record" \notin Sessions
    BY Known
  <2>. QED
    BY <2>1 DEF Finish, WrapperInv, TypeOK
<1>3. ScriptInv' /\ StageInv' /\ PidInv' /\ PastInv' /\ StrayInv'
  BY <1>1, <1>2, CommandKeeps DEF Finish
<1>4. /\ \A c : Left(c) => c = Head(script) \/ Left(c)'
      /\ Left(<<"exit", "shell">>)
  BY <1>1, Advanced, ExitIsLast DEF WrapperInv, Finish
<1>5. record' = [status |-> "finished", code |-> Outcome'] \/ told'["record"] = "unrecorded"
  BY DEF Finish, Outcome, WrapperInv, TypeOK
<1>6. RecordInv'
  BY <1>1, <1>4, <1>5 DEF WrapperInv, Finish, RecordInv
<1>7. TypeOK'
  BY <1>2, <1>3, TargetsAreNamed DEF WrapperInv, ScriptInv, Finish, Advance, TypeOK
<1>. QED
  BY <1>3, <1>6, <1>7 DEF WrapperInv

LEMMA ExitKeeps ==
  ASSUME WrapperInv, Exit
  PROVE  WrapperInv'
<1>1. script # <<>> /\ Head(script) = <<"exit", "shell">> /\ script' = <<>>
  BY ExitIsLast DEF WrapperInv, Exit, At, Advance
<1>2. ScriptInv' /\ StageInv' /\ PidInv' /\ PastInv' /\ StrayInv'
  BY <1>1, CommandKeeps DEF Exit
<1>3. \A c : Left(c) => c = Head(script) \/ Left(c)'
  BY <1>1, Advanced DEF WrapperInv, Exit
<1>4. RecordInv'
  BY <1>1, <1>3 DEF WrapperInv, Exit, RecordInv, Outcome, ObserverLeft
<1>5. TypeOK'
  BY <1>2, TargetsAreNamed DEF WrapperInv, ScriptInv, Exit, Advance, TypeOK
<1>. QED
  BY <1>2, <1>4, <1>5 DEF WrapperInv

LEMMA SkipSettleKeeps ==
  ASSUME WrapperInv, SkipSettle
  PROVE  WrapperInv'
<1>1. script # <<>> /\ Head(script) = <<"spawn", "logger">>
  BY DEF SkipSettle, At
<1>2. /\ ScriptInv'
      /\ \A c : Left(c)' => Left(c)
      /\ \A c : Left(c) => Left(c)' \/ c \in Settling
      /\ Left(<<"exit", "shell">>)
  BY <1>1, Skipped, ExitIsLast DEF WrapperInv
<1>3. stage \notin {"running", "term", "kill"}
  BY <1>1 DEF WrapperInv, StageInv, At
<1>4. StageInv' /\ PastInv' /\ StrayInv'
  BY <1>3 DEF WrapperInv, SkipSettle, StageInv, PastInv, Past, Settled, Lives, Owned, StrayInv
<1>5. PidInv'
  <2>1. \A s \in Sessions : /\ Left(<<"stop", s>>) => Left(<<"stop", s>>)'
                            /\ s # "logger" /\ Left(<<"name", s>>) => Left(<<"name", s>>)'
    BY <1>2 DEF Settling
  <2>. QED
    BY <1>2, <2>1 DEF WrapperInv, SkipSettle, PidInv
<1>6. RecordInv'
  BY <1>2 DEF WrapperInv, SkipSettle, RecordInv, Outcome, ObserverLeft, Settling
<1>7. TypeOK'
  BY <1>2, TargetsAreNamed DEF WrapperInv, ScriptInv, SkipSettle, TypeOK
<1>. QED
  BY <1>2, <1>4, <1>5, <1>6, <1>7 DEF WrapperInv
-----------------------------------------------------------------------------
(* Starting a session.                                                     *)
LEMMA SpawnKeeps ==
  ASSUME WrapperInv, NEW s \in Sessions, Spawn(s)
  PROVE  WrapperInv'
<1>1. script # <<>> /\ Head(script) = <<"spawn", s>> /\ Left(<<"spawn", s>>)
  BY HeadIsLeft DEF WrapperInv, Spawn, At
<1>2. /\ ScriptInv' /\ stage' = "idle"
      /\ \A c : Left(c)' => Left(c)
      /\ \A c : Left(c) => c = Head(script) \/ Left(c)'
      /\ ~Left(<<"spawn", s>>)' /\ Left(<<"exit", "shell">>)
  BY <1>1, Advanced, ExitIsLast DEF WrapperInv, Spawn, ScriptInv, Ordered
<1>3. /\ pid[s] = "unset" /\ leader[s] = "none" /\ leader \in [Sessions -> Alive \union {"none", "gone"}]
      /\ caught = "none"
  <2>1. <<"spawn", s>> \in Commands /\ <<"spawn", s>>[1] = "spawn"
    BY Known DEF Verbs
  <2>. QED
    BY <1>1, <2>1 DEF WrapperInv, PidInv, TypeOK, ScriptInv
<1>4. leader' = [leader EXCEPT ![s] = "new"] /\ \A t \in Sessions : leader'[t] = IF t = s THEN "new" ELSE leader[t]
  BY <1>3 DEF Spawn
<1>5. StageInv'
  BY <1>2 DEF StageInv
<1>6. PidInv'
  <2>1. \A t \in Sessions : /\ Left(<<"stop", t>>) => Left(<<"stop", t>>)'
                            /\ Left(<<"name", t>>) => Left(<<"name", t>>)'
    BY <1>1, <1>2
  <2>. QED
    BY <2>1, <1>2, <1>4 DEF WrapperInv, PidInv, Spawn
<1>7. PastInv'
  BY <1>2, <1>3, <1>4 DEF WrapperInv, PastInv, Past, Settled, Lives, Owned, Spawn
<1>8. StrayInv'
  BY <1>3, <1>4 DEF WrapperInv, StrayInv, Spawn
<1>9. RecordInv'
  <2>1. /\ Left(<<"finish", "shell">>) => Left(<<"finish", "shell">>)'
        /\ Left(<<"exit", "shell">>)'
        /\ Left(<<"await", "workload">>) => Left(<<"await", "workload">>)'
    BY <1>1, <1>2
  <2>2. leader["workload"] = "gone" => leader'["workload"] = "gone"
    BY <1>3, <1>4, Known
  <2>. QED
    BY <2>1, <2>2 DEF WrapperInv, Spawn, RecordInv, Outcome, ObserverLeft
<1>10. locks \subseteq {t \in Writers : leader'[t] \in {"hung", "doomed"}}
  BY <1>3, <1>4, Known DEF WrapperInv, TypeOK, Writers, Sessions
<1>11. TypeOK'
  BY <1>2, <1>3, <1>4, <1>10, TargetsAreNamed DEF WrapperInv, ScriptInv, Spawn, Advance, TypeOK, Alive
<1>. QED
  BY <1>2, <1>5, <1>6, <1>7, <1>8, <1>9, <1>11 DEF WrapperInv

LEMMA NameKeeps ==
  ASSUME WrapperInv, NEW s \in Sessions, Name(s)
  PROVE  WrapperInv'
<1>1. script # <<>> /\ Head(script) = <<"name", s>> /\ Left(<<"name", s>>)
  BY HeadIsLeft DEF WrapperInv, Name, At
<1>2. /\ ScriptInv' /\ stage' = "idle"
      /\ \A c : Left(c)' => Left(c)
      /\ \A c : Left(c) => c = Head(script) \/ Left(c)'
      /\ ~Left(<<"spawn", s>>)' /\ Left(<<"stop", s>>)' /\ Left(<<"exit", "shell">>)
  BY <1>1, Advanced, ExitIsLast DEF WrapperInv, Name, ScriptInv, Ordered
<1>3. pid \in [Sessions -> {"unset", "held", "cleared"}] /\ \A t \in Sessions : pid'[t] = IF t = s THEN "held" ELSE pid[t]
  BY DEF WrapperInv, TypeOK, Name
<1>4. StageInv'
  BY <1>2 DEF StageInv
<1>5. PidInv'
  <2>1. \A t \in Sessions : /\ Left(<<"stop", t>>) => Left(<<"stop", t>>)'
                            /\ t # s /\ Left(<<"name", t>>) => Left(<<"name", t>>)'
    BY <1>1, <1>2
  <2>. QED
    BY <2>1, <1>2, <1>3 DEF WrapperInv, PidInv, Name
<1>6. PastInv'
  BY <1>2, <1>3 DEF WrapperInv, PastInv, Past, Settled, Lives, Owned, Name
<1>7. StrayInv'
  BY DEF WrapperInv, StrayInv, Name
<1>8. RecordInv'
  <2>1. /\ Left(<<"finish", "shell">>) => Left(<<"finish", "shell">>)'
        /\ Left(<<"exit", "shell">>)'
        /\ Left(<<"await", "workload">>) => Left(<<"await", "workload">>)'
    BY <1>1, <1>2
  <2>2. s = "health" => Left(<<"finish", "shell">>)
    BY <1>2, WhatFollows DEF WrapperInv
  <2>3. s # "health" => pid'["health"] = pid["health"]
    BY <1>3, Known
  <2>. QED
    BY <2>1, <2>2, <2>3 DEF WrapperInv, Name, RecordInv, Outcome, ObserverLeft
<1>9. TypeOK'
  BY <1>2, <1>3, TargetsAreNamed DEF WrapperInv, ScriptInv, Name, Advance, TypeOK
<1>. QED
  BY <1>2, <1>4, <1>5, <1>6, <1>7, <1>8, <1>9 DEF WrapperInv

LEMMA ExportBeginsKeeps ==
  ASSUME WrapperInv, NEW s \in Sessions, ExportBegins(s)
  PROVE  WrapperInv'
<1>1. script' = script /\ \A c : Left(c)' <=> Left(c)
  BY DEF ExportBegins, Left
<1>2. ScriptInv'
  BY <1>1 DEF WrapperInv, ScriptInv, ExportBegins
<1>3. StageInv' /\ PidInv' /\ PastInv' /\ StrayInv'
  BY <1>1 DEF WrapperInv, ExportBegins, StageInv, At, PidInv, PastInv, Past, Settled, Lives, Owned, StrayInv
<1>4. RecordInv'
  BY <1>1 DEF WrapperInv, ExportBegins, RecordInv, Outcome, ObserverLeft
<1>5. TypeOK'
  BY DEF WrapperInv, ExportBegins, TypeOK
<1>. QED
  BY <1>2, <1>3, <1>4, <1>5 DEF WrapperInv

-----------------------------------------------------------------------------
(* Stopping a session.                                                     *)
LEMMA TerminateKeeps ==
  ASSUME WrapperInv, NEW s \in Sessions, Terminate(s)
  PROVE  WrapperInv'
<1>1. /\ script' = script /\ \A c : Left(c)' <=> Left(c)
      /\ script # <<>> /\ Head(script) = <<"stop", s>> /\ pid[s] = "held"
      /\ stage = "idle" /\ stage' = "term"
  BY DEF Terminate, Left, At
<1>2. /\ leader \in [Sessions -> Alive \union {"none", "gone"}] /\ stray \in [Sessions -> {"no", "yes", "hit"}]
      /\ \A t \in Sessions : leader'[t] = IF t = s /\ leader[t] = "new" THEN "gone" ELSE leader[t]
      /\ leader' \in [Sessions -> Alive \union {"none", "gone"}]
  BY DEF WrapperInv, TypeOK, Terminate, TermLeader, Owned, Alive
<1>3. stray' = stray
  <2>1. TermGroup(s) \/ (TermLeader(s) /\ leader[s] = "gone") => stray[s] = "no"
    BY DEF TermGroup, GroupOwned, TermLeader, Owned, Alive
  <2>. QED
    BY <1>2, <2>1 DEF Terminate, Hit
<1>4. ScriptInv'
  BY <1>1 DEF WrapperInv, ScriptInv, Terminate
<1>5. StageInv'
  BY <1>1, <1>2 DEF WrapperInv, StageInv, At, Terminate
<1>6. PidInv'
  BY <1>1, <1>2 DEF WrapperInv, PidInv, Terminate
<1>7. PastInv'
  BY <1>1, <1>2 DEF WrapperInv, PastInv, Past, Settled, Lives, Owned, Alive, Terminate
<1>8. StrayInv'
  BY <1>2, <1>3 DEF WrapperInv, StrayInv, Terminate
<1>9. RecordInv'
  BY <1>1, <1>2, Known DEF WrapperInv, Terminate, RecordInv, Outcome, ObserverLeft
<1>10. locks \subseteq {t \in Writers : leader'[t] \in {"hung", "doomed"}}
  BY <1>2 DEF WrapperInv, TypeOK, Writers, Sessions
<1>11. TypeOK'
  BY <1>1, <1>2, <1>3, <1>10 DEF WrapperInv, TypeOK, Terminate
<1>. QED
  BY <1>4, <1>5, <1>6, <1>7, <1>8, <1>9, <1>11 DEF WrapperInv

LEMMA EscalateKeeps ==
  ASSUME WrapperInv, NEW s \in Sessions, Escalate(s)
  PROVE  WrapperInv'
<1> DEFINE Leaders == Alive \union {"none", "gone"}
           Rests == (Alive \ {"new"}) \union {"none", "gone"}
           Tellings == {"nothing", "killed", "refused", "pending", "unrecorded"}
<1>1. /\ script' = script /\ \A c : Left(c)' <=> Left(c)
      /\ At("stop", s) /\ script # <<>> /\ Head(script) = <<"stop", s>>
      /\ stage = "term" /\ stage' = "kill" /\ UNCHANGED <<pid, locks, signal, caught, status, record, code>>
  BY DEF Escalate, Left, At
<1>2. pid[s] = "held" /\ leader[s] # "new"
  BY <1>1 DEF WrapperInv, StageInv, At
<1>3. /\ leader \in [Sessions -> Leaders] /\ rest \in [Sessions -> Rests]
      /\ stray \in [Sessions -> {"no", "yes", "hit"}]
      /\ told \in [Sessions \union {"record"} -> Tellings]
  BY DEF WrapperInv, TypeOK
<1>4. /\ \A t \in Sessions \ {s} : leader'[t] = leader[t] /\ rest'[t] = rest[t]
      /\ leader'[s] = IF KillGroup(s) \/ KillLeader(s) THEN Killed(leader[s]) ELSE leader[s]
      /\ rest'[s] = IF KillGroup(s) THEN Killed(rest[s]) ELSE rest[s]
  BY <1>2, <1>3 DEF Escalate
<1>5. leader' \in [Sessions -> Leaders] /\ rest' \in [Sessions -> Rests]
  BY <1>3 DEF Escalate, Killed, Alive
<1>6. stray' = stray
  BY <1>3 DEF Escalate, Hit, KillGroup, GroupOwned
<1>7. /\ told' \in [Sessions \union {"record"} -> Tellings]
      /\ told'["record"] = told["record"]
      /\ \A t \in Sessions \ {s} : told'[t] = told[t]
      /\ told'[s] = IF ~GroupLives(s) THEN told[s] ELSE IF GroupOwned(s) THEN "killed" ELSE "refused"
  BY <1>3, Known DEF Escalate
<1>8. s # "workload" => Settled(s)'
  <2> SUFFICES ASSUME s # "workload" PROVE Settled(s)'
    OBVIOUS
  <2>1. leader'[s] \notin {"new", "up", "hung"}
    BY <1>2, <1>3, <1>4 DEF KillLeader, Owned, Killed, Alive
  <2>2. rest'[s] \notin {"up", "hung"}
    BY <1>3, <1>4 DEF WrapperInv, StrayInv, KillGroup, GroupOwned, OwnGroup, Killed, Alive
  <2>. QED
    BY <2>1, <2>2 DEF Settled
<1>9. Lives(s)' => told'[s] # "nothing"
  <2>1. Lives(s)' => Lives(s)
    BY <1>3, <1>4 DEF Lives, Owned, Killed, Alive
  <2>2. Lives(s) => GroupLives(s)
    BY <1>2 DEF Lives, Owned, GroupLives, OwnGroup, Alive
  <2>. QED
    BY <2>1, <2>2, <1>7
<1>10. ScriptInv'
  BY <1>1 DEF WrapperInv, ScriptInv
<1>11. StageInv'
  BY <1>1, <1>2 DEF StageInv, At
<1>12. PidInv'
  BY <1>1, <1>2, <1>4 DEF WrapperInv, PidInv
<1>13. PastInv'
  <2>1. ASSUME NEW t \in Sessions, t # s
        PROVE  (Past(t)' => pid[t] = "cleared") /\ (Lives(t)' => Lives(t)) /\ (Owned(t)' => Owned(t))
               /\ (Settled(t) => Settled(t)') /\ told'[t] = told[t] /\ pid'[t] = pid[t]
    BY <1>1, <1>4, <1>7, <2>1 DEF Past, At, Lives, Owned, Settled
  <2>2. ASSUME NEW t \in Sessions, t # s
        PROVE  /\ Past(t)' /\ t # "workload" => Settled(t)'
               /\ Past(t)' /\ Lives(t)' => told'[t] # "nothing"
               /\ pid'[t] = "cleared" /\ t # "workload" /\ Owned(t)' => told'[t] = "pending"
    BY <2>1, <2>2 DEF WrapperInv, PastInv, Past
  <2>. QED
    BY <2>2, <1>1, <1>2, <1>8, <1>9 DEF PastInv
<1>14. StrayInv'
  BY <1>4, <1>6 DEF WrapperInv, StrayInv, Killed, Alive
<1>15. RecordInv'
  <2>1. s = "health" => Left(<<"finish", "shell">>)
    BY <1>1, HeadIsLeft, WhatFollows DEF WrapperInv
  <2>2. s # "health" => told'["health"] = told["health"]
    BY <1>7, Known
  <2>3. leader["workload"] = "gone" => leader'["workload"] = "gone"
    BY <1>4, Known DEF Killed
  <2>. QED
    BY <1>1, <1>7, <2>1, <2>2, <2>3 DEF WrapperInv, RecordInv, Outcome, ObserverLeft
<1>16. locks' \subseteq {t \in Writers : leader'[t] \in {"hung", "doomed"}}
  BY <1>1, <1>4 DEF WrapperInv, TypeOK, Writers, Sessions, Killed
<1>17. TypeOK'
  BY <1>1, <1>5, <1>6, <1>7, <1>16 DEF WrapperInv, TypeOK
<1>. QED
  BY <1>10, <1>11, <1>12, <1>13, <1>14, <1>15, <1>17 DEF WrapperInv

LEMMA ConcludeKeeps ==
  ASSUME WrapperInv, NEW s \in Sessions, Conclude(s)
  PROVE  WrapperInv'
<1>1. /\ script # <<>> /\ Head(script) = <<"stop", s>> /\ Left(<<"stop", s>>)
      /\ Past(s) /\ UNCHANGED <<leader, rest, stray, locks, signal, caught, status, record, code>>
  BY HeadIsLeft DEF WrapperInv, Conclude, At, Past
<1>2. /\ ScriptInv' /\ stage' = "idle"
      /\ \A c : Left(c)' => Left(c)
      /\ \A c : Left(c) => c = Head(script) \/ Left(c)'
      /\ Left(<<"exit", "shell">>)
  BY <1>1, Advanced, ExitIsLast DEF WrapperInv, Conclude
<1>3. pid[s] = "held"
  BY <1>1 DEF WrapperInv, StageInv, Conclude, At
<1>4. /\ pid' \in [Sessions -> {"unset", "held", "cleared"}]
      /\ \A t \in Sessions : pid'[t] = IF t = s THEN "cleared" ELSE pid[t]
  BY DEF WrapperInv, TypeOK, Conclude
<1>5. /\ told' \in [Sessions \union {"record"} -> {"nothing", "killed", "refused", "pending", "unrecorded"}]
      /\ told'["record"] = told["record"]
      /\ \A t \in Sessions : told'[t] = IF t = s /\ Owned(s) THEN "pending" ELSE told[t]
  BY Known DEF WrapperInv, TypeOK, Conclude
<1>6. StageInv'
  BY <1>2 DEF StageInv
<1>7. PidInv'
  <2>1. \A t \in Sessions : /\ t # s /\ Left(<<"stop", t>>) => Left(<<"stop", t>>)'
                            /\ Left(<<"name", t>>) => Left(<<"name", t>>)'
    BY <1>1, <1>2
  <2>. QED
    BY <2>1, <1>1, <1>2, <1>3, <1>4 DEF WrapperInv, PidInv
<1>8. PastInv'
  BY <1>1, <1>2, <1>4, <1>5 DEF WrapperInv, PastInv, Past, Settled, Lives, Owned
<1>9. StrayInv'
  BY <1>1 DEF WrapperInv, StrayInv
<1>10. RecordInv'
  <2>1. /\ Left(<<"finish", "shell">>) => Left(<<"finish", "shell">>)'
        /\ Left(<<"exit", "shell">>)'
        /\ Left(<<"await", "workload">>) => Left(<<"await", "workload">>)'
    BY <1>1, <1>2
  <2>2. s = "health" => Left(<<"finish", "shell">>)
    BY <1>1, WhatFollows DEF WrapperInv
  <2>3. s # "health" => pid'["health"] = pid["health"] /\ told'["health"] = told["health"]
    BY <1>4, <1>5, Known
  <2>. QED
    BY <1>1, <1>5, <2>1, <2>2, <2>3 DEF WrapperInv, RecordInv, Outcome, ObserverLeft
<1>11. TypeOK'
  BY <1>1, <1>2, <1>4, <1>5, TargetsAreNamed DEF WrapperInv, ScriptInv, TypeOK
<1>. QED
  BY <1>2, <1>6, <1>7, <1>8, <1>9, <1>10, <1>11 DEF WrapperInv

(* The trap.                                                               *)
LEMMA HandleKeeps ==
  ASSUME WrapperInv, Handle
  PROVE  WrapperInv'
<1>1. /\ script' = Interrupted /\ stage' = "idle" /\ caught' = signal /\ caught' # "none"
      /\ UNCHANGED <<pid, leader, rest, stray, locks, signal, status, record, told, code>>
  BY DEF Handle
<1>2. /\ \A s \in Sessions : Left(<<"stop", s>>)'
      /\ Left(<<"finish", "shell">>)' /\ Left(<<"exit", "shell">>)'
      /\ \A c \in Commands : Left(c)' => c[1] \in {"stop", "finish", "exit"}
  BY <1>1, InterruptedHolds DEF Left
<1>3. ScriptInv'
  BY <1>1, <1>2, ScriptsAreCommands, InterruptedIsOrdered DEF ScriptInv
<1>4. StageInv' /\ StrayInv'
  BY <1>1 DEF WrapperInv, StageInv, StrayInv
<1>5. PidInv'
  <2>1. \A s \in Sessions : ~Left(<<"spawn", s>>)'
    <3>1. \A s \in Sessions : <<"spawn", s>> \in Commands /\ <<"spawn", s>>[1] = "spawn"
      BY Known DEF Verbs
    <3>. QED
      BY <1>2, <3>1
  <2>. QED
    BY <1>1, <1>2, <2>1 DEF PidInv
<1>6. PastInv'
  BY <1>1 DEF WrapperInv, PastInv, Past, Settled, Lives, Owned
<1>7. RecordInv'
  BY <1>1, <1>2 DEF RecordInv
<1>8. TypeOK'
  BY <1>1, ScriptsAreCommands, TargetsAreNamed DEF WrapperInv, TypeOK
<1>. QED
  BY <1>3, <1>4, <1>5, <1>6, <1>7, <1>8 DEF WrapperInv
-----------------------------------------------------------------------------
(* What a step of the processes keeps: the shell stands where it stood.    *)
LEMMA WorldKeepsTheShell ==
  ASSUME WrapperInv, UNCHANGED shell
  PROVE  /\ script' = script /\ \A c : Left(c)' <=> Left(c)
         /\ ScriptInv'
         /\ UNCHANGED <<script, stage, pid, told, code, caught>>
<1>1. UNCHANGED <<script, stage, pid, told, code, caught>>
  BY DEF shell
<1>. QED
  BY <1>1 DEF WrapperInv, ScriptInv, Left

(* An observer that may still write belongs to a session that was never    *)
(* named or is still to be stopped, or was left pending.                   *)
LEMMA RecordIsSettled ==
  ASSUME WrapperInv, ~Left(<<"finish", "shell">>), ~ObserverLeft
  PROVE  ~Owned("health")
<1>1. "health" \in Sessions /\ pid["health"] \in {"unset", "held", "cleared"}
  BY Known DEF WrapperInv, TypeOK
<1>2. pid["health"] = "cleared"
  BY <1>1, WhatFollows DEF WrapperInv, PidInv, ObserverLeft
<1>. QED
  BY <1>1, <1>2 DEF WrapperInv, PastInv, ObserverLeft

(* One session's processes change: what of the invariant follows from what *)
(* may have become of them.                                                *)
LEMMA ProcessesKeep ==
  ASSUME WrapperInv, UNCHANGED shell, UNCHANGED stray,
         \A t \in Sessions :
           /\ leader[t] \in {"none", "gone"} => leader'[t] = leader[t]
           /\ leader'[t] # "none" \/ leader[t] = "none"
           /\ leader'[t] = "new" => leader[t] = "new"
           /\ leader[t] = "doomed" => leader'[t] \in {"doomed", "gone"}
           /\ leader[t] \notin Alive /\ rest[t] \notin Alive => rest'[t] = rest[t]
           /\ rest'[t] \in Alive /\ rest[t] \notin Alive => leader[t] = "up"
           /\ rest'[t] \in {"up", "hung"} /\ rest[t] \notin {"up", "hung"} => leader[t] = "up"
  PROVE  StageInv' /\ PidInv' /\ PastInv' /\ StrayInv'
<1>1. /\ script' = script /\ \A c : Left(c)' <=> Left(c)
      /\ UNCHANGED <<script, stage, pid, told, code, caught>>
      /\ leader \in [Sessions -> Alive \union {"none", "gone"}]
  BY WorldKeepsTheShell DEF WrapperInv, TypeOK
<1>2. StageInv'
  BY <1>1 DEF WrapperInv, StageInv, At
<1>3. PidInv'
  BY <1>1 DEF WrapperInv, PidInv
<1>4. PastInv'
  <2>1. ASSUME NEW t \in Sessions
        PROVE  /\ Past(t)' <=> Past(t)
               /\ Lives(t)' => Lives(t)
               /\ Owned(t)' => Owned(t)
               /\ Settled(t) => Settled(t)'
    <3>1. Past(t)' <=> Past(t)
      BY <1>1 DEF Past, At
    <3>2. Owned(t)' => Owned(t)
      BY <1>1 DEF Owned, Alive
    <3>3. Lives(t)' => Lives(t)
      BY <1>1, <3>2 DEF Lives, Owned, Alive
    <3>4. Settled(t) => Settled(t)'
      BY <1>1 DEF Settled, Alive
    <3>. QED
      BY <3>1, <3>2, <3>3, <3>4
  <2>. QED
    BY <1>1, <2>1 DEF WrapperInv, PastInv
<1>5. StrayInv'
  BY DEF WrapperInv, StrayInv, Alive
<1>. QED
  BY <1>2, <1>3, <1>4, <1>5

LEMMA OutcomeOfTheWorld ==
  ASSUME WrapperInv, UNCHANGED shell,
         leader["workload"] = "gone" => leader'["workload"] = "gone",
         status' = status \/ leader["workload"] # "gone",
         record' = record \/ Owned("health")
  PROVE  RecordInv'
<1>1. /\ \A c : Left(c)' <=> Left(c)
      /\ UNCHANGED <<script, stage, pid, told, code, caught>>
  BY WorldKeepsTheShell
<1>2. ObserverLeft' <=> ObserverLeft
  BY <1>1 DEF ObserverLeft
<1>3. ~Left(<<"finish", "shell">>) => Outcome' = Outcome
  BY <1>1, WhatFollows DEF WrapperInv, RecordInv, Outcome
<1>4. ~Left(<<"exit", "shell">>) => ~Left(<<"finish", "shell">>)
  BY ExitIsLast DEF WrapperInv, RecordInv
<1>5. ~Left(<<"finish", "shell">>) /\ ~ObserverLeft => record' = record
  BY RecordIsSettled
<1>. QED
  BY <1>1, <1>2, <1>3, <1>4, <1>5 DEF WrapperInv, RecordInv

LEMMA ArriveKeeps ==
  ASSUME WrapperInv, NEW sig \in Signals, Arrive(sig)
  PROVE  WrapperInv'
<1>1. UNCHANGED shell /\ UNCHANGED <<leader, rest, stray, locks, status, record>> /\ signal = "none" /\ signal' = sig
  BY DEF Arrive
<1>2. ScriptInv' /\ UNCHANGED <<script, stage, pid, told, code, caught>>
  BY <1>1, WorldKeepsTheShell
<1>3. StageInv' /\ PidInv' /\ PastInv' /\ StrayInv'
  BY <1>1, ProcessesKeep
<1>4. RecordInv'
  BY <1>1, OutcomeOfTheWorld
<1>5. TypeOK'
  BY <1>1, <1>2 DEF WrapperInv, TypeOK
<1>. QED
  BY <1>2, <1>3, <1>4, <1>5 DEF WrapperInv

LEMMA SetsidKeeps ==
  ASSUME WrapperInv, NEW s \in Sessions, Setsid(s)
  PROVE  WrapperInv'
<1>1. /\ leader \in [Sessions -> Alive \union {"none", "gone"}] /\ leader[s] = "new"
      /\ \A t \in Sessions : leader'[t] = IF t = s THEN "up" ELSE leader[t]
      /\ leader' \in [Sessions -> Alive \union {"none", "gone"}]
      /\ UNCHANGED shell /\ UNCHANGED <<rest, stray, locks, signal, status, record>>
  BY DEF WrapperInv, TypeOK, Setsid, Alive
<1>2. ScriptInv' /\ UNCHANGED <<script, stage, pid, told, code, caught>>
  BY <1>1, WorldKeepsTheShell
<1>3. StageInv' /\ PidInv' /\ PastInv' /\ StrayInv'
  BY <1>1, ProcessesKeep DEF Alive
<1>4. RecordInv'
  BY <1>1, Known, OutcomeOfTheWorld
<1>5. locks' \subseteq {t \in Writers : leader'[t] \in {"hung", "doomed"}}
  BY <1>1 DEF WrapperInv, TypeOK, Writers, Sessions
<1>6. TypeOK'
  BY <1>1, <1>2, <1>5 DEF WrapperInv, TypeOK
<1>. QED
  BY <1>2, <1>3, <1>4, <1>6 DEF WrapperInv

LEMMA ForkKeeps ==
  ASSUME WrapperInv, NEW s \in Sessions, Fork(s)
  PROVE  WrapperInv'
<1>1. /\ rest \in [Sessions -> (Alive \ {"new"}) \union {"none", "gone"}] /\ leader[s] = "up"
      /\ \A t \in Sessions : rest'[t] = IF t = s THEN "up" ELSE rest[t]
      /\ rest' \in [Sessions -> (Alive \ {"new"}) \union {"none", "gone"}]
      /\ UNCHANGED shell /\ UNCHANGED <<leader, stray, locks, signal, status, record>>
  BY DEF WrapperInv, TypeOK, Fork, Alive
<1>2. ScriptInv' /\ UNCHANGED <<script, stage, pid, told, code, caught>>
  BY <1>1, WorldKeepsTheShell
<1>3. StageInv' /\ PidInv' /\ PastInv' /\ StrayInv'
  BY <1>1, ProcessesKeep DEF Alive
<1>4. RecordInv'
  BY <1>1, OutcomeOfTheWorld
<1>5. TypeOK'
  BY <1>1, <1>2 DEF WrapperInv, TypeOK
<1>. QED
  BY <1>2, <1>3, <1>4, <1>5 DEF WrapperInv

LEMMA LeavesKeeps ==
  ASSUME WrapperInv, NEW s \in Sessions, Leaves(s)
  PROVE  WrapperInv'
<1>1. /\ leader \in [Sessions -> Alive \union {"none", "gone"}] /\ leader[s] \in {"new", "up"}
      /\ \A t \in Sessions : leader'[t] = IF t = s THEN "gone" ELSE leader[t]
      /\ leader' \in [Sessions -> Alive \union {"none", "gone"}]
      /\ UNCHANGED shell /\ UNCHANGED <<rest, stray, locks, signal, record>>
      /\ status' \in {"none"} \union Statuses
      /\ s # "workload" => status' = status
  BY DEF WrapperInv, TypeOK, Leaves
<1>2. ScriptInv' /\ UNCHANGED <<script, stage, pid, told, code, caught>>
  BY <1>1, WorldKeepsTheShell
<1>3. StageInv' /\ PidInv' /\ PastInv' /\ StrayInv'
  BY <1>1, ProcessesKeep DEF Alive
<1>4. RecordInv'
  BY <1>1, Known, OutcomeOfTheWorld
<1>5. locks' \subseteq {t \in Writers : leader'[t] \in {"hung", "doomed"}}
  BY <1>1 DEF WrapperInv, TypeOK, Writers, Sessions
<1>6. TypeOK'
  BY <1>1, <1>2, <1>5 DEF WrapperInv, TypeOK
<1>. QED
  BY <1>2, <1>3, <1>4, <1>6 DEF WrapperInv

LEMMA LeavesRestKeeps ==
  ASSUME WrapperInv, NEW s \in Sessions, LeavesRest(s)
  PROVE  WrapperInv'
<1>1. /\ rest \in [Sessions -> (Alive \ {"new"}) \union {"none", "gone"}] /\ rest[s] = "up"
      /\ \A t \in Sessions : rest'[t] = IF t = s THEN "gone" ELSE rest[t]
      /\ rest' \in [Sessions -> (Alive \ {"new"}) \union {"none", "gone"}]
      /\ UNCHANGED shell /\ UNCHANGED <<leader, stray, locks, signal, status, record>>
  BY DEF WrapperInv, TypeOK, LeavesRest
<1>2. ScriptInv' /\ UNCHANGED <<script, stage, pid, told, code, caught>>
  BY <1>1, WorldKeepsTheShell
<1>3. StageInv' /\ PidInv' /\ PastInv' /\ StrayInv'
  BY <1>1, ProcessesKeep DEF Alive
<1>4. RecordInv'
  BY <1>1, OutcomeOfTheWorld
<1>5. TypeOK'
  BY <1>1, <1>2 DEF WrapperInv, TypeOK
<1>. QED
  BY <1>2, <1>3, <1>4, <1>5 DEF WrapperInv

LEMMA ObserveKeeps ==
  ASSUME WrapperInv, Observe
  PROVE  WrapperInv'
<1>1. /\ Owned("health") /\ record'.status = "running"
      /\ UNCHANGED shell /\ UNCHANGED <<leader, rest, stray, locks, signal, status>>
  BY DEF Observe, Owned, Alive
<1>2. ScriptInv' /\ UNCHANGED <<script, stage, pid, told, code, caught>>
  BY <1>1, WorldKeepsTheShell
<1>3. StageInv' /\ PidInv' /\ PastInv' /\ StrayInv'
  BY <1>1, ProcessesKeep
<1>4. RecordInv'
  BY <1>1, OutcomeOfTheWorld
<1>5. TypeOK'
  BY <1>1, <1>2 DEF WrapperInv, TypeOK
<1>. QED
  BY <1>2, <1>3, <1>4, <1>5 DEF WrapperInv

LEMMA HangKeeps ==
  ASSUME WrapperInv, NEW s \in Sessions, Hang(s)
  PROVE  WrapperInv'
<1>1. /\ leader \in [Sessions -> Alive \union {"none", "gone"}]
      /\ rest \in [Sessions -> (Alive \ {"new"}) \union {"none", "gone"}]
      /\ UNCHANGED shell /\ UNCHANGED <<stray, signal, status, record>>
  BY DEF WrapperInv, TypeOK, Hang
<1>2. ScriptInv' /\ UNCHANGED <<script, stage, pid, told, code, caught>>
  BY <1>1, WorldKeepsTheShell
<1>3. CASE /\ leader[s] = "up" /\ leader' = [leader EXCEPT ![s] = "hung"] /\ UNCHANGED rest
           /\ locks' \in {locks} \union (IF s \in Writers THEN {locks \union {s}} ELSE {})
  <2>1. /\ \A t \in Sessions : leader'[t] = IF t = s THEN "hung" ELSE leader[t]
        /\ leader' \in [Sessions -> Alive \union {"none", "gone"}]
    BY <1>1, <1>3 DEF Alive
  <2>2. StageInv' /\ PidInv' /\ PastInv' /\ StrayInv'
    BY <1>1, <1>3, <2>1, ProcessesKeep DEF Alive
  <2>3. RecordInv'
    BY <1>1, <1>3, <2>1, Known, OutcomeOfTheWorld
  <2>4. locks' \subseteq {t \in Writers : leader'[t] \in {"hung", "doomed"}}
    BY <1>3, <2>1 DEF WrapperInv, TypeOK, Writers, Sessions
  <2>5. TypeOK'
    BY <1>1, <1>2, <1>3, <2>1, <2>4 DEF WrapperInv, TypeOK
  <2>. QED
    BY <1>2, <2>2, <2>3, <2>5 DEF WrapperInv
<1>4. CASE rest[s] = "up" /\ rest' = [rest EXCEPT ![s] = "hung"] /\ UNCHANGED <<leader, locks>>
  <2>1. /\ \A t \in Sessions : rest'[t] = IF t = s THEN "hung" ELSE rest[t]
        /\ rest' \in [Sessions -> (Alive \ {"new"}) \union {"none", "gone"}]
    BY <1>1, <1>4 DEF Alive
  <2>2. StageInv' /\ PidInv' /\ PastInv' /\ StrayInv'
    BY <1>1, <1>4, <2>1, ProcessesKeep DEF Alive
  <2>3. RecordInv'
    BY <1>1, <1>4, OutcomeOfTheWorld
  <2>4. TypeOK'
    BY <1>1, <1>2, <1>4, <2>1 DEF WrapperInv, TypeOK
  <2>. QED
    BY <1>2, <2>2, <2>3, <2>4 DEF WrapperInv
<1>. QED
  BY <1>3, <1>4 DEF Hang

LEMMA UnhangKeeps ==
  ASSUME WrapperInv, NEW s \in Sessions, Unhang(s)
  PROVE  WrapperInv'
<1>1. /\ leader \in [Sessions -> Alive \union {"none", "gone"}]
      /\ rest \in [Sessions -> (Alive \ {"new"}) \union {"none", "gone"}]
      /\ UNCHANGED shell /\ UNCHANGED <<stray, signal, status>>
  BY DEF WrapperInv, TypeOK, Unhang
<1>2. ScriptInv' /\ UNCHANGED <<script, stage, pid, told, code, caught>>
  BY <1>1, WorldKeepsTheShell
<1>3. CASE /\ s \in Stuck(leader) /\ leader' = [leader EXCEPT ![s] = Released(@)]
           /\ locks' = locks \ {s} /\ UNCHANGED rest
           /\ record' \in {record} \union
                (IF s = "health" THEN {[status |-> "running", code |-> "none"]} ELSE {})
  <2>1. /\ leader[s] \in {"hung", "doomed"}
        /\ \A t \in Sessions : leader'[t] = IF t = s THEN Released(leader[s]) ELSE leader[t]
        /\ leader' \in [Sessions -> Alive \union {"none", "gone"}]
    BY <1>1, <1>3 DEF Alive, Stuck, Released
  <2>2. StageInv' /\ PidInv' /\ PastInv' /\ StrayInv'
    BY <1>1, <1>3, <2>1, ProcessesKeep DEF Alive, Released
  <2>3. record' = record \/ (Owned("health") /\ record'.status = "running")
    BY <1>3, <2>1 DEF Owned, Alive
  <2>4. RecordInv'
    BY <1>1, <1>3, <2>1, <2>3, Known, OutcomeOfTheWorld
  <2>5. locks' \subseteq {t \in Writers : leader'[t] \in {"hung", "doomed"}}
    BY <1>3, <2>1 DEF WrapperInv, TypeOK, Writers, Sessions
  <2>6. TypeOK'
    BY <1>1, <1>2, <1>3, <2>1, <2>3, <2>5 DEF WrapperInv, TypeOK
  <2>. QED
    BY <1>2, <2>2, <2>4, <2>6 DEF WrapperInv
<1>4. CASE /\ s \in Stuck(rest) /\ rest' = [rest EXCEPT ![s] = Released(@)]
           /\ UNCHANGED <<leader, locks, record>>
  <2>1. /\ rest[s] \in {"hung", "doomed"}
        /\ \A t \in Sessions : rest'[t] = IF t = s THEN Released(rest[s]) ELSE rest[t]
        /\ rest' \in [Sessions -> (Alive \ {"new"}) \union {"none", "gone"}]
    BY <1>1, <1>4 DEF Alive, Stuck, Released
  <2>2. StageInv' /\ PidInv' /\ PastInv' /\ StrayInv'
    BY <1>1, <1>4, <2>1, ProcessesKeep DEF Alive, Released
  <2>3. RecordInv'
    BY <1>1, <1>4, OutcomeOfTheWorld
  <2>4. TypeOK'
    BY <1>1, <1>2, <1>4, <2>1 DEF WrapperInv, TypeOK
  <2>. QED
    BY <1>2, <2>2, <2>3, <2>4 DEF WrapperInv
<1>. QED
  BY <1>3, <1>4 DEF Unhang

LEMMA StrayKeeps ==
  ASSUME WrapperInv, NEW s \in Sessions, Stray(s)
  PROVE  WrapperInv'
<1>1. /\ stray \in [Sessions -> {"no", "yes", "hit"}]
      /\ \A t \in Sessions : stray'[t] = IF t = s THEN "yes" ELSE stray[t]
      /\ stray' \in [Sessions -> {"no", "yes", "hit"}]
      /\ s # "workload" => leader[s] = "gone" /\ ~OwnGroup(s)
      /\ UNCHANGED shell /\ UNCHANGED <<leader, rest, locks, signal, status, record>>
  BY DEF WrapperInv, TypeOK, Stray
<1>2. ScriptInv' /\ UNCHANGED <<script, stage, pid, told, code, caught>>
      /\ \A c : Left(c)' <=> Left(c)
  BY <1>1, WorldKeepsTheShell
<1>3. StageInv' /\ PidInv' /\ PastInv'
  BY <1>1, <1>2 DEF WrapperInv, StageInv, At, PidInv, PastInv, Past, Settled, Lives, Owned
<1>4. StrayInv'
  BY <1>1 DEF WrapperInv, StrayInv, OwnGroup
<1>5. RecordInv'
  BY <1>1, OutcomeOfTheWorld
<1>6. TypeOK'
  BY <1>1, <1>2 DEF WrapperInv, TypeOK
<1>. QED
  BY <1>2, <1>3, <1>4, <1>5, <1>6 DEF WrapperInv
-----------------------------------------------------------------------------
LEMMA WrapperHolds == Spec => []WrapperInv
<1>1. ASSUME WrapperInv, [Next]_vars PROVE WrapperInv'
  <2>1. CASE UNCHANGED vars
    <3>1. UNCHANGED shell /\ UNCHANGED <<leader, rest, stray, locks, signal, status, record>>
      BY <2>1 DEF vars
    <3>2. ScriptInv' /\ UNCHANGED <<script, stage, pid, told, code, caught>>
      BY <1>1, <3>1, WorldKeepsTheShell
    <3>3. StageInv' /\ PidInv' /\ PastInv' /\ StrayInv'
      BY <1>1, <3>1, ProcessesKeep
    <3>4. RecordInv'
      BY <1>1, <3>1, OutcomeOfTheWorld
    <3>5. TypeOK'
      BY <1>1, <3>1, <3>2 DEF WrapperInv, TypeOK
    <3>. QED
      BY <3>2, <3>3, <3>4, <3>5 DEF WrapperInv
  <2>2. CASE Shell
    BY <1>1, <2>2, SkipSettleKeeps, AnnounceKeeps, FinishKeeps, ExitKeeps, HandleKeeps, SpawnKeeps,
       NameKeeps, AwaitKeeps, ExportBeginsKeeps, ExportEndsKeeps, NothingToStopKeeps,
       TerminateKeeps, EscalateKeeps, ConcludeKeeps DEF Shell
  <2>3. CASE World
    BY <1>1, <2>3, ObserveKeeps, ArriveKeeps, SetsidKeeps, ForkKeeps, LeavesKeeps, LeavesRestKeeps,
       HangKeeps, UnhangKeeps, StrayKeeps DEF World
  <2>. QED
    BY <1>1, <2>1, <2>2, <2>3 DEF Next
<1>. QED
  BY InitHolds, <1>1, PTL DEF Spec

(* For any scripts the options give, any number of hanging members and of   *)
(* strangers: no process that the wrapper cannot verify as its own is ever  *)
(* signalled (sidecar_group_is_owned, sidecar_is_owned).                   *)
THEOREM OnlyOwn == Spec => []OnlyOwnIsSignalled
<1>1. WrapperInv => OnlyOwnIsSignalled
  BY DEF WrapperInv, StrayInv, OnlyOwnIsSignalled
<1>. QED
  BY <1>1, WrapperHolds, PTL

(* When the wrapper has ended, whatever still runs of a session it named    *)
(* was told of on stderr, however the session hangs, forks or is stopped    *)
(* and wherever in its script a signal arrived (stop_session, stop_pid).   *)
THEOREM NothingQuiet == Spec => []NothingSurvivesQuietly
<1>1. WrapperInv => NothingSurvivesQuietly
  <2> SUFFICES ASSUME WrapperInv, script = <<>>, NEW s \in Sessions, Lives(s), pid[s] # "unset"
               PROVE  told[s] # "nothing"
    BY DEF NothingSurvivesQuietly, Ended
  <2>1. ~Left(<<"stop", s>>)
    BY ExitIsLast DEF WrapperInv
  <2>2. pid[s] = "cleared"
    BY <2>1 DEF WrapperInv, PidInv, TypeOK
  <2>. QED
    BY <2>2 DEF WrapperInv, PastInv, Past
<1>. QED
  BY <1>1, WrapperHolds, PTL

(* The final export never runs beside the sidecar that writes the same     *)
(* file, and the record left behind says how the run ended, unless the     *)
(* wrapper said that it could not be written or left its observer behind   *)
(* (main, finish, interrupt_workload).                                     *)
THEOREM SettledRun == Spec => []RunIsSettled
<1>1. WrapperInv => FinalWorkIsAlone
  <2> SUFFICES ASSUME WrapperInv, NEW s \in Writers, At("export", s)
               PROVE  leader[s] \notin {"new", "up", "hung"} /\ rest[s] \notin {"up", "hung"}
    BY DEF FinalWorkIsAlone
  <2>1. s \in Sessions /\ s # "logger" /\ s # "workload"
    BY SidecarsAssumption DEF Writers, Sessions
  <2>2. /\ script \in Seq(Commands) /\ script # <<>> /\ Head(script) = <<"export", s>>
        /\ Left(<<"export", s>>) /\ Ordered(script)
    BY HeadIsLeft DEF WrapperInv, ScriptInv
  <2>3. caught = "none"
    <3>1. <<"export", s>> \in Commands /\ <<"export", s>>[1] = "export"
      BY <2>1, Known DEF Verbs
    <3>. QED
      BY <2>2, <3>1 DEF WrapperInv, ScriptInv
  <2>4. ~Left(<<"stop", s>>)
    <3>1. Closes(Head(script), <<"stop", s>>, script)
      BY <2>1, <2>2 DEF Ordered
    <3>2. ~In(<<"stop", s>>, Tail(script))
      BY <2>2, <3>1, BehindTheHead
    <3>. QED
      BY <2>2, <3>2, BehindTheHead DEF Left
  <2>5. Left(<<"name", s>>) => Left(<<"stop", s>>)
    BY <2>1, WhatFollows DEF WrapperInv
  <2>6. pid[s] = "cleared"
    BY <2>1, <2>3, <2>4, <2>5 DEF WrapperInv, PidInv, TypeOK
  <2>. QED
    BY <2>1, <2>6 DEF WrapperInv, PastInv, Past, Settled
<1>2. WrapperInv => ExitIsRecorded
  <2> SUFFICES ASSUME WrapperInv, script = <<>> PROVE ExitIsRecorded
    BY DEF ExitIsRecorded, Ended
  <2>1. \A c : ~Left(c)
    BY ExitIsLast DEF WrapperInv
  <2>. QED
    BY <2>1 DEF WrapperInv, RecordInv, ExitIsRecorded, Outcome
<1>3. WrapperInv => RunIsSettled
  BY <1>1, <1>2 DEF WrapperInv, RunIsSettled
<1>. QED
  BY <1>3, WrapperHolds, PTL
=============================================================================
