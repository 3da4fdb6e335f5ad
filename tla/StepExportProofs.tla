-------------------------- MODULE StepExportProofs --------------------------
(***************************************************************************)
(* Theorems about StepExport: each step is persisted once, what has been   *)
(* appended stays readable, a time window was observed, and the final      *)
(* export leaves out no step.                                              *)
(***************************************************************************)
EXTENDS StepExport, SequenceTheorems, FiniteSetTheorems, WellFoundedInduction, TLAPS

(* Cells of the logger's files, and of the history.                        *)
LCells == (1..MaxRecords) \X {1, 2}
HCells == LCells \cup {Newline}

(* Rows, what is readable and the separator, for any history.              *)
RowsIn(h, r) ==
  {i \in 1..(Len(h) - 1) :
     /\ h[i] = <<r, 1>> /\ h[i + 1] = <<r, 2>>
     /\ i = 1 \/ h[i - 1] = Newline
     /\ i + 1 = Len(h) \/ h[i + 2] = Newline}
ReadableIn(h) == {r \in 1..MaxRecords : RowsIn(h, r) # {}}
RepairOf(h) == IF h = <<>> \/ Last(h) = Newline THEN <<>> ELSE <<Newline>>

(* The row of a record that is appended to h, and h with the first n cells *)
(* of it.                                                                  *)
RowText(h, r) == RepairOf(h) \o <<<<r, 1>>, <<r, 2>>, Newline>>
Grown(h, r, n) == h \o SubSeq(RowText(h, r), 1, n)
-----------------------------------------------------------------------------
(* Numbers.                                                                *)
LEMMA InRange ==
  ASSUME NEW n \in Nat, NEW S \in SUBSET (1..n), NEW x \in S
  PROVE  x \in Nat /\ x <= n
OBVIOUS

LEMMA SumOfRest == \A p, s, n \in Nat : (p + s) + (n - s) = p + n
OBVIOUS

LEMMA SumsAgree == \A p, k, n \in Nat : p + (k + n) = (p + k) + n
OBVIOUS

LEMMA PlaceInRest ==
  ASSUME NEW f \in Nat, NEW n \in Nat, f + 1 <= n, NEW i \in 1..(n - (f + 1) + 1)
  PROVE  (f + 1) + i - 1 = f + i /\ f + i \in 1..n
OBVIOUS

LEMMA OneOn ==
  ASSUME NEW p \in Nat, NEW n \in Nat, NEW size \in 1..n, NEW i \in 1..size, i # size
  PROVE  i \in 1..(size - 1) /\ i + 1 \in 1..n /\ p + (i + 1) = (p + i) + 1
OBVIOUS

LEMMA Further ==
  ASSUME NEW p \in Nat, NEW n \in Nat, NEW size \in 1..n, NEW c \in Nat, c = n - size,
         NEW k \in 1..c, NEW mark \in Nat, (p + size) + k > mark
  PROVE  size + k \in 1..n /\ p + (size + k) > mark
OBVIOUS

LEMMA Between ==
  ASSUME NEW p \in Nat, NEW n \in Nat, NEW size \in Nat, size <= n, NEW m \in Nat, p + n <= m,
         NEW j \in Nat, p < j, j <= p + size
  PROVE  j - p \in 1..size /\ j = p + (j - p) /\ j - p \in 1..n /\ j \in 1..m
OBVIOUS

LEMMA OneBack ==
  ASSUME NEW p \in Nat, NEW n \in Nat, NEW size \in 1..n, NEW i \in 1..size, i # 1
  PROVE  /\ i - 1 \in 1..(size - 1) /\ i - 1 \in 1..n /\ p + i # 1
         /\ p + (i - 1) = (p + i) - 1
OBVIOUS
-----------------------------------------------------------------------------
(* Cells and rows.                                                         *)

LEMMA CellsDiffer ==
  /\ \A q, r \in 1..MaxRecords : \A c, d \in {1, 2} : <<q, c>> = <<r, d>> <=> q = r /\ c = d
  /\ \A q \in 1..MaxRecords : \A c \in {1, 2} : <<q, c>> # Newline
  /\ Newline \in HCells
  /\ \A q \in 1..MaxRecords : \A c \in {1, 2} : <<q, c>> \in LCells /\ <<q, c>> \in HCells
BY DEF Newline, LCells, HCells

LEMMA RowTextCells ==
  ASSUME NEW h \in Seq(HCells), NEW r \in 1..MaxRecords
  PROVE  /\ RowText(h, r) \in Seq(HCells)
         /\ RepairOf(h) \in Seq(HCells) /\ Len(RepairOf(h)) \in {0, 1}
         /\ Len(RowText(h, r)) = Len(RepairOf(h)) + 3 /\ Len(RowText(h, r)) \in Nat
         /\ Len(RowText(h, r)) <= 4
         /\ Len(RepairOf(h)) = 0 <=> h = <<>> \/ h[Len(h)] = Newline
         /\ Len(RepairOf(h)) = 0 =>
              /\ RowText(h, r)[1] = <<r, 1>> /\ RowText(h, r)[2] = <<r, 2>>
              /\ RowText(h, r)[3] = Newline
         /\ Len(RepairOf(h)) = 1 =>
              /\ RowText(h, r)[1] = Newline /\ RowText(h, r)[2] = <<r, 1>>
              /\ RowText(h, r)[3] = <<r, 2>> /\ RowText(h, r)[4] = Newline
<1> DEFINE row == <<<<r, 1>>, <<r, 2>>, Newline>>
<1>1. /\ row \in Seq(HCells) /\ Len(row) = 3
      /\ row[1] = <<r, 1>> /\ row[2] = <<r, 2>> /\ row[3] = Newline
  BY CellsDiffer
<1>2. /\ RepairOf(h) \in Seq(HCells) /\ Len(RepairOf(h)) \in {0, 1}
      /\ Len(RepairOf(h)) = 1 => RepairOf(h)[1] = Newline
      /\ Len(RepairOf(h)) = 0 <=> h = <<>> \/ h[Len(h)] = Newline
  BY CellsDiffer DEF RepairOf, Last
<1> HIDE DEF row
<1>3. RowText(h, r) = RepairOf(h) \o row
  BY DEF RowText, row
<1>4. /\ RepairOf(h) \o row \in Seq(HCells)
      /\ Len(RepairOf(h) \o row) = Len(RepairOf(h)) + 3
      /\ \A i \in 1..(Len(RepairOf(h)) + 3) : (RepairOf(h) \o row)[i] =
           IF i <= Len(RepairOf(h)) THEN RepairOf(h)[i] ELSE row[i - Len(RepairOf(h))]
  <2> HIDE DEF RepairOf
  <2>1. /\ RepairOf(h) \o row \in Seq(HCells)
        /\ Len(RepairOf(h) \o row) = Len(RepairOf(h)) + Len(row)
        /\ \A i \in 1..(Len(RepairOf(h)) + Len(row)) : (RepairOf(h) \o row)[i] =
             IF i <= Len(RepairOf(h)) THEN RepairOf(h)[i] ELSE row[i - Len(RepairOf(h))]
    BY <1>1, <1>2, ConcatProperties
  <2> QED
    BY <1>1, <2>1
<1>5. CASE Len(RepairOf(h)) = 0
  <2>1. RepairOf(h) = <<>>
    BY <1>2, <1>5, EmptySeq
  <2>2. RowText(h, r) = row
    BY <1>1, <1>3, <2>1, ConcatEmptySeq
  <2> QED
    BY <1>1, <1>2, <1>3, <1>4, <1>5, <2>2
<1>6. CASE Len(RepairOf(h)) = 1
  <2>1. /\ (RepairOf(h) \o row)[1] = RepairOf(h)[1] /\ (RepairOf(h) \o row)[2] = row[1]
        /\ (RepairOf(h) \o row)[3] = row[2] /\ (RepairOf(h) \o row)[4] = row[3]
    BY <1>4, <1>6
  <2> QED
    BY <1>1, <1>2, <1>3, <1>4, <1>6, <2>1
<1> QED
  BY <1>2, <1>5, <1>6

LEMMA GrownCells ==
  ASSUME NEW h \in Seq(HCells), NEW r \in 1..MaxRecords, NEW n \in 0..Len(RowText(h, r))
  PROVE  /\ Grown(h, r, n) \in Seq(HCells)
         /\ Len(Grown(h, r, n)) = Len(h) + n
         /\ \A i \in 1..Len(h) : Grown(h, r, n)[i] = h[i]
         /\ \A i \in (Len(h) + 1)..(Len(h) + n) : Grown(h, r, n)[i] = RowText(h, r)[i - Len(h)]
         /\ SubSeq(RowText(h, r), 1, n) \in Seq(HCells)
         /\ Len(SubSeq(RowText(h, r), 1, n)) = n
<1> DEFINE text == RowText(h, r)  part == SubSeq(text, 1, n)
<1>1. text \in Seq(HCells) /\ Len(text) \in Nat
  BY RowTextCells, LenProperties
<1>2. \A i \in 1..n : text[i] \in HCells
  BY <1>1, ElementOfSeq
<1> HIDE DEF text
<1>3. /\ part \in Seq(HCells) /\ Len(part) = n
      /\ \A i \in 1..n : part[i] = text[i]
  BY <1>1, <1>2, SubSeqProperties DEF text
<1> HIDE DEF part
<1>4. Grown(h, r, n) = h \o part
  BY DEF Grown, part, text
<1>5. /\ h \o part \in Seq(HCells)
      /\ Len(h \o part) = Len(h) + n
      /\ \A i \in 1..(Len(h) + n) : (h \o part)[i] = IF i <= Len(h) THEN h[i] ELSE part[i - Len(h)]
  BY <1>3, ConcatProperties
<1>6. Len(h) \in Nat
  BY LenProperties
<1>7. \A i \in (Len(h) + 1)..(Len(h) + n) : (h \o part)[i] = text[i - Len(h)]
  BY <1>3, <1>5, <1>6
<1> QED
  BY <1>3, <1>4, <1>5, <1>6, <1>7 DEF part, text

(* However much of a row is appended, no row is lost and none but that one *)
(* appears, at one place.                                                  *)
LEMMA GrownRows ==
  ASSUME NEW h \in Seq(HCells), NEW r \in 1..MaxRecords, NEW q \in 1..MaxRecords,
         NEW n \in 0..Len(RowText(h, r))
  PROVE  RowsIn(Grown(h, r, n), q) \subseteq
           RowsIn(h, q) \cup {i \in {Len(h) + Len(RepairOf(h)) + 1} : q = r}
<1> DEFINE g == Grown(h, r, n)  text == RowText(h, r)  s == Len(RepairOf(h))
<1>1. /\ g \in Seq(HCells) /\ Len(g) = Len(h) + n
      /\ \A i \in 1..Len(h) : g[i] = h[i]
      /\ \A i \in (Len(h) + 1)..(Len(h) + n) : g[i] = text[i - Len(h)]
  BY GrownCells
<1>2. /\ s \in {0, 1} /\ Len(text) = s + 3
      /\ s = 0 <=> h = <<>> \/ h[Len(h)] = Newline
      /\ s = 0 => text[1] = <<r, 1>> /\ text[2] = <<r, 2>> /\ text[3] = Newline
      /\ s = 1 => /\ text[1] = Newline /\ text[2] = <<r, 1>>
                  /\ text[3] = <<r, 2>> /\ text[4] = Newline
  BY RowTextCells
<1>3. Len(h) \in Nat /\ (h = <<>> <=> Len(h) = 0) /\ \A i \in 1..Len(h) : h[i] \in HCells
  OBVIOUS
<1> HIDE DEF g, text, s
<1>4. SUFFICES ASSUME NEW i \in RowsIn(g, q), i \notin RowsIn(h, q)
               PROVE  q = r /\ i = Len(h) + s + 1
  BY DEF g, s
<1>5. /\ i \in 1..(Len(g) - 1) /\ g[i] = <<q, 1>> /\ g[i + 1] = <<q, 2>>
      /\ i = 1 \/ g[i - 1] = Newline
      /\ i + 1 = Len(g) \/ g[i + 2] = Newline
  BY <1>4 DEF RowsIn
<1>6. i > Len(h) - 1
  <2>1. SUFFICES ASSUME i <= Len(h) - 1 PROVE FALSE
    BY <1>1, <1>3, <1>5
  <2>2. /\ i \in 1..(Len(h) - 1) /\ h[i] = <<q, 1>> /\ h[i + 1] = <<q, 2>>
        /\ i = 1 \/ h[i - 1] = Newline
    BY SMTT(30), <1>1, <1>3, <1>5, <2>1
  <2>3. i + 1 = Len(h) \/ h[i + 2] = Newline
    BY SMTT(30), <1>1, <1>3, <1>5, <2>1
  <2> QED
    BY <1>4, <2>2, <2>3 DEF RowsIn
<1>7. i # Len(h)
  <2>1. SUFFICES ASSUME i = Len(h) PROVE FALSE
    OBVIOUS
  <2>2. Len(h) \in 1..Len(h) /\ h[Len(h)] = <<q, 1>> /\ h # <<>>
    BY <1>1, <1>3, <1>5, <2>1
  <2>3. s = 1 /\ n >= 1
    BY <1>1, <1>2, <1>3, <1>5, <2>1, <2>2, CellsDiffer
  <2>4. i + 1 \in (Len(h) + 1)..(Len(h) + n) /\ (i + 1) - Len(h) = 1
    BY <2>1, <2>3, <1>3
  <2>5. g[i + 1] = Newline
    BY <2>3, <2>4, <1>1, <1>2
  <2> QED
    BY <2>5, <1>5, CellsDiffer
<1>8. i \in (Len(h) + 1)..(Len(h) + n) /\ i - Len(h) \in 1..(s + 3) /\ text[i - Len(h)] = <<q, 1>>
  <2>1. i \in (Len(h) + 1)..(Len(h) + n) /\ n \in 0..(s + 3)
    BY <1>1, <1>2, <1>3, <1>5, <1>6, <1>7 DEF text
  <2>2. i - Len(h) \in 1..(s + 3)
    BY <2>1, <1>2, <1>3
  <2> QED
    BY <2>1, <2>2, <1>1, <1>5
<1>10. <<r, 2>> # <<q, 1>> /\ Newline # <<q, 1>> /\ (<<r, 1>> = <<q, 1>> => q = r)
  BY CellsDiffer
<1>9. i - Len(h) = s + 1 /\ q = r
  <2>1. CASE s = 0
    <3>1. i - Len(h) \in {1, 2, 3}
      BY <2>1, <1>8
    <3> QED
      BY SMTT(30), <3>1, <2>1, <1>2, <1>8, <1>10 DEF Newline
  <2>2. CASE s = 1
    <3>1. i - Len(h) \in {1, 2, 3, 4}
      BY <2>2, <1>8
    <3> QED
      BY SMTT(30), <3>1, <2>2, <1>2, <1>8, <1>10 DEF Newline
  <2> QED
    BY <2>1, <2>2, <1>2
<1> QED
  BY <1>2, <1>3, <1>5, <1>9

LEMMA GrownKeeps ==
  ASSUME NEW h \in Seq(HCells), NEW r \in 1..MaxRecords, NEW q \in 1..MaxRecords,
         NEW m \in 0..Len(RowText(h, r)), NEW n \in 0..m
  PROVE  RowsIn(Grown(h, r, n), q) \subseteq RowsIn(Grown(h, r, m), q)
<1> DEFINE f == Grown(h, r, n)  g == Grown(h, r, m)  text == RowText(h, r)  s == Len(RepairOf(h))
<1>0. n \in 0..Len(RowText(h, r))
  BY RowTextCells
<1>1. /\ g \in Seq(HCells) /\ Len(g) = Len(h) + m
      /\ \A i \in 1..Len(h) : g[i] = h[i]
      /\ \A i \in (Len(h) + 1)..(Len(h) + m) : g[i] = text[i - Len(h)]
  BY GrownCells
<1>2. /\ f \in Seq(HCells) /\ Len(f) = Len(h) + n
      /\ \A i \in 1..Len(h) : f[i] = h[i]
      /\ \A i \in (Len(h) + 1)..(Len(h) + n) : f[i] = text[i - Len(h)]
  BY <1>0, GrownCells
<1>3. /\ s \in {0, 1} /\ Len(text) = s + 3
      /\ s = 0 <=> h = <<>> \/ h[Len(h)] = Newline
      /\ s = 0 => text[1] = <<r, 1>> /\ text[2] = <<r, 2>> /\ text[3] = Newline
      /\ s = 1 => /\ text[1] = Newline /\ text[2] = <<r, 1>>
                  /\ text[3] = <<r, 2>> /\ text[4] = Newline
  BY RowTextCells
<1>4. Len(h) \in Nat /\ (h = <<>> <=> Len(h) = 0) /\ \A i \in 1..Len(h) : h[i] \in HCells
  OBVIOUS
<1> HIDE DEF f, g, text, s
<1>5. \A i \in 1..Len(f) : g[i] = f[i]
  <2> SUFFICES ASSUME NEW i \in 1..Len(f) PROVE g[i] = f[i]
    OBVIOUS
  <2>1. CASE i <= Len(h)
    BY <2>1, <1>1, <1>2, <1>4
  <2>2. CASE i > Len(h)
    <3>1. i \in (Len(h) + 1)..(Len(h) + n) /\ i \in (Len(h) + 1)..(Len(h) + m)
      BY <2>2, <1>2, <1>4
    <3> QED
      BY <3>1, <1>1, <1>2
  <2> QED
    BY <2>1, <2>2, <1>2, <1>4
<1>6. SUFFICES ASSUME NEW i \in RowsIn(f, q) PROVE i \in RowsIn(g, q)
  BY DEF f, g
<1>7. /\ i \in 1..(Len(f) - 1) /\ f[i] = <<q, 1>> /\ f[i + 1] = <<q, 2>>
      /\ i = 1 \/ f[i - 1] = Newline
      /\ i + 1 = Len(f) \/ f[i + 2] = Newline
  BY <1>6 DEF RowsIn
<1>8. /\ i \in 1..(Len(g) - 1) /\ g[i] = <<q, 1>> /\ g[i + 1] = <<q, 2>>
      /\ i = 1 \/ g[i - 1] = Newline
  <2>1. i \in 1..Len(f) /\ i + 1 \in 1..Len(f) /\ i \in 1..(Len(g) - 1)
    BY <1>1, <1>2, <1>4, <1>7
  <2>2. i = 1 \/ i - 1 \in 1..Len(f)
    BY <2>1
  <2> QED
    BY <1>5, <1>7, <2>1, <2>2
<1>9. i + 1 = Len(g) \/ g[i + 2] = Newline
  <2>1. CASE i + 1 < Len(f)
    <3>1. i + 2 \in 1..Len(f)
      BY <2>1, <1>2, <1>4, <1>7
    <3> QED
      BY SMTT(30), <3>1, <2>1, <1>5, <1>7
  <2>2. CASE i + 1 = Len(f) /\ n = 0
    <3>1. Len(h) \in 1..Len(h) /\ h[Len(h)] = <<q, 2>> /\ h # <<>> /\ i + 1 = Len(h)
      BY <2>2, <1>2, <1>4, <1>7
    <3>2. s = 1
      BY <3>1, <1>3, CellsDiffer
    <3>3. CASE m = 0
      BY <3>1, <3>3, <1>1
    <3>4. CASE m # 0
      <4>3. m \in 0..(s + 3)
        BY <1>3 DEF text
      <4>1. i + 2 \in (Len(h) + 1)..(Len(h) + m) /\ (i + 2) - Len(h) = 1
        BY <3>1, <3>4, <4>3, <1>3, <1>4, <1>7
      <4>2. g[i + 2] = text[(i + 2) - Len(h)]
        BY <4>1, <1>1
      <4> QED
        BY <4>1, <4>2, <3>2, <1>3
    <3> QED
      BY <3>3, <3>4
  <2>3. CASE i + 1 = Len(f) /\ n # 0
    <3>1. Len(h) + n \in (Len(h) + 1)..(Len(h) + n) /\ f[Len(h) + n] = <<q, 2>>
      BY <2>3, <1>2, <1>4, <1>7
    <3>2. text[n] = <<q, 2>> /\ n \in 1..(s + 3)
      <4>1. f[Len(h) + n] = text[(Len(h) + n) - Len(h)]
        BY <3>1, <1>2
      <4> QED
        BY <3>1, <4>1, <2>3, <1>0, <1>3, <1>4 DEF text
    <3>7. <<r, 1>> # <<q, 2>> /\ Newline # <<q, 2>>
      BY CellsDiffer
    <3>3. n = s + 2
      <4>1. CASE s = 0
        <5>1. n \in {1, 2, 3}
          BY <4>1, <3>2
        <5> QED
          BY <5>1, <4>1, <3>2, <3>7, <1>3 DEF Newline
      <4>2. CASE s = 1
        <5>1. n \in {1, 2, 3, 4}
          BY <4>2, <3>2
        <5> QED
          BY <5>1, <4>2, <3>2, <3>7, <1>3 DEF Newline
      <4> QED
        BY <4>1, <4>2, <1>3
    <3>4. m = n \/ m = s + 3
      BY <3>3, <1>3 DEF text
    <3>5. CASE m = n
      BY <3>5, <2>3, <1>1, <1>2
    <3>6. CASE m = s + 3
      <4>1. i + 2 = Len(h) + m /\ i + 2 \in (Len(h) + 1)..(Len(h) + m) /\ (i + 2) - Len(h) = s + 3
        BY <3>3, <3>6, <2>3, <1>2, <1>3, <1>4, <1>7
      <4>2. text[s + 3] = Newline
        BY <1>3
      <4> QED
        BY <4>1, <4>2, <1>1
    <3> QED
      BY <3>4, <3>5, <3>6
  <2> QED
    BY <2>1, <2>2, <2>3, <1>2, <1>4, <1>7
<1> QED
  BY <1>8, <1>9 DEF RowsIn

LEMMA GrownNone ==
  ASSUME NEW h \in Seq(HCells), NEW r \in 1..MaxRecords
  PROVE  Grown(h, r, 0) = h
<1>1. SubSeq(RowText(h, r), 1, 0) = <<>>
  BY SubSeqEmpty
<1> QED
  BY <1>1, ConcatEmptySeq DEF Grown

LEMMA GrownFull ==
  ASSUME NEW h \in Seq(HCells), NEW r \in 1..MaxRecords
  PROVE  /\ Grown(h, r, Len(RowText(h, r))) = h \o RowText(h, r)
         /\ r \in ReadableIn(h \o RowText(h, r))
<1> DEFINE text == RowText(h, r)  s == Len(RepairOf(h))  g == Grown(h, r, Len(text))
<1>1. Len(text) \in 0..Len(text)
  BY RowTextCells
<1>2. /\ g \in Seq(HCells) /\ Len(g) = Len(h) + Len(text)
      /\ \A i \in 1..Len(h) : g[i] = h[i]
      /\ \A i \in (Len(h) + 1)..(Len(h) + Len(text)) : g[i] = text[i - Len(h)]
  BY <1>1, GrownCells
<1>3. /\ s \in {0, 1} /\ Len(text) = s + 3
      /\ s = 0 <=> h = <<>> \/ h[Len(h)] = Newline
      /\ s = 0 => text[1] = <<r, 1>> /\ text[2] = <<r, 2>> /\ text[3] = Newline
      /\ s = 1 => /\ text[1] = Newline /\ text[2] = <<r, 1>>
                  /\ text[3] = <<r, 2>> /\ text[4] = Newline
  BY RowTextCells
<1>4. Len(h) \in Nat /\ (h = <<>> <=> Len(h) = 0)
  OBVIOUS
<1>5. g = h \o text
  BY RowTextCells, SubSeqFull DEF Grown
<1> HIDE DEF g, text, s
<1>6. Len(h) + s + 1 \in RowsIn(g, r)
  <2>1. PICK i \in Nat : i = Len(h) + s + 1
    BY <1>3, <1>4
  <2>2. /\ i \in (Len(h) + 1)..(Len(h) + Len(text)) /\ i + 1 \in (Len(h) + 1)..(Len(h) + Len(text))
        /\ i + 2 \in (Len(h) + 1)..(Len(h) + Len(text)) /\ i \in 1..(Len(g) - 1)
        /\ i - Len(h) = s + 1 /\ (i + 1) - Len(h) = s + 2 /\ (i + 2) - Len(h) = s + 3
    BY <2>1, <1>2, <1>3, <1>4
  <2>3. g[i] = text[s + 1] /\ g[i + 1] = text[s + 2] /\ g[i + 2] = text[s + 3]
    BY <2>2, <1>2
  <2>4. g[i] = <<r, 1>> /\ g[i + 1] = <<r, 2>> /\ g[i + 2] = Newline
    BY <2>3, <1>3
  <2>5. i = 1 \/ g[i - 1] = Newline
    <3>1. CASE s = 0
      BY <3>1, <2>1, <1>2, <1>3, <1>4
    <3>2. CASE s = 1
      <4>1. i - 1 \in (Len(h) + 1)..(Len(h) + Len(text)) /\ (i - 1) - Len(h) = 1
        BY <3>2, <2>1, <1>3, <1>4
      <4> QED
        BY <4>1, <3>2, <1>2, <1>3
    <3> QED
      BY <3>1, <3>2, <1>3
  <2> QED
    BY <2>1, <2>2, <2>4, <2>5 DEF RowsIn
<1> QED
  BY <1>5, <1>6 DEF ReadableIn, g, text

(* What an append, complete or cut short, leaves.                          *)
LEMMA GrownReadable ==
  ASSUME NEW h \in Seq(HCells), NEW r \in 1..MaxRecords,
         NEW m \in 0..Len(RowText(h, r)), NEW n \in 0..m
  PROVE  /\ ReadableIn(Grown(h, r, n)) \subseteq ReadableIn(Grown(h, r, m))
         /\ ReadableIn(h) \subseteq ReadableIn(Grown(h, r, m))
         /\ ReadableIn(Grown(h, r, m)) \subseteq ReadableIn(h) \cup {r}
<1>1. ReadableIn(Grown(h, r, n)) \subseteq ReadableIn(Grown(h, r, m))
  BY GrownKeeps DEF ReadableIn
<1>2. ReadableIn(h) \subseteq ReadableIn(Grown(h, r, m))
  <2>1. 0 \in 0..m
    OBVIOUS
  <2>2. \A q \in 1..MaxRecords : RowsIn(Grown(h, r, 0), q) \subseteq RowsIn(Grown(h, r, m), q)
    BY <2>1, GrownKeeps
  <2> QED
    BY <2>2, GrownNone DEF ReadableIn
<1>3. ReadableIn(Grown(h, r, m)) \subseteq ReadableIn(h) \cup {r}
  <2>1. \A q \in 1..MaxRecords : q # r => RowsIn(Grown(h, r, m), q) \subseteq RowsIn(h, q)
    BY GrownRows
  <2> QED
    BY <2>1 DEF ReadableIn
<1> QED
  BY <1>1, <1>2, <1>3

(* Each record that did not linger has one row.                            *)
Once(h, late) == \A r \in (1..MaxRecords) \ late : \A i, j \in RowsIn(h, r) : i = j

LEMMA GrownOnce ==
  ASSUME NEW h \in Seq(HCells), NEW r \in 1..MaxRecords,
         NEW n \in 0..Len(RowText(h, r)), NEW late,
         Once(h, late), r \in ReadableIn(h) => r \in late
  PROVE  Once(Grown(h, r, n), late)
<1> SUFFICES ASSUME NEW q \in (1..MaxRecords) \ late,
                    NEW i \in RowsIn(Grown(h, r, n), q), NEW j \in RowsIn(Grown(h, r, n), q)
             PROVE  i = j
  BY DEF Once
<1>1. RowsIn(Grown(h, r, n), q) \subseteq
        RowsIn(h, q) \cup {k \in {Len(h) + Len(RepairOf(h)) + 1} : q = r}
  BY GrownRows
<1>2. CASE q = r
  <2>1. RowsIn(h, q) = {}
    BY <1>2 DEF ReadableIn
  <2> QED
    BY <1>1, <2>1
<1>3. CASE q # r
  BY <1>1, <1>3 DEF Once
<1> QED
  BY <1>2, <1>3

LEMMA GrownOn ==
  ASSUME NEW h \in Seq(HCells), NEW r \in 1..MaxRecords, NEW n \in 0..Len(RowText(h, r)),
         NEW m \in 0..Len(SubSeq(RowText(h, r), n + 1, Len(RowText(h, r))))
  PROVE  /\ n + m \in 0..Len(RowText(h, r))
         /\ Grown(h, r, n) \o SubSeq(SubSeq(RowText(h, r), n + 1, Len(RowText(h, r))), 1, m)
              = Grown(h, r, n + m)
<1> DEFINE text == RowText(h, r)  size == Len(text)  rest == SubSeq(text, n + 1, size)
           part == SubSeq(rest, 1, m)  f == Grown(h, r, n)  g == Grown(h, r, n + m)
<1>1. text \in Seq(HCells) /\ size \in Nat /\ Len(h) \in Nat
  BY RowTextCells
<1>2. \A i \in 1..size : text[i] \in HCells
  BY <1>1, ElementOfSeq
<1>3. /\ f \in Seq(HCells) /\ Len(f) = Len(h) + n
      /\ \A i \in 1..Len(h) : f[i] = h[i]
      /\ \A i \in (Len(h) + 1)..(Len(h) + n) : f[i] = text[i - Len(h)]
  BY GrownCells
<1>10. n \in 0..size /\ m \in 0..Len(rest)
  OBVIOUS
<1> HIDE DEF text, size
<1>4. /\ rest \in Seq(HCells) /\ Len(rest) = size - n
      /\ \A i \in 1..(size - n) : rest[i] = text[n + i]
  <2>1. \A i \in (n + 1)..size : text[i] \in HCells
    BY <1>1, <1>2
  <2>2. /\ rest \in Seq(HCells) /\ Len(rest) = IF n + 1 <= size THEN size - (n + 1) + 1 ELSE 0
        /\ \A i \in 1..(size - (n + 1) + 1) : rest[i] = text[(n + 1) + i - 1]
    BY <2>1, <1>1, SubSeqProperties
  <2> HIDE DEF rest
  <2>3. \A i \in 1..(size - n) : rest[i] = text[n + i]
    <3> SUFFICES ASSUME NEW i \in 1..(size - n) PROVE rest[i] = text[n + i]
      OBVIOUS
    <3>1. i \in 1..(size - (n + 1) + 1) /\ (n + 1) + i - 1 = n + i
      BY <1>1, <1>10
    <3>2. rest[i] = text[(n + 1) + i - 1]
      BY <2>2, <3>1
    <3> QED
      BY <3>1, <3>2
  <2>4. CASE n = size
    BY <2>2, <2>3, <2>4, <1>1
  <2>5. CASE n < size
    BY <2>2, <2>3, <2>5, <1>1, <1>10
  <2> QED
    BY <2>4, <2>5, <1>1, <1>10
<1> HIDE DEF rest
<1>5. m \in 0..(size - n) /\ n + m \in 0..size
  BY <1>1, <1>4, <1>10
<1>6. /\ part \in Seq(HCells) /\ Len(part) = m
      /\ \A i \in 1..m : part[i] = text[n + i]
  <2>1. \A i \in 1..m : rest[i] \in HCells
    BY <1>4, <1>5, ElementOfSeq
  <2>2. /\ part \in Seq(HCells) /\ Len(part) = IF 1 <= m THEN m - 1 + 1 ELSE 0
        /\ \A i \in 1..(m - 1 + 1) : part[i] = rest[1 + i - 1]
    BY <2>1, <1>5, SubSeqProperties
  <2> HIDE DEF part
  <2>3. \A i \in 1..m : part[i] = rest[i]
    <3> SUFFICES ASSUME NEW i \in 1..m PROVE part[i] = rest[i]
      OBVIOUS
    <3>1. i \in 1..(m - 1 + 1) /\ 1 + i - 1 = i
      BY <1>5
    <3>2. part[i] = rest[1 + i - 1]
      BY <2>2, <3>1
    <3> QED
      BY <3>1, <3>2
  <2> QED
    BY SMTT(30), <2>2, <2>3, <1>4, <1>5
<1> HIDE DEF part
<1>7. /\ g \in Seq(HCells) /\ Len(g) = Len(h) + (n + m)
      /\ \A i \in 1..Len(h) : g[i] = h[i]
      /\ \A i \in (Len(h) + 1)..(Len(h) + (n + m)) : g[i] = text[i - Len(h)]
  BY <1>5, GrownCells DEF size, text
<1> HIDE DEF f, g
<1>8. /\ f \o part \in Seq(HCells) /\ Len(f \o part) = (Len(h) + n) + m
      /\ \A i \in 1..((Len(h) + n) + m) : (f \o part)[i] =
           IF i <= Len(h) + n THEN f[i] ELSE part[i - (Len(h) + n)]
  <2>1. /\ f \o part \in Seq(HCells) /\ Len(f \o part) = Len(f) + Len(part)
        /\ \A i \in 1..(Len(f) + Len(part)) : (f \o part)[i] =
             IF i <= Len(f) THEN f[i] ELSE part[i - Len(f)]
    BY <1>3, <1>6, ConcatProperties
  <2> QED
    BY <2>1, <1>3, <1>6
<1>9. \A i \in 1..Len(g) : (f \o part)[i] = g[i]
  <2> SUFFICES ASSUME NEW i \in 1..Len(g) PROVE (f \o part)[i] = g[i]
    OBVIOUS
  <2>1. i \in 1..((Len(h) + n) + m)
    BY <1>1, <1>5, <1>7
  <2>2. (f \o part)[i] = IF i <= Len(h) + n THEN f[i] ELSE part[i - (Len(h) + n)]
    BY <2>1, <1>8
  <2>3. CASE i <= Len(h)
    <3>1. i \in 1..Len(h) /\ i <= Len(h) + n
      BY <2>1, <2>3, <1>1, <1>10
    <3> QED
      BY <2>2, <3>1, <1>3, <1>7
  <2>4. CASE i > Len(h) /\ i <= Len(h) + n
    <3>1. /\ i \in (Len(h) + 1)..(Len(h) + n) /\ i <= Len(h) + n
          /\ i \in (Len(h) + 1)..(Len(h) + (n + m))
      BY <2>1, <2>4, <1>1, <1>5, <1>10
    <3> QED
      BY <2>2, <3>1, <1>3, <1>7
  <2>5. CASE i > Len(h) + n
    <3>1. i - (Len(h) + n) \in 1..m /\ n + (i - (Len(h) + n)) = i - Len(h)
      BY <2>1, <2>5, <1>1, <1>5
    <3>2. part[i - (Len(h) + n)] = text[n + (i - (Len(h) + n))]
      BY <3>1, <1>6
    <3>3. i \in (Len(h) + 1)..(Len(h) + (n + m))
      BY <2>1, <2>5, <1>1, <1>5
    <3>4. ~(i <= Len(h) + n)
      BY <2>1, <2>5, <1>1, <1>10
    <3> QED
      BY <2>2, <3>1, <3>2, <3>3, <3>4, <1>7
  <2>6. i \in Nat /\ Len(h) \in Nat /\ n \in Nat
    BY <2>1, <1>1, <1>10
  <2>7. i <= Len(h) \/ (i > Len(h) /\ i <= Len(h) + n) \/ i > Len(h) + n
    BY <2>6
  <2> QED
    BY <2>3, <2>4, <2>5, <2>7
<1>11. Len(f \o part) = Len(g)
  BY SMTT(30), <1>1, <1>5, <1>7, <1>8
<1>12. f \o part = g
  BY <1>7, <1>8, <1>9, <1>11, SeqEqual
<1> QED
  BY <1>5, <1>12 DEF f, g, part, rest, text, size
-----------------------------------------------------------------------------
(* The inductive invariant: the part about the history.                    *)

Items == [rec : 1..MaxRecords, live : BOOLEAN]
Gone == {"done", "dead"}
Watching == {"begin", "open", "check", "read", "append"}
Appending == {"append", "write", "lingering", "close"}
Labels == {"new"} \cup Watching \cup Appending \cup Gone

HistoryTypes ==
  /\ history \in Seq(HCells)
  /\ seen \in [Processes -> SUBSET (1..MaxRecords)]
  /\ item \in [Processes -> Items \cup {None}]
  /\ separator \in [Processes -> Seq(HCells)]
  /\ residue \in [Processes -> Seq(HCells)]
  /\ pc \in [Processes -> Labels] /\ holder \in Processes \cup {None}
  /\ appended \subseteq 1..MaxRecords /\ lingered \subseteq 1..MaxRecords

(* Bridges run one after another: one that is followed by another is gone, *)
(* or its write lingers, and then it holds the lock.                       *)
ProcessInv ==
  \A b \in Processes :
    /\ pc[b] \in {"write", "lingering"} <=> holder = b
    /\ pc[b] # "new" => \A o \in Processes : o < b => pc[o] \in Gone \cup {"lingering"}
    /\ pc[b] = "close" => \A o \in Processes : o # b => pc[o] \in Gone \cup {"new"}
    /\ pc[b] = "done" => ~Following[b]
    /\ pc[b] \in Appending => item[b] \in Items
    /\ pc[b] \notin Appending => item[b] = None

(* What a bridge knows of the history lacks at most what lingers, and what *)
(* it is about to append is not in the history, or lingered.               *)
HistoryInv ==
  /\ Once(history, lingered) /\ appended \subseteq ReadableIn(history)
  /\ \A b \in Processes :
       /\ seen[b] \subseteq ReadableIn(history)
       /\ pc[b] \in Watching \cup {"write"} => ReadableIn(history) \subseteq seen[b] \cup lingered
       /\ pc[b] \in {"write", "lingering"} => separator[b] = RepairOf(history)
       /\ pc[b] = "write" => item[b].rec \notin seen[b]
       /\ pc[b] = "lingering" => item[b].rec \in lingered

(* A flush that failed has left n cells of the row, after base.            *)
CutShort(b, base, n) ==
  /\ n \in 0..Len(RowText(base, item[b].rec))
  /\ history = Grown(base, item[b].rec, n)
  /\ residue[b] = SubSeq(RowText(base, item[b].rec), n + 1, Len(RowText(base, item[b].rec)))
  /\ Once(base, lingered) /\ appended \subseteq ReadableIn(base)
  /\ item[b].rec \in ReadableIn(base) => item[b].rec \in lingered
CloseInv ==
  \A b \in Processes : pc[b] = "close" =>
    \E k \in 0..Len(history), n \in 0..3 : CutShort(b, SubSeq(history, 1, k), n)

AppendInv == HistoryTypes /\ ProcessInv /\ HistoryInv /\ CloseInv
-----------------------------------------------------------------------------
(* Bridges that write are alone, but for those whose write lingers.        *)

LEMMA Alone ==
  ASSUME HistoryTypes, ProcessInv, NEW b \in Processes, pc[b] \in {"write", "close"}
  PROVE  \A o \in Processes : o # b => pc[o] \in Gone \cup {"new"}
<1>1. CASE pc[b] = "close"
  BY <1>1 DEF ProcessInv
<1>2. CASE pc[b] = "write"
  <2> SUFFICES ASSUME NEW o \in Processes, o # b PROVE pc[o] \in Gone \cup {"new"}
    OBVIOUS
  <2>1. CASE o < b
    <3>1. pc[o] \in Gone \cup {"lingering"}
      BY <1>2, <2>1 DEF ProcessInv
    <3>2. holder = b
      BY <1>2 DEF ProcessInv
    <3>3. pc[o] # "lingering"
      BY <3>2 DEF ProcessInv
    <3> QED
      BY <3>1, <3>3
  <2>2. CASE b < o
    BY <1>2, <2>2 DEF ProcessInv, Gone
  <2> QED
    BY <2>1, <2>2, ExportAssumption DEF Processes
<1> QED
  BY <1>1, <1>2

LEMMA LateAlone ==
  ASSUME HistoryTypes, ProcessInv, NEW b \in Processes, pc[b] = "lingering"
  PROVE  \A o \in Processes : o # b => pc[o] \notin {"write", "lingering", "close"}
<1>1. holder = b
  BY DEF ProcessInv
<1>2. \A o \in Processes : pc[o] \in {"write", "lingering"} => o = b
  BY <1>1 DEF ProcessInv
<1>3. \A o \in Processes : o # b => pc[o] # "close"
  BY DEF ProcessInv, Gone
<1> QED
  BY <1>2, <1>3

(* Steps of a bridge that reads, and has no hold of the history.           *)
LEMMA WatchStep ==
  ASSUME AppendInv, NEW b \in Processes, NEW l \in Watching \cup {"done"},
         pc[b] \in Watching, pc' = [pc EXCEPT ![b] = l],
         UNCHANGED <<history, holder, seen, separator, residue, appended, lingered>>,
         item' \in [Processes -> Items \cup {None}],
         \A o \in Processes : o # b => item'[o] = item[o],
         IF l = "append" THEN item'[b] \in Items ELSE item'[b] = None,
         l = "done" => ~Following[b]
  PROVE  AppendInv'
<1> USE DEF AppendInv
<1>1. HistoryTypes'
  BY DEF HistoryTypes, Labels, Gone
<1>2. pc'[b] = l /\ \A o \in Processes : o # b => pc'[o] = pc[o]
  BY DEF HistoryTypes
<1>3. ProcessInv'
  <2> SUFFICES ASSUME NEW c \in Processes
               PROVE  /\ pc'[c] \in {"write", "lingering"} <=> holder = c
                      /\ pc'[c] # "new" => \A o \in Processes : o < c => pc'[o] \in Gone \cup {"lingering"}
                      /\ pc'[c] = "close" => \A o \in Processes : o # c => pc'[o] \in Gone \cup {"new"}
                      /\ pc'[c] = "done" => ~Following[c]
                      /\ pc'[c] \in Appending => item'[c] \in Items
                      /\ pc'[c] \notin Appending => item'[c] = None
    BY DEF ProcessInv
  <2>1. pc'[c] \in {"write", "lingering"} <=> holder = c
    BY <1>2 DEF ProcessInv, Watching
  <2>2. pc'[c] # "new" => \A o \in Processes : o < c => pc'[o] \in Gone \cup {"lingering"}
    BY <1>2 DEF ProcessInv, Watching, Gone
  <2>3. pc'[c] = "close" => \A o \in Processes : o # c => pc'[o] \in Gone \cup {"new"}
    BY <1>2 DEF ProcessInv, Watching, Gone
  <2>4. pc'[c] = "done" => ~Following[c]
    BY <1>2 DEF ProcessInv
  <2>5. /\ pc'[c] \in Appending => item'[c] \in Items
        /\ pc'[c] \notin Appending => item'[c] = None
    BY <1>2 DEF ProcessInv, Appending, Watching
  <2> QED
    BY <2>1, <2>2, <2>3, <2>4, <2>5
<1>4. HistoryInv'
  <2>1. \A c \in Processes :
          /\ pc'[c] \in Watching \cup {"write"} => pc[c] \in Watching \cup {"write"}
          /\ pc'[c] \in {"write", "lingering"} => pc'[c] = pc[c] /\ item'[c] = item[c]
    BY <1>2 DEF Watching
  <2> QED
    BY <2>1 DEF HistoryInv
<1>5. CloseInv'
  <2> SUFFICES ASSUME NEW c \in Processes, pc'[c] = "close"
               PROVE  \E k \in 0..Len(history), n \in 0..3 : CutShort(c, SubSeq(history, 1, k), n)'
    BY DEF CloseInv
  <2>1. c # b /\ pc[c] = "close" /\ item'[c] = item[c]
    BY <1>2 DEF Watching
  <2>2. PICK k \in 0..Len(history), n \in 0..3 : CutShort(c, SubSeq(history, 1, k), n)
    BY <2>1 DEF CloseInv
  <2>3. CutShort(c, SubSeq(history, 1, k), n)'
    BY <2>1, <2>2 DEF CutShort
  <2> QED
    BY <2>3
<1> QED
  BY <1>1, <1>3, <1>4, <1>5

(* A bridge dies, whatever it was doing.                                   *)
LEMMA DieStep ==
  ASSUME AppendInv, NEW b \in Processes, Die(b), UNCHANGED <<appended, lingered>>,
         pc[b] \notin Gone \cup {"new"},
         history' = history \/ pc[b] \in {"write", "lingering", "close"},
         history' \in Seq(HCells), Once(history', lingered),
         ReadableIn(history) \subseteq ReadableIn(history'),
         pc[b] = "lingering" => ReadableIn(history') \subseteq ReadableIn(history) \cup lingered
  PROVE  AppendInv'
<1> USE DEF AppendInv
<1>1. HistoryTypes'
  BY DEF HistoryTypes, Labels, Gone, Die, Goto
<1>2. /\ pc'[b] = "dead" /\ item'[b] = None /\ seen'[b] = {}
      /\ \A o \in Processes : o # b =>
           /\ pc'[o] = pc[o] /\ item'[o] = item[o] /\ seen'[o] = seen[o]
           /\ separator'[o] = separator[o] /\ residue'[o] = residue[o]
      /\ holder' = IF holder = b THEN None ELSE holder
  BY DEF HistoryTypes, Die, Goto
<1>3. ProcessInv'
  <2> SUFFICES ASSUME NEW c \in Processes
               PROVE  /\ pc'[c] \in {"write", "lingering"} <=> holder' = c
                      /\ pc'[c] # "new" => \A o \in Processes : o < c => pc'[o] \in Gone \cup {"lingering"}
                      /\ pc'[c] = "close" => \A o \in Processes : o # c => pc'[o] \in Gone \cup {"new"}
                      /\ pc'[c] = "done" => ~Following[c]
                      /\ pc'[c] \in Appending => item'[c] \in Items
                      /\ pc'[c] \notin Appending => item'[c] = None
    BY DEF ProcessInv
  <2>1. pc'[c] \in {"write", "lingering"} <=> holder' = c
    <3>1. None \notin Processes
      BY ExportAssumption DEF Processes
    <3>2. CASE c = b
      BY <3>1, <3>2, <1>2
    <3>3. CASE c # b
      BY <3>1, <3>3, <1>2 DEF ProcessInv
    <3> QED
      BY <3>2, <3>3
  <2>2. pc'[c] # "new" => \A o \in Processes : o < c => pc'[o] \in Gone \cup {"lingering"}
    BY <1>2 DEF ProcessInv, Gone
  <2>3. pc'[c] = "close" => \A o \in Processes : o # c => pc'[o] \in Gone \cup {"new"}
    BY <1>2 DEF ProcessInv, Gone
  <2>4. pc'[c] = "done" => ~Following[c]
    BY <1>2 DEF ProcessInv
  <2>5. /\ pc'[c] \in Appending => item'[c] \in Items
        /\ pc'[c] \notin Appending => item'[c] = None
    BY <1>2 DEF ProcessInv, Appending
  <2> QED
    BY <2>1, <2>2, <2>3, <2>4, <2>5
<1>4. \A o \in Processes : o # b /\ history' # history =>
        /\ pc[o] \notin {"write", "lingering", "close"}
        /\ pc[o] \in Watching => pc[b] = "lingering"
  BY Alone, LateAlone DEF Gone, Watching
<1>5. HistoryInv'
  <2>1. appended' \subseteq ReadableIn(history')
    BY DEF HistoryInv
  <2>2. ASSUME NEW c \in Processes
        PROVE  /\ seen'[c] \subseteq ReadableIn(history')
               /\ pc'[c] \in Watching \cup {"write"} =>
                    ReadableIn(history') \subseteq seen'[c] \cup lingered
               /\ pc'[c] \in {"write", "lingering"} => separator'[c] = RepairOf(history')
               /\ pc'[c] = "write" => item'[c].rec \notin seen'[c]
               /\ pc'[c] = "lingering" => item'[c].rec \in lingered
    <3>1. CASE c = b
      BY <3>1, <1>2 DEF Watching
    <3>2. CASE c # b
      <4>1. /\ seen'[c] = seen[c] /\ pc'[c] = pc[c] /\ separator'[c] = separator[c]
            /\ item'[c] = item[c]
        BY <3>2, <1>2
      <4>2. /\ seen[c] \subseteq ReadableIn(history)
            /\ pc[c] \in Watching \cup {"write"} => ReadableIn(history) \subseteq seen[c] \cup lingered
            /\ pc[c] \in {"write", "lingering"} => separator[c] = RepairOf(history)
            /\ pc[c] = "write" => item[c].rec \notin seen[c]
            /\ pc[c] = "lingering" => item[c].rec \in lingered
        BY DEF HistoryInv
      <4>3. CASE history' = history
        BY <4>1, <4>2, <4>3
      <4>4. CASE history' # history
        BY <3>2, <4>1, <4>2, <4>4, <1>4
      <4> QED
        BY <4>3, <4>4
    <3> QED
      BY <3>1, <3>2
  <2> QED
    BY <2>1, <2>2 DEF HistoryInv
<1>6. CloseInv'
  <2> SUFFICES ASSUME NEW c \in Processes, pc'[c] = "close"
               PROVE  \E k \in 0..Len(history'), n \in 0..3 : CutShort(c, SubSeq(history, 1, k), n)'
    BY DEF CloseInv
  <2>1. /\ c # b /\ pc[c] = "close" /\ item'[c] = item[c] /\ residue'[c] = residue[c]
        /\ history' = history
    BY <1>2, <1>4
  <2>2. PICK k \in 0..Len(history), n \in 0..3 : CutShort(c, SubSeq(history, 1, k), n)
    BY <2>1 DEF CloseInv
  <2>3. CutShort(c, SubSeq(history, 1, k), n)'
    BY <2>1, <2>2 DEF CutShort
  <2> QED
    BY <2>1, <2>3
<1> QED
  BY <1>1, <1>3, <1>5, <1>6

(* What the cells of a row are once the separator is chosen.               *)
LEMMA TextIsRow ==
  ASSUME AppendInv, NEW b \in Processes, pc[b] \in {"write", "lingering"}
  PROVE  /\ item[b].rec \in 1..MaxRecords
         /\ Text(b) = RowText(history, item[b].rec)
         /\ history \in Seq(HCells)
         /\ pc[b] = "write" => (item[b].rec \in ReadableIn(history) => item[b].rec \in lingered)
<1>1. item[b] \in Items
  BY DEF AppendInv, ProcessInv, Appending
<1>2. separator[b] = RepairOf(history)
  BY DEF AppendInv, HistoryInv
<1>3. pc[b] = "write" => (item[b].rec \in ReadableIn(history) => item[b].rec \in lingered)
  BY DEF AppendInv, HistoryInv
<1> QED
  BY <1>1, <1>2, <1>3 DEF AppendInv, HistoryTypes, Text, RowText, Items

LEMMA LoadStep ==
  ASSUME AppendInv, NEW b \in Processes, Load(b)
  PROVE  AppendInv'
<1> USE DEF AppendInv
<1>0. Known = ReadableIn(history)
  BY DEF Known, Readable, ReadableIn, Rows, RowsIn
<1>1. HistoryTypes'
  BY <1>0 DEF HistoryTypes, Labels, Watching, Load, Goto, ReadableIn, bridge, ghosts
<1>2. /\ pc[b] = "new" /\ pc'[b] = "begin" /\ seen'[b] = ReadableIn(history)
      /\ \A o \in Processes : o # b => pc'[o] = pc[o] /\ seen'[o] = seen[o]
      /\ \A o \in Processes : o < b => pc[o] \in Gone \cup {"lingering"}
      /\ UNCHANGED <<history, holder, item, separator, residue, appended, lingered>>
  BY <1>0, ExportAssumption DEF HistoryTypes, Load, Goto, ghosts, Gone, Processes
<1>3. ProcessInv'
  <2> SUFFICES ASSUME NEW c \in Processes
               PROVE  /\ pc'[c] \in {"write", "lingering"} <=> holder = c
                      /\ pc'[c] # "new" => \A o \in Processes : o < c => pc'[o] \in Gone \cup {"lingering"}
                      /\ pc'[c] = "close" => \A o \in Processes : o # c => pc'[o] \in Gone \cup {"new"}
                      /\ pc'[c] = "done" => ~Following[c]
                      /\ pc'[c] \in Appending => item[c] \in Items
                      /\ pc'[c] \notin Appending => item[c] = None
    BY <1>2 DEF ProcessInv
  <2>1. pc'[c] \in {"write", "lingering"} <=> holder = c
    BY <1>2 DEF ProcessInv
  <2>2. pc'[c] # "new" => \A o \in Processes : o < c => pc'[o] \in Gone \cup {"lingering"}
    <3>1. CASE c = b
      BY <3>1, <1>2, ExportAssumption DEF Processes
    <3>2. CASE c # b
      BY <3>2, <1>2 DEF ProcessInv, Gone
    <3> QED
      BY <3>1, <3>2
  <2>3. pc'[c] = "close" => \A o \in Processes : o # c => pc'[o] \in Gone \cup {"new"}
    <3> SUFFICES ASSUME pc'[c] = "close", NEW o \in Processes, o # c PROVE pc'[o] \in Gone \cup {"new"}
      OBVIOUS
    <3>1. c # b /\ pc[c] = "close"
      BY <1>2
    <3>2. b < c
      BY <3>1, <1>2, ExportAssumption DEF Gone, Processes
    <3> QED
      BY <3>1, <3>2, <1>2 DEF ProcessInv, Gone
  <2>4. /\ pc'[c] = "done" => ~Following[c]
        /\ pc'[c] \in Appending => item[c] \in Items
        /\ pc'[c] \notin Appending => item[c] = None
    BY <1>2 DEF ProcessInv, Appending
  <2> QED
    BY <2>1, <2>2, <2>3, <2>4
<1>4. HistoryInv'
  BY <1>2 DEF HistoryInv
<1>5. CloseInv'
  <2> SUFFICES ASSUME NEW c \in Processes, pc'[c] = "close"
               PROVE  \E k \in 0..Len(history), n \in 0..3 : CutShort(c, SubSeq(history, 1, k), n)'
    BY <1>2 DEF CloseInv
  <2>1. c # b /\ pc[c] = "close"
    BY <1>2
  <2>2. PICK k \in 0..Len(history), n \in 0..3 : CutShort(c, SubSeq(history, 1, k), n)
    BY <2>1 DEF CloseInv
  <2>3. CutShort(c, SubSeq(history, 1, k), n)'
    BY <2>2, <1>2 DEF CutShort
  <2> QED
    BY <2>3
<1> QED
  BY <1>1, <1>3, <1>4, <1>5

LEMMA LockStep ==
  ASSUME AppendInv, NEW b \in Processes, Lock(b)
  PROVE  AppendInv'
<1> USE DEF AppendInv
<1>0. Repair = RepairOf(history) /\ Repair \in Seq(HCells)
  BY RowTextCells, CellsDiffer DEF Repair, RepairOf, HistoryTypes
<1>1. HistoryTypes'
  BY <1>0 DEF HistoryTypes, Labels, Appending, Lock, Goto, bridge, ghosts
<1>2. /\ pc[b] = "append" /\ pc'[b] = "write" /\ item[b].rec \notin seen[b]
      /\ holder = None /\ holder' = b /\ separator'[b] = RepairOf(history)
      /\ \A o \in Processes : o # b => pc'[o] = pc[o] /\ separator'[o] = separator[o]
      /\ UNCHANGED <<history, seen, item, residue, appended, lingered>>
  BY <1>0 DEF HistoryTypes, Lock, Goto, ghosts
<1>3. None \notin Processes
  BY ExportAssumption DEF Processes
<1>4. \A o \in Processes : pc[o] \notin {"write", "lingering", "close"}
  <2>1. \A o \in Processes : pc[o] \notin {"write", "lingering"}
    BY <1>2, <1>3 DEF ProcessInv
  <2>2. \A o \in Processes : pc[o] # "close"
    BY <1>2 DEF ProcessInv, Gone
  <2> QED
    BY <2>1, <2>2
<1>5. ProcessInv'
  <2> SUFFICES ASSUME NEW c \in Processes
               PROVE  /\ pc'[c] \in {"write", "lingering"} <=> holder' = c
                      /\ pc'[c] # "new" => \A o \in Processes : o < c => pc'[o] \in Gone \cup {"lingering"}
                      /\ pc'[c] = "close" => \A o \in Processes : o # c => pc'[o] \in Gone \cup {"new"}
                      /\ pc'[c] = "done" => ~Following[c]
                      /\ pc'[c] \in Appending => item[c] \in Items
                      /\ pc'[c] \notin Appending => item[c] = None
    BY <1>2 DEF ProcessInv
  <2>1. pc'[c] \in {"write", "lingering"} <=> holder' = c
    BY <1>2, <1>4
  <2>2. pc'[c] # "new" => \A o \in Processes : o < c => pc'[o] \in Gone \cup {"lingering"}
    BY <1>2 DEF ProcessInv, Gone
  <2>3. pc'[c] = "close" => \A o \in Processes : o # c => pc'[o] \in Gone \cup {"new"}
    BY <1>2, <1>4
  <2>4. /\ pc'[c] = "done" => ~Following[c]
        /\ pc'[c] \in Appending => item[c] \in Items
        /\ pc'[c] \notin Appending => item[c] = None
    BY <1>2 DEF ProcessInv, Appending
  <2> QED
    BY <2>1, <2>2, <2>3, <2>4
<1>6. HistoryInv'
  BY <1>2, <1>4 DEF HistoryInv, Watching
<1>7. CloseInv'
  BY <1>2, <1>4 DEF CloseInv
<1> QED
  BY <1>1, <1>5, <1>6, <1>7

LEMMA WriteStep ==
  ASSUME AppendInv, NEW b \in Processes, Write(b)
  PROVE  AppendInv' /\ ReadableIn(history) \subseteq ReadableIn(history')
<1> USE DEF AppendInv
<1> DEFINE r == item[b].rec
<1>1. /\ pc[b] = "write" /\ pc'[b] = "check" /\ seen'[b] = seen[b] \cup {r}
      /\ \A o \in Processes : o # b =>
           pc'[o] = pc[o] /\ seen'[o] = seen[o] /\ item'[o] = item[o]
      /\ item'[b] = None
      /\ holder' = None /\ appended' = appended \cup {r}
      /\ UNCHANGED <<residue, lingered>>
  BY DEF HistoryTypes, Write, Goto
<1>2. /\ r \in 1..MaxRecords /\ Text(b) = RowText(history, r) /\ history \in Seq(HCells)
      /\ r \in ReadableIn(history) => r \in lingered
  BY <1>1, TextIsRow
<1>3. history' = history \o RowText(history, r)
  BY <1>2 DEF Write
<1> HIDE DEF r
<1>4. history' = Grown(history, r, Len(RowText(history, r))) /\ r \in ReadableIn(history')
  BY <1>2, <1>3, GrownFull
<1>5. Len(RowText(history, r)) \in 0..Len(RowText(history, r))
  BY <1>2, RowTextCells
<1>6. /\ history' \in Seq(HCells) /\ Once(history', lingered)
      /\ ReadableIn(history) \subseteq ReadableIn(history')
      /\ ReadableIn(history') \subseteq ReadableIn(history) \cup {r}
  BY <1>2, <1>4, <1>5, GrownCells, GrownOnce, GrownReadable DEF HistoryInv
<1>7. HistoryTypes'
  <2>1. seen' \in [Processes -> SUBSET (1..MaxRecords)] /\ appended' \subseteq 1..MaxRecords
    BY <1>2 DEF HistoryTypes, Write, r
  <2>2. <<>> \in Seq(HCells)
    OBVIOUS
  <2>3. /\ separator' \in [Processes -> Seq(HCells)] /\ residue' \in [Processes -> Seq(HCells)]
        /\ item' \in [Processes -> Items \cup {None}]
        /\ lingered' \subseteq 1..MaxRecords
    BY <2>2 DEF HistoryTypes, Write
  <2>4. pc' \in [Processes -> Labels] /\ holder' \in Processes \cup {None}
    BY DEF HistoryTypes, Labels, Watching, Write, Goto
  <2> QED
    BY <2>1, <2>3, <2>4, <1>6 DEF HistoryTypes
<1>8. \A o \in Processes : o # b => pc[o] \in Gone \cup {"new"}
  BY <1>1, Alone
<1>9. ProcessInv'
  <2> SUFFICES ASSUME NEW c \in Processes
               PROVE  /\ pc'[c] \in {"write", "lingering"} <=> holder' = c
                      /\ pc'[c] # "new" => \A o \in Processes : o < c => pc'[o] \in Gone \cup {"lingering"}
                      /\ pc'[c] = "close" => \A o \in Processes : o # c => pc'[o] \in Gone \cup {"new"}
                      /\ pc'[c] = "done" => ~Following[c]
                      /\ pc'[c] \in Appending => item'[c] \in Items
                      /\ pc'[c] \notin Appending => item'[c] = None
    BY DEF ProcessInv
  <2>1. pc'[c] \in {"write", "lingering"} <=> holder' = c
    BY <1>1, <1>8, ExportAssumption DEF Processes, Gone
  <2>2. pc'[c] # "new" => \A o \in Processes : o < c => pc'[o] \in Gone \cup {"lingering"}
    BY <1>1 DEF ProcessInv, Gone
  <2>3. pc'[c] = "close" => \A o \in Processes : o # c => pc'[o] \in Gone \cup {"new"}
    BY <1>1, <1>8 DEF Gone
  <2>4. /\ pc'[c] = "done" => ~Following[c]
        /\ pc'[c] \in Appending => item'[c] \in Items
        /\ pc'[c] \notin Appending => item'[c] = None
    BY <1>1 DEF ProcessInv, Appending
  <2> QED
    BY <2>1, <2>2, <2>3, <2>4
<1>10. HistoryInv'
  <2>1. appended' \subseteq ReadableIn(history')
    BY <1>1, <1>4, <1>6 DEF HistoryInv
  <2>2. ASSUME NEW c \in Processes
        PROVE  /\ seen'[c] \subseteq ReadableIn(history')
               /\ pc'[c] \in Watching \cup {"write"} =>
                    ReadableIn(history') \subseteq seen'[c] \cup lingered
               /\ pc'[c] \notin {"write", "lingering"}
    <3>1. seen[c] \subseteq ReadableIn(history)
      BY DEF HistoryInv
    <3>2. CASE c = b
      <4>1. ReadableIn(history) \subseteq seen[b] \cup lingered
        BY <1>1 DEF HistoryInv
      <4> QED
        BY <3>1, <3>2, <4>1, <1>1, <1>4, <1>6
    <3>3. CASE c # b
      BY <3>1, <3>3, <1>1, <1>6, <1>8 DEF Gone, Watching
    <3> QED
      BY <3>2, <3>3
  <2> QED
    BY <2>1, <2>2, <1>1, <1>6 DEF HistoryInv
<1>11. CloseInv'
  BY <1>1, <1>8 DEF CloseInv, Gone
<1> QED
  BY <1>6, <1>7, <1>9, <1>10, <1>11

(* A flush that fails, and what closing the file then adds.                *)
LEMMA WriteFailsStep ==
  ASSUME AppendInv, NEW b \in Processes, WriteFails(b)
  PROVE  AppendInv' /\ ReadableIn(history) \subseteq ReadableIn(history')
<1> USE DEF AppendInv
<1> DEFINE r == item[b].rec
<1>1. /\ pc[b] = "write" /\ pc'[b] = "close"
      /\ \A o \in Processes : o # b => pc'[o] = pc[o] /\ residue'[o] = residue[o]
      /\ holder' = None
      /\ UNCHANGED <<seen, item, separator, appended, lingered>>
  BY DEF HistoryTypes, WriteFails, Goto, ghosts
<1>2. /\ r \in 1..MaxRecords /\ Text(b) = RowText(history, r) /\ history \in Seq(HCells)
      /\ r \in ReadableIn(history) => r \in lingered
  BY <1>1, TextIsRow
<1> DEFINE text == RowText(history, r)
<1>3. PICK n \in 0..(Len(text) - 1) :
        /\ history' = history \o SubSeq(text, 1, n)
        /\ residue' = [residue EXCEPT ![b] = SubSeq(text, n + 1, Len(text))]
  BY <1>2 DEF WriteFails
<1> HIDE DEF r
<1>4. text \in Seq(HCells) /\ Len(text) \in Nat /\ Len(text) <= 4 /\ n \in 0..Len(text) /\ n \in 0..3
  <2>1. text \in Seq(HCells) /\ Len(text) \in Nat /\ Len(text) <= 4
    BY <1>2, RowTextCells
  <2> QED
    BY <2>1
<1>5. history' = Grown(history, r, n)
  BY <1>3 DEF Grown
<1>6. /\ history' \in Seq(HCells) /\ Once(history', lingered) /\ Len(history') = Len(history) + n
      /\ ReadableIn(history) \subseteq ReadableIn(history')
  BY <1>2, <1>4, <1>5, GrownCells, GrownOnce, GrownReadable DEF HistoryInv
<1>7. SubSeq(text, n + 1, Len(text)) \in Seq(HCells)
  <2>1. \A i \in (n + 1)..Len(text) : text[i] \in HCells
    BY <1>4, ElementOfSeq
  <2> HIDE DEF text
  <2> QED
    BY <2>1, <1>4, SubSeqProperties
<1>8. HistoryTypes'
  BY <1>1, <1>3, <1>6, <1>7 DEF HistoryTypes, Labels, Appending, WriteFails, Goto
<1>9. \A o \in Processes : o # b => pc[o] \in Gone \cup {"new"}
  BY <1>1, Alone
<1>10. ProcessInv'
  <2> SUFFICES ASSUME NEW c \in Processes
               PROVE  /\ pc'[c] \in {"write", "lingering"} <=> holder' = c
                      /\ pc'[c] # "new" => \A o \in Processes : o < c => pc'[o] \in Gone \cup {"lingering"}
                      /\ pc'[c] = "close" => \A o \in Processes : o # c => pc'[o] \in Gone \cup {"new"}
                      /\ pc'[c] = "done" => ~Following[c]
                      /\ pc'[c] \in Appending => item[c] \in Items
                      /\ pc'[c] \notin Appending => item[c] = None
    BY <1>1 DEF ProcessInv
  <2>1. pc'[c] \in {"write", "lingering"} <=> holder' = c
    BY <1>1, <1>9, ExportAssumption DEF Processes, Gone
  <2>2. pc'[c] # "new" => \A o \in Processes : o < c => pc'[o] \in Gone \cup {"lingering"}
    BY <1>1 DEF ProcessInv, Gone
  <2>3. pc'[c] = "close" => \A o \in Processes : o # c => pc'[o] \in Gone \cup {"new"}
    BY <1>1, <1>9 DEF Gone
  <2>4. /\ pc'[c] = "done" => ~Following[c]
        /\ pc'[c] \in Appending => item[c] \in Items
        /\ pc'[c] \notin Appending => item[c] = None
    BY <1>1 DEF ProcessInv, Appending
  <2> QED
    BY <2>1, <2>2, <2>3, <2>4
<1>11. HistoryInv'
  <2>1. appended' \subseteq ReadableIn(history')
    BY <1>1, <1>6 DEF HistoryInv
  <2>2. \A c \in Processes : seen'[c] \subseteq ReadableIn(history')
    BY <1>1, <1>6 DEF HistoryInv
  <2>3. \A c \in Processes : pc'[c] \notin Watching \cup {"write", "lingering"}
    BY <1>1, <1>9 DEF Gone, Watching
  <2> QED
    BY <2>1, <2>2, <2>3, <1>1, <1>6 DEF HistoryInv
<1>12. CloseInv'
  <2> SUFFICES ASSUME NEW c \in Processes, pc'[c] = "close"
               PROVE  \E k \in 0..Len(history'), m \in 0..3 : CutShort(c, SubSeq(history, 1, k), m)'
    BY DEF CloseInv
  <2>1. c = b
    BY <1>1, <1>9 DEF Gone
  <2>2. SubSeq(history', 1, Len(history)) = history
    <3>1. \A i \in 1..Len(history) : history'[i] = history[i]
      BY <1>2, <1>4, <1>5, GrownCells
    <3>2. Len(history) \in Nat /\ \A i \in 1..Len(history) : history[i] \in HCells
      BY <1>2, ElementOfSeq
    <3>3. /\ SubSeq(history', 1, Len(history)) \in Seq(HCells)
          /\ Len(SubSeq(history', 1, Len(history))) = Len(history)
          /\ \A i \in 1..Len(history) : SubSeq(history', 1, Len(history))[i] = history'[1 + i - 1]
      BY <3>1, <3>2, SubSeqProperties
    <3>4. \A i \in 1..Len(history) : SubSeq(history', 1, Len(history))[i] = history[i]
      BY <3>1, <3>2, <3>3
    <3> QED
      BY <3>3, <3>4, <1>2, SeqEqual
  <2>3. residue'[b] = SubSeq(text, n + 1, Len(text))
    BY <1>3 DEF HistoryTypes
  <2>4. Once(history, lingered) /\ appended \subseteq ReadableIn(history)
    BY DEF HistoryInv
  <2>5. Len(history) \in 0..Len(history')
    BY <1>2, <1>4, <1>6
  <2>6. \A base : base = history => CutShort(b, base, n)'
    BY <2>3, <2>4, <1>1, <1>2, <1>4, <1>5 DEF CutShort, r
  <2> QED
    BY <2>1, <2>2, <2>5, <2>6, <1>4
<1> QED
  BY <1>6, <1>8, <1>10, <1>11, <1>12

LEMMA CloseStep ==
  ASSUME AppendInv, NEW b \in Processes, Close(b)
  PROVE  AppendInv' /\ ReadableIn(history) \subseteq ReadableIn(history')
<1> DEFINE r == item[b].rec
<1>1. pc[b] = "close" /\ Die(b) /\ UNCHANGED <<appended, lingered>>
  BY DEF Close
<1>2. PICK k \in 0..Len(history), n \in 0..3 : CutShort(b, SubSeq(history, 1, k), n)
  BY <1>1 DEF AppendInv, CloseInv
<1> DEFINE base == SubSeq(history, 1, k)  text == RowText(base, r)
<1>3. r \in 1..MaxRecords
  BY <1>1 DEF AppendInv, ProcessInv, Appending, Items
<1>4. base \in Seq(HCells)
  <2>1. history \in Seq(HCells) /\ Len(history) \in Nat
    BY DEF AppendInv, HistoryTypes
  <2>2. \A i \in 1..k : history[i] \in HCells
    BY <2>1, ElementOfSeq
  <2> QED
    BY <2>1, <2>2, SubSeqProperties
<1>5. /\ n \in 0..Len(text) /\ history = Grown(base, r, n)
      /\ residue[b] = SubSeq(text, n + 1, Len(text))
      /\ Once(base, lingered) /\ appended \subseteq ReadableIn(base)
      /\ r \in ReadableIn(base) => r \in lingered
  BY <1>2 DEF CutShort
<1>6. PICK m \in 0..Len(residue[b]) : history' = history \o SubSeq(residue[b], 1, m)
  BY DEF Close
<1> HIDE DEF r, base
<1>10. m \in 0..Len(SubSeq(RowText(base, r), n + 1, Len(RowText(base, r))))
       /\ n \in 0..Len(RowText(base, r))
  BY <1>5, <1>6
<1>7. n + m \in 0..Len(text) /\ history' = Grown(base, r, n + m)
  <2>1. /\ n + m \in 0..Len(RowText(base, r))
        /\ Grown(base, r, n) \o SubSeq(SubSeq(RowText(base, r), n + 1, Len(RowText(base, r))), 1, m)
             = Grown(base, r, n + m)
    BY <1>3, <1>4, <1>10, GrownOn
  <2> QED
    BY <2>1, <1>5, <1>6
<1>8. n \in 0..(n + m)
  BY <1>6
<1>9. /\ history' \in Seq(HCells) /\ Once(history', lingered)
      /\ ReadableIn(history) \subseteq ReadableIn(history')
  <2>1. history' \in Seq(HCells)
    BY <1>3, <1>4, <1>7, GrownCells
  <2>2. Once(Grown(base, r, n + m), lingered)
    BY <1>3, <1>4, <1>5, <1>7, GrownOnce
  <2>3. ReadableIn(Grown(base, r, n)) \subseteq ReadableIn(Grown(base, r, n + m))
    BY <1>3, <1>4, <1>7, <1>8, GrownReadable
  <2> QED
    BY <2>1, <2>2, <2>3, <1>5, <1>7
<1> QED
  BY <1>1, <1>9, DieStep DEF Gone

(* A write that is cut short by death, at once or late.                    *)
LEMMA DyingWriteStep ==
  ASSUME AppendInv, NEW b \in Processes, pc[b] \in {"write", "lingering"},
         Die(b), UNCHANGED <<appended, lingered>>,
         NEW n \in 0..Len(Text(b)), history' = history \o SubSeq(Text(b), 1, n)
  PROVE  AppendInv' /\ ReadableIn(history) \subseteq ReadableIn(history')
<1> DEFINE r == item[b].rec
<1>1. /\ r \in 1..MaxRecords /\ Text(b) = RowText(history, r) /\ history \in Seq(HCells)
      /\ pc[b] = "write" => (r \in ReadableIn(history) => r \in lingered)
  BY TextIsRow
<1>2. pc[b] = "lingering" => r \in lingered
  BY DEF AppendInv, HistoryInv
<1>3. Once(history, lingered)
  BY DEF AppendInv, HistoryInv
<1> HIDE DEF r
<1>4. n \in 0..Len(RowText(history, r)) /\ history' = Grown(history, r, n)
  BY <1>1 DEF Grown
<1>5. /\ history' \in Seq(HCells) /\ Once(history', lingered)
      /\ ReadableIn(history) \subseteq ReadableIn(history')
      /\ ReadableIn(history') \subseteq ReadableIn(history) \cup {r}
  <2>1. r \in ReadableIn(history) => r \in lingered
    BY <1>1, <1>2
  <2>2. history' \in Seq(HCells)
    BY <1>1, <1>4, GrownCells
  <2>3. Once(Grown(history, r, n), lingered)
    BY <2>1, <1>1, <1>3, <1>4, GrownOnce
  <2>4. 0 \in 0..n
    BY <1>1, <1>4, RowTextCells
  <2>5. /\ ReadableIn(history) \subseteq ReadableIn(Grown(history, r, n))
        /\ ReadableIn(Grown(history, r, n)) \subseteq ReadableIn(history) \cup {r}
    BY <2>4, <1>1, <1>4, GrownReadable
  <2> QED
    BY <2>2, <2>3, <2>5, <1>4
<1> QED
  BY <1>2, <1>5, DieStep DEF Gone

(* A bridge that is killed, and a write that is over after all.            *)
LEMMA KillStep ==
  ASSUME AppendInv, NEW b \in Processes, Kill(b)
  PROVE  AppendInv' /\ ReadableIn(history) \subseteq ReadableIn(history')
<1>1. CASE pc[b] = "write"
  <2>1. PICK n \in 0..Len(Text(b)) : history' = history \o SubSeq(Text(b), 1, n)
    BY <1>1 DEF Kill
  <2> QED
    BY <1>1, <2>1, DyingWriteStep DEF Kill
<1>2. CASE pc[b] # "write"
  <2>1. /\ history' = history /\ Die(b) /\ UNCHANGED <<appended, lingered>>
        /\ pc[b] \notin Gone \cup {"new", "lingering"}
    BY <1>2 DEF Kill, Gone
  <2>2. history \in Seq(HCells) /\ Once(history, lingered)
    BY DEF AppendInv, HistoryTypes, HistoryInv
  <2> QED
    BY <2>1, <2>2, DieStep
<1> QED
  BY <1>1, <1>2

LEMMA LateWriteStep ==
  ASSUME AppendInv, NEW b \in Processes, LateWrite(b)
  PROVE  AppendInv' /\ ReadableIn(history) \subseteq ReadableIn(history')
<1>1. PICK n \in 0..Len(Text(b)) : history' = history \o SubSeq(Text(b), 1, n)
  BY DEF LateWrite
<1> QED
  BY <1>1, DyingWriteStep DEF LateWrite

LEMMA LingerStep ==
  ASSUME AppendInv, NEW b \in Processes, Linger(b)
  PROVE  AppendInv' /\ ReadableIn(history) \subseteq ReadableIn(history')
<1> USE DEF AppendInv
<1> DEFINE r == item[b].rec
<1>1. /\ pc[b] = "write" /\ pc'[b] = "lingering" /\ lingered' = lingered \cup {r}
      /\ \A o \in Processes : o # b => pc'[o] = pc[o]
      /\ UNCHANGED <<history, holder, seen, item, separator, residue, appended>>
  BY DEF HistoryTypes, Linger, Goto, bridge
<1>2. r \in 1..MaxRecords
  BY <1>1, TextIsRow
<1>3. HistoryTypes'
  BY <1>2 DEF HistoryTypes, Labels, Appending, Linger, Goto, bridge
<1>4. \A o \in Processes : o # b => pc[o] \in Gone \cup {"new"}
  BY <1>1, Alone
<1>5. ProcessInv'
  <2> SUFFICES ASSUME NEW c \in Processes
               PROVE  /\ pc'[c] \in {"write", "lingering"} <=> holder = c
                      /\ pc'[c] # "new" => \A o \in Processes : o < c => pc'[o] \in Gone \cup {"lingering"}
                      /\ pc'[c] = "close" => \A o \in Processes : o # c => pc'[o] \in Gone \cup {"new"}
                      /\ pc'[c] = "done" => ~Following[c]
                      /\ pc'[c] \in Appending => item[c] \in Items
                      /\ pc'[c] \notin Appending => item[c] = None
    BY <1>1 DEF ProcessInv
  <2>1. pc'[c] \in {"write", "lingering"} <=> holder = c
    BY <1>1 DEF ProcessInv
  <2>2. pc'[c] # "new" => \A o \in Processes : o < c => pc'[o] \in Gone \cup {"lingering"}
    BY <1>1 DEF ProcessInv
  <2>3. pc'[c] = "close" => \A o \in Processes : o # c => pc'[o] \in Gone \cup {"new"}
    BY <1>1, <1>4 DEF Gone
  <2>4. /\ pc'[c] = "done" => ~Following[c]
        /\ pc'[c] \in Appending => item[c] \in Items
        /\ pc'[c] \notin Appending => item[c] = None
    BY <1>1 DEF ProcessInv, Appending
  <2> QED
    BY <2>1, <2>2, <2>3, <2>4
<1>6. HistoryInv'
  <2>1. Once(history, lingered') /\ appended \subseteq ReadableIn(history)
    BY <1>1 DEF HistoryInv, Once
  <2>2. ASSUME NEW c \in Processes
        PROVE  /\ seen[c] \subseteq ReadableIn(history)
               /\ pc'[c] \in Watching \cup {"write"} =>
                    ReadableIn(history) \subseteq seen[c] \cup lingered'
               /\ pc'[c] \in {"write", "lingering"} => separator[c] = RepairOf(history)
               /\ pc'[c] = "write" => item[c].rec \notin seen[c]
               /\ pc'[c] = "lingering" => item[c].rec \in lingered'
    BY <1>1, <1>4 DEF HistoryInv, Gone, Watching
  <2> QED
    BY <2>1, <2>2, <1>1 DEF HistoryInv
<1>7. CloseInv'
  BY <1>1, <1>4 DEF CloseInv, Gone
<1> QED
  BY <1>1, <1>3, <1>5, <1>6, <1>7
-----------------------------------------------------------------------------
(* The inductive invariant: the part about the logger's files and those    *)
(* who follow them.                                                        *)

Reader == [existed : BOOLEAN, fd : Inodes \cup {None}, position : Positions,
           identity : Inodes \cup {None}, backlog : Positions \cup {None}, tail : Seq(LCells),
           partial : Positions, reset : BOOLEAN, cache : Seq(LCells)]

FollowTypes ==
  /\ files \in [Inodes -> Seq(LCells)] /\ logged \in 0..MaxRecords
  /\ inodes \in 0..(MaxChanges + 1) /\ changes \in 0..MaxChanges
  /\ path = None \/ path \in 1..inodes
  /\ inodes <= changes + 1 /\ (path = None => inodes <= changes)
  /\ reader \in [Processes -> Reader]
  /\ old \in [Processes -> SUBSET (1..MaxRecords)]
  /\ target \in [Processes -> SUBSET (1..MaxRecords)]

(* Cells are in the order of their records, n of which have begun.         *)
Code(cell) == 2 * cell[1] + cell[2]
InOrder(cells, n) ==
  /\ \A k \in 1..Len(cells) : cells[k][1] <= n /\ k + 2 <= Code(cells[k])
  /\ \A k, l \in 1..Len(cells) : k < l => Code(cells[k]) < Code(cells[l])
FilesInv == \A i \in Inodes : InOrder(files[i], logged)

ReaderInv(b) ==
  LET r == reader[b] IN
  /\ r.position + Len(r.cache) <= 2 * MaxRecords /\ Len(r.tail) <= r.position
  /\ r.fd = None => /\ r.identity = None /\ r.backlog = None /\ old[b] = {} /\ target[b] = {}
                    /\ r.position = 0 /\ r.cache = <<>>
  /\ r.fd # None => r.fd \in 1..inodes /\ r.identity = r.fd /\ r.backlog \in Positions
  /\ pc[b] \in {"check", "read", "done"} \cup Appending => r.fd # None
  /\ pc[b] \in {"new", "begin", "dead"} => r.fd = None
  /\ pc[b] = "open" /\ ~Following[b] => r.fd = None

(* No first cell beyond the backlog is of a record in known; the cells     *)
(* follow position in their file.                                          *)
NewBeyond(cells, position, backlog, known) ==
  \A k \in 1..Len(cells) :
    cells[k][2] = 1 /\ position + k > backlog => cells[k][1] \notin known
FreshInv(b) ==
  LET r == reader[b] IN
  /\ old[b] \subseteq 1..logged
  /\ r.fd # None => /\ NewBeyond(files[r.fd], 0, r.backlog, old[b])
                    /\ NewBeyond(r.cache, r.position, r.backlog, old[b])
  /\ item[b] # None => (item[b].live => item[b].rec \notin old[b])

(* The lines of wanted are whole, if they are there; those before position *)
(* have been dealt with.                                                   *)
Whole(cells, wanted) ==
  \A j \in 1..Len(cells) : \A x \in wanted : cells[j] = <<x, 1>> =>
    j < Len(cells) /\ cells[j + 1] = <<x, 2>> /\ (j = 1 \/ cells[j - 1][2] = 2)
CaughtUp(r, cells, wanted, handled) ==
  /\ r.position + Len(r.cache) <= Len(cells)
  /\ \A k \in 1..Len(r.cache) : r.cache[k] = cells[r.position + k]
  /\ \A x \in wanted : \A j \in 1..r.position : cells[j] = <<x, 1>> => x \in handled
Handled(b) == ReadableIn(history) \cup (IF pc[b] \in Appending THEN {item[b].rec} ELSE {})
TargetInv(b) ==
  LET r == reader[b] IN
  /\ target[b] \subseteq 1..logged
  /\ r.fd # None => Whole(files[r.fd], target[b])
  /\ r.fd # None /\ ~Following[b] /\ target[b] \cap Complete(files[r.fd]) # {} =>
       CaughtUp(r, files[r.fd], target[b], Handled(b))
  /\ pc[b] = "done" => target[b] \cap Complete(files[r.fd]) \subseteq ReadableIn(history)

FollowInv ==
  /\ FollowTypes /\ FilesInv
  /\ \A b \in Processes : ReaderInv(b) /\ FreshInv(b) /\ TargetInv(b)
-----------------------------------------------------------------------------
(* Files of the logger.                                                    *)

LEMMA CellTypes ==
  ASSUME NEW cells \in Seq(LCells)
  PROVE  /\ Len(cells) \in Nat
         /\ \A k \in 1..Len(cells) :
              /\ cells[k] \in LCells /\ cells[k][1] \in 1..MaxRecords /\ cells[k][2] \in {1, 2}
              /\ cells[k] = <<cells[k][1], cells[k][2]>> /\ Code(cells[k]) \in Nat
<1>1. Len(cells) \in Nat /\ \A k \in 1..Len(cells) : cells[k] \in LCells
  OBVIOUS
<1>2. \A c \in LCells : /\ c[1] \in 1..MaxRecords /\ c[2] \in {1, 2} /\ c = <<c[1], c[2]>>
                        /\ Code(c) \in Nat
  BY ExportAssumption DEF LCells, Code
<1> QED
  BY <1>1, <1>2

LEMMA FileBound ==
  ASSUME NEW cells \in Seq(LCells), NEW n \in 0..MaxRecords, InOrder(cells, n)
  PROVE  Len(cells) <= 2 * n /\ Len(cells) \in Positions
<1>1. Len(cells) \in Nat
  OBVIOUS
<1>2. CASE Len(cells) = 0
  BY <1>2, ExportAssumption DEF Positions
<1>3. CASE Len(cells) > 0
  <2>1. Len(cells) \in 1..Len(cells)
    BY <1>1, <1>3
  <2>2. /\ cells[Len(cells)][1] \in 1..MaxRecords /\ cells[Len(cells)][2] \in {1, 2}
        /\ cells[Len(cells)][1] <= n /\ Len(cells) + 2 <= Code(cells[Len(cells)])
    BY <2>1, CellTypes DEF InOrder
  <2> QED
    BY <2>2, <1>1, ExportAssumption DEF Code, Positions
<1> QED
  BY <1>1, <1>2, <1>3

(* Cells in order are of different records, or different halves of one.    *)
LEMMA OrderedCells ==
  ASSUME NEW cells \in Seq(LCells), NEW n \in 0..MaxRecords, InOrder(cells, n),
         NEW j \in 1..Len(cells), NEW k \in 1..Len(cells), cells[j] = cells[k]
  PROVE  j = k
<1>1. Code(cells[j]) = Code(cells[k]) /\ Code(cells[j]) \in Nat
  BY CellTypes
<1>2. j \in Nat /\ k \in Nat
  OBVIOUS
<1>3. ~(j < k) /\ ~(k < j)
  BY <1>1 DEF InOrder
<1> QED
  BY <1>2, <1>3

LEMMA Longer ==
  ASSUME NEW cells \in Seq(LCells), NEW more \in Seq(LCells), NEW n \in Nat,
         \A k \in 1..Len(more) : more[k][2] = 1 => more[k][1] > n
  PROVE  LET new == cells \o more IN
         /\ new \in Seq(LCells) /\ Len(new) = Len(cells) + Len(more)
         /\ \A k \in 1..Len(cells) : new[k] = cells[k]
         /\ \A k \in 1..Len(new) : k > Len(cells) => new[k] = more[k - Len(cells)]
         /\ \A k \in 1..Len(new) : k > Len(cells) /\ new[k][2] = 1 => new[k][1] > n
<1> DEFINE new == cells \o more
<1>1. /\ new \in Seq(LCells) /\ Len(new) = Len(cells) + Len(more)
      /\ \A k \in 1..(Len(cells) + Len(more)) : new[k] =
           IF k <= Len(cells) THEN cells[k] ELSE more[k - Len(cells)]
  BY ConcatProperties
<1>2. Len(cells) \in Nat /\ Len(more) \in Nat
  OBVIOUS
<1> HIDE DEF new
<1>3. \A k \in 1..Len(cells) : new[k] = cells[k]
  BY <1>1, <1>2
<1>4. \A k \in 1..Len(new) : k > Len(cells) =>
        new[k] = more[k - Len(cells)] /\ k - Len(cells) \in 1..Len(more)
  BY <1>1, <1>2
<1>5. \A k \in 1..Len(new) : k > Len(cells) /\ new[k][2] = 1 => new[k][1] > n
  BY <1>4
<1> QED
  BY <1>1, <1>3, <1>4, <1>5 DEF new

LEMMA LongerFresh ==
  ASSUME NEW cells \in Seq(LCells), NEW more \in Seq(LCells), NEW n \in Nat,
         \A k \in 1..Len(more) : more[k][2] = 1 => more[k][1] > n,
         NEW position, NEW backlog, NEW known \in SUBSET (1..n),
         NewBeyond(cells, position, backlog, known)
  PROVE  NewBeyond(cells \o more, position, backlog, known)
<1> DEFINE new == cells \o more
<1>1. /\ \A k \in 1..Len(cells) : new[k] = cells[k]
      /\ \A k \in 1..Len(new) : k > Len(cells) /\ new[k][2] = 1 => new[k][1] > n
      /\ Len(new) \in Nat /\ Len(cells) \in Nat
  BY Longer
<1> HIDE DEF new
<1> SUFFICES ASSUME NEW k \in 1..Len(new), new[k][2] = 1, position + k > backlog
             PROVE  new[k][1] \notin known
  BY DEF NewBeyond, new
<1>2. CASE k <= Len(cells)
  BY <1>1, <1>2 DEF NewBeyond
<1>3. CASE k > Len(cells)
  <2>1. new[k][1] > n
    BY <1>1, <1>3
  <2>2. SUFFICES ASSUME new[k][1] \in known PROVE FALSE
    OBVIOUS
  <2>3. new[k][1] \in 1..n
    BY <2>2
  <2> QED
    BY <2>1, <2>3
<1> QED
  BY <1>1, <1>2, <1>3

LEMMA LongerWhole ==
  ASSUME NEW cells \in Seq(LCells), NEW more \in Seq(LCells), NEW n \in Nat,
         \A k \in 1..Len(more) : more[k][2] = 1 => more[k][1] > n,
         NEW wanted \in SUBSET (1..n), Whole(cells, wanted)
  PROVE  /\ Whole(cells \o more, wanted)
         /\ wanted \cap Complete(cells \o more) \subseteq wanted \cap Complete(cells)
<1> DEFINE new == cells \o more
<1>1. /\ \A k \in 1..Len(cells) : new[k] = cells[k]
      /\ \A k \in 1..Len(new) : k > Len(cells) /\ new[k][2] = 1 => new[k][1] > n
      /\ Len(new) \in Nat /\ Len(cells) \in Nat /\ Len(new) >= Len(cells)
      /\ new \in Seq(LCells)
  BY Longer
<1> HIDE DEF new
<1>2. ASSUME NEW j \in 1..Len(new), NEW x \in wanted, new[j] = <<x, 1>>
      PROVE  /\ j < Len(cells) /\ cells[j] = <<x, 1>> /\ cells[j + 1] = <<x, 2>>
             /\ new[j + 1] = <<x, 2>>
             /\ j = 1 \/ (cells[j - 1][2] = 2 /\ new[j - 1] = cells[j - 1])
  <2>1. new[j][2] = 1 /\ new[j][1] = x
    BY <1>2
  <2>5. x \in Nat /\ x <= n
    BY InRange
  <2>2. j \in 1..Len(cells)
    BY <1>1, <2>1, <2>5
  <2>3. j < Len(cells) /\ cells[j + 1] = <<x, 2>> /\ (j = 1 \/ cells[j - 1][2] = 2)
    BY <1>1, <1>2, <2>2 DEF Whole
  <2>4. j + 1 \in 1..Len(cells) /\ (j = 1 \/ j - 1 \in 1..Len(cells))
    BY <2>2, <2>3, <1>1
  <2> QED
    BY <1>1, <1>2, <2>2, <2>3, <2>4
<1>3. Whole(new, wanted)
  BY <1>1, <1>2 DEF Whole
<1>4. ASSUME NEW x \in wanted \cap Complete(new) PROVE x \in Complete(cells)
  <2>1. PICK j \in 1..(Len(new) - 1) : new[j][2] = 1 /\ new[j][1] = x
    BY DEF Complete
  <2>2. j \in 1..Len(new) /\ new[j] = <<x, 1>>
    BY <2>1, <1>1, CellTypes
  <2>3. /\ j \in 1..(Len(cells) - 1) /\ cells[j] = <<x, 1>> /\ cells[j + 1] = <<x, 2>>
        /\ j = 1 \/ cells[j - 1][2] = 2
    BY <2>2, <1>1, <1>2
  <2>4. cells[j][1] = x /\ cells[j][2] = 1
    BY <2>3
  <2> QED
    BY <2>3, <2>4 DEF Complete
<1> QED
  BY <1>3, <1>4 DEF new

LEMMA LongerCaughtUp ==
  ASSUME NEW cells \in Seq(LCells), NEW more \in Seq(LCells), NEW n \in Nat,
         \A k \in 1..Len(more) : more[k][2] = 1 => more[k][1] > n,
         NEW r \in Reader, NEW wanted, NEW handled, CaughtUp(r, cells, wanted, handled)
  PROVE  CaughtUp(r, cells \o more, wanted, handled)
<1> DEFINE new == cells \o more
<1>1. /\ \A k \in 1..Len(cells) : new[k] = cells[k]
      /\ Len(new) \in Nat /\ Len(cells) \in Nat /\ Len(new) >= Len(cells)
  BY Longer
<1>2. r.position \in Nat /\ Len(r.cache) \in Nat
  BY DEF Reader, Positions
<1> HIDE DEF new
<1>3. \A j \in 1..r.position : j \in 1..Len(cells)
  BY <1>1, <1>2 DEF CaughtUp
<1>4. \A k \in 1..Len(r.cache) : r.position + k \in 1..Len(cells)
  BY <1>1, <1>2 DEF CaughtUp
<1>5. CaughtUp(r, new, wanted, handled)
  <2>1. r.position + Len(r.cache) <= Len(new)
    BY <1>1, <1>2 DEF CaughtUp
  <2>2. \A k \in 1..Len(r.cache) : r.cache[k] = new[r.position + k]
    BY <1>1, <1>4 DEF CaughtUp
  <2>3. \A x \in wanted : \A j \in 1..r.position : new[j] = <<x, 1>> => x \in handled
    BY <1>1, <1>3 DEF CaughtUp
  <2> QED
    BY <2>1, <2>2, <2>3 DEF CaughtUp
<1> QED
  BY <1>5 DEF new

LEMMA OneMore ==
  ASSUME NEW cells \in Seq(LCells), NEW n \in Nat, InOrder(cells, n),
         NEW m \in Nat, n <= m, NEW c \in LCells, c[1] <= m, Len(cells) + 3 <= Code(c),
         \A k \in 1..Len(cells) : Code(cells[k]) < Code(c)
  PROVE  cells \o <<c>> \in Seq(LCells) /\ InOrder(cells \o <<c>>, m)
<1> DEFINE new == cells \o <<c>>
<1>1. <<c>> \in Seq(LCells) /\ Len(<<c>>) = 1 /\ <<c>>[1] = c /\ Len(cells) \in Nat
  OBVIOUS
<1>2. /\ new \in Seq(LCells) /\ Len(new) = Len(cells) + 1
      /\ \A k \in 1..(Len(cells) + 1) : new[k] =
           IF k <= Len(cells) THEN cells[k] ELSE <<c>>[k - Len(cells)]
  BY <1>1, ConcatProperties
<1> HIDE DEF new
<1>3. /\ \A k \in 1..Len(cells) : new[k] = cells[k]
      /\ new[Len(cells) + 1] = c
      /\ \A k \in 1..Len(new) : k \in 1..Len(cells) \/ k = Len(cells) + 1
  <2>1. Len(cells) + 1 \in 1..(Len(cells) + 1) /\ (Len(cells) + 1) - Len(cells) = 1
    BY <1>1
  <2> QED
    BY <1>1, <1>2, <2>1
<1>4. ASSUME NEW k \in 1..Len(new) PROVE new[k][1] <= m /\ k + 2 <= Code(new[k])
  <2>1. CASE k \in 1..Len(cells)
    <3>1. new[k] = cells[k] /\ cells[k][1] <= n /\ k + 2 <= Code(cells[k])
      BY <2>1, <1>3 DEF InOrder
    <3>2. cells[k][1] \in Nat
      BY <2>1, CellTypes
    <3> QED
      BY <3>1, <3>2
  <2>2. CASE k = Len(cells) + 1
    BY <2>2, <1>1, <1>3
  <2> QED
    BY <2>1, <2>2, <1>3
<1>5. ASSUME NEW k \in 1..Len(new), NEW l \in 1..Len(new), k < l
      PROVE  Code(new[k]) < Code(new[l])
  <2>1. k \in 1..Len(cells)
    BY <1>1, <1>3, <1>5
  <2>2. CASE l \in 1..Len(cells)
    BY <2>1, <2>2, <1>3, <1>5 DEF InOrder
  <2>3. CASE l = Len(cells) + 1
    BY <2>1, <2>3, <1>3
  <2> QED
    BY <2>2, <2>3, <1>3
<1> QED
  BY <1>2, <1>4, <1>5 DEF InOrder, new

(* The cells of a record that is begun follow what is there.               *)
LEMMA BeginRecord ==
  ASSUME NEW cells \in Seq(LCells), NEW n \in Nat, n < MaxRecords, InOrder(cells, n)
  PROVE  /\ cells \o <<<<n + 1, 1>>>> \in Seq(LCells)
         /\ InOrder(cells \o <<<<n + 1, 1>>>>, n + 1)
         /\ cells \o <<<<n + 1, 1>>, <<n + 1, 2>>>> \in Seq(LCells)
         /\ InOrder(cells \o <<<<n + 1, 1>>, <<n + 1, 2>>>>, n + 1)
<1> DEFINE a == <<n + 1, 1>>  b == <<n + 1, 2>>  first == cells \o <<a>>
<1>1. /\ a \in LCells /\ b \in LCells /\ a[1] = n + 1 /\ b[1] = n + 1
      /\ Code(a) = 2 * n + 3 /\ Code(b) = 2 * n + 4
  BY ExportAssumption DEF LCells, Code
<1>2. n \in 0..MaxRecords /\ Len(cells) \in Nat /\ Len(cells) <= 2 * n
  BY FileBound, ExportAssumption
<1> HIDE DEF a, b
<1>3. \A k \in 1..Len(cells) : Code(cells[k]) <= 2 * n + 2 /\ Code(cells[k]) \in Nat
  <2> SUFFICES ASSUME NEW k \in 1..Len(cells)
               PROVE Code(cells[k]) <= 2 * n + 2 /\ Code(cells[k]) \in Nat
    OBVIOUS
  <2>1. cells[k][1] <= n /\ cells[k][1] \in 1..MaxRecords /\ cells[k][2] \in {1, 2}
    BY CellTypes DEF InOrder
  <2> QED
    BY <2>1 DEF Code
<1>4. first \in Seq(LCells) /\ InOrder(first, n + 1)
  <2>1. \A k \in 1..Len(cells) : Code(cells[k]) < Code(a)
    BY <1>1, <1>3
  <2>2. n + 1 \in Nat /\ n <= n + 1 /\ a[1] <= n + 1 /\ Len(cells) + 3 <= Code(a)
    BY <1>1, <1>2
  <2> QED
    BY <2>1, <2>2, <1>1, OneMore
<1>5. /\ Len(first) = Len(cells) + 1
      /\ \A k \in 1..Len(first) : Code(first[k]) < Code(b)
  <2>1. <<a>> \in Seq(LCells) /\ Len(<<a>>) = 1 /\ <<a>>[1] = a
    BY <1>1
  <2>2. /\ Len(first) = Len(cells) + 1
        /\ \A k \in 1..(Len(cells) + 1) : first[k] =
             IF k <= Len(cells) THEN cells[k] ELSE <<a>>[k - Len(cells)]
    BY <2>1, ConcatProperties
  <2> HIDE DEF first
  <2>3. ASSUME NEW k \in 1..Len(first) PROVE Code(first[k]) < Code(b)
    <3>1. CASE k <= Len(cells)
      <4>1. first[k] = cells[k] /\ k \in 1..Len(cells)
        BY <2>2, <3>1, <1>2
      <4> QED
        BY <4>1, <1>1, <1>3
    <3>2. CASE k > Len(cells)
      <4>1. k - Len(cells) = 1 /\ k \in 1..(Len(cells) + 1) /\ ~(k <= Len(cells))
        BY <2>2, <3>2, <1>2
      <4>2. first[k] = a
        BY <4>1, <2>1, <2>2
      <4> QED
        BY <4>2, <1>1
    <3> QED
      BY <3>1, <3>2, <1>2
  <2> QED
    BY <2>2, <2>3
<1> HIDE DEF first
<1>6. first \o <<b>> \in Seq(LCells) /\ InOrder(first \o <<b>>, n + 1)
  <2>1. n + 1 \in Nat /\ n + 1 <= n + 1 /\ b[1] <= n + 1 /\ Len(first) + 3 <= Code(b)
    BY <1>1, <1>2, <1>5
  <2> QED
    BY <2>1, <1>1, <1>4, <1>5, OneMore
<1>7. first \o <<b>> = cells \o <<a, b>>
  <2>1. <<a>> \in Seq(LCells) /\ <<b>> \in Seq(LCells)
    BY <1>1
  <2>2. <<a>> \o <<b>> = <<a, b>>
    <3>1. /\ <<a>> \o <<b>> \in Seq(LCells) /\ Len(<<a>> \o <<b>>) = 2
          /\ (<<a>> \o <<b>>)[1] = a /\ (<<a>> \o <<b>>)[2] = b
      BY <2>1, ConcatProperties
    <3>2. /\ <<a, b>> \in Seq(LCells) /\ Len(<<a, b>>) = 2 /\ <<a, b>>[1] = a /\ <<a, b>>[2] = b
      BY <1>1
    <3>3. \A i \in 1..2 : (<<a>> \o <<b>>)[i] = <<a, b>>[i]
      <4>1. \A i \in 1..2 : i = 1 \/ i = 2
        OBVIOUS
      <4> QED
        BY <4>1, <3>1, <3>2
    <3> QED
      BY <3>1, <3>2, <3>3, SeqEqual
  <2>3. (cells \o <<a>>) \o <<b>> = cells \o (<<a>> \o <<b>>)
    BY <2>1, ConcatAssociative
  <2> QED
    BY <2>2, <2>3, Zenon DEF first
<1> QED
  BY <1>4, <1>6, <1>7 DEF first, a, b

LEMMA EndRecord ==
  ASSUME NEW cells \in Seq(LCells), NEW n \in Nat, InOrder(cells, n),
         cells # <<>>, Last(cells)[2] = 1
  PROVE  /\ cells \o <<<<Last(cells)[1], 2>>>> \in Seq(LCells)
         /\ InOrder(cells \o <<<<Last(cells)[1], 2>>>>, n)
<1> DEFINE size == Len(cells)  x == cells[size][1]  c == <<x, 2>>
<1>1. size \in Nat /\ size \in 1..size
  OBVIOUS
<1>2. /\ x \in 1..MaxRecords /\ x <= n /\ Code(cells[size]) = 2 * x + 1
      /\ size + 2 <= 2 * x + 1
  BY <1>1, CellTypes DEF InOrder, Last, Code
<1>3. c \in LCells /\ c[1] = x /\ Code(c) = 2 * x + 2
  BY <1>2 DEF LCells, Code
<1>4. \A k \in 1..size : Code(cells[k]) < Code(c)
  <2> SUFFICES ASSUME NEW k \in 1..size PROVE Code(cells[k]) < Code(c)
    OBVIOUS
  <2>1. CASE k = size
    BY <2>1, <1>2, <1>3
  <2>2. CASE k # size
    <3>1. k < size
      BY <2>2, <1>1
    <3>2. Code(cells[k]) < Code(cells[size]) /\ Code(cells[k]) \in Nat
      BY <3>1, <1>1, CellTypes DEF InOrder
    <3> QED
      BY <3>2, <1>2, <1>3
  <2> QED
    BY <2>1, <2>2
<1> HIDE DEF size, x, c
<1>5. size + 3 <= Code(c) /\ c[1] <= n /\ n <= n
  BY <1>1, <1>2, <1>3
<1>6. cells \o <<c>> \in Seq(LCells) /\ InOrder(cells \o <<c>>, n)
  BY <1>3, <1>4, <1>5, OneMore DEF size
<1> QED
  BY <1>6 DEF c, x, size, Last

(* What a step of the logger, or of whoever rotates its file, does to it.  *)
Beyond(more, n) == \A k \in 1..Len(more) : more[k][2] = 1 => more[k][1] > n
Lengthened(new, cells, n) == \E more \in Seq(LCells) : new = cells \o more /\ Beyond(more, n)
LogAction == Create \/ Log \/ LogRest \/ Truncate \/ Replace

LEMMA LogFiles ==
  ASSUME FollowTypes, FilesInv, LogAction
  PROVE  /\ FollowTypes' /\ FilesInv'
         /\ logged <= logged' /\ inodes <= inodes'
         /\ \A i \in 1..inodes :
              files'[i] = files[i] \/ files'[i] = <<>> \/ Lengthened(files'[i], files[i], logged)
         /\ UNCHANGED <<history, holder, failures, pc, bridge, ghosts>>
<1>0. /\ inodes \in Nat /\ logged \in Nat /\ changes \in Nat /\ MaxChanges \in Nat
      /\ MaxRecords \in Nat /\ None \notin Nat
      /\ (path # None => path \in 1..inodes /\ path \in Inodes)
      /\ (\A i \in 1..inodes : i \in Inodes)
      /\ \A i \in Inodes : files[i] \in Seq(LCells) /\ InOrder(files[i], logged)
  BY ExportAssumption DEF FollowTypes, FilesInv, Inodes
<1>1. CASE Create
  <2>1. /\ files' = files /\ logged' = logged /\ changes' = changes
        /\ inodes' = inodes + 1 /\ path' = inodes + 1 /\ inodes <= changes
        /\ inodes < MaxChanges + 1
        /\ UNCHANGED <<history, holder, failures, pc, bridge, ghosts>>
    BY <1>1 DEF Create, FollowTypes
  <2>2. FollowTypes'
    BY <2>1, <1>0 DEF FollowTypes, bridge, ghosts
  <2> QED
    BY <2>1, <2>2, <1>0 DEF FilesInv
<1>2. CASE Log
  <2>1. PICK more \in {<<<<logged + 1, 1>>, <<logged + 1, 2>>>>, <<<<logged + 1, 1>>>>} :
          files' = [files EXCEPT ![path] = @ \o more]
    BY <1>2 DEF Log, Put
  <2>2. /\ path # None /\ logged < MaxRecords /\ logged' = logged + 1
        /\ UNCHANGED <<path, inodes, changes, history, holder, failures, pc, bridge, ghosts>>
    BY <1>2 DEF Log
  <2>3. /\ files[path] \o more \in Seq(LCells)
        /\ InOrder(files[path] \o more, logged + 1)
    BY <2>1, <2>2, <1>0, BeginRecord
  <2>4. /\ files' \in [Inodes -> Seq(LCells)]
        /\ \A i \in Inodes : files'[i] = IF i = path THEN files[path] \o more ELSE files[i]
    BY <2>1, <2>3, <1>0 DEF FollowTypes
  <2>5. \A i \in Inodes : InOrder(files[i], logged + 1)
    <3> SUFFICES ASSUME NEW i \in Inodes PROVE InOrder(files[i], logged + 1)
      OBVIOUS
    <3>2. files[i] \in Seq(LCells)
      BY <1>0
    <3>3. \A k \in 1..Len(files[i]) : files[i][k][1] \in 1..MaxRecords
      BY <3>2, CellTypes
    <3>1. \A k \in 1..Len(files[i]) : files[i][k][1] \in Nat
      BY <3>3
    <3> QED
      BY <3>1, <1>0 DEF InOrder
  <2>6. FollowTypes' /\ FilesInv'
    <3>1. logged' \in 0..MaxRecords
      BY <2>2, <1>0
    <3>2. FollowTypes'
      BY <2>2, <2>4, <3>1 DEF FollowTypes, bridge, ghosts
    <3> QED
      BY <2>2, <2>3, <2>4, <2>5, <3>2 DEF FilesInv
  <2>7. more \in Seq(LCells) /\ Beyond(more, logged)
    <3>1. <<logged + 1, 1>> \in LCells /\ <<logged + 1, 2>> \in LCells
      BY <2>2, <1>0 DEF LCells
    <3>2. CASE more = <<<<logged + 1, 1>>, <<logged + 1, 2>>>>
      <4>1. more \in Seq(LCells) /\ Len(more) = 2 /\ more[1][1] = logged + 1 /\ more[2][1] = logged + 1
        BY <3>1, <3>2
      <4>2. \A k \in 1..2 : k = 1 \/ k = 2
        OBVIOUS
      <4>3. logged + 1 > logged
        BY <1>0
      <4> QED
        BY <4>1, <4>2, <4>3 DEF Beyond
    <3>3. CASE more = <<<<logged + 1, 1>>>>
      <4>1. more \in Seq(LCells) /\ Len(more) = 1 /\ more[1][1] = logged + 1
        BY <3>1, <3>3
      <4>2. \A k \in 1..1 : k = 1
        OBVIOUS
      <4>3. logged + 1 > logged
        BY <1>0
      <4> QED
        BY <4>1, <4>2, <4>3 DEF Beyond
    <3> QED
      BY <3>2, <3>3
  <2>8. \A i \in 1..inodes : files'[i] = files[i] \/ Lengthened(files'[i], files[i], logged)
    BY <2>4, <2>7, <1>0 DEF Lengthened
  <2>9. logged <= logged' /\ inodes <= inodes'
    BY <2>2, <1>0
  <2> QED
    BY <2>2, <2>6, <2>8, <2>9
<1>3. CASE LogRest
  <2> DEFINE more == <<<<Last(files[path])[1], 2>>>>
  <2>1. /\ path # None /\ files[path] # <<>> /\ Last(files[path])[2] = 1
        /\ files' = [files EXCEPT ![path] = @ \o more]
        /\ UNCHANGED <<path, inodes, logged, changes, history, holder, failures, pc, bridge, ghosts>>
    BY <1>3 DEF LogRest, Put
  <2>2. files[path] \o more \in Seq(LCells) /\ InOrder(files[path] \o more, logged)
    BY <2>1, <1>0, EndRecord
  <2>3. more \in Seq(LCells) /\ Beyond(more, logged)
    <3>1. Len(files[path]) \in 1..Len(files[path])
      BY <2>1, <1>0
    <3>2. Last(files[path])[1] \in 1..MaxRecords
      <4>1. files[path] \in Seq(LCells)
        BY <2>1, <1>0
      <4>2. \A k \in 1..Len(files[path]) : files[path][k][1] \in 1..MaxRecords
        BY <4>1, CellTypes
      <4> QED
        BY <3>1, <4>2 DEF Last
    <3>3. <<Last(files[path])[1], 2>> \in LCells
      BY <3>2 DEF LCells
    <3>4. more \in Seq(LCells) /\ Len(more) = 1 /\ more[1][2] = 2
      BY <3>3
    <3>5. \A k \in 1..1 : k = 1
      OBVIOUS
    <3> QED
      BY <3>4, <3>5 DEF Beyond
  <2> HIDE DEF more
  <2>4. /\ files' \in [Inodes -> Seq(LCells)]
        /\ \A i \in Inodes : files'[i] = IF i = path THEN files[path] \o more ELSE files[i]
    BY <2>1, <2>2, <1>0 DEF FollowTypes
  <2>5. FollowTypes' /\ FilesInv'
    BY <2>1, <2>2, <2>4, <1>0 DEF FollowTypes, FilesInv, bridge, ghosts
  <2>6. \A i \in 1..inodes : files'[i] = files[i] \/ Lengthened(files'[i], files[i], logged)
    BY <2>3, <2>4, <1>0 DEF Lengthened
  <2> QED
    BY <2>1, <2>5, <2>6, <1>0
<1>10. <<>> \in Seq(LCells) /\ InOrder(<<>>, logged)
  BY DEF InOrder
<1>4. CASE Truncate
  <2>1. /\ path # None /\ changes' = changes + 1 /\ changes < MaxChanges
        /\ files' = [files EXCEPT ![path] = <<>>]
        /\ UNCHANGED <<path, inodes, logged, history, holder, failures, pc, bridge, ghosts>>
    BY <1>4 DEF Truncate
  <2>2. /\ files' \in [Inodes -> Seq(LCells)]
        /\ \A i \in Inodes : files'[i] = IF i = path THEN <<>> ELSE files[i]
    BY <2>1, <1>0, <1>10 DEF FollowTypes
  <2>3. FollowTypes'
    BY <2>1, <2>2, <1>0 DEF FollowTypes, bridge, ghosts
  <2> QED
    BY <2>1, <2>2, <2>3, <1>0, <1>10 DEF FilesInv
<1>5. CASE Replace
  <2>1. /\ path # None /\ changes' = changes + 1 /\ changes < MaxChanges
        /\ UNCHANGED <<logged, history, holder, failures, pc, bridge, ghosts>>
    BY <1>5 DEF Replace
  <2>2. CASE path' = None /\ UNCHANGED <<files, inodes>>
    <3>1. FollowTypes'
      BY <2>1, <2>2, <1>0 DEF FollowTypes, bridge, ghosts
    <3> QED
      BY <2>1, <2>2, <3>1, <1>0 DEF FilesInv
  <2>3. CASE /\ inodes' = inodes + 1 /\ path' = inodes + 1
             /\ files' = [files EXCEPT ![inodes + 1] = files[path]]
    <3>1. inodes <= changes + 1
      BY DEF FollowTypes
    <3>2. inodes + 1 \in Inodes
      BY <2>1, <3>1, <1>0 DEF Inodes
    <3>3. /\ files' \in [Inodes -> Seq(LCells)]
          /\ \A i \in Inodes : files'[i] = IF i = inodes + 1 THEN files[path] ELSE files[i]
      BY <2>1, <2>3, <3>2, <1>0 DEF FollowTypes
    <3>4. FollowTypes'
      <4>1. /\ inodes' \in 0..(MaxChanges + 1) /\ changes' \in 0..MaxChanges
            /\ path' \in 1..inodes' /\ path' # None
            /\ inodes' <= changes' + 1
        BY <2>1, <2>3, <3>1, <3>2, <1>0 DEF Inodes
      <4> QED
        BY <4>1, <2>1, <3>3 DEF FollowTypes, bridge, ghosts
    <3>5. FilesInv'
      BY <2>1, <3>3, <1>0 DEF FilesInv
    <3>6. \A i \in 1..inodes : files'[i] = files[i]
      BY <3>3, <1>0
    <3>7. inodes <= inodes' /\ logged <= logged'
      BY <2>1, <2>3, <1>0
    <3> QED
      BY <2>1, <3>4, <3>5, <3>6, <3>7
  <2> QED
    BY <2>2, <2>3, <1>5 DEF Replace
<1> QED
  BY <1>1, <1>2, <1>3, <1>4, <1>5 DEF LogAction

LEMMA LogStep ==
  ASSUME FollowInv, LogAction
  PROVE  FollowInv'
<1>1. /\ FollowTypes /\ FilesInv
      /\ \A b \in Processes : ReaderInv(b) /\ FreshInv(b) /\ TargetInv(b)
  BY DEF FollowInv
<1>2. /\ FollowTypes' /\ FilesInv'
      /\ logged <= logged' /\ inodes <= inodes'
      /\ \A i \in 1..inodes :
           files'[i] = files[i] \/ files'[i] = <<>> \/ Lengthened(files'[i], files[i], logged)
      /\ history' = history /\ pc' = pc /\ reader' = reader /\ item' = item
      /\ old' = old /\ target' = target
  BY <1>1, LogFiles DEF bridge, ghosts
<1>3. SUFFICES ASSUME NEW b \in Processes PROVE (ReaderInv(b) /\ FreshInv(b) /\ TargetInv(b))'
  BY <1>2 DEF FollowInv
<1> DEFINE r == reader[b]  cells == files[r.fd]  new == files'[r.fd]
<1>4. /\ r \in Reader /\ old[b] \subseteq 1..logged /\ target[b] \subseteq 1..logged
      /\ logged \in Nat /\ inodes \in Nat /\ logged' \in Nat /\ inodes' \in Nat
  BY <1>1, <1>2 DEF FollowTypes, FreshInv, TargetInv
<1>5. old[b] \subseteq 1..logged' /\ target[b] \subseteq 1..logged'
  BY <1>2, <1>4
<1>6. ReaderInv(b)'
  <2>1. \A i \in 1..inodes : i \in 1..inodes'
    BY <1>2, <1>4
  <2> QED
    BY <2>1, <1>1, <1>2 DEF ReaderInv
<1>7. Handled(b)' = Handled(b)
  BY <1>2 DEF Handled
<1>8. CASE r.fd = None
  <2>1. FreshInv(b)'
    BY <1>1, <1>2, <1>5, <1>8 DEF FreshInv
  <2>2. pc[b] # "done"
    BY <1>1, <1>8 DEF ReaderInv
  <2>3. TargetInv(b)'
    BY <2>2, <1>2, <1>5, <1>8 DEF TargetInv
  <2> QED
    BY <2>1, <2>3, <1>6
<1>9. CASE r.fd # None
  <2>1. /\ r.fd \in 1..inodes
        /\ NewBeyond(cells, 0, r.backlog, old[b]) /\ NewBeyond(r.cache, r.position, r.backlog, old[b])
        /\ Whole(cells, target[b])
        /\ ~Following[b] /\ target[b] \cap Complete(cells) # {} =>
             CaughtUp(r, cells, target[b], Handled(b))
        /\ pc[b] = "done" => target[b] \cap Complete(cells) \subseteq ReadableIn(history)
    BY <1>1, <1>9 DEF ReaderInv, FreshInv, TargetInv
  <2>2. cells \in Seq(LCells)
    <3>1. r.fd \in Inodes
      BY <2>1, <1>1, ExportAssumption DEF FollowTypes, Inodes
    <3> QED
      BY <3>1, <1>1 DEF FollowTypes
  <2>3. /\ NewBeyond(new, 0, r.backlog, old[b]) /\ Whole(new, target[b])
        /\ target[b] \cap Complete(new) \subseteq target[b] \cap Complete(cells)
        /\ ~Following[b] /\ target[b] \cap Complete(new) # {} =>
             CaughtUp(r, new, target[b], Handled(b))
    <3>1. CASE new = cells
      BY <2>1, <3>1
    <3>2. CASE new = <<>>
      <4>1. Complete(<<>>) = {}
        BY DEF Complete
      <4>2. NewBeyond(<<>>, 0, r.backlog, old[b]) /\ Whole(<<>>, target[b])
        BY DEF NewBeyond, Whole
      <4> QED
        BY <4>1, <4>2, <3>2
    <3>3. CASE Lengthened(new, cells, logged)
      <4>1. PICK more \in Seq(LCells) : new = cells \o more /\ Beyond(more, logged)
        BY <3>3 DEF Lengthened
      <4>2. \A k \in 1..Len(more) : more[k][2] = 1 => more[k][1] > logged
        BY <4>1 DEF Beyond
      <4> HIDE DEF new, cells, r
      <4>3. NewBeyond(cells \o more, 0, r.backlog, old[b])
        BY <4>2, <2>1, <2>2, <1>4, LongerFresh
      <4>4. /\ Whole(cells \o more, target[b])
            /\ target[b] \cap Complete(cells \o more) \subseteq target[b] \cap Complete(cells)
        BY <4>2, <2>1, <2>2, <1>4, LongerWhole
      <4>5. ASSUME ~Following[b], target[b] \cap Complete(cells \o more) # {}
            PROVE  CaughtUp(r, cells \o more, target[b], Handled(b))
        <5>1. CaughtUp(r, cells, target[b], Handled(b))
          BY <4>4, <4>5, <2>1
        <5> QED
          BY <5>1, <4>2, <2>2, <1>4, LongerCaughtUp
      <4> QED
        BY <4>1, <4>3, <4>4, <4>5
    <3> QED
      BY <3>1, <3>2, <3>3, <2>1, <1>2
  <2>4. FreshInv(b)'
    BY <2>1, <2>3, <1>1, <1>2, <1>5 DEF FreshInv
  <2>5. TargetInv(b)'
    <3>1. pc[b] = "done" => target[b] \cap Complete(new) \subseteq ReadableIn(history)
      BY <2>1, <2>3
    <3> QED
      BY <3>1, <2>3, <1>2, <1>5, <1>7 DEF TargetInv
  <2> QED
    BY <2>4, <2>5, <1>6
<1> QED
  BY <1>8, <1>9
-----------------------------------------------------------------------------
(* Steps of the bridges: what they follow.                                 *)

LEMMA OtherBridge ==
  ASSUME FollowInv, NEW c \in Processes,
         UNCHANGED <<files, inodes, logged>>,
         reader'[c] = reader[c], old'[c] = old[c], target'[c] = target[c],
         pc'[c] = pc[c], item'[c] = item[c],
         ReadableIn(history) \subseteq ReadableIn(history')
  PROVE  (ReaderInv(c) /\ FreshInv(c) /\ TargetInv(c))'
<1>1. ReaderInv(c) /\ FreshInv(c) /\ TargetInv(c)
  BY DEF FollowInv
<1>2. ReaderInv(c)'
  BY <1>1 DEF ReaderInv
<1>3. FreshInv(c)'
  BY <1>1 DEF FreshInv
<1>4. TargetInv(c)'
  <2>1. Handled(c) \subseteq Handled(c)'
    BY DEF Handled
  <2>2. CaughtUp(reader[c], files[reader[c].fd], target[c], Handled(c))
          => CaughtUp(reader[c], files[reader[c].fd], target[c], Handled(c)')
    BY <2>1 DEF CaughtUp
  <2> QED
    BY <1>1, <2>2 DEF TargetInv
<1> QED
  BY <1>2, <1>3, <1>4

(* Steps that leave a reader where it is.                                  *)
LEMMA StayStep ==
  ASSUME FollowInv, NEW b \in Processes, NEW new \in Reader,
         UNCHANGED <<files, path, inodes, logged, changes, old, target>>,
         reader' = [reader EXCEPT ![b] = new],
         new.fd = reader[b].fd, new.identity = reader[b].identity,
         new.position = reader[b].position, new.backlog = reader[b].backlog,
         new.tail = reader[b].tail, new.cache = reader[b].cache,
         \A o \in Processes : o # b => pc'[o] = pc[o] /\ item'[o] = item[o],
         item'[b] \in {item[b], None},
         ReadableIn(history) \subseteq ReadableIn(history'), Handled(b) \subseteq Handled(b)',
         pc'[b] \in {"check", "read", "done"} \cup Appending => reader[b].fd # None,
         pc'[b] \in {"new", "begin", "dead"} => reader[b].fd = None,
         pc'[b] = "open" /\ ~Following[b] => reader[b].fd = None,
         pc'[b] = "done" =>
           target[b] \cap Complete(files[reader[b].fd]) \subseteq ReadableIn(history')
  PROVE  FollowInv'
<1>1. /\ FollowTypes /\ FilesInv
      /\ ReaderInv(b) /\ FreshInv(b) /\ TargetInv(b)
  BY DEF FollowInv
<1>2. FollowTypes' /\ FilesInv'
  BY <1>1 DEF FollowTypes, FilesInv
<1>3. reader'[b] = new /\ \A o \in Processes : o # b => reader'[o] = reader[o]
  BY <1>1 DEF FollowTypes
<1>4. \A c \in Processes : c # b => (ReaderInv(c) /\ FreshInv(c) /\ TargetInv(c))'
  BY <1>3, OtherBridge
<1>5. ReaderInv(b)'
  BY <1>1, <1>3 DEF ReaderInv
<1>6. FreshInv(b)'
  BY <1>1, <1>3 DEF FreshInv
<1>7. TargetInv(b)'
  <2>1. CaughtUp(reader[b], files[reader[b].fd], target[b], Handled(b))
          => CaughtUp(new, files[reader[b].fd], target[b], Handled(b)')
    BY DEF CaughtUp
  <2> QED
    BY <1>1, <1>3, <2>1 DEF TargetInv
<1> QED
  BY <1>2, <1>4, <1>5, <1>6, <1>7 DEF FollowInv

LEMMA DieFollow ==
  ASSUME FollowInv, HistoryTypes, NEW b \in Processes, Die(b),
         UNCHANGED <<files, path, inodes, logged, changes>>,
         ReadableIn(history) \subseteq ReadableIn(history')
  PROVE  FollowInv'
<1>1. FollowTypes /\ FilesInv
  BY DEF FollowInv
<1>0. Fresh \in Reader /\ Fresh.fd = None /\ Fresh.identity = None /\ Fresh.backlog = None
      /\ Fresh.position = 0 /\ Fresh.cache = <<>> /\ Fresh.tail = <<>>
  BY ExportAssumption DEF Fresh, Reader, Positions
<1>2. FollowTypes' /\ FilesInv'
  <2>1. /\ reader' \in [Processes -> Reader] /\ old' \in [Processes -> SUBSET (1..MaxRecords)]
        /\ target' \in [Processes -> SUBSET (1..MaxRecords)]
    BY <1>0, <1>1 DEF FollowTypes, Die
  <2> QED
    BY <2>1, <1>1 DEF FollowTypes, FilesInv
<1>3. /\ reader'[b] = Fresh /\ old'[b] = {} /\ target'[b] = {} /\ pc'[b] = "dead" /\ item'[b] = None
      /\ \A o \in Processes : o # b =>
           /\ reader'[o] = reader[o] /\ old'[o] = old[o] /\ target'[o] = target[o]
           /\ pc'[o] = pc[o] /\ item'[o] = item[o]
  BY <1>1 DEF FollowTypes, HistoryTypes, Die, Goto
<1>4. \A c \in Processes : c # b => (ReaderInv(c) /\ FreshInv(c) /\ TargetInv(c))'
  BY <1>3, OtherBridge
<1>5. ReaderInv(b)'
  BY <1>0, <1>3, ExportAssumption DEF ReaderInv, Appending
<1>6. FreshInv(b)'
  BY <1>0, <1>3 DEF FreshInv
<1>7. TargetInv(b)'
  BY <1>0, <1>3 DEF TargetInv
<1> QED
  BY <1>2, <1>4, <1>5, <1>6, <1>7 DEF FollowInv

LEMMA CompleteLines ==
  ASSUME NEW cells \in Seq(LCells), NEW n \in 0..MaxRecords, InOrder(cells, n)
  PROVE  /\ Complete(cells) \subseteq 1..n /\ Complete(cells) \subseteq 1..MaxRecords
         /\ Whole(cells, Complete(cells))
<1>1. /\ Len(cells) \in Nat
      /\ \A k \in 1..Len(cells) :
           /\ cells[k][1] \in 1..MaxRecords /\ cells[k] = <<cells[k][1], cells[k][2]>>
           /\ cells[k][1] <= n
  BY CellTypes DEF InOrder
<1>2. ASSUME NEW x \in Complete(cells)
      PROVE  \E i \in 1..(Len(cells) - 1) :
               /\ cells[i] = <<x, 1>> /\ cells[i + 1] = <<x, 2>>
               /\ i = 1 \/ cells[i - 1][2] = 2
               /\ x \in 1..MaxRecords /\ x <= n
  <2>1. PICK i \in 1..(Len(cells) - 1) :
          /\ cells[i][2] = 1 /\ cells[i + 1] = <<cells[i][1], 2>>
          /\ i = 1 \/ cells[i - 1][2] = 2
          /\ x = cells[i][1]
    BY DEF Complete
  <2>2. i \in 1..Len(cells)
    BY <1>1
  <2>3. cells[i] = <<x, 1>> /\ x \in 1..MaxRecords /\ x <= n
    BY <1>1, <2>1, <2>2
  <2> QED
    BY <2>1, <2>3
<1>3. Complete(cells) \subseteq 1..n /\ Complete(cells) \subseteq 1..MaxRecords
  BY <1>2
<1>4. ASSUME NEW j \in 1..Len(cells), NEW x \in Complete(cells), cells[j] = <<x, 1>>
      PROVE  j < Len(cells) /\ cells[j + 1] = <<x, 2>> /\ (j = 1 \/ cells[j - 1][2] = 2)
  <2>1. PICK i \in 1..(Len(cells) - 1) :
          /\ cells[i] = <<x, 1>> /\ cells[i + 1] = <<x, 2>>
          /\ i = 1 \/ cells[i - 1][2] = 2
    BY <1>2
  <2>2. i \in 1..Len(cells) /\ i < Len(cells)
    BY <1>1
  <2>3. i = j
    BY <1>4, <2>1, <2>2, OrderedCells
  <2> QED
    BY <2>1, <2>2, <2>3
<1> QED
  BY <1>3, <1>4 DEF Whole

LEMMA OpenFollow ==
  ASSUME AppendInv, FollowInv, NEW b \in Processes, Open(b)
  PROVE  FollowInv'
<1> DEFINE r == reader[b]  cells == files[path]
           q == [r EXCEPT !.fd = path, !.identity = path, !.backlog = Backlog(b),
                          !.position = IF Replaced(b) THEN 0 ELSE @,
                          !.tail = IF Replaced(b) THEN <<>> ELSE @,
                          !.reset = FALSE, !.partial = 0, !.cache = <<>>]
           known == {cell[1] : cell \in ToSet(cells)}
<1>1. /\ FollowTypes /\ FilesInv
      /\ ReaderInv(b) /\ FreshInv(b) /\ TargetInv(b)
  BY DEF FollowInv
<1>2. /\ pc[b] = "open" /\ path # None /\ reader' = [reader EXCEPT ![b] = q]
      /\ old' = [old EXCEPT ![b] =
           IF Replaced(b) \/ (r.backlog = None /\ r.existed) THEN known ELSE @]
      /\ target' = [target EXCEPT ![b] = Complete(cells)]
      /\ pc' = [pc EXCEPT ![b] = "check"]
      /\ UNCHANGED <<files, path, inodes, logged, changes, history, item>>
  BY DEF Open, Set, Goto, logger
<1>3. /\ r \in Reader /\ path \in 1..inodes /\ path \in Inodes /\ cells \in Seq(LCells)
      /\ InOrder(cells, logged) /\ logged \in 0..MaxRecords /\ None \notin Nat /\ inodes \in Nat
      /\ path \in Nat
  BY <1>1, <1>2, ExportAssumption DEF FollowTypes, FilesInv, Inodes
<1>4. Len(cells) \in Positions /\ Len(cells) \in Nat
  BY <1>3, FileBound
<1>5. /\ known \subseteq 1..logged /\ known \subseteq 1..MaxRecords
      /\ \A k \in 1..Len(cells) : cells[k][1] \in known
  <2>1. \A k \in 1..Len(cells) :
          cells[k][1] \in 1..MaxRecords /\ cells[k][1] <= logged
    BY <1>3, CellTypes DEF InOrder
  <2>2. DOMAIN cells = 1..Len(cells)
    BY <1>3
  <2> QED
    BY <2>1, <2>2, <1>3 DEF ToSet
<1>6. /\ Complete(cells) \subseteq 1..logged /\ Complete(cells) \subseteq 1..MaxRecords
      /\ Whole(cells, Complete(cells))
  BY <1>3, CompleteLines
<1>7. /\ Backlog(b) \in Positions
      /\ Replaced(b) => Backlog(b) = Len(cells)
      /\ ~Replaced(b) /\ r.backlog = None =>
           Backlog(b) = Len(cells) \/ (Backlog(b) = 0 /\ ~r.existed)
      /\ ~Replaced(b) /\ r.backlog # None => Backlog(b) = r.backlog
  BY <1>3, <1>4, ExportAssumption DEF Backlog, FirstBacklog, Reader, Positions
<1>8. /\ q \in Reader /\ q.fd = path /\ q.identity = path /\ q.backlog = Backlog(b)
      /\ q.position = (IF Replaced(b) THEN 0 ELSE r.position)
      /\ q.tail = (IF Replaced(b) THEN <<>> ELSE r.tail) /\ q.cache = <<>>
  <2>1. 0 \in Positions /\ <<>> \in Seq(LCells)
    BY ExportAssumption DEF Positions
  <2> HIDE DEF cells
  <2> QED
    BY <2>1, <1>3, <1>7 DEF Reader
<1> HIDE DEF q, known
<1>9. /\ reader'[b] = q /\ target'[b] = Complete(cells)
      /\ old'[b] = (IF Replaced(b) \/ (r.backlog = None /\ r.existed) THEN known ELSE old[b])
      /\ \A o \in Processes : o # b =>
           reader'[o] = reader[o] /\ old'[o] = old[o] /\ target'[o] = target[o] /\ pc'[o] = pc[o]
      /\ pc'[b] = "check"
  BY <1>1, <1>2 DEF FollowTypes, AppendInv, HistoryTypes
<1>10. FollowTypes' /\ FilesInv'
  <2>1. /\ reader' \in [Processes -> Reader]
        /\ old' \in [Processes -> SUBSET (1..MaxRecords)]
        /\ target' \in [Processes -> SUBSET (1..MaxRecords)]
    BY <1>1, <1>2, <1>5, <1>6, <1>8 DEF FollowTypes
  <2> QED
    BY <2>1, <1>1, <1>2 DEF FollowTypes, FilesInv
<1>11. ASSUME NEW c \in Processes, c # b
       PROVE  (ReaderInv(c) /\ FreshInv(c) /\ TargetInv(c))'
  <2>1. ReadableIn(history) \subseteq ReadableIn(history')
    BY <1>2
  <2> QED
    BY <2>1, <1>2, <1>9, <1>11, OtherBridge
<1>12. ReaderInv(b)'
  <2>1. /\ q.position + Len(q.cache) <= 2 * MaxRecords /\ Len(q.tail) <= q.position
    <3>1. /\ r.position \in Nat /\ Len(r.cache) \in Nat /\ Len(r.tail) <= r.position
          /\ r.position <= 2 * MaxRecords
      BY <1>1, <1>3, ExportAssumption DEF ReaderInv, Reader, Positions
    <3>2. Len(<<>>) = 0 /\ 0 <= 2 * MaxRecords
      BY ExportAssumption
    <3>3. CASE Replaced(b)
      BY <3>2, <3>3, <1>8
    <3>4. CASE ~Replaced(b)
      BY <3>1, <3>2, <3>4, <1>8
    <3> QED
      BY <3>3, <3>4
  <2> QED
    BY <2>1, <1>2, <1>3, <1>7, <1>8, <1>9 DEF ReaderInv, Appending
<1>13. FreshInv(b)'
  <2>1. old'[b] \subseteq 1..logged
    BY <1>1, <1>5, <1>9 DEF FreshInv
  <2>2. item[b] = None
    BY <1>2 DEF AppendInv, ProcessInv, Appending
  <2>3. NewBeyond(q.cache, q.position, q.backlog, old'[b])
    BY <1>8 DEF NewBeyond
  <2>4. NewBeyond(cells, 0, q.backlog, old'[b])
    <3>1. CASE q.backlog = Len(cells)
      BY <3>1, <1>4 DEF NewBeyond
    <3>2. CASE ~Replaced(b) /\ r.backlog = None /\ ~r.existed
      <4>1. r.fd = None
        BY <3>2, <1>1, <1>3, ExportAssumption DEF ReaderInv, Positions
      <4>2. old'[b] = {}
        BY <3>2, <4>1, <1>1, <1>9 DEF ReaderInv
      <4> QED
        BY <4>2 DEF NewBeyond
    <3>3. CASE ~Replaced(b) /\ r.backlog # None
      <4>1. r.fd = path
        BY <3>3, <1>1, <1>3 DEF ReaderInv, Replaced
      <4>2. old'[b] = old[b] /\ q.backlog = r.backlog
        BY <3>3, <1>7, <1>8, <1>9
      <4> QED
        BY <4>1, <4>2, <1>1, <1>2 DEF FreshInv
    <3> QED
      BY <3>1, <3>2, <3>3, <1>7, <1>8
  <2> QED
    BY <2>1, <2>2, <2>3, <2>4, <1>2, <1>8, <1>9 DEF FreshInv
<1>14. TargetInv(b)'
  <2>1. ASSUME ~Following[b]
        PROVE  CaughtUp(q, cells, Complete(cells), Handled(b)')
    <3>1. r.fd = None
      BY <2>1, <1>1, <1>2 DEF ReaderInv
    <3>2. q.position = 0 /\ q.cache = <<>>
      BY <3>1, <1>1, <1>8 DEF ReaderInv
    <3> QED
      BY <3>2, <1>4 DEF CaughtUp
  <2> QED
    BY <2>1, <1>2, <1>6, <1>8, <1>9 DEF TargetInv
<1> QED
  BY <1>10, <1>11, <1>12, <1>13, <1>14 DEF FollowInv

(* A set of naturals that is not empty has a least element.                *)
Less == {p \in Nat \X Nat : p[1] < p[2]}
LEMMA Least ==
  ASSUME NEW S \in SUBSET Nat, S # {}
  PROVE  Min(S) \in S /\ \A y \in S : Min(S) <= y
<1>1. IsWellFoundedOn(Less, Nat)
  BY ONLY Zenon, NatLessThanWellFounded DEF OpToRel, Less
<1>2. PICK x \in S : \A y \in S : ~(<<y, x>> \in Less)
  BY <1>1, WFMin
<1>3. \A y \in S : x <= y
  <2> SUFFICES ASSUME NEW y \in S PROVE x <= y
    OBVIOUS
  <2>1. x \in Nat /\ y \in Nat
    OBVIOUS
  <2>2. <<y, x>> \in Nat \X Nat /\ <<y, x>>[1] = y /\ <<y, x>>[2] = x
    BY <2>1
  <2>3. ~(y < x)
    BY <1>2, <2>2 DEF Less
  <2> QED
    BY <2>1, <2>3
<1> QED
  BY <1>2, <1>3 DEF Min

(* What is read ahead is what the file has, or had, after the position.    *)
LEMMA AheadCells ==
  ASSUME FollowInv, NEW b \in Processes, pc[b] = "read"
  PROVE  LET r == reader[b]  cells == files[r.fd]  ahead == Ahead(b) IN
         /\ cells \in Seq(LCells) /\ r.fd # None
         /\ ahead \in Seq(LCells) /\ r.position + Len(ahead) \in Positions
         /\ NewBeyond(ahead, r.position, r.backlog, old[b])
         /\ CaughtUp(r, cells, target[b], Handled(b)) =>
              /\ r.position + Len(ahead) <= Len(cells)
              /\ \A k \in 1..Len(ahead) : ahead[k] = cells[r.position + k]
              /\ Ends(ahead) = {} => r.position + Len(ahead) = Len(cells)
<1> DEFINE r == reader[b]  cells == files[r.fd]  ahead == Ahead(b)
           from == r.position + Len(r.cache)  rest == SubSeq(cells, from + 1, Len(cells))
<1>1. /\ FollowTypes /\ FilesInv /\ ReaderInv(b) /\ FreshInv(b)
  BY DEF FollowInv
<1>2. /\ r.fd # None /\ r.fd \in Inodes /\ r.position \in Nat /\ r.cache \in Seq(LCells)
      /\ Len(r.cache) \in Nat /\ from <= 2 * MaxRecords
      /\ NewBeyond(cells, 0, r.backlog, old[b]) /\ NewBeyond(r.cache, r.position, r.backlog, old[b])
      /\ r.backlog \in Nat
  <2>1. r \in Reader
    BY <1>1 DEF FollowTypes
  <2>2. r.fd # None
    BY <1>1 DEF ReaderInv
  <2> QED
    BY <2>1, <2>2, <1>1, ExportAssumption DEF ReaderInv, FreshInv, Reader, Positions
<1>3. cells \in Seq(LCells) /\ Len(cells) \in Nat /\ Len(cells) <= 2 * MaxRecords
  <2>1. cells \in Seq(LCells) /\ InOrder(cells, logged) /\ logged \in 0..MaxRecords
    BY <1>1, <1>2 DEF FollowTypes, FilesInv
  <2> HIDE DEF cells
  <2>2. Len(cells) \in Positions
    BY <2>1, FileBound
  <2> QED
    BY <2>1, <2>2, ExportAssumption DEF Positions
<1>4. from \in Nat /\ from = r.position + Len(r.cache)
  BY <1>2
<1> HIDE DEF cells, from
<1>5. CASE Ends(r.cache) # {}
  <2>1. ahead = r.cache
    BY <1>5 DEF Ahead
  <2>2. from \in Positions
    BY <1>2, <1>4, ExportAssumption DEF Positions
  <2> QED
    BY <2>1, <2>2, <1>2, <1>3, <1>4, <1>5 DEF CaughtUp, cells
<1>6. CASE Ends(r.cache) = {}
  <2>1. ahead = r.cache \o rest
    BY <1>6 DEF Ahead, cells, from
  <2>2. \A i \in (from + 1)..Len(cells) : cells[i] \in LCells
    BY <1>3, <1>4, ElementOfSeq
  <2>12. from + 1 \in Int /\ Len(cells) \in Int
    BY <1>3, <1>4
  <2>3. /\ rest \in Seq(LCells)
        /\ Len(rest) = IF from + 1 <= Len(cells) THEN Len(cells) - (from + 1) + 1 ELSE 0
        /\ \A i \in 1..(Len(cells) - (from + 1) + 1) : rest[i] = cells[(from + 1) + i - 1]
    BY <2>2, <2>12, SubSeqProperties
  <2> HIDE DEF rest
  <2>4. ASSUME NEW i \in 1..Len(rest)
        PROVE  rest[i] = cells[from + i] /\ from + i \in 1..Len(cells)
    <3>1. from + 1 <= Len(cells)
      BY <2>3, <2>4
    <3>4. i \in 1..(Len(cells) - (from + 1) + 1)
      BY <2>3, <3>1
    <3>2. /\ i \in 1..(Len(cells) - (from + 1) + 1) /\ (from + 1) + i - 1 = from + i
          /\ from + i \in 1..Len(cells)
      BY <3>1, <3>4, <1>3, <1>4, PlaceInRest
    <3>3. rest[i] = cells[(from + 1) + i - 1]
      BY <2>3, <3>2
    <3> QED
      BY <3>2, <3>3
  <2>5. /\ Len(rest) \in Nat
        /\ from <= Len(cells) => from + Len(rest) = Len(cells)
        /\ from > Len(cells) => Len(rest) = 0
    BY <2>3, <1>3, <1>4
  <2>6. /\ ahead \in Seq(LCells) /\ Len(ahead) = Len(r.cache) + Len(rest)
        /\ \A k \in 1..(Len(r.cache) + Len(rest)) : ahead[k] =
             IF k <= Len(r.cache) THEN r.cache[k] ELSE rest[k - Len(r.cache)]
    <3>1. rest \in Seq(LCells) /\ r.cache \in Seq(LCells)
      BY <2>3, <1>2
    <3> HIDE DEF r, ahead
    <3>2. /\ r.cache \o rest \in Seq(LCells)
          /\ Len(r.cache \o rest) = Len(r.cache) + Len(rest)
          /\ \A k \in 1..(Len(r.cache) + Len(rest)) : (r.cache \o rest)[k] =
               IF k <= Len(r.cache) THEN r.cache[k] ELSE rest[k - Len(r.cache)]
      BY <3>1, ConcatProperties
    <3> QED
      BY <2>1, <3>2
  <2> HIDE DEF ahead
  <2>7. r.position + Len(ahead) = from + Len(rest)
    <3>1. r.position \in Nat /\ Len(r.cache) \in Nat /\ Len(rest) \in Nat
      BY <1>2, <2>5
    <3>2. r.position + (Len(r.cache) + Len(rest)) = (r.position + Len(r.cache)) + Len(rest)
      BY <3>1, SumsAgree
    <3> QED
      BY <3>2, <2>6, <1>4
  <2>8. r.position + Len(ahead) \in Positions
    BY <2>5, <2>7, <1>2, <1>3, <1>4, ExportAssumption DEF Positions
  <2>9. ASSUME NEW k \in 1..Len(ahead)
        PROVE  \/ k \in 1..Len(r.cache) /\ ahead[k] = r.cache[k]
               \/ r.position + k \in 1..Len(cells) /\ ahead[k] = cells[r.position + k]
    <3>1. CASE k <= Len(r.cache)
      BY <3>1, <2>5, <2>6, <1>2
    <3>2. CASE k > Len(r.cache)
      <4>1. k - Len(r.cache) \in 1..Len(rest) /\ from + (k - Len(r.cache)) = r.position + k
        <5>1. k \in Nat /\ k <= Len(r.cache) + Len(rest) /\ Len(r.cache) \in Nat /\ Len(rest) \in Nat
          BY <2>5, <2>6, <1>2
        <5>2. r.position \in Nat /\ from = r.position + Len(r.cache)
          BY <1>2, <1>4
        <5> HIDE DEF r
        <5> QED
          BY <3>2, <5>1, <5>2
      <4>2. ahead[k] = rest[k - Len(r.cache)]
        BY <3>2, <2>5, <2>6, <1>2
      <4>3. /\ rest[k - Len(r.cache)] = cells[from + (k - Len(r.cache))]
            /\ from + (k - Len(r.cache)) \in 1..Len(cells)
        BY <4>1, <2>4
      <4> QED
        BY <4>1, <4>2, <4>3
    <3> QED
      BY <3>1, <3>2, <2>5, <2>6, <1>2
  <2>10. NewBeyond(ahead, r.position, r.backlog, old[b])
    <3> SUFFICES ASSUME NEW k \in 1..Len(ahead), ahead[k][2] = 1, r.position + k > r.backlog
                 PROVE  ahead[k][1] \notin old[b]
      BY DEF NewBeyond
    <3>1. CASE k \in 1..Len(r.cache) /\ ahead[k] = r.cache[k]
      BY <3>1, <1>2 DEF NewBeyond
    <3>2. CASE r.position + k \in 1..Len(cells) /\ ahead[k] = cells[r.position + k]
      <4>1. 0 + (r.position + k) > r.backlog
        BY <1>2
      <4> QED
        BY <4>1, <3>2, <1>2 DEF NewBeyond
    <3> QED
      BY <3>1, <3>2, <2>9
  <2>11. ASSUME CaughtUp(r, cells, target[b], Handled(b))
         PROVE  /\ r.position + Len(ahead) = Len(cells)
                /\ \A k \in 1..Len(ahead) : ahead[k] = cells[r.position + k]
    <3>1. from <= Len(cells) /\ \A k \in 1..Len(r.cache) : r.cache[k] = cells[r.position + k]
      BY <2>11, <1>4 DEF CaughtUp
    <3>2. r.position + Len(ahead) = Len(cells)
      BY <3>1, <2>5, <2>7
    <3> QED
      BY <3>1, <3>2, <2>9
  <2> QED
    BY <2>6, <2>8, <2>10, <2>11, <1>2, <1>3 DEF cells, ahead
<1> QED
  BY <1>5, <1>6

(* A line is what is ahead up to its first end; one that is whole is a     *)
(* record, its two halves and nothing else.                                *)
LEMMA FirstLine ==
  ASSUME NEW ahead \in Seq(LCells), Ends(ahead) # {}
  PROVE  LET size == Min(Ends(ahead))  line == SubSeq(ahead, 1, size)
             beyond == SubSeq(ahead, size + 1, Len(ahead)) IN
         /\ size \in 1..Len(ahead) /\ ahead[size][2] = 2
         /\ \A k \in 1..(size - 1) : ahead[k][2] # 2
         /\ line \in Seq(LCells) /\ Len(line) = size /\ \A k \in 1..size : line[k] = ahead[k]
         /\ beyond \in Seq(LCells) /\ Len(beyond) = Len(ahead) - size
         /\ \A k \in 1..Len(beyond) : beyond[k] = ahead[size + k]
         /\ Complete(line) # {} => size = 2 /\ line[1][2] = 1
         /\ size = 2 /\ line[1][2] = 1 /\ line[2] = <<line[1][1], 2>> => Complete(line) # {}
<1> DEFINE size == Min(Ends(ahead))  line == SubSeq(ahead, 1, size)
           beyond == SubSeq(ahead, size + 1, Len(ahead))
<1>1. /\ Len(ahead) \in Nat /\ DOMAIN ahead = 1..Len(ahead)
      /\ \A k \in 1..Len(ahead) : ahead[k] \in LCells
  BY ElementOfSeq
<1>2. Ends(ahead) = {i \in 1..Len(ahead) : ahead[i][2] = 2}
  BY <1>1 DEF Ends
<1>3. size \in Ends(ahead) /\ \A y \in Ends(ahead) : size <= y
  <2>1. Ends(ahead) \in SUBSET Nat
    BY <1>2
  <2> QED
    BY <2>1, Least
<1> HIDE DEF size
<1>4. size \in 1..Len(ahead) /\ ahead[size][2] = 2 /\ \A k \in 1..(size - 1) : ahead[k][2] # 2
  <2>1. size \in 1..Len(ahead) /\ ahead[size][2] = 2
    BY <1>2, <1>3
  <2>2. ASSUME NEW k \in 1..(size - 1), ahead[k][2] = 2 PROVE FALSE
    <3>1. k \in 1..Len(ahead) /\ k < size
      BY <2>1, <1>1
    <3>2. k \in Ends(ahead)
      BY <2>2, <3>1, <1>2
    <3> QED
      BY <3>1, <3>2, <2>1, <1>3
  <2> QED
    BY <2>1, <2>2
<1>5. line \in Seq(LCells) /\ Len(line) = size /\ \A k \in 1..size : line[k] = ahead[k]
  <2>1. \A k \in 1..size : ahead[k] \in LCells
    BY <1>1, <1>4
  <2>2. /\ line \in Seq(LCells) /\ Len(line) = IF 1 <= size THEN size - 1 + 1 ELSE 0
        /\ \A k \in 1..(size - 1 + 1) : line[k] = ahead[1 + k - 1]
    BY <2>1, <1>4, SubSeqProperties
  <2> HIDE DEF line
  <2>3. ASSUME NEW k \in 1..size PROVE line[k] = ahead[k]
    <3>1. k \in 1..(size - 1 + 1) /\ 1 + k - 1 = k
      BY <1>4
    <3>2. line[k] = ahead[1 + k - 1]
      BY <2>2, <3>1
    <3> QED
      BY <3>1, <3>2
  <2> QED
    BY <2>2, <2>3, <1>4
<1>6. /\ beyond \in Seq(LCells) /\ Len(beyond) = Len(ahead) - size
      /\ \A k \in 1..Len(beyond) : beyond[k] = ahead[size + k]
  <2>1. \A k \in (size + 1)..Len(ahead) : ahead[k] \in LCells
    BY <1>1, <1>4
  <2>4. size + 1 \in Int /\ Len(ahead) \in Int
    BY <1>1, <1>4
  <2>2. /\ beyond \in Seq(LCells)
        /\ Len(beyond) = IF size + 1 <= Len(ahead) THEN Len(ahead) - (size + 1) + 1 ELSE 0
        /\ \A k \in 1..(Len(ahead) - (size + 1) + 1) : beyond[k] = ahead[(size + 1) + k - 1]
    BY <2>1, <2>4, SubSeqProperties
  <2> HIDE DEF beyond
  <2>5. Len(beyond) = Len(ahead) - size
    <3>1. size \in Nat /\ size <= Len(ahead) /\ Len(ahead) \in Nat
      BY <1>1, <1>4
    <3>2. Len(beyond) = IF size + 1 <= Len(ahead) THEN Len(ahead) - (size + 1) + 1 ELSE 0
      BY <2>2
    <3> QED
      BY <3>1, <3>2
  <2>3. ASSUME NEW k \in 1..Len(beyond) PROVE beyond[k] = ahead[size + k]
    <3>1. k \in 1..(Len(ahead) - (size + 1) + 1) /\ (size + 1) + k - 1 = size + k
      BY <2>5, <1>1, <1>4
    <3>2. beyond[k] = ahead[(size + 1) + k - 1]
      BY <2>2, <3>1
    <3> QED
      BY <3>1, <3>2
  <2> QED
    BY <2>2, <2>3, <2>5
<1> HIDE DEF line, beyond
<1>7. ASSUME Complete(line) # {} PROVE size = 2 /\ line[1][2] = 1
  <2>1. PICK i \in 1..(Len(line) - 1) :
          /\ line[i][2] = 1 /\ line[i + 1] = <<line[i][1], 2>>
          /\ i = 1 \/ line[i - 1][2] = 2
    BY <1>7 DEF Complete
  <2>2. /\ i \in 1..(size - 1) /\ i + 1 \in 1..size /\ (i = 1 \/ i - 1 \in 1..(size - 1))
        /\ (i = 1 \/ i - 1 \in 1..size)
    BY <2>1, <1>4, <1>5
  <2>3. i = 1
    BY <2>1, <2>2, <1>4, <1>5
  <2>4. ahead[i + 1][2] = 2
    BY <2>1, <2>2, <1>5
  <2>5. i + 1 = size
    BY <2>2, <2>4, <1>4
  <2> QED
    BY <2>1, <2>3, <2>5
<1>8. ASSUME size = 2, line[1][2] = 1, line[2] = <<line[1][1], 2>> PROVE Complete(line) # {}
  <2>1. 1 \in 1..(Len(line) - 1) /\ 1 + 1 = 2
    BY <1>5, <1>8
  <2>2. line[1][1] \in Complete(line)
    BY <2>1, <1>8 DEF Complete
  <2> QED
    BY <2>2
<1> QED
  BY <1>4, <1>5, <1>6, <1>7, <1>8 DEF line, beyond, size

(* So is the line that is read, but for a last one without its end.        *)
LEMMA TheLine ==
  ASSUME NEW b \in Processes, Ahead(b) \in Seq(LCells), Line(b) # <<>>
  PROVE  LET ahead == Ahead(b)  line == Line(b)  size == Len(line)
             beyond == SubSeq(ahead, size + 1, Len(ahead)) IN
         /\ size \in 1..Len(ahead)
         /\ ahead[size][2] = 2 \/ (size = Len(ahead) /\ Ends(ahead) = {})
         /\ \A k \in 1..(size - 1) : ahead[k][2] # 2
         /\ line \in Seq(LCells) /\ \A k \in 1..size : line[k] = ahead[k]
         /\ beyond \in Seq(LCells) /\ Len(beyond) = Len(ahead) - size
         /\ \A k \in 1..Len(beyond) : beyond[k] = ahead[size + k]
         /\ Complete(line) # {} \/ Unended(line) => line[1][2] = 1
         /\ size = 2 /\ line[1][2] = 1 /\ line[2] = <<line[1][1], 2>> => Complete(line) # {}
<1> DEFINE ahead == Ahead(b)  line == Line(b)  size == Len(line)
           beyond == SubSeq(ahead, size + 1, Len(ahead))
<1>1. CASE Ends(ahead) # {}
  <2>1. line = SubSeq(ahead, 1, Min(Ends(ahead)))
    BY <1>1 DEF Line
  <2>2. size = Min(Ends(ahead))
    BY <1>1, <2>1, FirstLine
  <2>. HIDE DEF line, size
  <2>3. /\ size \in 1..Len(ahead) /\ ahead[size][2] = 2
        /\ \A k \in 1..(size - 1) : ahead[k][2] # 2
    BY <1>1, <2>2, FirstLine
  <2>4. /\ line \in Seq(LCells) /\ \A k \in 1..size : line[k] = ahead[k]
        /\ Complete(line) # {} => line[1][2] = 1
        /\ size = 2 /\ line[1][2] = 1 /\ line[2] = <<line[1][1], 2>> => Complete(line) # {}
    BY <1>1, <2>1, <2>2, FirstLine
  <2>5. /\ beyond \in Seq(LCells) /\ Len(beyond) = Len(ahead) - size
        /\ \A k \in 1..Len(beyond) : beyond[k] = ahead[size + k]
    BY <1>1, <2>2, FirstLine
  <2>6. Complete(line) # {} \/ Unended(line) => line[1][2] = 1
    BY <2>4 DEF Unended
  <2>. QED
    BY <2>3, <2>4, <2>5, <2>6, Zenon DEF line, size
<1>2. CASE Ends(ahead) = {}
  <2>1. line = ahead /\ ahead # <<>>
    BY <1>2 DEF Line
  <2>2. /\ Len(ahead) \in Nat /\ DOMAIN ahead = 1..Len(ahead) /\ Len(ahead) # 0
    BY <2>1, ElementOfSeq, EmptySeq
  <2>3. \A k \in 1..Len(ahead) : ahead[k][2] # 2
    BY <1>2, <2>2 DEF Ends
  <2>4. Len(ahead) \in 1..Len(ahead)
    BY <2>2
  <2>5. beyond \in Seq(LCells) /\ Len(beyond) = 0
    <3>1. Len(ahead) + 1 \in Int /\ Len(ahead) \in Int /\ ~(Len(ahead) + 1 <= Len(ahead))
          /\ (Len(ahead) + 1)..Len(ahead) = {}
      BY <2>2
    <3>. QED
      BY <2>1, <3>1, SubSeqProperties
  <2>6. Complete(line) = {}
    <3>1. ASSUME NEW i \in 1..(Len(line) - 1), line[i + 1] = <<line[i][1], 2>> PROVE FALSE
      <4>1. i + 1 \in 1..Len(ahead)
        BY <2>1, <2>2, <3>1
      <4>2. line[i + 1][2] = 2
        BY <3>1
      <4>. QED
        BY <2>1, <2>3, <4>1, <4>2
    <3>. QED
      BY <3>1 DEF Complete
  <2>7. ~(size = 2 /\ line[2] = <<line[1][1], 2>>)
    <3>1. ASSUME size = 2, line[2] = <<line[1][1], 2>> PROVE FALSE
      <4>1. 2 \in 1..Len(ahead) /\ ahead[2][2] = 2
        BY <2>1, <3>1
      <4>. QED
        BY <2>3, <4>1
    <3>. QED
      BY <3>1
  <2>8. \A k \in 1..(size - 1) : k \in 1..Len(ahead)
    BY <2>1, <2>2
  <2>9. Len(beyond) = Len(ahead) - size /\ 1..Len(beyond) = {}
    BY <2>1, <2>2, <2>5
  <2>. HIDE DEF beyond
  <2>10. Unended(line) => line[1][2] = 1
    BY DEF Unended
  <2>11. \A k \in 1..(size - 1) : ahead[k][2] # 2
    BY <2>3, <2>8
  <2>12. beyond \in Seq(LCells) /\ \A k \in 1..Len(beyond) : beyond[k] = ahead[size + k]
    BY <2>5, <2>9
  <2>. QED
    BY <1>2, <2>1, <2>4, <2>6, <2>7, <2>9, <2>10, <2>11, <2>12 DEF beyond
<1>. QED
  BY <1>1, <1>2

(* When there is no line, there is no end ahead.                           *)
LEMMA NoLine ==
  ASSUME NEW b \in Processes, Ahead(b) \in Seq(LCells), Line(b) = <<>>
  PROVE  Ends(Ahead(b)) = {}
<1>1. SUFFICES ASSUME Ends(Ahead(b)) # {} PROVE FALSE
  OBVIOUS
<1>. DEFINE size == Min(Ends(Ahead(b)))  line == SubSeq(Ahead(b), 1, size)
<1>2. line = <<>>
  BY <1>1 DEF Line
<1>3. size \in 1..Len(Ahead(b)) /\ Len(line) = size
  BY <1>1, FirstLine
<1>4. Len(line) = 0
  BY <1>2, EmptySeq
<1>. QED
  BY <1>3, <1>4

LEMMA ReadLineStep ==
  ASSUME AppendInv, FollowInv, NEW b \in Processes, ReadLine(b)
  PROVE  AppendInv' /\ FollowInv'
<1> DEFINE r == reader[b]  cells == files[r.fd]  ahead == Ahead(b)
           line == Line(b)  size == Len(line)
           beyond == SubSeq(ahead, size + 1, Len(ahead))
           q == [r EXCEPT !.position = @ + size, !.tail = line, !.cache = beyond]
           new == [rec |-> line[1][1], live |-> Following[b] /\ r.position >= r.backlog]
<1>0. /\ pc[b] = "read" /\ line # <<>>
      /\ UNCHANGED <<files, path, inodes, logged, changes, history, holder, failures, seen,
                     separator, residue, old, target, appended, lingered>>
  BY DEF ReadLine, logger, ghosts
<1>1. /\ FollowTypes /\ FilesInv /\ ReaderInv(b) /\ FreshInv(b) /\ TargetInv(b)
  BY DEF FollowInv
<1>2. /\ cells \in Seq(LCells) /\ r.fd # None
      /\ ahead \in Seq(LCells) /\ r.position + Len(ahead) \in Positions
      /\ NewBeyond(ahead, r.position, r.backlog, old[b])
      /\ CaughtUp(r, cells, target[b], Handled(b)) =>
           /\ r.position + Len(ahead) <= Len(cells)
           /\ \A k \in 1..Len(ahead) : ahead[k] = cells[r.position + k]
           /\ Ends(ahead) = {} => r.position + Len(ahead) = Len(cells)
  BY <1>0, AheadCells
<1>3. /\ size \in 1..Len(ahead)
      /\ ahead[size][2] = 2 \/ (size = Len(ahead) /\ Ends(ahead) = {})
      /\ \A k \in 1..(size - 1) : ahead[k][2] # 2
      /\ line \in Seq(LCells) /\ Len(line) = size /\ \A k \in 1..size : line[k] = ahead[k]
      /\ beyond \in Seq(LCells) /\ Len(beyond) = Len(ahead) - size
      /\ \A k \in 1..Len(beyond) : beyond[k] = ahead[size + k]
      /\ Complete(line) # {} \/ Unended(line) => line[1][2] = 1
      /\ size = 2 /\ line[1][2] = 1 /\ line[2] = <<line[1][1], 2>> => Complete(line) # {}
  BY <1>0, <1>2, TheLine
<1>4. /\ reader' = [reader EXCEPT ![b] = q]
      /\ \/ /\ line[1][2] = 1
            /\ item' = [item EXCEPT ![b] = new] /\ Goto(b, "append")
         \/ Complete(line) = {} /\ item' = item /\ Goto(b, "check")
  BY <1>3 DEF ReadLine, Set
<1> HIDE DEF ahead, size, line, beyond
<1>5. /\ r \in Reader /\ r.position \in Nat /\ Len(ahead) \in Nat /\ size \in Nat
      /\ size <= Len(ahead) /\ r.backlog \in Nat /\ r.position + Len(ahead) <= 2 * MaxRecords
  <2>1. r \in Reader
    BY <1>1 DEF FollowTypes
  <2>2. r.backlog \in Positions
    BY <1>1, <1>2 DEF ReaderInv
  <2> QED
    BY <2>1, <2>2, <1>2, <1>3, ExportAssumption DEF Reader, Positions
<1>6. /\ q \in Reader /\ q.fd = r.fd /\ q.identity = r.identity /\ q.backlog = r.backlog
      /\ q.position = r.position + size /\ q.tail = line /\ q.cache = beyond
  <2>1. r.position + size \in Positions
    BY <1>5, ExportAssumption DEF Positions
  <2> QED
    BY <2>1, <1>3, <1>5 DEF Reader
<1> HIDE DEF q
<1>7. /\ reader'[b] = q
      /\ \A o \in Processes : o # b =>
           reader'[o] = reader[o] /\ pc'[o] = pc[o] /\ item'[o] = item[o]
      /\ \/ /\ line[1][2] = 1 /\ pc'[b] = "append" /\ item'[b] = new
            /\ pc' = [pc EXCEPT ![b] = "append"]
         \/ /\ Complete(line) = {} /\ pc'[b] = "check" /\ item'[b] = None
            /\ pc' = [pc EXCEPT ![b] = "check"]
  <2>1. item[b] = None
    BY <1>0 DEF AppendInv, ProcessInv, Appending
  <2> QED
    BY <2>1, <1>1, <1>4 DEF Goto, FollowTypes, AppendInv, HistoryTypes
<1>8. /\ new \in Items
      /\ item' \in [Processes -> Items \cup {None}]
  <2>1. new \in Items
    <3>1. 1 \in 1..Len(line)
      BY <1>3, <1>5
    <3>2. line[1][1] \in 1..MaxRecords
      BY <3>1, <1>3, CellTypes
    <3>3. Following[b] \in BOOLEAN
      BY ExportAssumption DEF Processes
    <3> QED
      BY <3>2, <3>3 DEF Items
  <2> HIDE DEF new
  <2>2. item \in [Processes -> Items \cup {None}]
    BY DEF AppendInv, HistoryTypes
  <2>3. item' = item \/ item' = [item EXCEPT ![b] = new]
    BY <1>4
  <2> QED
    BY <2>1, <2>2, <2>3
<1>9. AppendInv'
  <2>1. CASE pc' = [pc EXCEPT ![b] = "append"] /\ pc'[b] = "append" /\ item'[b] = new
    BY <2>1, <1>0, <1>7, <1>8, WatchStep DEF Watching
  <2>2. CASE pc' = [pc EXCEPT ![b] = "check"] /\ pc'[b] = "check" /\ item'[b] = None
    BY <2>2, <1>0, <1>7, <1>8, WatchStep DEF Watching
  <2> QED
    BY <2>1, <2>2, <1>7
<1>10. FollowTypes' /\ FilesInv'
  <2>1. reader' \in [Processes -> Reader]
    BY <1>1, <1>4, <1>6 DEF FollowTypes
  <2> QED
    BY <2>1, <1>0, <1>1 DEF FollowTypes, FilesInv
<1>11. ASSUME NEW c \in Processes, c # b
       PROVE  (ReaderInv(c) /\ FreshInv(c) /\ TargetInv(c))'
  BY <1>0, <1>7, <1>11, OtherBridge
<1>15. q.position + Len(q.cache) = r.position + Len(ahead)
  <2>1. (r.position + size) + (Len(ahead) - size) = r.position + Len(ahead)
    BY <1>5, SumOfRest
  <2> QED
    BY <2>1, <1>3, <1>6
<1>12. ReaderInv(b)'
  <2>3. q.position + Len(q.cache) <= 2 * MaxRecords
    BY <1>5, <1>15
  <2>4. Len(q.tail) <= q.position
    BY <1>3, <1>5, <1>6
  <2>1. /\ q.position + Len(q.cache) <= 2 * MaxRecords /\ Len(q.tail) <= q.position
    BY <2>3, <2>4
  <2>2. pc'[b] \in {"append", "check"}
    BY <1>7
  <2> QED
    BY <2>1, <2>2, <1>0, <1>1, <1>2, <1>6, <1>7 DEF ReaderInv
<1>13. FreshInv(b)'
  <2>1. NewBeyond(q.cache, q.position, q.backlog, old[b])
    <3> SUFFICES ASSUME NEW k \in 1..Len(beyond), beyond[k][2] = 1,
                        (r.position + size) + k > r.backlog
                 PROVE  beyond[k][1] \notin old[b]
      BY <1>6 DEF NewBeyond
    <3>1. size + k \in 1..Len(ahead) /\ r.position + (size + k) > r.backlog
      <4>1. /\ r.position \in Nat /\ Len(ahead) \in Nat /\ size \in 1..Len(ahead)
            /\ Len(beyond) \in Nat /\ Len(beyond) = Len(ahead) - size /\ r.backlog \in Nat
        BY <1>3, <1>5
      <4> QED
        BY <4>1, Further
    <3> QED
      BY <3>1, <1>2, <1>3 DEF NewBeyond
  <2>2. ASSUME line[1][2] = 1, new.live PROVE new.rec \notin old[b]
    <3>1. new.rec = line[1][1] /\ r.position >= r.backlog
      BY <2>2
    <3>2. 1 \in 1..Len(ahead) /\ line[1] = ahead[1] /\ ahead[1][2] = 1
      BY <2>2, <1>3, <1>5
    <3>3. r.position + 1 > r.backlog
      BY <3>1, <1>5
    <3> QED
      BY <3>1, <3>2, <3>3, <1>2 DEF NewBeyond
  <2>3. item'[b] # None => (item'[b].live => item'[b].rec \notin old[b])
    BY <2>2, <1>7
  <2> HIDE DEF new
  <2> QED
    BY <2>1, <2>3, <1>0, <1>1, <1>2, <1>6, <1>7 DEF FreshInv
<1>14. TargetInv(b)'
  <2>1. ASSUME CaughtUp(r, cells, target[b], Handled(b)), Whole(cells, target[b])
        PROVE  CaughtUp(q, cells, target[b], Handled(b)')
    <3>1. /\ r.position + Len(ahead) <= Len(cells) /\ Len(cells) \in Nat
          /\ \A k \in 1..Len(ahead) : ahead[k] = cells[r.position + k]
      BY <2>1, <1>2
    <3>2. q.position + Len(q.cache) <= Len(cells)
      BY <3>1, <1>15
    <3>3. ASSUME NEW k \in 1..Len(q.cache) PROVE q.cache[k] = cells[q.position + k]
      <4>1. size + k \in 1..Len(ahead) /\ r.position + (size + k) = q.position + k
        BY <1>3, <1>5, <1>6
      <4>2. q.cache[k] = ahead[size + k]
        BY <1>3, <1>6
      <4> QED
        BY <3>1, <4>1, <4>2
    <3>4. ASSUME NEW x \in target[b], NEW j \in 1..q.position, cells[j] = <<x, 1>>
          PROVE  x \in Handled(b)'
      <4>1. CASE j <= r.position
        <5>1. x \in Handled(b)
          <6>1. j \in 1..r.position
            <7>1. r.position \in Nat
              BY <1>5
            <7> HIDE DEF r
            <7> QED
              BY <7>1, <4>1
          <6> QED
            BY <6>1, <3>4, <2>1 DEF CaughtUp
        <5>2. x \in ReadableIn(history)
          BY <5>1, <1>0 DEF Handled, Appending
        <5> QED
          BY <5>2, <1>0 DEF Handled
      <4>2. CASE j > r.position
        <5> DEFINE i == j - r.position
        <5>1. i \in 1..size /\ j = r.position + i /\ i \in 1..Len(ahead) /\ j \in 1..Len(cells)
          <6>1. j \in Nat /\ j <= r.position + size /\ 1 <= j
            BY <1>5, <1>6
          <6>2. r.position \in Nat /\ size \in Nat /\ size <= Len(ahead) /\ Len(ahead) \in Nat
            BY <1>5
          <6>3. r.position + Len(ahead) <= Len(cells) /\ Len(cells) \in Nat
            BY <3>1
          <6>4. r.position < j
            BY <6>1, <6>2, <4>2
          <6> HIDE DEF r
          <6> QED
            BY <6>1, <6>2, <6>3, <6>4, Between
        <5>2. ahead[i] = <<x, 1>>
          BY <5>1, <3>1, <3>4
        <5>3. j < Len(cells) /\ cells[j + 1] = <<x, 2>> /\ (j = 1 \/ cells[j - 1][2] = 2)
          BY <5>1, <3>4, <2>1 DEF Whole
        <5>4. i # size
          <6>1. ASSUME i = size, size = Len(ahead), Ends(ahead) = {} PROVE FALSE
            <7>1. j = Len(cells)
              BY <6>1, <5>1, <2>1, <1>2
            <7> QED
              BY <7>1, <5>3, <3>1
          <6> QED
            BY <6>1, <5>2, <1>3
        <5> HIDE DEF i
        <5>5. i \in 1..(size - 1) /\ i + 1 \in 1..Len(ahead) /\ r.position + (i + 1) = j + 1
          BY SMTT(30), <5>1, <5>4, <1>3, <1>5, OneOn
        <5>6. ahead[i + 1] = <<x, 2>>
          BY <5>3, <5>5, <3>1
        <5>7. i + 1 = size
          <6>1. ahead[i + 1][2] = 2
            BY <5>6
          <6>2. ~(i + 1 \in 1..(size - 1))
            BY <6>1, <1>3
          <6> QED
            BY <6>2, <5>5, <1>5
        <5>8. i = 1
          <6>1. SUFFICES ASSUME i # 1 PROVE FALSE
            OBVIOUS
          <6>2. /\ i - 1 \in 1..(size - 1) /\ i - 1 \in 1..Len(ahead) /\ j # 1
                /\ r.position + (i - 1) = j - 1
            <7>1. r.position \in Nat /\ Len(ahead) \in Nat /\ size \in 1..Len(ahead)
                  /\ i \in 1..size /\ i # 1 /\ j = r.position + i
              BY <6>1, <5>1, <1>3, <1>5
            <7> QED
              BY SMTT(30), <7>1, OneBack
          <6>3. ahead[i - 1] = cells[j - 1]
            BY <6>2, <3>1
          <6>4. cells[j - 1][2] = 2
            BY <6>2, <5>3
          <6> QED
            BY <6>2, <6>3, <6>4, <1>3
        <5>9. size = 2 /\ line[1] = <<x, 1>> /\ line[2] = <<x, 2>>
          BY <5>2, <5>6, <5>7, <5>8, <1>3
        <5>10. line[1][1] = x /\ line[1][2] = 1 /\ line[2] = <<line[1][1], 2>>
          BY <5>9
        <5>11. Complete(line) # {}
          BY <5>9, <5>10, <1>3
        <5>12. pc'[b] = "append" /\ item'[b].rec = x
          <6>1. pc'[b] = "append" /\ item'[b] = new
            BY <5>11, <1>7
          <6> QED
            BY <6>1, <5>10
        <5> QED
          BY <5>12 DEF Handled, Appending
      <4> QED
        BY <4>1, <4>2, <1>5, <1>6
    <3> QED
      BY <3>2, <3>3, <3>4 DEF CaughtUp
  <2>2. pc'[b] # "done"
    BY <1>7
  <2> QED
    BY <2>1, <2>2, <1>0, <1>1, <1>2, <1>6, <1>7 DEF TargetInv
<1> QED
  BY <1>9, <1>10, <1>11, <1>12, <1>13, <1>14 DEF FollowInv

LEMMA LogAppend ==
  ASSUME AppendInv, UNCHANGED <<history, holder, pc, seen, item, separator, residue, appended, lingered>>
  PROVE  AppendInv'
<1>1. HistoryTypes' /\ ProcessInv' /\ HistoryInv'
  BY DEF AppendInv, HistoryTypes, ProcessInv, HistoryInv
<1>2. CloseInv'
  <2> SUFFICES ASSUME NEW c \in Processes, pc'[c] = "close"
               PROVE  \E k \in 0..Len(history), n \in 0..3 : CutShort(c, SubSeq(history, 1, k), n)'
    BY DEF CloseInv
  <2>1. PICK k \in 0..Len(history), n \in 0..3 : CutShort(c, SubSeq(history, 1, k), n)
    BY DEF AppendInv, CloseInv
  <2>2. CutShort(c, SubSeq(history, 1, k), n)'
    BY <2>1 DEF CutShort
  <2> QED
    BY <2>2
<1> QED
  BY <1>1, <1>2 DEF AppendInv

(* The steps of a bridge up to its record, and what it has already seen.   *)
LEMMA WatchingSteps ==
  ASSUME AppendInv, FollowInv, NEW b \in Processes,
         \/ BeginIteration(b) \/ (OpenMissing(b) /\ Following[b]) \/ Check(b)
         \/ ReadRest(b) \/ Skip(b)
  PROVE  AppendInv' /\ FollowInv'
<1> DEFINE r == reader[b]
<1>1. /\ FollowTypes /\ ReaderInv(b) /\ TargetInv(b) /\ HistoryTypes /\ ProcessInv /\ HistoryInv
      /\ r \in Reader /\ reader = [reader EXCEPT ![b] = r]
      /\ pc[b] \notin Appending => item[b] = None
      /\ item \in [Processes -> Items \cup {None}]
  BY DEF FollowInv, AppendInv, FollowTypes, HistoryTypes, ProcessInv
<1>2. /\ UNCHANGED <<history, holder, seen, separator, residue, appended, lingered>>
      /\ UNCHANGED <<files, path, inodes, logged, changes, old, target>>
      /\ Handled(b) \subseteq ReadableIn(history) \/ pc[b] = "append"
  BY DEF BeginIteration, OpenMissing, Check, ReadRest, Skip, logger, ghosts, Handled, Appending
<1>3. CASE BeginIteration(b)
  <2> DEFINE q == [r EXCEPT !.existed = path # None]
  <2>1. /\ pc[b] = "begin" /\ pc' = [pc EXCEPT ![b] = "open"] /\ item' = item
        /\ reader' = [reader EXCEPT ![b] = q]
    BY <1>3 DEF BeginIteration, Set, Goto
  <2>2. /\ q \in Reader /\ q.fd = r.fd /\ q.identity = r.identity /\ q.position = r.position
        /\ q.backlog = r.backlog /\ q.tail = r.tail /\ q.cache = r.cache
    BY <1>1 DEF Reader
  <2>3. r.fd = None
    BY <2>1, <1>1 DEF ReaderInv
  <2> HIDE DEF q
  <2>4. /\ pc'[b] = "open"
        /\ \A o \in Processes : o # b => pc'[o] = pc[o] /\ item'[o] = item[o]
        /\ item[b] = None
    BY <2>1, <1>1 DEF HistoryTypes, Appending
  <2>5. AppendInv'
    BY <2>1, <2>4, <1>1, <1>2, WatchStep DEF Watching
  <2>6. Handled(b) \subseteq Handled(b)'
    BY <2>1, <1>2 DEF Handled
  <2>7. FollowInv'
    BY <2>1, <2>2, <2>3, <2>4, <2>6, <1>2, StayStep DEF Appending
  <2> QED
    BY <2>5, <2>7
<1>4. CASE OpenMissing(b) /\ Following[b]
  <2> DEFINE q == [r EXCEPT !.reset = r.identity # None]
  <2>1. /\ pc[b] = "open" /\ pc' = pc /\ item' = item
        /\ reader' = [reader EXCEPT ![b] = q]
    BY <1>4 DEF OpenMissing, Set
  <2>2. /\ q \in Reader /\ q.fd = r.fd /\ q.identity = r.identity /\ q.position = r.position
        /\ q.backlog = r.backlog /\ q.tail = r.tail /\ q.cache = r.cache
    BY <1>1 DEF Reader
  <2> HIDE DEF q
  <2>3. pc' = [pc EXCEPT ![b] = "open"] /\ item[b] = None
    BY <2>1, <1>1 DEF HistoryTypes, Appending
  <2>4. AppendInv'
    BY <2>1, <2>3, <1>1, <1>2, WatchStep DEF Watching
  <2>5. Handled(b) \subseteq Handled(b)'
    BY <2>1, <1>2 DEF Handled
  <2>6. FollowInv'
    BY <2>1, <2>2, <2>5, <1>2, <1>4, StayStep DEF Appending
  <2> QED
    BY <2>4, <2>6
<1>5. CASE Check(b)
  <2>0. pc[b] = "check" /\ item' = item /\ item[b] = None /\ r.fd # None
    BY <1>1, <1>5 DEF Check, Appending, ReaderInv
  <2>1. CASE Following[b] /\ ~TailFound(b, files[reader[b].fd])
    <3> DEFINE q == [r EXCEPT !.reset = TRUE]
    <3>1. pc' = [pc EXCEPT ![b] = "open"] /\ reader' = [reader EXCEPT ![b] = q]
      BY <2>1, <1>5 DEF Check, Set, Goto
    <3>2. /\ q \in Reader /\ q.fd = r.fd /\ q.identity = r.identity /\ q.position = r.position
          /\ q.backlog = r.backlog /\ q.tail = r.tail /\ q.cache = r.cache
      BY <1>1 DEF Reader
    <3> HIDE DEF q
    <3>3. pc'[b] = "open" /\ \A o \in Processes : o # b => pc'[o] = pc[o]
      BY <3>1, <1>1 DEF HistoryTypes
    <3>4. AppendInv'
      BY <2>0, <3>1, <1>1, <1>2, WatchStep DEF Watching
    <3>5. Handled(b) \subseteq Handled(b)'
      BY <2>0, <1>2 DEF Handled, Appending
    <3>6. FollowInv'
      BY <2>0, <2>1, <3>1, <3>2, <3>3, <3>5, <1>2, StayStep DEF Appending
    <3> QED
      BY <3>4, <3>6
  <2>2. CASE ~(Following[b] /\ ~TailFound(b, files[reader[b].fd]))
    <3>1. pc' = [pc EXCEPT ![b] = "read"] /\ reader' = [reader EXCEPT ![b] = r]
      BY <2>2, <1>1, <1>5 DEF Check, Goto
    <3>3. pc'[b] = "read" /\ \A o \in Processes : o # b => pc'[o] = pc[o]
      BY <3>1, <1>1 DEF HistoryTypes
    <3>4. AppendInv'
      BY <2>0, <3>1, <1>1, <1>2, WatchStep DEF Watching
    <3>5. Handled(b) \subseteq Handled(b)'
      BY <2>0, <1>2 DEF Handled, Appending
    <3>6. FollowInv'
      BY <2>0, <3>1, <3>3, <3>5, <1>1, <1>2, StayStep DEF Appending
    <3> QED
      BY <3>4, <3>6
  <2> QED
    BY <2>1, <2>2
<1>6. CASE ReadRest(b)
  <2>3. pc[b] = "read" /\ item' = item /\ item[b] = None /\ r.fd # None /\ Line(b) = <<>>
    BY <1>1, <1>6 DEF ReadRest, Appending, ReaderInv
  <2>0. pc[b] = "read" /\ item' = item /\ item[b] = None /\ r.fd # None /\ Ends(Ahead(b)) = {}
    BY <2>3, AheadCells, NoLine
  <2>5. /\ files[r.fd] \in Seq(LCells) /\ Ahead(b) \in Seq(LCells)
        /\ r.position + Len(Ahead(b)) \in Positions
        /\ CaughtUp(r, files[r.fd], target[b], Handled(b)) =>
             /\ \A k \in 1..Len(Ahead(b)) : Ahead(b)[k] = files[r.fd][r.position + k]
             /\ r.position + Len(Ahead(b)) = Len(files[r.fd])
    BY <2>0, AheadCells
  <2>1. CASE Following[b]
    <3> DEFINE q == [r EXCEPT !.partial = Len(Ahead(b))]
    <3>1. pc' = [pc EXCEPT ![b] = "open"] /\ reader' = [reader EXCEPT ![b] = q]
      BY <2>1, <1>6 DEF ReadRest, Set, Goto
    <3>7. Len(Ahead(b)) \in Positions
      <4>1. r.position \in Nat /\ Len(Ahead(b)) \in Nat /\ r.position + Len(Ahead(b)) <= 2 * MaxRecords
        BY <2>5, <1>1, ExportAssumption DEF Reader, Positions
      <4> QED
        BY <4>1, ExportAssumption DEF Positions
    <3>2. /\ q \in Reader /\ q.fd = r.fd /\ q.identity = r.identity /\ q.position = r.position
          /\ q.backlog = r.backlog /\ q.tail = r.tail /\ q.cache = r.cache
      BY <3>7, <1>1 DEF Reader
    <3> HIDE DEF q
    <3>3. pc'[b] = "open" /\ \A o \in Processes : o # b => pc'[o] = pc[o]
      BY <3>1, <1>1 DEF HistoryTypes
    <3>4. AppendInv'
      BY <2>0, <3>1, <1>1, <1>2, WatchStep DEF Watching
    <3>5. Handled(b) \subseteq Handled(b)'
      BY <2>0, <1>2 DEF Handled, Appending
    <3>6. FollowInv'
      BY <2>0, <2>1, <3>1, <3>2, <3>3, <3>5, <1>2, StayStep DEF Appending
    <3> QED
      BY <3>4, <3>6
  <2>2. CASE ~Following[b]
    <3> DEFINE cells == files[r.fd]  ahead == Ahead(b)
    <3>1. pc' = [pc EXCEPT ![b] = "done"] /\ reader' = [reader EXCEPT ![b] = r]
      BY <2>2, <1>1, <1>6 DEF ReadRest, Goto
    <3>3. pc'[b] = "done" /\ \A o \in Processes : o # b => pc'[o] = pc[o]
      BY <3>1, <1>1 DEF HistoryTypes
    <3>4. AppendInv'
      BY <2>0, <2>2, <3>1, <1>1, <1>2, WatchStep DEF Watching
    <3>5. Handled(b) \subseteq Handled(b)'
      BY <2>0, <1>2 DEF Handled, Appending
    <3>7. target[b] \cap Complete(cells) \subseteq ReadableIn(history)
      <4> SUFFICES ASSUME NEW x \in target[b] \cap Complete(cells) PROVE x \in ReadableIn(history)
        OBVIOUS
      <4>1. CaughtUp(r, cells, target[b], Handled(b))
        BY <2>0, <2>2, <1>1 DEF TargetInv
      <4>2. PICK j \in 1..(Len(cells) - 1) :
              cells[j][1] = x /\ cells[j][2] = 1 /\ cells[j + 1] = <<cells[j][1], 2>>
        BY DEF Complete
      <4>7. Len(cells) \in Nat /\ Len(ahead) \in Nat
        BY <2>5, LenProperties
      <4>8. r.position \in Nat
        BY <1>1, ExportAssumption DEF Reader, Positions
      <4>9. j \in 1..Len(cells) /\ j + 1 \in 1..Len(cells)
        <5> HIDE DEF cells
        <5> QED
          BY <4>7
      <4>3. /\ Len(cells) \in Nat /\ j \in 1..Len(cells) /\ j + 1 \in 1..Len(cells)
            /\ r.position \in Nat /\ Len(ahead) \in Nat
        BY <4>7, <4>8, <4>9
      <4>4. cells[j] = <<x, 1>> /\ cells[j + 1][2] = 2
        BY <2>5, <4>2, <4>3, CellTypes
      <4>5. CASE j <= r.position
        <5>1. j \in 1..r.position
          BY <4>3, <4>5
        <5>2. x \in Handled(b)
          BY <4>1, <4>4, <5>1 DEF CaughtUp
        <5> QED
          BY <5>2, <2>0 DEF Handled, Appending
      <4>6. CASE j > r.position
        <5> DEFINE i == j + 1 - r.position
        <5>1. r.position + Len(ahead) = Len(cells)
          BY <2>5, <4>1
        <5>2. i \in 1..Len(ahead) /\ r.position + i = j + 1
          <6> HIDE DEF r, cells, ahead
          <6> QED
            BY SMTT(30), <4>3, <4>6, <5>1
        <5> HIDE DEF i
        <5>3. ahead[i] = cells[j + 1]
          BY <2>5, <4>1, <5>2
        <5>4. i \in Ends(ahead)
          <6>1. DOMAIN ahead = 1..Len(ahead)
            BY <2>5, LenProperties
          <6>2. ahead[i][2] = 2
            BY <4>4, <5>3
          <6> QED
            BY <5>2, <6>1, <6>2 DEF Ends
        <5> QED
          BY <2>0, <5>4
      <4> QED
        BY <4>3, <4>5, <4>6
    <3>6. FollowInv'
      BY <2>0, <3>1, <3>3, <3>5, <3>7, <1>1, <1>2, StayStep DEF Appending
    <3> QED
      BY <3>4, <3>6
  <2> QED
    BY <2>1, <2>2
<1>7. CASE Skip(b)
  <2>1. /\ pc[b] = "append" /\ item[b].rec \in seen[b] /\ pc' = [pc EXCEPT ![b] = "check"]
        /\ item' = [item EXCEPT ![b] = None] /\ reader' = [reader EXCEPT ![b] = r] /\ r.fd # None
    BY <1>1, <1>7 DEF Skip, Goto, ReaderInv, Appending
  <2>2. /\ pc'[b] = "check" /\ item'[b] = None
        /\ \A o \in Processes : o # b => pc'[o] = pc[o] /\ item'[o] = item[o]
        /\ item' \in [Processes -> Items \cup {None}]
    BY <2>1, <1>1 DEF HistoryTypes
  <2>3. AppendInv'
    BY <2>1, <2>2, <1>2, WatchStep DEF Watching
  <2>4. Handled(b) \subseteq Handled(b)'
    BY <2>1, <1>1, <1>2 DEF Handled, HistoryInv
  <2>5. FollowInv'
    BY <2>1, <2>2, <2>4, <1>1, <1>2, StayStep DEF Appending
  <2> QED
    BY <2>3, <2>5
<1> QED
  BY <1>3, <1>4, <1>5, <1>6, <1>7
-----------------------------------------------------------------------------
(* The steps of a bridge that appends, for what it follows.                *)
LEMMA AppendingSteps ==
  ASSUME AppendInv, FollowInv, NEW b \in Processes,
         Load(b) \/ Lock(b) \/ Write(b) \/ WriteFails(b) \/ Linger(b)
  PROVE  AppendInv' /\ FollowInv'
<1> DEFINE r == reader[b]
<1>1. /\ HistoryTypes /\ ProcessInv /\ HistoryInv /\ r \in Reader /\ ReaderInv(b)
      /\ reader \in [Processes -> Reader]
  BY DEF AppendInv, FollowInv, FollowTypes
<1>2. pc[b] \in Labels /\ pc \in [Processes -> Labels] /\ item \in [Processes -> Items \cup {None}]
  BY <1>1 DEF HistoryTypes
<1>3. reader' = [reader EXCEPT ![b] = r] /\ UNCHANGED <<files, path, inodes, logged, changes, old, target>>
  BY <1>1 DEF Load, Lock, Write, WriteFails, Linger, logger, bridge, ghosts
<1> HIDE DEF r
<1>4. CASE Load(b)
  <2>1. AppendInv'
    BY <1>4, LoadStep
  <2>2. pc[b] = "new" /\ pc' = [pc EXCEPT ![b] = "begin"] /\ item' = item /\ history' = history
    BY <1>4 DEF Load, Goto
  <2>3. pc'[b] = "begin" /\ \A o \in Processes : o # b => pc'[o] = pc[o] /\ item'[o] = item[o]
    BY <2>2, <1>2
  <2>4. Handled(b) \subseteq Handled(b)' /\ ReadableIn(history) \subseteq ReadableIn(history')
    BY <2>2 DEF Handled, Appending
  <2>5. reader[b].fd = None
    BY <1>1, <2>2 DEF ReaderInv
  <2>6. FollowInv'
    BY <2>2, <2>3, <2>4, <2>5, <1>1, <1>3, StayStep DEF r, Appending
  <2> QED
    BY <2>1, <2>6
<1>5. CASE Lock(b)
  <2>1. AppendInv'
    BY <1>5, LockStep
  <2>2. pc[b] = "append" /\ pc' = [pc EXCEPT ![b] = "write"] /\ item' = item /\ history' = history
    BY <1>5 DEF Lock, Goto
  <2>3. pc'[b] = "write" /\ \A o \in Processes : o # b => pc'[o] = pc[o] /\ item'[o] = item[o]
    BY <2>2, <1>2
  <2>4. Handled(b) \subseteq Handled(b)' /\ ReadableIn(history) \subseteq ReadableIn(history')
    BY <2>2, <2>3 DEF Handled, Appending
  <2>5. reader[b].fd # None
    BY <1>1, <2>2 DEF ReaderInv, Appending
  <2>6. FollowInv'
    BY <2>2, <2>3, <2>4, <2>5, <1>1, <1>3, StayStep DEF r
  <2> QED
    BY <2>1, <2>6
<1>6. CASE Write(b)
  <2>1. AppendInv' /\ ReadableIn(history) \subseteq ReadableIn(history')
    BY <1>6, WriteStep
  <2>2. /\ pc[b] = "write" /\ pc' = [pc EXCEPT ![b] = "check"] /\ item' = [item EXCEPT ![b] = None]
        /\ seen' = [seen EXCEPT ![b] = seen[b] \cup {item[b].rec}]
    BY <1>6 DEF Write, Goto
  <2>3. /\ pc'[b] = "check" /\ item'[b] = None
        /\ \A o \in Processes : o # b => pc'[o] = pc[o] /\ item'[o] = item[o]
    BY <2>2, <1>2
  <2>4. item[b].rec \in seen'[b]
    BY <1>1, <2>2 DEF HistoryTypes
  <2>5. HistoryInv'
    BY <2>1 DEF AppendInv
  <2>6. item[b].rec \in ReadableIn(history')
    BY <2>4, <2>5 DEF HistoryInv
  <2>7. Handled(b) \subseteq Handled(b)'
    BY <2>1, <2>6 DEF Handled
  <2>8. reader[b].fd # None
    BY <1>1, <2>2 DEF ReaderInv, Appending
  <2>9. FollowInv'
    BY <2>1, <2>2, <2>3, <2>7, <2>8, <1>1, <1>3, StayStep DEF r, Appending
  <2> QED
    BY <2>1, <2>9
<1>7. CASE WriteFails(b)
  <2>1. AppendInv' /\ ReadableIn(history) \subseteq ReadableIn(history')
    BY <1>7, WriteFailsStep
  <2>2. pc[b] = "write" /\ pc' = [pc EXCEPT ![b] = "close"] /\ item' = item
    BY <1>7 DEF WriteFails, Goto
  <2>3. pc'[b] = "close" /\ \A o \in Processes : o # b => pc'[o] = pc[o] /\ item'[o] = item[o]
    BY <2>2, <1>2
  <2>4. Handled(b) \subseteq Handled(b)'
    BY <2>1, <2>2, <2>3 DEF Handled, Appending
  <2>5. reader[b].fd # None
    BY <1>1, <2>2 DEF ReaderInv, Appending
  <2>6. FollowInv'
    BY <2>1, <2>2, <2>3, <2>4, <2>5, <1>1, <1>3, StayStep DEF r
  <2> QED
    BY <2>1, <2>6
<1>8. CASE Linger(b)
  <2>1. AppendInv' /\ ReadableIn(history) \subseteq ReadableIn(history')
    BY <1>8, LingerStep
  <2>2. pc[b] = "write" /\ pc' = [pc EXCEPT ![b] = "lingering"] /\ item' = item
    BY <1>8 DEF Linger, Goto, bridge
  <2>3. pc'[b] = "lingering" /\ \A o \in Processes : o # b => pc'[o] = pc[o] /\ item'[o] = item[o]
    BY <2>2, <1>2
  <2>4. Handled(b) \subseteq Handled(b)'
    BY <2>1, <2>2, <2>3 DEF Handled, Appending
  <2>5. reader[b].fd # None
    BY <1>1, <2>2 DEF ReaderInv, Appending
  <2>6. FollowInv'
    BY <2>1, <2>2, <2>3, <2>4, <2>5, <1>1, <1>3, StayStep DEF r
  <2> QED
    BY <2>1, <2>6
<1> QED
  BY <1>4, <1>5, <1>6, <1>7, <1>8

(* A bridge that opens the logger's file, and one that ends.               *)
LEMMA OpenStep ==
  ASSUME AppendInv, FollowInv, NEW b \in Processes, Open(b)
  PROVE  AppendInv' /\ FollowInv'
<1>1. pc[b] = "open" /\ pc' = [pc EXCEPT ![b] = "check"] /\ item' = item
  BY DEF Open, Goto
<1>2. HistoryTypes /\ item[b] = None
  BY <1>1 DEF AppendInv, ProcessInv, Appending
<1>3. UNCHANGED <<history, holder, seen, separator, residue, appended, lingered>>
  BY DEF Open
<1>4. AppendInv'
  BY <1>1, <1>2, <1>3, WatchStep DEF Watching, HistoryTypes
<1> QED
  BY <1>4, OpenFollow

LEMMA EndingSteps ==
  ASSUME AppendInv, FollowInv, NEW b \in Processes,
         (OpenMissing(b) /\ ~Following[b]) \/ Close(b) \/ Kill(b) \/ LateWrite(b)
  PROVE  AppendInv' /\ FollowInv'
<1>1. HistoryTypes /\ history \in Seq(HCells) /\ Once(history, lingered)
  BY DEF AppendInv, HistoryTypes, HistoryInv
<1>2. Die(b) /\ UNCHANGED <<appended, lingered>> /\ UNCHANGED <<files, path, inodes, logged, changes>>
  BY DEF OpenMissing, Close, Kill, LateWrite, logger
<1>3. AppendInv' /\ ReadableIn(history) \subseteq ReadableIn(history')
  <2>1. CASE OpenMissing(b)
    <3>1. pc[b] = "open" /\ history' = history
      BY <2>1 DEF OpenMissing
    <3> QED
      BY <3>1, <1>1, <1>2, DieStep DEF Gone
  <2>2. CASE Close(b)
    BY <2>2, CloseStep
  <2>3. CASE Kill(b)
    BY <2>3, KillStep
  <2>4. CASE LateWrite(b)
    BY <2>4, LateWriteStep
  <2> QED
    BY <2>1, <2>2, <2>3, <2>4
<1>4. FollowInv'
  BY <1>1, <1>2, <1>3, DieFollow
<1> QED
  BY <1>3, <1>4
-----------------------------------------------------------------------------
(* The inductive invariant.                                                *)
StepInv == AppendInv /\ FollowInv

LEMMA StartInv ==
  ASSUME Init
  PROVE  StepInv
<1>1. \A r \in 1..MaxRecords : RowsIn(<<>>, r) = {}
  <2>1. Len(<<>>) = 0
    OBVIOUS
  <2> QED
    BY <2>1 DEF RowsIn
<1>2. AppendInv
  <2>1. HistoryTypes
    BY DEF Init, HistoryTypes, Labels
  <2>2. ProcessInv
    BY ExportAssumption DEF Init, ProcessInv, Processes, Appending
  <2>3. HistoryInv
    BY <1>1 DEF Init, HistoryInv, Once, Watching
  <2>4. CloseInv
    BY DEF Init, CloseInv
  <2> QED
    BY <2>1, <2>2, <2>3, <2>4 DEF AppendInv
<1>3. Fresh \in Reader
  <2>1. 0 \in Positions /\ <<>> \in Seq(LCells)
    BY ExportAssumption DEF Positions
  <2> QED
    BY <2>1 DEF Fresh, Reader
<1>4. /\ \A b \in Processes : reader[b] = Fresh /\ pc[b] = "new" /\ item[b] = None
                              /\ old[b] = {} /\ target[b] = {}
      /\ \A i \in Inodes : files[i] = <<>>
      /\ path = None /\ inodes = 0 /\ logged = 0 /\ changes = 0
  BY DEF Init
<1>5. FollowTypes
  <2>1. files \in [Inodes -> Seq(LCells)] /\ reader \in [Processes -> Reader]
    BY <1>3 DEF Init
  <2>2. old \in [Processes -> SUBSET (1..MaxRecords)] /\ target \in [Processes -> SUBSET (1..MaxRecords)]
    BY DEF Init
  <2>3. logged \in 0..MaxRecords /\ inodes \in 0..(MaxChanges + 1) /\ changes \in 0..MaxChanges
        /\ inodes <= changes + 1 /\ inodes <= changes
    BY <1>4, ExportAssumption
  <2> QED
    BY <1>4, <2>1, <2>2, <2>3 DEF FollowTypes
<1>6. FilesInv
  <2>1. Len(<<>>) = 0
    OBVIOUS
  <2> QED
    BY <1>4, <2>1 DEF FilesInv, InOrder
<1>7. ASSUME NEW b \in Processes PROVE ReaderInv(b) /\ FreshInv(b) /\ TargetInv(b)
  <2>1. Fresh.position = 0 /\ Fresh.cache = <<>> /\ Fresh.tail = <<>> /\ Fresh.fd = None
        /\ Fresh.identity = None /\ Fresh.backlog = None
    BY DEF Fresh
  <2>2. Len(<<>>) = 0
    OBVIOUS
  <2>3. ReaderInv(b)
    BY <1>4, <2>1, <2>2, ExportAssumption DEF ReaderInv, Appending
  <2>4. FreshInv(b)
    BY <1>4, <2>1 DEF FreshInv
  <2>5. TargetInv(b)
    BY <1>4, <2>1 DEF TargetInv
  <2> QED
    BY <2>3, <2>4, <2>5
<1> QED
  BY <1>2, <1>5, <1>6, <1>7 DEF StepInv, FollowInv

LEMMA StepKeeps ==
  ASSUME StepInv, [Next]_vars
  PROVE  StepInv'
<1>1. AppendInv /\ FollowInv
  BY DEF StepInv
<1>2. CASE LogAction
  <2>1. FollowInv'
    BY <1>1, <1>2, LogStep
  <2>2. UNCHANGED <<history, holder, failures, pc, bridge, ghosts>>
    BY <1>1, <1>2, LogFiles DEF FollowInv
  <2>3. UNCHANGED <<history, holder, pc, seen, item, separator, residue, appended, lingered>>
    BY <2>2 DEF bridge, ghosts
  <2>4. AppendInv'
    BY <1>1, <2>3, LogAppend
  <2> QED
    BY <2>1, <2>4 DEF StepInv
<1>3. ASSUME NEW b \in Processes, Bridge(b) \/ Kill(b) \/ Linger(b) \/ LateWrite(b)
      PROVE  StepInv'
  <2>1. CASE \/ BeginIteration(b) \/ (OpenMissing(b) /\ Following[b]) \/ Check(b)
             \/ ReadRest(b) \/ Skip(b)
    BY <1>1, <2>1, WatchingSteps DEF StepInv
  <2>2. CASE Load(b) \/ Lock(b) \/ Write(b) \/ WriteFails(b) \/ Linger(b)
    BY <1>1, <2>2, AppendingSteps DEF StepInv
  <2>3. CASE Open(b)
    BY <1>1, <2>3, OpenStep DEF StepInv
  <2>4. CASE ReadLine(b)
    BY <1>1, <2>4, ReadLineStep DEF StepInv
  <2>5. CASE (OpenMissing(b) /\ ~Following[b]) \/ Close(b) \/ Kill(b) \/ LateWrite(b)
    BY <1>1, <2>5, EndingSteps DEF StepInv
  <2> QED
    BY <1>3, <2>1, <2>2, <2>3, <2>4, <2>5 DEF Bridge
<1>4. CASE UNCHANGED vars
  <2>1. /\ UNCHANGED <<history, holder, pc, seen, item, separator, residue, appended, lingered>>
        /\ UNCHANGED <<files, path, inodes, logged, changes, reader, old, target>>
    BY <1>4 DEF vars, logger, bridge, ghosts
  <2>2. AppendInv'
    BY <1>1, <2>1, LogAppend
  <2>3. \A b \in Processes : (ReaderInv(b) /\ FreshInv(b) /\ TargetInv(b))'
    BY <1>1, <2>1, OtherBridge
  <2>4. FollowTypes' /\ FilesInv'
    BY <1>1, <2>1 DEF FollowInv, FollowTypes, FilesInv
  <2> QED
    BY <2>2, <2>3, <2>4 DEF StepInv, FollowInv
<1> QED
  BY <1>2, <1>3, <1>4 DEF Next, LogAction
-----------------------------------------------------------------------------
(* What the invariant says of the properties.                              *)
LEMMA OnceFollows ==
  ASSUME StepInv
  PROVE  EachStepOnceUnlessLingering
<1> SUFFICES ASSUME NEW r \in (1..MaxRecords) \ lingered
             PROVE  Cardinality(Rows(r)) <= 1
  BY DEF EachStepOnceUnlessLingering
<1>1. Rows(r) = RowsIn(history, r)
  BY DEF Rows, RowsIn
<1>2. \A i, j \in RowsIn(history, r) : i = j
  BY DEF StepInv, AppendInv, HistoryInv, Once
<1>3. CASE RowsIn(history, r) = {}
  BY <1>1, <1>3, FS_EmptySet
<1>4. CASE RowsIn(history, r) # {}
  <2>1. PICK i \in RowsIn(history, r) : TRUE
    BY <1>4
  <2>2. RowsIn(history, r) = {i}
    BY <1>2, <2>1
  <2>3. Cardinality({i}) = 1
    BY FS_Singleton
  <2> QED
    BY <1>1, <2>2, <2>3
<1> QED
  BY <1>3, <1>4

LEMMA SoundFollows ==
  ASSUME StepInv
  PROVE  HistoryIsSound
<1>1. /\ HistoryTypes /\ ProcessInv /\ HistoryInv /\ FollowTypes
      /\ \A b \in Processes : ReaderInv(b) /\ FreshInv(b)
  BY DEF StepInv, AppendInv, FollowInv
<1>2. Readable = ReadableIn(history)
  BY DEF Readable, ReadableIn, Rows, RowsIn
<1>3. ASSUME NEW b \in Processes
      PROVE  /\ pc[b] \in {"write", "lingering"} <=> holder = b
             /\ seen[b] \subseteq 1..MaxRecords
             /\ reader[b].position \in Positions /\ reader[b].partial \in Positions
             /\ reader[b].backlog \in Positions \cup {None}
             /\ Len(reader[b].tail) <= reader[b].position
             /\ pc[b] \in {"check", "read", "append", "write"} => reader[b].fd \in Inodes
  <2>1. reader[b] \in Reader /\ seen[b] \in SUBSET (1..MaxRecords)
    BY <1>1 DEF FollowTypes, HistoryTypes
  <2>2. pc[b] \in {"check", "read", "append", "write"} => reader[b].fd # None
    BY <1>1 DEF ReaderInv, Appending
  <2>3. Len(reader[b].tail) <= reader[b].position
    BY <1>1 DEF ReaderInv
  <2>4. pc[b] \in {"write", "lingering"} <=> holder = b
    BY <1>1 DEF ProcessInv
  <2> QED
    BY <2>1, <2>2, <2>3, <2>4 DEF Reader
<1>4. path \in Inodes \cup {None} /\ logged \in 0..MaxRecords /\ holder \in Processes \cup {None}
  BY <1>1, ExportAssumption DEF FollowTypes, HistoryTypes, Inodes
<1>5. TypeOK
  BY <1>3, <1>4 DEF TypeOK
<1>6. AppendedStaysReadable
  BY <1>1, <1>2 DEF HistoryInv, AppendedStaysReadable
<1>7. LiveIsFresh
  BY <1>1 DEF FreshInv, LiveIsFresh
<1> QED
  BY <1>5, <1>6, <1>7 DEF HistoryIsSound

LEMMA CompleteFollows ==
  ASSUME StepInv
  PROVE  FinalExportIsComplete
<1>1. Readable = ReadableIn(history)
  BY DEF Readable, ReadableIn, Rows, RowsIn
<1>2. \A b \in Processes : TargetInv(b)
  BY DEF StepInv, FollowInv
<1> QED
  BY <1>1, <1>2 DEF TargetInv, FinalExportIsComplete
-----------------------------------------------------------------------------
THEOREM StepInvariant == Spec => []StepInv
BY StartInv, StepKeeps, PTL DEF Spec

(* Each record is persisted once, however often bridges are killed and     *)
(* started again, the logger's file replaced and rows cut short, unless    *)
(* its write outlived its bridge: StepHistoryWriter.append reads what the  *)
(* history has before it adds to it.                                       *)
THEOREM OnceUnlessLingering == Spec => []EachStepOnceUnlessLingering
BY StepInvariant, OnceFollows, PTL

(* What append_jsonl has appended stays readable after every later append, *)
(* cut short or not, and iter_file_records gives a time window only to     *)
(* what was logged while it watched.                                       *)
THEOREM SoundHistory == Spec => []HistoryIsSound
BY StepInvariant, SoundFollows, PTL

(* A bridge that ends of itself has persisted every complete line its file *)
(* had when it was opened and still has.                                   *)
THEOREM CompleteExport == Spec => []FinalExportIsComplete
BY StepInvariant, CompleteFollows, PTL
=============================================================================
