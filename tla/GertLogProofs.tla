--------------------------- MODULE GertLogProofs ---------------------------
(***************************************************************************)
(* The two walks of git_log agree, for every history, limit and filter.    *)
(*                                                                         *)
(* The argument: after either walk has passed commit b, its counter is the *)
(* number of included commits up to b (LogInv).  The first walk therefore  *)
(* ends with the number of all included commits or, at max, one too many;  *)
(* the second can come out short only in the latter case.                  *)
(***************************************************************************)
EXTENDS GertLog, FiniteSetTheorems, TLAPS

\* The included commits among the first b.
UpTo(b) == {c \in 1 .. b : Include(c)}

\* The rows hold the included commits among the first b, in order.
RowsHold(b) ==
  /\ \A j, k \in 1 .. Len(rows) : j < k => rows[j] < rows[k]
  /\ {rows[j] : j \in 1 .. Len(rows)} = UpTo(b)

\* The number of rows is right or, when the first walk stopped at max before
\* the last commit, at most one too high.
Allocated ==
  \/ len = Cardinality(UpTo(Last)) /\ len <= query.max
  \/ len = query.max /\ Cardinality(UpTo(Last - 1)) >= query.max - 1

LogInv ==
  /\ pc = "count" =>
       /\ i = Cardinality(UpTo(x - 1)) + 1
       /\ i <= query.max \/ i = 1
       /\ rows = <<>>
  /\ pc = "list" =>
       /\ Allocated /\ i <= len
       /\ \E b \in 0 .. Last :
            /\ RowsHold(b) /\ i = Cardinality(UpTo(b))
            /\ i < len => b = x - 1
  /\ pc = "done" /\ query.call = "log" =>
       /\ Allocated
       /\ \E b \in 0 .. Last : RowsHold(b) /\ len = Cardinality(UpTo(b))
  /\ pc = "error" /\ query.call = "log" =>
       /\ Allocated
       /\ Cardinality(UpTo(Last)) < len

\* The commits among the first b that touch f.
Touching(f, b) == {c \in 1 .. b : f \in Line[c].touched}

\* The row of f sums up the first b commits.
Summary(f, b) ==
  /\ stat[f].commits = Cardinality(Touching(f, b))
  /\ Touching(f, b) = {} => stat[f] = NoStat
  /\ Touching(f, b) # {} =>
       /\ stat[f].head \in Touching(f, b)
       /\ \A c \in Touching(f, b) : stat[f].head <= c
       /\ \E c \in Touching(f, b) : /\ stat[f].created = Line[c].time
                                    /\ \A d \in Touching(f, b) : d <= c

StatInv ==
  /\ pc = "stat" =>
       /\ i = x - 1 /\ i <= query.max
       /\ \A f \in Files : Summary(f, i)
  /\ pc = "done" /\ query.call = "stat" =>
       \E b \in 0 .. Last :
         /\ b = query.max \/ (b = Last /\ b <= query.max)
         /\ \A f \in Files : Summary(f, b)

\* Which loop runs is decided by the call.
LoopOfCall ==
  /\ pc \in {"count", "list"} => query.call = "log"
  /\ pc = "stat" => query.call = "stat"

IInv == TypeOK /\ LoopOfCall /\ LogInv /\ StatInv

-----------------------------------------------------------------------------
(* How the counted sets grow.                                              *)

\* A history has at least one commit.
LEMMA LastType ==
  ASSUME hist \in History
  PROVE  Last \in Nat /\ Last >= 1 /\ \A c \in 1 .. Last : Line[c] \in Commit
BY DEF History, Line, Last

\* One more commit is one more element or none.
LEMMA UpToGrows ==
  ASSUME NEW b \in Nat
  PROVE  /\ IsFiniteSet(UpTo(b)) /\ Cardinality(UpTo(b)) \in 0 .. b
         /\ UpTo(b + 1) = IF Include(b + 1) THEN UpTo(b) \cup {b + 1} ELSE UpTo(b)
         /\ Cardinality(UpTo(b + 1)) =
              IF Include(b + 1) THEN Cardinality(UpTo(b)) + 1
                                ELSE Cardinality(UpTo(b))
<1>1. IsFiniteSet(1 .. b) /\ Cardinality(1 .. b) = b
  BY FS_Interval
<1>2. UpTo(b) \subseteq 1 .. b
  BY DEF UpTo
<1>3. IsFiniteSet(UpTo(b)) /\ Cardinality(UpTo(b)) <= b
  BY <1>1, <1>2, FS_Subset
<1>4. Cardinality(UpTo(b)) \in Nat
  BY <1>3, FS_CardinalityType
<1>5. UpTo(b + 1) = IF Include(b + 1) THEN UpTo(b) \cup {b + 1} ELSE UpTo(b)
  BY DEF UpTo
<1>6. b + 1 \notin UpTo(b)
  BY DEF UpTo
<1>7. Cardinality(UpTo(b) \cup {b + 1}) = Cardinality(UpTo(b)) + 1
  BY <1>3, <1>6, FS_AddElement
<1> QED
  BY <1>3, <1>4, <1>5, <1>7

\* The same, seen from the commit that is passed.
LEMMA UpToPassed ==
  ASSUME NEW c \in Nat, c >= 1
  PROVE  /\ Cardinality(UpTo(c - 1)) \in Nat /\ Cardinality(UpTo(c)) \in Nat
         /\ Include(c) => /\ UpTo(c) = UpTo(c - 1) \cup {c}
                          /\ Cardinality(UpTo(c)) = Cardinality(UpTo(c - 1)) + 1
         /\ ~Include(c) => UpTo(c) = UpTo(c - 1)
<1> DEFINE b == c - 1
<1>1. b \in Nat /\ b + 1 = c
  OBVIOUS
<1> HIDE DEF b
<1>2. Cardinality(UpTo(b)) \in Nat /\ Cardinality(UpTo(b + 1)) \in Nat
  <2>1. Cardinality(UpTo(b)) \in 0 .. b
    BY <1>1, UpToGrows
  <2>2. Cardinality(UpTo(b + 1)) \in 0 .. b + 1
    BY <1>1, UpToGrows
  <2> QED
    BY <1>1, <2>1, <2>2
<1>3. Include(b + 1) => /\ UpTo(b + 1) = UpTo(b) \cup {b + 1}
                        /\ Cardinality(UpTo(b + 1)) = Cardinality(UpTo(b)) + 1
  BY <1>1, UpToGrows
<1>4. ~Include(b + 1) => UpTo(b + 1) = UpTo(b)
  BY <1>1, UpToGrows
<1> QED
  BY <1>1, <1>2, <1>3, <1>4 DEF b

\* A longer stretch of the history includes no fewer commits.
LEMMA UpToMonotone ==
  ASSUME NEW a \in Nat, NEW b \in Nat, a <= b
  PROVE  /\ UpTo(a) \subseteq UpTo(b)
         /\ Cardinality(UpTo(a)) <= Cardinality(UpTo(b))
         /\ Cardinality(UpTo(a)) = Cardinality(UpTo(b)) => UpTo(a) = UpTo(b)
<1>1. UpTo(a) \subseteq UpTo(b)
  BY DEF UpTo
<1>2. IsFiniteSet(UpTo(b))
  BY UpToGrows
<1> QED
  BY <1>1, <1>2, FS_Subset

\* The same for the commits that touch one file.
LEMMA TouchingGrows ==
  ASSUME NEW b \in Nat, NEW f
  PROVE  /\ IsFiniteSet(Touching(f, b)) /\ Cardinality(Touching(f, b)) \in 0 .. b
         /\ Touching(f, b) = {} <=> Cardinality(Touching(f, b)) = 0
         /\ Touching(f, b + 1) =
              IF f \in Line[b + 1].touched THEN Touching(f, b) \cup {b + 1}
                                           ELSE Touching(f, b)
         /\ Cardinality(Touching(f, b + 1)) =
              IF f \in Line[b + 1].touched THEN Cardinality(Touching(f, b)) + 1
                                           ELSE Cardinality(Touching(f, b))
<1>1. IsFiniteSet(1 .. b) /\ Cardinality(1 .. b) = b
  BY FS_Interval
<1>2. Touching(f, b) \subseteq 1 .. b
  BY DEF Touching
<1>3. IsFiniteSet(Touching(f, b)) /\ Cardinality(Touching(f, b)) <= b
  BY <1>1, <1>2, FS_Subset
<1>4. Cardinality(Touching(f, b)) \in Nat
  BY <1>3, FS_CardinalityType
<1>5. Touching(f, b + 1) =
        IF f \in Line[b + 1].touched THEN Touching(f, b) \cup {b + 1}
                                     ELSE Touching(f, b)
  BY DEF Touching
<1>6. b + 1 \notin Touching(f, b)
  BY DEF Touching
<1>7. Cardinality(Touching(f, b) \cup {b + 1}) = Cardinality(Touching(f, b)) + 1
  BY <1>3, <1>6, FS_AddElement
<1>8. Touching(f, b) = {} <=> Cardinality(Touching(f, b)) = 0
  BY <1>3, FS_EmptySet
<1> QED
  BY <1>3, <1>4, <1>5, <1>7, <1>8

-----------------------------------------------------------------------------
(* The invariant is inductive.                                             *)

LEMMA InitIInv == Init => IInv
<1> SUFFICES ASSUME Init PROVE IInv
  OBVIOUS
<1>1. hist \in History /\ query \in Query
  BY HistoryAssumption, QueryAssumption DEF Init
<1>2. Last \in Nat /\ Last >= 1
  BY <1>1, LastType
<1>3. query.call \in {"log", "stat"} /\ query.max \in Nat
  BY <1>1 DEF Query
<1>4. TypeOK
  BY <1>1, <1>2, <1>3 DEF Init, TypeOK, NoStat
<1>5. UpTo(0) = {} /\ Cardinality(UpTo(0)) = 0
  BY FS_EmptySet DEF UpTo
<1>6. \A f \in Files : Touching(f, 0) = {} /\ Cardinality(Touching(f, 0)) = 0
  BY FS_EmptySet DEF Touching
<1>7. LogInv
  BY <1>3, <1>5 DEF Init, LogInv
<1>8. StatInv
  <2>1. \A f \in Files : Summary(f, 0)
    BY <1>6 DEF Init, Summary, NoStat
  <2> QED
    BY <1>3, <2>1 DEF Init, StatInv
<1> QED
  BY <1>3, <1>4, <1>7, <1>8 DEF Init, IInv, LoopOfCall

\* Nothing that is defined on the history and the call changes.
LEMMA Same ==
  ASSUME UNCHANGED <<hist, query>>
  PROVE  /\ Last' = Last /\ Line' = Line
         /\ \A b : UpTo(b)' = UpTo(b)
         /\ \A f, b : Touching(f, b)' = Touching(f, b)
BY DEF Last, Line, UpTo, Include, HasDiff, Touching

LEMMA CountStepIInv == IInv /\ CountStep => IInv'
<1> SUFFICES ASSUME IInv, CountStep PROVE IInv'
  OBVIOUS
<1> USE DEF IInv
<1>1. /\ pc = "count" /\ query.call = "log" /\ query.max \in Nat /\ i < query.max
      /\ x \in 1 .. Last /\ i \in Nat
      /\ i = Cardinality(UpTo(x - 1)) + 1 /\ rows = <<>>
      /\ UNCHANGED <<hist, query, rows, stat>>
  BY DEF CountStep, TypeOK, LogInv, LoopOfCall, Query
<1>2. Last \in Nat /\ Last >= 1
  BY LastType DEF TypeOK
<1>3. /\ Last' = Last /\ \A b : UpTo(b)' = UpTo(b)
      /\ \A f, b : Touching(f, b)' = Touching(f, b)
  BY <1>1, Same
<1> DEFINE n == IF Include(x) THEN i ELSE i - 1
<1>4. x - 1 \in Nat /\ (x - 1) + 1 = x
  BY <1>1, <1>2
<1>5. n = Cardinality(UpTo(x)) /\ n \in Nat /\ n < query.max
  <2>1. /\ Cardinality(UpTo(x - 1)) \in Nat /\ Cardinality(UpTo(x)) \in Nat
        /\ Include(x) => Cardinality(UpTo(x)) = Cardinality(UpTo(x - 1)) + 1
        /\ ~Include(x) => UpTo(x) = UpTo(x - 1)
    BY <1>1, <1>2, UpToPassed
  <2> QED
    BY <1>1, <2>1
<1>6. CASE x = Last
  <2>1. pc' = "list" /\ len' = n /\ x' = 1 /\ i' = 0
    BY <1>6 DEF CountStep, Allocate
  <2>2. TypeOK'
    BY <1>1, <1>2, <1>3, <1>5, <2>1 DEF TypeOK
  <2>3. UpTo(0) = {} /\ Cardinality(UpTo(0)) = 0
    BY FS_EmptySet DEF UpTo
  <2>4. Allocated'
    BY <1>1, <1>3, <1>5, <1>6, <2>1 DEF Allocated
  <2>5. RowsHold(0)'
    BY <1>1, <1>3, <2>3 DEF RowsHold
  <2>6. LogInv'
    BY <1>2, <1>3, <1>5, <2>1, <2>3, <2>4, <2>5 DEF LogInv
  <2> QED
    BY <1>1, <2>1, <2>2, <2>6 DEF LoopOfCall, StatInv
<1>7. CASE x # Last
  <2>1. x' = x + 1 /\ i' = n + 1 /\ UNCHANGED <<pc, len>>
    BY <1>7 DEF CountStep
  <2>2. TypeOK'
    BY <1>1, <1>2, <1>3, <1>5, <1>7, <2>1 DEF TypeOK
  <2>3. LogInv'
    BY <1>1, <1>3, <1>5, <2>1 DEF LogInv
  <2> QED
    BY <1>1, <2>1, <2>2, <2>3 DEF LoopOfCall, StatInv
<1> QED
  BY <1>6, <1>7

LEMMA CountFullIInv == IInv /\ CountFull => IInv'
<1> SUFFICES ASSUME IInv, CountFull PROVE IInv'
  OBVIOUS
<1> USE DEF IInv
<1>1. /\ pc = "count" /\ query.call = "log" /\ query.max \in Nat /\ i >= query.max
      /\ x \in 1 .. Last /\ i \in Nat
      /\ i = Cardinality(UpTo(x - 1)) + 1 /\ rows = <<>>
      /\ i <= query.max \/ i = 1
      /\ pc' = "list" /\ len' = query.max /\ x' = 1 /\ i' = 0
      /\ UNCHANGED <<hist, query, rows, stat>>
  BY DEF CountFull, Allocate, TypeOK, LogInv, LoopOfCall, Query
<1>2. Last \in Nat /\ Last >= 1
  BY LastType DEF TypeOK
<1>3. /\ Last' = Last /\ \A b : UpTo(b)' = UpTo(b)
      /\ \A f, b : Touching(f, b)' = Touching(f, b)
  BY <1>1, Same
<1>4. x - 1 \in Nat /\ Last - 1 \in Nat /\ x - 1 <= Last - 1
  BY <1>1, <1>2
<1>5. /\ Cardinality(UpTo(x - 1)) <= Cardinality(UpTo(Last - 1))
      /\ Cardinality(UpTo(Last - 1)) \in Nat
      /\ Cardinality(UpTo(x - 1)) \in Nat
  <2>1. Cardinality(UpTo(x - 1)) <= Cardinality(UpTo(Last - 1))
    BY <1>4, UpToMonotone
  <2>2. Cardinality(UpTo(Last - 1)) \in Nat
    <3>1. Last \in Nat /\ Last >= 1
      BY <1>2
    <3> QED
      BY <3>1, UpToPassed
  <2>3. Cardinality(UpTo(x - 1)) \in Nat
    BY <1>1, <1>2, UpToPassed
  <2> QED
    BY <2>1, <2>2, <2>3
<1>6. Cardinality(UpTo(Last - 1)) >= query.max - 1
  BY <1>1, <1>5
<1>7. TypeOK'
  BY <1>1, <1>2, <1>3 DEF TypeOK
<1>8. UpTo(0) = {} /\ Cardinality(UpTo(0)) = 0
  BY FS_EmptySet DEF UpTo
<1>9. Allocated'
  BY <1>1, <1>3, <1>6 DEF Allocated
<1>10. RowsHold(0)'
  BY <1>1, <1>3, <1>8 DEF RowsHold
<1>11. LogInv'
  BY <1>1, <1>2, <1>3, <1>8, <1>9, <1>10 DEF LogInv
<1> QED
  BY <1>1, <1>7, <1>11 DEF LoopOfCall, StatInv

LEMMA ListStepIInv == IInv /\ ListStep => IInv'
<1> SUFFICES ASSUME IInv, ListStep PROVE IInv'
  OBVIOUS
<1> USE DEF IInv
<1>1. /\ pc = "list" /\ query.call = "log" /\ query.max \in Nat
      /\ i \in Nat /\ len \in Nat /\ len <= query.max /\ i < len
      /\ x \in 1 .. Last /\ rows \in Seq(1 .. Last) /\ Allocated
      /\ UNCHANGED <<hist, query, len, stat>>
  BY DEF ListStep, TypeOK, LogInv, LoopOfCall, Query
<1>2. Last \in Nat /\ Last >= 1 /\ x \in Nat /\ x >= 1
  BY <1>1, LastType DEF TypeOK
<1>3. /\ Last' = Last /\ \A b : UpTo(b)' = UpTo(b)
      /\ \A f, b : Touching(f, b)' = Touching(f, b)
  BY <1>1, Same
<1>4. RowsHold(x - 1) /\ i = Cardinality(UpTo(x - 1))
  BY <1>1 DEF LogInv
<1> DEFINE n == IF Include(x) THEN i ELSE i - 1
<1>5. n + 1 = Cardinality(UpTo(x)) /\ n + 1 \in Nat /\ n < len
  <2>1. /\ Cardinality(UpTo(x - 1)) \in Nat /\ Cardinality(UpTo(x)) \in Nat
        /\ Include(x) => Cardinality(UpTo(x)) = Cardinality(UpTo(x - 1)) + 1
        /\ ~Include(x) => UpTo(x) = UpTo(x - 1)
    BY <1>2, UpToPassed
  <2> QED
    BY <1>1, <1>4, <2>1
<1>6. rows' = IF Include(x) THEN Append(rows, x) ELSE rows
  BY DEF ListStep
<1>7. i' = n + 1
  BY DEF ListStep
<1>8. rows' \in Seq(1 .. Last)
  <2>1. Include(x) => rows' = Append(rows, x)
    BY <1>6
  <2>2. Append(rows, x) \in Seq(1 .. Last)
    BY <1>1
  <2> QED
    BY <1>1, <1>6, <2>1, <2>2
<1> PICK c \in 1 .. Last : c = x
  BY <1>1
<1>9. RowsHold(c)'
  <2>1. CASE ~Include(x)
    <3>1. UpTo(x) = UpTo(x - 1)
      BY <1>2, <2>1, UpToPassed
    <3> QED
      BY <1>3, <1>4, <1>6, <2>1, <3>1 DEF RowsHold
  <2>2. CASE Include(x)
    <3>1. UpTo(x) = UpTo(x - 1) \cup {x}
      BY <1>2, <2>2, UpToPassed
    <3>2. /\ Len(rows) \in Nat /\ Len(rows') = Len(rows) + 1
          /\ rows'[Len(rows) + 1] = x
          /\ \A j \in 1 .. Len(rows) : rows'[j] = rows[j]
      BY <1>1, <1>6, <2>2
    <3>3. \A j \in 1 .. Len(rows) : rows[j] \in UpTo(x - 1)
      BY <1>4 DEF RowsHold
    <3>4. \A j \in 1 .. Len(rows) : rows[j] \in Nat /\ rows[j] < x
      BY <1>2, <3>3 DEF UpTo
    <3>5. \A j, k \in 1 .. Len(rows') : j < k => rows'[j] < rows'[k]
      <4>1. \A j, k \in 1 .. Len(rows) : j < k => rows[j] < rows[k]
        BY <1>4 DEF RowsHold
      <4> SUFFICES ASSUME NEW j \in 1 .. Len(rows'), NEW k \in 1 .. Len(rows'),
                          j < k
                   PROVE  rows'[j] < rows'[k]
        OBVIOUS
      <4>2. j \in 1 .. Len(rows) /\ (k \in 1 .. Len(rows) \/ k = Len(rows) + 1)
        BY <3>2
      <4> QED
        BY <3>2, <3>4, <4>1, <4>2
    <3>6. {rows'[j] : j \in 1 .. Len(rows')} = UpTo(x)
      <4>1. 1 .. Len(rows') = (1 .. Len(rows)) \cup {Len(rows) + 1}
        BY <3>2
      <4>2. {rows'[j] : j \in 1 .. Len(rows)} = {rows[j] : j \in 1 .. Len(rows)}
        BY <3>2
      <4>3. {rows[j] : j \in 1 .. Len(rows)} = UpTo(x - 1)
        BY <1>4 DEF RowsHold
      <4>4. {rows'[j] : j \in 1 .. Len(rows')} =
               {rows'[j] : j \in 1 .. Len(rows)} \cup {rows'[Len(rows) + 1]}
        BY <4>1
      <4> QED
        BY <3>1, <3>2, <4>2, <4>3, <4>4
    <3> QED
      BY <1>3, <3>5, <3>6 DEF RowsHold
  <2> QED
    BY <2>1, <2>2
<1>10. Allocated'
  BY <1>1, <1>3 DEF Allocated
<1>11. CASE n < len - 1 /\ x < Last
  <2>1. x' = x + 1 /\ pc' = pc
    <3>1. i < len /\ (IF Include(x) THEN i ELSE i - 1) < len - 1 /\ x < Last
      BY <1>1, <1>11
    <3> QED
      BY <3>1 DEF ListStep
  <2>2. TypeOK'
    BY <1>1, <1>2, <1>3, <1>5, <1>7, <1>8, <1>11, <2>1 DEF TypeOK
  <2>3. c \in 0 .. Last /\ c = x' - 1 /\ i' <= len
    BY <1>1, <1>2, <1>5, <1>7, <1>11, <2>1
  <2>4. LogInv'
    <3>1. RowsHold(c)' /\ i' = Cardinality(UpTo(c)')
      BY <1>3, <1>5, <1>7, <1>9
    <3> QED
      BY <1>1, <1>3, <1>10, <2>1, <2>3, <3>1 DEF LogInv
  <2> QED
    BY <1>1, <2>1, <2>2, <2>4 DEF LoopOfCall, StatInv
<1>12. CASE n < len - 1 /\ x = Last
  <2>1. x' = x /\ pc' = "error"
    BY <1>12 DEF ListStep
  <2>2. TypeOK'
    BY <1>1, <1>2, <1>3, <1>5, <1>7, <1>8, <2>1 DEF TypeOK
  <2>3. Cardinality(UpTo(Last)) < len
    BY <1>1, <1>5, <1>12
  <2>4. LogInv'
    BY <1>1, <1>3, <1>10, <2>1, <2>3 DEF LogInv
  <2> QED
    BY <1>1, <2>1, <2>2, <2>4 DEF LoopOfCall, StatInv
<1>13. CASE ~(n < len - 1)
  <2>1. x' = x /\ pc' = pc
    BY <1>13 DEF ListStep
  <2>2. TypeOK'
    BY <1>1, <1>2, <1>3, <1>5, <1>7, <1>8, <2>1 DEF TypeOK
  <2>3. c \in 0 .. Last /\ i' = len
    BY <1>1, <1>2, <1>5, <1>7, <1>13
  <2>4. LogInv'
    <3>1. RowsHold(c)' /\ i' = Cardinality(UpTo(c)')
      BY <1>3, <1>5, <1>7, <1>9
    <3> QED
      BY <1>1, <1>3, <1>10, <2>1, <2>3, <3>1 DEF LogInv
  <2> QED
    BY <1>1, <2>1, <2>2, <2>4 DEF LoopOfCall, StatInv
<1> QED
  BY <1>1, <1>2, <1>11, <1>12, <1>13

LEMMA ListReturnIInv == IInv /\ ListReturn => IInv'
<1> SUFFICES ASSUME IInv, ListReturn PROVE IInv'
  OBVIOUS
<1> USE DEF IInv
<1>1. /\ pc = "list" /\ query.call = "log" /\ i \in Nat /\ len \in Nat
      /\ i >= len /\ i <= len /\ Allocated /\ pc' = "done"
      /\ UNCHANGED <<hist, query, x, i, len, rows, stat>>
  BY DEF ListReturn, TypeOK, LogInv, LoopOfCall, Query
<1>2. PICK b \in 0 .. Last : RowsHold(b) /\ i = Cardinality(UpTo(b))
  BY <1>1 DEF LogInv
<1>3. /\ Last' = Last /\ \A a : UpTo(a)' = UpTo(a)
  BY <1>1, Same
<1>4. TypeOK'
  BY <1>1, <1>3 DEF TypeOK
<1>5. Allocated' /\ RowsHold(b)' /\ len' = Cardinality(UpTo(b)')
  BY <1>1, <1>2, <1>3 DEF Allocated, RowsHold
<1>6. LogInv'
  BY <1>1, <1>2, <1>3, <1>5 DEF LogInv
<1> QED
  BY <1>1, <1>4, <1>6 DEF LoopOfCall, StatInv

LEMMA StatStepIInv == IInv /\ StatStep => IInv'
<1> SUFFICES ASSUME IInv, StatStep PROVE IInv'
  OBVIOUS
<1> USE DEF IInv
<1>1. /\ pc = "stat" /\ query.call = "stat" /\ query.max \in Nat
      /\ i \in Nat /\ i < query.max /\ x \in 1 .. Last /\ i = x - 1
      /\ hist \in History
      /\ stat \in [Files -> [commits : 0 .. Last, head : 0 .. Last, created : Nat]]
      /\ UNCHANGED <<hist, query, len, rows>>
  BY DEF StatStep, TypeOK, StatInv, LoopOfCall, Query
<1>2. Last \in Nat /\ Last >= 1 /\ x \in Nat /\ x >= 1 /\ Line[x].time \in Nat
  BY <1>1, LastType DEF Commit
<1>3. /\ Last' = Last /\ Line' = Line /\ \A b : UpTo(b)' = UpTo(b)
      /\ \A f, b : Touching(f, b)' = Touching(f, b)
  BY <1>1, Same
<1>4. CASE ~HasDiff(x)
  <2>1. pc' = "error" /\ UNCHANGED <<x, i, stat>>
    BY <1>4 DEF StatStep
  <2> QED
    BY <1>1, <1>3, <2>1 DEF TypeOK, LogInv, LoopOfCall, StatInv
<1>5. CASE HasDiff(x)
  <2>1. stat' = [f \in Files |->
          IF f \in Line[x].touched THEN Counted(stat[f], x) ELSE stat[f]]
    BY <1>5 DEF StatStep
  <2> PICK c \in 1 .. Last : c = x
    BY <1>1
  <2>2. c = i + 1 /\ c \in Nat
    BY <1>1, <1>2
  <2>3. ASSUME NEW f \in Files
        PROVE  /\ stat'[f] \in [commits : 0 .. Last, head : 0 .. Last, created : Nat]
               /\ Summary(f, c)'
    <3>1. Summary(f, i)
      BY <1>1 DEF StatInv
    <3>2. /\ Cardinality(Touching(f, i)) \in 0 .. i
          /\ Touching(f, i) = {} <=> Cardinality(Touching(f, i)) = 0
      BY <1>1, TouchingGrows
    <3>3. CASE f \notin Line[x].touched
      <4>1. Touching(f, c) = Touching(f, i) /\ stat'[f] = stat[f]
        BY <1>1, <2>1, <2>2, <3>3, TouchingGrows
      <4> QED
        BY <1>1, <1>3, <3>1, <4>1 DEF Summary
    <3>4. CASE f \in Line[x].touched
      <4>1. /\ Touching(f, c) = Touching(f, i) \cup {c}
            /\ Cardinality(Touching(f, c)) = Cardinality(Touching(f, i)) + 1
        BY <1>1, <2>2, <3>4, TouchingGrows
      <4>2. stat'[f] = [commits |-> stat[f].commits + 1,
                        head |-> IF stat[f].commits = 0 THEN c ELSE stat[f].head,
                        created |-> Line[c].time]
        BY <2>1, <3>4 DEF Counted
      <4>3. \A d \in Touching(f, i) : d \in Nat /\ d < c
        BY <1>1, <2>2 DEF Touching
      <4>4. stat[f].commits = Cardinality(Touching(f, i))
        BY <3>1 DEF Summary
      <4>5. stat'[f] \in [commits : 0 .. Last, head : 0 .. Last, created : Nat]
        <5>1. stat[f].commits + 1 \in 0 .. Last
          BY <1>1, <1>2, <3>2, <4>4
        <5>2. stat[f].head \in 0 .. Last /\ c \in 0 .. Last
          BY <1>1, <1>2
        <5> QED
          BY <1>2, <4>2, <5>1, <5>2
      <4>6. stat'[f].head \in Touching(f, c)
        BY <3>1, <3>2, <4>1, <4>2, <4>4 DEF Summary
      <4>7. \A d \in Touching(f, c) : stat'[f].head <= d
        <5>1. CASE stat[f].commits = 0
          BY <2>2, <3>2, <4>1, <4>2, <4>4, <5>1
        <5>2. CASE stat[f].commits # 0
          <6>1. /\ stat[f].head \in Touching(f, i)
                /\ \A d \in Touching(f, i) : stat[f].head <= d
            BY <3>1, <3>2, <4>4, <5>2 DEF Summary
          <6>2. stat[f].head <= c
            BY <2>2, <4>3, <6>1
          <6> QED
            BY <4>1, <4>2, <5>2, <6>1, <6>2
        <5> QED
          BY <5>1, <5>2
      <4>8. \A d \in Touching(f, c) : d <= c
        BY <2>2, <4>1, <4>3
      <4>9. c \in Touching(f, c) /\ stat'[f].created = Line[c].time
        BY <4>1, <4>2
      <4>10. stat'[f].commits = Cardinality(Touching(f, c))
        BY <4>1, <4>2, <4>4
      <4>11. Summary(f, c)'
        BY <1>3, <4>6, <4>7, <4>8, <4>9, <4>10 DEF Summary
      <4> QED
        BY <4>5, <4>11
    <3> QED
      BY <3>3, <3>4
  <2>4. stat' \in [Files -> [commits : 0 .. Last, head : 0 .. Last, created : Nat]]
    BY <2>1, <2>3
  <2>5. CASE x = Last
    <3>1. pc' = "done" /\ UNCHANGED <<x, i>>
      BY <1>5, <2>5 DEF StatStep
    <3>2. TypeOK'
      BY <1>1, <1>3, <2>4, <3>1 DEF TypeOK
    <3>3. c \in 0 .. Last /\ c = Last /\ c <= query.max
      BY <1>1, <1>2, <2>5
    <3>4. StatInv'
      BY <1>1, <1>3, <2>3, <3>1, <3>3 DEF StatInv
    <3> QED
      BY <1>1, <3>1, <3>2, <3>4 DEF LogInv, LoopOfCall
  <2>6. CASE x # Last
    <3>1. x' = x + 1 /\ i' = i + 1 /\ UNCHANGED pc
      BY <1>5, <2>6 DEF StatStep
    <3>2. TypeOK'
      BY <1>1, <1>2, <1>3, <2>4, <2>6, <3>1 DEF TypeOK
    <3>3. i' = c /\ i' = x' - 1 /\ i' <= query.max
      BY <1>1, <1>2, <2>2, <3>1
    <3>4. \A f \in Files : Summary(f, i)'
      <4>1. \A f \in Files : Summary(f, c)'
        BY <2>3
      <4> QED
        BY <3>3, <4>1 DEF Summary
    <3>5. StatInv'
      BY <1>1, <3>1, <3>3, <3>4 DEF StatInv
    <3> QED
      BY <1>1, <3>1, <3>2, <3>5 DEF LogInv, LoopOfCall
  <2> QED
    BY <2>5, <2>6
<1> QED
  BY <1>4, <1>5

LEMMA StatReturnIInv == IInv /\ StatReturn => IInv'
<1> SUFFICES ASSUME IInv, StatReturn PROVE IInv'
  OBVIOUS
<1> USE DEF IInv
<1>1. /\ pc = "stat" /\ query.call = "stat" /\ i \in Nat /\ i >= query.max
      /\ i <= query.max /\ query.max \in Nat /\ i = x - 1 /\ x \in 1 .. Last
      /\ pc' = "done" /\ UNCHANGED <<hist, query, x, i, len, rows, stat>>
      /\ \A f \in Files : Summary(f, i)
  BY DEF StatReturn, TypeOK, StatInv, LoopOfCall, Query
<1>2. /\ Last' = Last /\ Line' = Line
      /\ \A f, b : Touching(f, b)' = Touching(f, b)
  BY <1>1, Same
<1>3. Last \in Nat
  BY LastType DEF TypeOK
<1>4. TypeOK'
  BY <1>1, <1>2 DEF TypeOK
<1>5. PICK b \in 0 .. Last : b = i
  BY <1>1, <1>3
<1>6. b = query.max /\ \A f \in Files : Summary(f, b)'
  BY <1>1, <1>2, <1>5 DEF Summary
<1>7. StatInv'
  BY <1>1, <1>2, <1>6 DEF StatInv
<1> QED
  BY <1>1, <1>4, <1>7 DEF LogInv, LoopOfCall

LEMMA NextIInv == IInv /\ [Next]_vars => IInv'
<1> SUFFICES ASSUME IInv, [Next]_vars PROVE IInv'
  OBVIOUS
<1>1. CASE CountStep
  BY <1>1, CountStepIInv
<1>2. CASE CountFull
  BY <1>2, CountFullIInv
<1>3. CASE ListStep
  BY <1>3, ListStepIInv
<1>4. CASE ListReturn
  BY <1>4, ListReturnIInv
<1>5. CASE StatStep
  BY <1>5, StatStepIInv
<1>6. CASE StatReturn
  BY <1>6, StatReturnIInv
<1>7. CASE UNCHANGED vars
  <2>1. /\ UNCHANGED <<hist, query, pc, x, i, len, rows, stat>>
        /\ Last' = Last /\ Line' = Line
        /\ \A b : UpTo(b)' = UpTo(b)
        /\ \A f, b : Touching(f, b)' = Touching(f, b)
    BY <1>7, Same DEF vars
  <2>2. TypeOK'
    BY <2>1 DEF IInv, TypeOK
  <2>3. LogInv'
    BY <2>1 DEF IInv, LogInv, Allocated, RowsHold
  <2>4. StatInv'
    BY <2>1 DEF IInv, StatInv, Summary
  <2> QED
    BY <2>1, <2>2, <2>3, <2>4 DEF IInv, LoopOfCall
<1> QED
  BY <1>1, <1>2, <1>3, <1>4, <1>5, <1>6, <1>7 DEF Next, Step

\* The counters of the walks say how many commits were included so far.
THEOREM WalksAgree == Spec => []IInv
<1>1. Init => IInv
  BY InitIInv
<1>2. IInv /\ [Next]_vars => IInv'
  BY NextIInv
<1> QED
  BY <1>1, <1>2, PTL DEF Spec

-----------------------------------------------------------------------------
(* What the calls return.                                                  *)

\* A date that fits an int is compared as it is.
LEMMA WantedIncluded ==
  ASSUME IInv, query.after <= IntMax
  PROVE  /\ Wanted = UpTo(Last)
         /\ \A c \in 1 .. Last : {d \in Wanted : d <= c} = UpTo(c)
<1>1. Last \in Nat
  BY LastType DEF IInv, TypeOK
<1>2. \A c : Include(c) <=>
        /\ Line[c].time >= query.after
        /\ query.path # {} =>
             HasDiff(c) /\ Line[c].touched \cap query.path # {}
  BY DEF Include, AsInteger
<1>3. Wanted = UpTo(Last)
  BY <1>2 DEF Wanted, UpTo
<1>4. \A c \in 1 .. Last : {d \in UpTo(Last) : d <= c} = UpTo(c)
  BY <1>1 DEF UpTo
<1> QED
  BY <1>3, <1>4

LEMMA RowsArePrefix == IInv => LogIsPrefix
<1> SUFFICES ASSUME IInv, pc = "done", query.call = "log", query.after <= IntMax
             PROVE  /\ \A j, k \in 1 .. Len(rows) : j < k => rows[j] < rows[k]
                    /\ {rows[j] : j \in 1 .. Len(rows)} =
                         {c \in Wanted :
                            Cardinality({d \in Wanted : d <= c}) <= query.max}
  BY DEF LogIsPrefix
<1>1. Last \in Nat /\ len \in Nat /\ query.max \in Nat /\ len <= query.max
  BY LastType DEF IInv, TypeOK, Query
<1>2. Allocated
  BY DEF IInv, LogInv
<1>3. PICK b \in 0 .. Last : RowsHold(b) /\ len = Cardinality(UpTo(b))
  BY DEF IInv, LogInv
<1> DEFINE Chosen == {c \in UpTo(Last) : Cardinality(UpTo(c)) <= query.max}
<1>4. {c \in Wanted : Cardinality({d \in Wanted : d <= c}) <= query.max} = Chosen
  <2>1. Wanted = UpTo(Last) /\ UpTo(Last) \subseteq 1 .. Last
    BY WantedIncluded DEF UpTo
  <2>2. \A c \in 1 .. Last : {d \in Wanted : d <= c} = UpTo(c)
    BY WantedIncluded
  <2> QED
    BY <2>1, <2>2
<1>5. ASSUME NEW c \in UpTo(b) PROVE c \in Chosen
  <2>1. b \in Nat /\ c \in Nat /\ c <= b /\ b <= Last /\ Include(c) /\ c \in 1 .. Last
    BY <1>1, <1>3, <1>5 DEF UpTo
  <2>2. Cardinality(UpTo(c)) <= Cardinality(UpTo(b))
    BY <2>1, UpToMonotone
  <2>3. Cardinality(UpTo(c)) \in Nat
    BY <2>1, UpToPassed
  <2>4. c \in UpTo(Last)
    BY <2>1 DEF UpTo
  <2> QED
    BY <1>1, <1>3, <2>2, <2>3, <2>4
<1>6. ASSUME NEW c \in Chosen PROVE c \in UpTo(b)
  <2>1. /\ c \in Nat /\ c >= 1 /\ c <= Last /\ Include(c)
        /\ Cardinality(UpTo(c)) <= query.max /\ c \in UpTo(Last) /\ b \in Nat
    BY <1>1, <1>3, <1>6 DEF UpTo
  <2>2. CASE c <= b
    BY <2>1, <2>2 DEF UpTo
  <2>3. CASE len = Cardinality(UpTo(Last))
    <3>1. b \in Nat /\ b <= Last
      BY <1>1, <1>3
    <3>2. Cardinality(UpTo(b)) = Cardinality(UpTo(Last)) => UpTo(b) = UpTo(Last)
      BY <1>1, <3>1, UpToMonotone
    <3>3. UpTo(b) = UpTo(Last)
      BY <1>3, <2>3, <3>2
    <3> QED
      BY <2>1, <3>3
  <2>4. CASE c > b /\ len = query.max
    <3>1. /\ Cardinality(UpTo(c - 1)) \in Nat
          /\ Cardinality(UpTo(c)) = Cardinality(UpTo(c - 1)) + 1
      BY <2>1, UpToPassed
    <3>2. c - 1 \in Nat /\ b <= c - 1
      BY <2>1, <2>4
    <3>3. Cardinality(UpTo(b)) <= Cardinality(UpTo(c - 1))
      BY <2>1, <3>2, UpToMonotone
    <3> QED
      BY <1>1, <1>3, <2>1, <2>4, <3>1, <3>3
  <2> QED
    BY <1>2, <2>1, <2>2, <2>3, <2>4 DEF Allocated
<1>7. Chosen = UpTo(b)
  <2>1. Chosen \subseteq UpTo(b)
    BY <1>6
  <2>2. UpTo(b) \subseteq Chosen
    BY <1>5
  <2> QED
    BY <2>1, <2>2
<1> QED
  BY <1>3, <1>4, <1>7 DEF RowsHold

LEMMA ErrorsAreOneShort == IInv => LogFailsOnlyOneShort
<1> SUFFICES ASSUME IInv, pc = "error", query.call = "log", query.after <= IntMax
             PROVE  Cardinality(Wanted) = query.max - 1 /\ Last \notin Wanted
  BY DEF LogFailsOnlyOneShort
<1>1. Last \in Nat /\ Last >= 1 /\ len \in Nat /\ query.max \in Nat
  BY LastType DEF IInv, TypeOK, Query
<1>2. Allocated /\ Cardinality(UpTo(Last)) < len
  BY DEF IInv, LogInv
<1>3. /\ Cardinality(UpTo(Last)) \in Nat /\ Cardinality(UpTo(Last - 1)) \in Nat
      /\ Include(Last) =>
           Cardinality(UpTo(Last)) = Cardinality(UpTo(Last - 1)) + 1
      /\ ~Include(Last) => UpTo(Last) = UpTo(Last - 1)
  BY <1>1, UpToPassed
<1>4. len = query.max /\ Cardinality(UpTo(Last - 1)) >= query.max - 1
  BY <1>2, <1>3 DEF Allocated
<1>5. ~Include(Last)
  BY <1>1, <1>2, <1>3, <1>4
<1>6. Cardinality(UpTo(Last)) = query.max - 1 /\ Last \notin UpTo(Last)
  BY <1>1, <1>2, <1>3, <1>4, <1>5 DEF UpTo
<1> QED
  BY <1>6, WantedIncluded

LEMMA StatSumsUp == IInv => StatIsSummary
<1> SUFFICES ASSUME IInv, pc = "done", query.call = "stat", NEW f \in Files
             PROVE  LET touching ==
                          {c \in 1 .. Last : c <= query.max /\ f \in Line[c].touched}
                    IN /\ stat[f].commits = Cardinality(touching)
                       /\ touching = {} => stat[f] = NoStat
                       /\ touching # {} =>
                            /\ stat[f].head \in touching
                            /\ \A c \in touching : stat[f].head <= c
                            /\ \E c \in touching : /\ stat[f].created = Line[c].time
                                                   /\ \A d \in touching : d <= c
  BY DEF StatIsSummary
<1>1. Last \in Nat /\ query.max \in Nat
  BY LastType DEF IInv, TypeOK, Query
<1>2. PICK b \in 0 .. Last : /\ b = query.max \/ (b = Last /\ b <= query.max)
                             /\ Summary(f, b)
  BY DEF IInv, StatInv
<1>3. {c \in 1 .. Last : c <= query.max /\ f \in Line[c].touched} = Touching(f, b)
  BY <1>1, <1>2 DEF Touching
<1> QED
  BY <1>2, <1>3 DEF Summary

\* In every history the walks stay on the line, no row holds anything but a
\* commit of it, and no more than max rows are ever allocated.
THEOREM LogTypeCorrect == Spec => []TypeOK
<1>1. IInv => TypeOK
  BY DEF IInv
<1> QED
  BY <1>1, WalksAgree, PTL

\* For every history, limit, filter and date that fits an int, git_log returns
\* the first wanted commits in order: its two walks agree on the rows.
THEOREM LogCorrect == Spec => []LogIsPrefix
BY WalksAgree, RowsArePrefix, PTL

\* git_log fails in no other case than one row too few before the end of the
\* history; without a filter it never fails.
THEOREM LogFailure == Spec => []LogFailsOnlyOneShort
BY WalksAgree, ErrorsAreOneShort, PTL

\* git_stat_files sums up exactly the commits it was asked to look at.
THEOREM StatCorrect == Spec => []StatIsSummary
BY WalksAgree, StatSumsUp, PTL

=============================================================================
