------------------------- MODULE EventStreamProofs --------------------------
(***************************************************************************)
(* Theorems about EventStream, for every helper, whatever lines the server *)
(* sends, however many: the parser, which reads a line at a time, and the  *)
(* reference, which looks at all the lines before the end of an event,     *)
(* agree after every line.                                                 *)
(***************************************************************************)
EXTENDS EventStream, FiniteSetTheorems, TLAPS

-----------------------------------------------------------------------------
(* The values of a function in the order of its arguments.                 *)

\* How many elements of a set are at most i.
Rank(at, i) == Cardinality({j \in at : j <= i})

(* Distinct elements have distinct ranks, from 1 to the size of the set.    *)
LEMMA RankInjective ==
  ASSUME NEW at \in SUBSET Int, IsFiniteSet(at)
  PROVE  /\ \A i \in at : Rank(at, i) \in 1 .. Cardinality(at)
         /\ \A i, j \in at : i < j => Rank(at, i) < Rank(at, j)
<1> DEFINE Upto(i) == {j \in at : j <= i}
<1>1. ASSUME NEW i \in at
      PROVE  /\ IsFiniteSet(Upto(i)) /\ Cardinality(Upto(i)) \in Nat
             /\ Cardinality(Upto(i)) <= Cardinality(at)
             /\ Cardinality(Upto(i)) # 0
  <2>1. Upto(i) \in SUBSET at /\ i \in Upto(i)
    OBVIOUS
  <2>2. IsFiniteSet(Upto(i)) /\ Cardinality(Upto(i)) <= Cardinality(at)
    BY <2>1, FS_Subset
  <2> HIDE DEF Upto
  <2>3. Cardinality(Upto(i)) \in Nat
    BY <2>2, FS_CardinalityType
  <2>4. Cardinality(Upto(i)) # 0
    BY <2>1, <2>2, FS_EmptySet
  <2> QED
    BY <2>2, <2>3, <2>4
<1>2. Cardinality(at) \in Nat
  BY FS_CardinalityType
<1>3. ASSUME NEW i \in at, NEW j \in at, i < j
      PROVE  Cardinality(Upto(i)) < Cardinality(Upto(j))
  <2>0. i \in Int /\ j \in Int /\ \A k \in at : k \in Int
    OBVIOUS
  <2>1. Upto(i) \in SUBSET Upto(j) /\ j \in Upto(j) /\ j \notin Upto(i)
    <3>1. \A k \in at : k <= i => k <= j
      BY <2>0, <1>3
    <3>2. j <= j /\ ~(j <= i)
      BY <2>0, <1>3
    <3> QED
      BY <3>1, <3>2
  <2>2. IsFiniteSet(Upto(j)) /\ Cardinality(Upto(i)) \in Nat /\ Cardinality(Upto(j)) \in Nat
    BY <1>1
  <2> HIDE DEF Upto
  <2>3. /\ Cardinality(Upto(i)) <= Cardinality(Upto(j))
        /\ Cardinality(Upto(j)) = Cardinality(Upto(i)) => Upto(j) = Upto(i)
    BY <2>1, <2>2, FS_Subset
  <2> QED
    BY <2>1, <2>2, <2>3
<1> QED
  BY <1>1, <1>2, <1>3 DEF Rank

(* Every rank is the rank of an element.                                    *)
LEMMA NthExists ==
  ASSUME NEW at \in SUBSET Int, IsFiniteSet(at), NEW k \in 1 .. Cardinality(at)
  PROVE  Nth(at, k) \in at /\ Rank(at, Nth(at, k)) = k
<1> DEFINE n == Cardinality(at)
           rank == [i \in at |-> Rank(at, i)]
<1>1. n \in Nat
  BY FS_CardinalityType
<1>2. rank \in [at -> 1 .. n]
  BY RankInjective
<1>3. \A i, j \in at : rank[i] = rank[j] => i = j
  <2> SUFFICES ASSUME NEW i \in at, NEW j \in at, i # j PROVE rank[i] # rank[j]
    OBVIOUS
  <2>1. rank[i] \in Int /\ rank[j] \in Int
    BY <1>1, <1>2
  <2>2. i < j \/ j < i
    OBVIOUS
  <2>3. /\ i < j => rank[i] < rank[j]
        /\ j < i => rank[j] < rank[i]
    BY RankInjective
  <2> QED
    BY <2>1, <2>2, <2>3
<1>4. rank \in Injection(at, 1 .. n)
  BY <1>2, <1>3 DEF Injection, IsInjective
<1>5. IsFiniteSet(1 .. n) /\ Cardinality(1 .. n) = n
  BY <1>1, FS_Interval
<1>6. rank \in Surjection(at, 1 .. n)
  <2> HIDE DEF rank, n
  <2> QED
    BY <1>4, <1>5, FS_Injection DEF n
<1>7. \E i \in at : Rank(at, i) = k
  BY <1>6 DEF Surjection
<1> QED
  BY <1>7 DEF Nth, Rank

(* A further argument, greater than the others, puts its value last.        *)
LEMMA InOrderAppend ==
  ASSUME NEW f, NEW g, NEW m \in Int,
         DOMAIN f \in SUBSET Int, IsFiniteSet(DOMAIN f), \A i \in DOMAIN f : i < m,
         DOMAIN g = DOMAIN f \cup {m}, \A i \in DOMAIN f : g[i] = f[i]
  PROVE  InOrder(g) = Append(InOrder(f), g[m])
<1> DEFINE at == DOMAIN f
           n == Cardinality(at)
<1>1. n \in Nat
  BY FS_CardinalityType
<1>2. Cardinality(DOMAIN g) = n + 1 /\ IsFiniteSet(DOMAIN g)
  <2>1. m \notin at
    OBVIOUS
  <2> QED
    BY <2>1, FS_AddElement
<1>3. \A i \in at : Rank(DOMAIN g, i) = Rank(at, i)
  <2> SUFFICES ASSUME NEW i \in at
               PROVE  {j \in DOMAIN g : j <= i} = {j \in at : j <= i}
    BY DEF Rank
  <2> QED
    OBVIOUS
<1>4. Rank(DOMAIN g, m) = n + 1
  <2>1. {j \in DOMAIN g : j <= m} = DOMAIN g
    OBVIOUS
  <2> QED
    BY <2>1, <1>2 DEF Rank
<1>5. ASSUME NEW k \in 1 .. n PROVE Nth(DOMAIN g, k) = Nth(at, k)
  <2>1. \A i : (i \in DOMAIN g /\ Rank(DOMAIN g, i) = k) <=> (i \in at /\ Rank(at, i) = k)
    <3> SUFFICES ASSUME NEW i
                 PROVE  (i \in DOMAIN g /\ Rank(DOMAIN g, i) = k) <=> (i \in at /\ Rank(at, i) = k)
      OBVIOUS
    <3>1. CASE i = m
      <4>1. Rank(DOMAIN g, i) # k /\ i \notin at
        BY <3>1, <1>1, <1>4
      <4> QED
        BY <4>1
    <3>2. CASE i \in at
      BY <3>2, <1>3
    <3>3. CASE i # m /\ i \notin at
      BY <3>3
    <3> QED
      BY <3>1, <3>2, <3>3
  <2> QED
    BY <2>1 DEF Nth, Rank
<1>6. Nth(DOMAIN g, n + 1) = m
  <2>1. n + 1 \in 1 .. Cardinality(DOMAIN g) /\ DOMAIN g \in SUBSET Int
    BY <1>1, <1>2
  <2>2. Nth(DOMAIN g, n + 1) \in DOMAIN g /\ Rank(DOMAIN g, Nth(DOMAIN g, n + 1)) = n + 1
    BY <2>1, <1>2, NthExists
  <2>3. \A i \in at : Rank(at, i) \in 1 .. n
    BY RankInjective
  <2>4. \A i \in at : Rank(DOMAIN g, i) # n + 1
    BY <2>3, <1>1, <1>3
  <2> QED
    BY <2>2, <2>4
<1>7. \A k \in 1 .. n : Nth(at, k) \in at
  BY NthExists
<1>8. InOrder(f) \in Seq({f[i] : i \in at}) /\ Len(InOrder(f)) = n
  BY <1>1, <1>7 DEF InOrder
<1>9. InOrder(g) = [k \in 1 .. n + 1 |-> IF k = n + 1 THEN g[m] ELSE f[Nth(at, k)]]
  <2>1. InOrder(g) = [k \in 1 .. n + 1 |-> g[Nth(DOMAIN g, k)]]
    BY <1>2 DEF InOrder
  <2>2. ASSUME NEW k \in 1 .. n + 1
        PROVE  g[Nth(DOMAIN g, k)] = IF k = n + 1 THEN g[m] ELSE f[Nth(at, k)]
    <3>1. CASE k = n + 1
      BY <3>1, <1>6
    <3>2. CASE k # n + 1
      <4>1. k \in 1 .. n
        BY <3>2, <1>1
      <4> QED
        BY <3>2, <4>1, <1>5, <1>7
    <3> QED
      BY <3>1, <3>2
  <2> QED
    BY <2>1, <2>2
<1>10. Append(InOrder(f), g[m]) = [k \in 1 .. n + 1 |-> IF k = n + 1 THEN g[m] ELSE f[Nth(at, k)]]
  <2>1. Append(InOrder(f), g[m])
          = [k \in 1 .. n + 1 |-> IF k = n + 1 THEN g[m] ELSE InOrder(f)[k]]
    BY <1>1, <1>8
  <2>2. \A k \in 1 .. n : InOrder(f)[k] = f[Nth(at, k)]
    BY DEF InOrder
  <2> QED
    BY <2>1, <2>2, <1>1
<1> QED
  BY <1>9, <1>10

(* Without arguments there are no values.                                   *)
LEMMA InOrderEmpty ==
  ASSUME NEW f, DOMAIN f = {}
  PROVE  InOrder(f) = <<>>
BY FS_EmptySet DEF InOrder

(* The greatest argument's value is the last one.                           *)
LEMMA LastOrAppend ==
  ASSUME NEW g, NEW at \in SUBSET Int, NEW m \in Int, NEW default,
         \A i \in at : i < m, DOMAIN g = at \cup {m}
  PROVE  LastOr(g, default) = g[m]
<1>0. \A i \in at : i \in Int
  OBVIOUS
<1>1. ASSUME NEW y \in DOMAIN g PROVE m >= y
  <2>1. CASE y \in at
    <3>1. y \in Int /\ y < m
      BY <2>1, <1>0
    <3> QED
      BY <3>1
  <2>2. CASE y = m
    BY <2>2
  <2> QED
    BY <2>1, <2>2
<1>2. ASSUME NEW x \in DOMAIN g, \A y \in DOMAIN g : x >= y PROVE x = m
  <2>1. x >= m
    BY <1>2
  <2>2. CASE x \in at
    <3>1. x \in Int /\ x < m
      BY <2>2, <1>0
    <3> QED
      BY <2>1, <3>1
  <2> QED
    BY <2>2
<1>3. Max(DOMAIN g) = m
  BY <1>1, <1>2 DEF Max
<1> QED
  BY <1>3 DEF LastOr

-----------------------------------------------------------------------------
(* What one more line changes.                                             *)

(* The lines before e are positions, finitely many.                         *)
LEMMA BlockPositions ==
  ASSUME NEW lines, NEW e \in Nat \ {0}
  PROVE  /\ Block(lines, e) \in SUBSET (1 .. e - 1)
         /\ \A f : /\ DOMAIN Values(lines, e, f) \in SUBSET (1 .. e - 1)
                   /\ IsFiniteSet(DOMAIN Values(lines, e, f))
<1>1. Block(lines, e) \in SUBSET (1 .. e - 1)
  BY DEF Block
<1>2. \A f : DOMAIN Values(lines, e, f) \in SUBSET (1 .. e - 1)
  BY <1>1 DEF Values
<1>3. IsFiniteSet(1 .. e - 1)
  BY FS_Interval
<1>4. \A f : IsFiniteSet(DOMAIN Values(lines, e, f))
  BY <1>2, <1>3, FS_Subset
<1> QED
  BY <1>1, <1>2, <1>4

(* An event is made of the lines before its end only.                       *)
LEMMA EarlierEvents ==
  ASSUME NEW lines \in Seq(Lines), NEW line \in Lines, NEW e \in 1 .. Len(lines) + 1
  PROVE  /\ EventOf(Append(lines, line), e) = EventOf(lines, e)
         /\ IsEvent(Append(lines, line), e) <=> IsEvent(lines, e)
<1> DEFINE more == Append(lines, line)
<1>1. \A i \in 1 .. e - 1 : more[i] = lines[i]
  OBVIOUS
<1> HIDE DEF more
<1>2. Block(more, e) = Block(lines, e)
  <2>1. \A i \in 1 .. e - 1 : \A j \in i .. e - 1 : more[j] = lines[j]
    BY <1>1
  <2> QED
    BY <2>1 DEF Block
<1>3. ASSUME NEW f PROVE Values(more, e, f) = Values(lines, e, f)
  <2>1. \A i \in Block(lines, e) : more[i] = lines[i]
    BY <1>1 DEF Block
  <2> QED
    BY <1>2, <2>1 DEF Values
<1>4. EventOf(more, e) = EventOf(lines, e)
  BY <1>3 DEF EventOf
<1>5. IsEvent(more, e) <=> IsEvent(lines, e)
  BY <1>3, <1>4 DEF IsEvent
<1> QED
  BY <1>4, <1>5 DEF more

NoEvent == [name |-> NoName, id |-> 0, data |-> <<>>]

(* Where no line is gathered there is no event.                             *)
LEMMA EmptyBlock ==
  ASSUME NEW lines, NEW e, Block(lines, e) = {}
  PROVE  /\ EventOf(lines, e) = NoEvent
         /\ DOMAIN Values(lines, e, "id") = {}
         /\ ~IsEvent(lines, e)
<1>1. \A f : DOMAIN Values(lines, e, f) = {}
  BY DEF Values
<1>2. InOrder(Values(lines, e, "data")) = <<>>
  BY <1>1, InOrderEmpty
<1>3. EventOf(lines, e) = NoEvent
  BY <1>1, <1>2 DEF EventOf, LastOr, NoEvent
<1>4. NoEvent.name = NoName /\ NoEvent.data = <<>>
  BY DEF NoEvent
<1> QED
  BY <1>1, <1>3, <1>4 DEF IsEvent

(* A blank line starts a new block.                                         *)
LEMMA BlankLine ==
  ASSUME NEW lines \in Seq(Lines), NEW line \in Lines, IsBlank(line)
  PROVE  Block(Append(lines, line), Len(lines) + 2) = {}
<1> DEFINE more == Append(lines, line)
           n == Len(lines)
<1>1. n \in Nat /\ IsBlank(more[n + 1])
  OBVIOUS
<1> HIDE DEF more, n
<1>2. \A i \in 1 .. (n + 2) - 1 : n + 1 \in i .. (n + 2) - 1
  BY <1>1
<1>3. Block(more, n + 2) = {}
  BY <1>1, <1>2 DEF Block
<1> QED
  BY <1>3 DEF more, n

(* Another line belongs to the open block.                                  *)
LEMMA FieldLine ==
  ASSUME NEW lines \in Seq(Lines), NEW line \in Lines, ~IsBlank(line)
  PROVE  LET more == Append(lines, line)
             n == Len(lines)
         IN  Block(more, n + 2) = Block(lines, n + 1) \cup {n + 1}
<1> DEFINE more == Append(lines, line)
           n == Len(lines)
<1>1. /\ n \in Nat /\ more[n + 1] = line
      /\ \A i \in 1 .. n : more[i] = lines[i]
  OBVIOUS
<1> HIDE DEF more, n
<1>2. ASSUME NEW i \in 1 .. n
      PROVE  i \in Block(more, n + 2) <=> i \in Block(lines, n + 1)
  <2>1. i .. (n + 2) - 1 = (i .. (n + 1) - 1) \cup {n + 1}
    BY <1>1
  <2>2. \A j \in i .. (n + 1) - 1 : more[j] = lines[j]
    BY <1>1
  <2>3. /\ i \in Block(more, n + 2) <=> \A j \in i .. (n + 2) - 1 : ~IsBlank(more[j])
        /\ i \in Block(lines, n + 1) <=> \A j \in i .. (n + 1) - 1 : ~IsBlank(lines[j])
    BY <1>1 DEF Block
  <2> QED
    BY <1>1, <2>1, <2>2, <2>3
<1>3. n + 1 \in Block(more, n + 2)
  BY <1>1 DEF Block
<1>4. /\ Block(more, n + 2) \in SUBSET (1 .. n + 1)
      /\ Block(lines, n + 1) \in SUBSET (1 .. n)
  BY <1>1 DEF Block
<1>5. Block(more, n + 2) = Block(lines, n + 1) \cup {n + 1}
  BY <1>1, <1>2, <1>3, <1>4
<1> QED
  BY <1>5 DEF more, n

(* It adds its value to those of its field, last, and to no others.         *)
LEMMA FieldValues ==
  ASSUME NEW lines \in Seq(Lines), NEW line \in Lines, ~IsBlank(line), NEW f
  PROVE  LET old == Values(lines, Len(lines) + 1, f)
             new == Values(Append(lines, line), Len(lines) + 2, f)
         IN  IF line.field = f /\ line.value # NaN
             THEN /\ DOMAIN new = DOMAIN old \cup {Len(lines) + 1}
                  /\ \A i \in DOMAIN old : new[i] = old[i]
                  /\ new[Len(lines) + 1] = line.value
             ELSE new = old
<1> DEFINE more == Append(lines, line)
           n == Len(lines)
           old == Values(lines, n + 1, f)
           new == Values(more, n + 2, f)
<1>1. /\ n \in Nat /\ more[n + 1] = line
      /\ \A i \in 1 .. n : more[i] = lines[i]
  OBVIOUS
<1>2. Block(more, n + 2) = Block(lines, n + 1) \cup {n + 1}
  BY FieldLine
<1> HIDE DEF more, n
<1>3. Block(lines, n + 1) \in SUBSET (1 .. n)
  BY <1>1 DEF Block
<1>4. \A i \in Block(lines, n + 1) : more[i] = lines[i] /\ i # n + 1
  BY <1>1, <1>3
<1>5. CASE line.field = f /\ line.value # NaN
  <2>1. DOMAIN new = DOMAIN old \cup {n + 1}
    BY <1>1, <1>2, <1>4, <1>5 DEF Values
  <2>2. \A i \in DOMAIN old : new[i] = old[i]
    BY <1>2, <1>4 DEF Values
  <2>3. new[n + 1] = line.value
    BY <1>1, <1>2, <1>5 DEF Values
  <2> QED
    BY <1>5, <2>1, <2>2, <2>3 DEF more, n
<1>6. CASE ~(line.field = f /\ line.value # NaN)
  <2>1. new = old
    BY <1>1, <1>2, <1>4, <1>6 DEF Values
  <2> QED
    BY <1>6, <2>1 DEF more, n
<1> QED
  BY <1>5, <1>6

(* What the server's lines may carry.                                       *)
LEMMA LineTypes ==
  ASSUME NEW line \in Lines
  PROVE  /\ line.field \in {"event", "data"} =>
              line.value \in ValuesOf(line.field) /\ line.value # NaN
         /\ line.field = "id" /\ line.value # NaN => line.value \in Int
BY EventStreamAssumption DEF ValuesOf

(* The open event takes a line as readSSE's variables do.                   *)
LEMMA FieldEvent ==
  ASSUME NEW lines \in Seq(Lines), NEW line \in Lines, ~IsBlank(line)
  PROVE  LET old == EventOf(lines, Len(lines) + 1)
             more == Append(lines, line)
             number == line.field = "id" /\ line.value # NaN
         IN  /\ EventOf(more, Len(lines) + 2) =
                  [name |-> IF line.field = "event" THEN line.value ELSE old.name,
                   id   |-> IF number THEN line.value ELSE old.id,
                   data |-> IF line.field = "data" THEN Append(old.data, line.value)
                                                   ELSE old.data]
             /\ DOMAIN Values(more, Len(lines) + 2, "id") # {}
                  <=> number \/ DOMAIN Values(lines, Len(lines) + 1, "id") # {}
<1> DEFINE n == Len(lines)
           more == Append(lines, line)
           Old(f) == Values(lines, n + 1, f)
           New(f) == Values(more, n + 2, f)
<1>1. n \in Nat
  OBVIOUS
<1>2. ASSUME NEW f
      PROVE  /\ line.field = f /\ line.value # NaN =>
                  /\ DOMAIN New(f) = DOMAIN Old(f) \cup {n + 1}
                  /\ \A i \in DOMAIN Old(f) : New(f)[i] = Old(f)[i]
                  /\ New(f)[n + 1] = line.value
             /\ ~(line.field = f /\ line.value # NaN) => New(f) = Old(f)
  BY FieldValues
<1>3. ASSUME NEW f
      PROVE  /\ DOMAIN Old(f) \in SUBSET Int /\ IsFiniteSet(DOMAIN Old(f))
             /\ \A i \in DOMAIN Old(f) : i < n + 1
  <2>1. n + 1 \in Nat \ {0}
    BY <1>1
  <2>2. DOMAIN Old(f) \in SUBSET (1 .. (n + 1) - 1) /\ IsFiniteSet(DOMAIN Old(f))
    BY <2>1, BlockPositions
  <2> QED
    BY <1>1, <2>2
<1>4. n + 1 \in Int
  BY <1>1
<1>5. line.field \in {"event", "data"} => line.value # NaN
  BY LineTypes
<1> HIDE DEF New, Old, n, more
<1>6. ASSUME NEW f, NEW default, line.field = f, line.value # NaN
      PROVE  LastOr(New(f), default) = line.value
  <2>1. DOMAIN New(f) = DOMAIN Old(f) \cup {n + 1} /\ New(f)[n + 1] = line.value
    BY <1>2, <1>6
  <2>2. DOMAIN Old(f) \in SUBSET Int /\ \A i \in DOMAIN Old(f) : i < n + 1
    BY <1>3
  <2> QED
    BY <2>1, <2>2, <1>4, LastOrAppend
<1>7. ASSUME line.field = "data"
      PROVE  InOrder(New("data")) = Append(InOrder(Old("data")), line.value)
  <2>1. /\ DOMAIN New("data") = DOMAIN Old("data") \cup {n + 1}
        /\ \A i \in DOMAIN Old("data") : New("data")[i] = Old("data")[i]
        /\ New("data")[n + 1] = line.value
    BY <1>2, <1>5, <1>7
  <2> QED
    BY <2>1, <1>3, <1>4, InOrderAppend
<1>8. /\ EventOf(more, n + 2) = [name |-> LastOr(New("event"), NoName),
                                 id   |-> LastOr(New("id"), 0),
                                 data |-> InOrder(New("data"))]
      /\ EventOf(lines, n + 1) = [name |-> LastOr(Old("event"), NoName),
                                  id   |-> LastOr(Old("id"), 0),
                                  data |-> InOrder(Old("data"))]
  BY DEF EventOf, New, Old
<1>9. LastOr(New("event"), NoName) = IF line.field = "event" THEN line.value
                                                        ELSE LastOr(Old("event"), NoName)
  BY <1>2, <1>5, <1>6
<1>10. LastOr(New("id"), 0) = IF line.field = "id" /\ line.value # NaN THEN line.value
                                                                    ELSE LastOr(Old("id"), 0)
  BY <1>2, <1>6
<1>11. InOrder(New("data")) = IF line.field = "data" THEN Append(InOrder(Old("data")), line.value)
                                                     ELSE InOrder(Old("data"))
  BY <1>2, <1>7
<1>12. DOMAIN New("id") # {} <=> (line.field = "id" /\ line.value # NaN) \/ DOMAIN Old("id") # {}
  BY <1>2
<1>13. /\ EventOf(lines, n + 1).name = LastOr(Old("event"), NoName)
       /\ EventOf(lines, n + 1).id = LastOr(Old("id"), 0)
       /\ EventOf(lines, n + 1).data = InOrder(Old("data"))
  BY DEF EventOf, Old
<1>14. EventOf(more, n + 2) =
         [name |-> IF line.field = "event" THEN line.value ELSE EventOf(lines, n + 1).name,
          id   |-> IF line.field = "id" /\ line.value # NaN THEN line.value
                                                           ELSE EventOf(lines, n + 1).id,
          data |-> IF line.field = "data" THEN Append(EventOf(lines, n + 1).data, line.value)
                                          ELSE EventOf(lines, n + 1).data]
  BY <1>8, <1>9, <1>10, <1>11, <1>13
<1> QED
  BY <1>12, <1>14 DEF New, Old, n, more

-----------------------------------------------------------------------------
(* Where events end.                                                       *)

(* They end at lines, and at the end of the response if the lines after the *)
(* last blank one are an event.                                             *)
LEMMA EndsAtEOF ==
  ASSUME NEW lines \in Seq(Lines)
  PROVE  /\ EventEnds(lines, FALSE) \in SUBSET (1 .. Len(lines))
         /\ EventEnds(lines, TRUE) = EventEnds(lines, FALSE) \cup
              (IF IsEvent(lines, Len(lines) + 1) THEN {Len(lines) + 1} ELSE {})
<1>1. Len(lines) \in Nat
  OBVIOUS
<1> QED
  BY <1>1 DEF EventEnds

(* A blank line ends what the end of the response would.                    *)
LEMMA EndsAtBlank ==
  ASSUME NEW lines \in Seq(Lines), NEW line \in Lines, IsBlank(line)
  PROVE  EventEnds(Append(lines, line), FALSE) = EventEnds(lines, TRUE)
<1> DEFINE more == Append(lines, line)
           n == Len(lines)
<1>1. /\ n \in Nat /\ Len(more) = n + 1 /\ more[n + 1] = line
      /\ \A i \in 1 .. n : more[i] = lines[i]
  OBVIOUS
<1>2. \A e \in 1 .. n + 1 : IsEvent(more, e) <=> IsEvent(lines, e)
  BY EarlierEvents
<1>0. n \in Nat
  OBVIOUS
<1> HIDE DEF more, n
<1>3. ASSUME NEW e \in 1 .. n + 1
      PROVE  e \in EventEnds(more, FALSE) <=> e \in EventEnds(lines, TRUE)
  <2>1. e \in EventEnds(more, FALSE) <=> IsBlank(more[e]) /\ IsEvent(more, e)
    BY <1>1 DEF EventEnds
  <2>2. e \in EventEnds(lines, TRUE) <=>
          (IF e <= n THEN IsBlank(lines[e]) ELSE TRUE) /\ IsEvent(lines, e)
    BY <1>1 DEF EventEnds, n
  <2>3. CASE e <= n
    <3>1. more[e] = lines[e]
      BY <2>3, <1>1
    <3> QED
      BY <2>1, <2>2, <2>3, <3>1, <1>2
  <2>4. CASE e = n + 1
    <3>1. ~(e <= n) /\ more[e] = line
      BY <2>4, <1>1
    <3> QED
      BY <2>1, <2>2, <3>1, <1>2
  <2>5. e <= n \/ e = n + 1
    BY <1>0
  <2> QED
    BY <2>3, <2>4, <2>5
<1>4. /\ EventEnds(more, FALSE) \in SUBSET (1 .. n + 1)
      /\ EventEnds(lines, TRUE) \in SUBSET (1 .. n + 1)
  BY <1>1 DEF EventEnds, n
<1> QED
  BY <1>3, <1>4 DEF more, n

(* Another line ends nothing.                                               *)
LEMMA EndsAtField ==
  ASSUME NEW lines \in Seq(Lines), NEW line \in Lines, ~IsBlank(line)
  PROVE  EventEnds(Append(lines, line), FALSE) = EventEnds(lines, FALSE)
<1> DEFINE more == Append(lines, line)
           n == Len(lines)
<1>1. /\ n \in Nat /\ Len(more) = n + 1 /\ more[n + 1] = line
      /\ \A i \in 1 .. n : more[i] = lines[i]
  OBVIOUS
<1>2. \A e \in 1 .. n + 1 : IsEvent(more, e) <=> IsEvent(lines, e)
  BY EarlierEvents
<1>0. n \in Nat
  OBVIOUS
<1> HIDE DEF more, n
<1>3. ASSUME NEW e \in 1 .. n + 1
      PROVE  e \in EventEnds(more, FALSE) <=> e \in EventEnds(lines, FALSE)
  <2>1. e \in EventEnds(more, FALSE) <=> IsBlank(more[e]) /\ IsEvent(more, e)
    BY <1>1 DEF EventEnds
  <2>2. e \in EventEnds(lines, FALSE) <=>
          (IF e <= n THEN IsBlank(lines[e]) ELSE FALSE) /\ IsEvent(lines, e)
    BY <1>1 DEF EventEnds, n
  <2>3. CASE e <= n
    <3>1. more[e] = lines[e]
      BY <2>3, <1>1
    <3> QED
      BY <2>1, <2>2, <2>3, <3>1, <1>2
  <2>4. CASE e = n + 1
    <3>1. ~(e <= n) /\ more[e] = line
      BY <2>4, <1>1
    <3> QED
      BY <2>1, <2>2, <3>1, <1>2
  <2>5. e <= n \/ e = n + 1
    BY <1>0
  <2> QED
    BY <2>3, <2>4, <2>5
<1>4. /\ EventEnds(more, FALSE) \in SUBSET (1 .. n + 1)
      /\ EventEnds(lines, FALSE) \in SUBSET (1 .. n + 1)
  BY <1>1 DEF EventEnds, n
<1> QED
  BY <1>3, <1>4 DEF more, n

-----------------------------------------------------------------------------
(* What the callback should have had.                                      *)

(* A line changes nothing about the events that ended before it or with it. *)
LEMMA EarlierHanded ==
  ASSUME NEW lines \in Seq(Lines), NEW line \in Lines,
         NEW ends \in SUBSET (1 .. Len(lines) + 1)
  PROVE  /\ AllHanded(Append(lines, line), ends) = AllHanded(lines, ends)
         /\ LastPositive(Append(lines, line), ends) = LastPositive(lines, ends)
<1> DEFINE more == Append(lines, line)
<1>1. \A e \in ends : EventOf(more, e) = EventOf(lines, e)
  BY EarlierEvents
<1> HIDE DEF more
<1>2. {e \in ends : Owned(EventOf(more, e))} = {e \in ends : Owned(EventOf(lines, e))}
  BY <1>1
<1>3. [e \in {e \in ends : Owned(EventOf(more, e))} |-> Handed(EventOf(more, e))]
        = [e \in {e \in ends : Owned(EventOf(lines, e))} |-> Handed(EventOf(lines, e))]
  BY <1>1, <1>2
<1>4. {e \in ends : EventOf(more, e).id > 0} = {e \in ends : EventOf(lines, e).id > 0}
  BY <1>1
<1>5. [e \in {e \in ends : EventOf(more, e).id > 0} |-> EventOf(more, e).id]
        = [e \in {e \in ends : EventOf(lines, e).id > 0} |-> EventOf(lines, e).id]
  BY <1>1, <1>4
<1> QED
  BY <1>3, <1>5 DEF AllHanded, LastPositive, more

(* One more event adds itself, if the helper owns it, and its number, if it *)
(* has a positive one.                                                      *)
LEMMA HandedAppend ==
  ASSUME NEW lines, NEW n \in Nat, NEW ends \in SUBSET (1 .. n)
  PROVE  LET e == EventOf(lines, n + 1)
             more == ends \cup {n + 1}
         IN  /\ AllHanded(lines, more) = IF Owned(e) THEN Append(AllHanded(lines, ends), Handed(e))
                                                     ELSE AllHanded(lines, ends)
             /\ LastPositive(lines, more) = IF e.id > 0 THEN e.id ELSE LastPositive(lines, ends)
<1> DEFINE e == EventOf(lines, n + 1)
           more == ends \cup {n + 1}
           own(at) == {x \in at : Owned(EventOf(lines, x))}
           handed(at) == [x \in own(at) |-> Handed(EventOf(lines, x))]
           numbered(at) == {x \in at : EventOf(lines, x).id > 0}
           number(at) == [x \in numbered(at) |-> EventOf(lines, x).id]
<1>1. /\ n + 1 \in Int
      /\ \A x \in ends : x \in Int /\ x < n + 1
  OBVIOUS
<1>5. own(ends) \in SUBSET Int /\ numbered(ends) \in SUBSET Int
  BY <1>1
<1>2. IsFiniteSet(own(ends))
  <2>1. IsFiniteSet(1 .. n)
    BY FS_Interval
  <2>2. own(ends) \in SUBSET (1 .. n)
    OBVIOUS
  <2> QED
    BY <2>1, <2>2, FS_Subset
<1>3. AllHanded(lines, more) = IF Owned(e) THEN Append(AllHanded(lines, ends), Handed(e))
                                           ELSE AllHanded(lines, ends)
  <2>1. CASE Owned(e)
    <3>1. /\ DOMAIN handed(more) = DOMAIN handed(ends) \cup {n + 1}
          /\ \A x \in DOMAIN handed(ends) : handed(more)[x] = handed(ends)[x]
          /\ handed(more)[n + 1] = Handed(e)
          /\ DOMAIN handed(ends) = own(ends)
          /\ \A x \in own(ends) : x < n + 1
      BY <2>1, <1>1
    <3> HIDE DEF handed, own
    <3>2. InOrder(handed(more)) = Append(InOrder(handed(ends)), Handed(e))
      BY <3>1, <1>1, <1>2, <1>5, InOrderAppend
    <3> QED
      BY <2>1, <3>2 DEF AllHanded, handed, own
  <2>2. CASE ~Owned(e)
    <3>1. own(more) = own(ends)
      BY <2>2
    <3> QED
      BY <2>2, <3>1 DEF AllHanded
  <2> QED
    BY <2>1, <2>2
<1>4. LastPositive(lines, more) = IF e.id > 0 THEN e.id ELSE LastPositive(lines, ends)
  <2>1. CASE e.id > 0
    <3>1. /\ DOMAIN number(more) = numbered(ends) \cup {n + 1}
          /\ number(more)[n + 1] = e.id
          /\ \A x \in numbered(ends) : x < n + 1
      BY <2>1, <1>1
    <3> HIDE DEF number, numbered
    <3>2. LastOr(number(more), 0) = e.id
      BY <3>1, <1>1, <1>5, LastOrAppend
    <3> QED
      BY <2>1, <3>2 DEF LastPositive, number, numbered
  <2>2. CASE ~(e.id > 0)
    <3>1. numbered(more) = numbered(ends)
      BY <2>2
    <3> QED
      BY <2>2, <3>1 DEF LastPositive
  <2> QED
    BY <2>1, <2>2
<1> QED
  BY <1>3, <1>4

-----------------------------------------------------------------------------
(* The inductive invariant.                                                *)

\* The lines since the last blank one are what the parser has gathered.
ParserFollows ==
  pc \in {"connect", "scan"} =>
    /\ Event = EventOf(seen, Len(seen) + 1)
    /\ hasID <=> DOMAIN Values(seen, Len(seen) + 1, "id") # {}

\* Nothing has been read before there is a response.
NothingYet ==
  pc = "connect" => seen = <<>> /\ delivered = <<>> /\ lastID = 0

ReturnsOnce == result = "none" <=> pc # "done"

IInv == TypeOK /\ ParserFollows /\ NothingYet /\ ReturnsOnce /\ DeliversExactly /\ ResultIsTruthful

\* What is true of the lines, where their events end and what was delivered of
\* them while nothing has stopped the stream.
Delivered(lines, ends, events, last) ==
  /\ events = AllHanded(lines, ends)
  /\ \A e \in ends : ~Stopping(EventOf(lines, e))
  /\ last = LastPositive(lines, ends)

\* The event at position first stopped it.
StoppedAt(lines, ends, events, first, err) ==
  /\ first \in ends
  /\ Stopping(EventOf(lines, first))
  /\ \A e \in {e \in ends : e < first} : ~Stopping(EventOf(lines, e))
  /\ (err = "decode") <=> Undecodable(EventOf(lines, first))
  /\ events = AllHanded(lines, {e \in ends : e < first})

(* No helper owns the error event.                                          *)
LEMMA OwnNames == "error" \notin Allowed
<1>1. DOMAIN EventNames =
        {"ExecJobStream", "StreamContainers", "StreamLogs", "DockerStreamAll", "StreamStats",
         "StreamJournal", "StreamSystemJournal", "StreamCPU", "StreamMemory",
         "StreamNetwork", "StreamProcesses", "MetricsStreamAll", "StreamPorts"}
  BY DEF EventNames
<1>2. \A h \in DOMAIN EventNames : "error" \notin EventNames[h]
  BY <1>1 DEF EventNames
<1> QED
  BY <1>2, EventStreamAssumption DEF Allowed

(* What kind of update an event is, is told for every event of a helper.    *)
LEMMA KindIsTold ==
  ASSUME NEW e, e.name \in Allowed
  PROVE  Kind(e) \in Kinds
<1> USE DEF Kinds
<1>1. CASE Helper = "ExecJobStream"
  BY <1>1 DEF Kind
<1>2. CASE Helper = "StreamPorts"
  <2>1. e.name \in {"ports.snapshot", "port.bound", "port.released"}
    BY <1>2 DEF Allowed, EventNames
  <2>2. CASE Text(e.data) \in WithKind
    BY <1>2, <2>2 DEF Kind
  <2>3. CASE Text(e.data) \notin WithKind
    <3>1. PortKind(e) \in Kinds
      BY <2>1 DEF PortKind
    <3> HIDE DEF Kinds
    <3> QED
      BY <1>2, <2>3, <3>1 DEF Kind
  <2> QED
    BY <2>2, <2>3
<1>3. CASE Helper \notin {"ExecJobStream", "StreamPorts"}
  BY <1>3 DEF Kind
<1> QED
  BY <1>1, <1>2, <1>3

(* What the handler does with an event says whether it stops the stream.    *)
LEMMA FateIsRight ==
  ASSUME NEW e
  PROVE  /\ Fate(e) \in {"decode", "remote"} <=> Stopping(e)
         /\ Fate(e) = "decode" <=> Undecodable(e)
         /\ Fate(e) = "deliver" <=> ~Stopping(e) /\ Owned(e)
         /\ Fate(e) \in {"decode", "remote", "ignore", "deliver"}
<1>1. CASE ~DecodesAs(ValidJSON, e.data)
  BY <1>1, EventStreamAssumption DEF Fate, Stopping, Undecodable, Owned, DecodesAs
<1>2. CASE DecodesAs(ValidJSON, e.data) /\ e.name = "error"
  BY <1>2, OwnNames, EventStreamAssumption DEF Fate, Stopping, Undecodable, Owned, DecodesAs
<1>3. CASE DecodesAs(ValidJSON, e.data) /\ e.name # "error" /\ ~Owned(e)
  BY <1>3 DEF Fate, Stopping, Undecodable, Owned, DecodesAs
<1>4. CASE DecodesAs(ValidJSON, e.data) /\ e.name # "error" /\ Owned(e)
  BY <1>4 DEF Fate, Stopping, Undecodable, Owned, DecodesAs
<1> QED
  BY <1>1, <1>2, <1>3, <1>4

(* Among no lines there is no event.                                        *)
LEMMA NoLines ==
  /\ EventOf(<<>>, 1) = NoEvent
  /\ DOMAIN Values(<<>>, 1, "id") = {}
  /\ EventEnds(<<>>, FALSE) = {}
  /\ \A lines : AllHanded(lines, {}) = <<>> /\ LastPositive(lines, {}) = 0
<1>1. Block(<<>>, 1) = {}
  BY DEF Block
<1>2. EventEnds(<<>>, FALSE) = {}
  <2>1. EventEnds(<<>>, FALSE) \in SUBSET (1 .. Len(<<>>))
    <3>1. <<>> \in Seq(Lines) /\ Len(<<>>) = 0
      OBVIOUS
    <3> QED
      BY <3>1, EndsAtEOF
  <2>2. 1 .. Len(<<>>) = {}
    OBVIOUS
  <2> QED
    BY <2>1, <2>2
<1>3. ASSUME NEW lines PROVE AllHanded(lines, {}) = <<>> /\ LastPositive(lines, {}) = 0
  BY InOrderEmpty DEF AllHanded, LastPositive, LastOr
<1> QED
  BY <1>1, <1>2, <1>3, EmptyBlock

LEMMA InitIInv == Init => IInv
<1> SUFFICES ASSUME Init PROVE IInv
  OBVIOUS
<1> USE DEF Init
<1>1. TypeOK
  <2>1. seen \in Seq(Lines) /\ dataLines \in Seq(ValuesOf("data"))
    OBVIOUS
  <2>2. delivered \in Seq([event : [name : Allowed, id : Int, data : Seq(ValuesOf("data"))],
                          kind  : Kinds])
    OBVIOUS
  <2>3. /\ pc \in {"connect", "scan", "done"} /\ ctxDone \in BOOLEAN
        /\ conn \in {"open", "closed", "lost"}
    OBVIOUS
  <2>4. name \in {NoName} \cup ValuesOf("event") /\ id \in Int
    OBVIOUS
  <2>6. hasID \in BOOLEAN
    OBVIOUS
  <2>5. /\ lastID \in Nat
        /\ result \in {"none", "nil", "ctx", "status", "transport", "read", "toolong",
                       "decode", "remote", "callback"}
    OBVIOUS
  <2> HIDE DEF Init
  <2> QED
    BY <2>1, <2>2, <2>3, <2>4, <2>5, <2>6 DEF TypeOK
<1>2. ParserFollows
  <2>1. Len(seen) + 1 = 1 /\ Event = NoEvent
    BY DEF Event, NoEvent
  <2> QED
    BY <2>1, NoLines DEF ParserFollows
<1>3. NothingYet /\ ReturnsOnce /\ DeliversExactly /\ ResultIsTruthful
  BY DEF NothingYet, ReturnsOnce, DeliversExactly, ResultIsTruthful
<1> QED
  BY <1>1, <1>2, <1>3 DEF IInv

-----------------------------------------------------------------------------
(* The steps.                                                              *)

(* dispatch and the handlers do what the reference says of the event that   *)
(* ends after the lines seen, if there is one.                              *)
LEMMA DispatchOutcome ==
  ASSUME IInv, pc = "scan", NEW atEOF \in BOOLEAN, Dispatch(atEOF)
  PROVE  LET ends == EventEnds(seen, TRUE)
         IN  /\ name' \in {NoName} \cup ValuesOf("event") /\ dataLines' \in Seq(ValuesOf("data"))
             /\ id' \in Int /\ hasID' \in BOOLEAN /\ lastID' \in Nat
             /\ delivered' \in Seq([event : [name : Allowed, id : Int, data : Seq(ValuesOf("data"))],
                                    kind  : Kinds])
             /\ \/ GoOn(atEOF) /\ Delivered(seen, ends, delivered', lastID') /\ Event' = NoEvent /\ ~hasID'
                \/ Return("callback")
                \/ \E err \in {"decode", "remote"} :
                     Return(err) /\ StoppedAt(seen, ends, delivered', Len(seen) + 1, err)
<1> DEFINE m == Len(seen) + 1
           old == EventEnds(seen, FALSE)
           ends == EventEnds(seen, TRUE)
           e == EventOf(seen, m)
           Events == [event : [name : Allowed, id : Int, data : Seq(ValuesOf("data"))], kind : Kinds]
<1>1. /\ seen \in Seq(Lines) /\ lastID \in Nat /\ id \in Int /\ hasID \in BOOLEAN
      /\ name \in {NoName} \cup ValuesOf("event") /\ dataLines \in Seq(ValuesOf("data"))
      /\ delivered \in Seq(Events)
  BY DEF IInv, TypeOK
<1>2. /\ Len(seen) \in Nat /\ m \in Int /\ m - 1 = Len(seen)
      /\ old \in SUBSET (1 .. Len(seen))
      /\ ends = old \cup (IF IsEvent(seen, m) THEN {m} ELSE {})
  <2>1. seen \in Seq(Lines) /\ Len(seen) \in Nat
    BY <1>1
  <2>2. m \in Int /\ m - 1 = Len(seen)
    BY <2>1
  <2> QED
    BY <2>1, <2>2, EndsAtEOF
<1>3. Delivered(seen, old, delivered, lastID)
  BY DEF IInv, DeliversExactly, Delivered
<1>4. Event = e /\ (hasID <=> DOMAIN Values(seen, m, "id") # {})
  BY DEF IInv, ParserFollows
<1>5. /\ e.name = name /\ e.data = dataLines
      /\ e.id = IF hasID THEN id ELSE 0
  BY <1>4 DEF Event
<1>6. Pending <=> IsEvent(seen, m)
  BY <1>4, <1>5 DEF Pending, IsEvent
<1> HIDE DEF m, old, ends, e
<1>7. CASE ~Pending
  <2>1. GoOn(atEOF) /\ UNCHANGED <<parser, lastID, delivered>>
    BY <1>7 DEF Dispatch
  <2>2. ends = old
    BY <1>2, <1>6, <1>7
  <2>3. Event' = NoEvent /\ ~hasID'
    <3>1. name = NoName /\ ~hasID /\ dataLines = <<>>
      BY <1>7 DEF Pending
    <3>2. name' = name /\ hasID' = hasID /\ dataLines' = dataLines
      BY <2>1 DEF parser
    <3> QED
      BY <3>1, <3>2 DEF Event, NoEvent
  <2>4. Delivered(seen, ends, delivered', lastID')
    BY <1>3, <2>1, <2>2
  <2> QED
    BY <1>1, <2>1, <2>3, <2>4 DEF parser, ends
<1>8. CASE Pending
  <2>1. /\ Reset
        /\ lastID' = IF e.id > 0 THEN e.id ELSE lastID
        /\ \/ Fate(e) = "ignore" /\ GoOn(atEOF) /\ UNCHANGED delivered
           \/ Fate(e) \in {"decode", "remote"} /\ Return(Fate(e)) /\ UNCHANGED delivered
           \/ /\ Fate(e) = "deliver"
              /\ delivered' = Append(delivered, Handed(e))
              /\ GoOn(atEOF) \/ Return("callback")
    BY <1>4, <1>8 DEF Dispatch
  <2>2. ends = old \cup {m}
    BY <1>2, <1>6, <1>8
  <2>3. /\ AllHanded(seen, ends) = IF Owned(e) THEN Append(AllHanded(seen, old), Handed(e))
                                               ELSE AllHanded(seen, old)
        /\ LastPositive(seen, ends) = IF e.id > 0 THEN e.id ELSE LastPositive(seen, old)
    <3>1. Len(seen) \in Nat /\ old \in SUBSET (1 .. Len(seen))
      BY <1>2
    <3>2. ends = old \cup {Len(seen) + 1} /\ e = EventOf(seen, Len(seen) + 1)
      BY <2>2 DEF m, e
    <3> QED
      BY <3>1, <3>2, HandedAppend
  <2>4. lastID' = LastPositive(seen, ends)
    BY <1>3, <2>1, <2>3 DEF Delivered
  <2>5. e.id \in Int /\ lastID' \in Nat
    BY <1>1, <1>5, <2>1
  <2>6. /\ name' \in {NoName} \cup ValuesOf("event") /\ dataLines' \in Seq(ValuesOf("data"))
        /\ id' \in Int /\ hasID' \in BOOLEAN /\ ~hasID'
        /\ Event' = NoEvent
    <3>1. name' = NoName /\ id' = 0 /\ hasID' = FALSE /\ dataLines' = <<>>
      BY <2>1 DEF Reset
    <3>2. Event' = NoEvent
      BY <3>1 DEF Event, NoEvent
    <3>3. <<>> \in Seq(ValuesOf("data"))
      OBVIOUS
    <3>4. hasID' \in BOOLEAN /\ ~hasID'
      BY <3>1
    <3>5. name' \in {NoName} \cup ValuesOf("event") /\ id' \in Int
      BY <3>1
    <3>6. dataLines' \in Seq(ValuesOf("data"))
      BY <3>1, <3>3, Zenon
    <3> QED
      BY <3>2, <3>4, <3>5, <3>6
  <2>7. \A x \in old : ~Stopping(EventOf(seen, x)) /\ x < m
    <3>1. \A x \in old : x \in 1 .. Len(seen)
      BY <1>2
    <3> QED
      BY <1>2, <1>3, <3>1 DEF Delivered, m
  <2>8. CASE Fate(e) = "ignore" /\ GoOn(atEOF) /\ UNCHANGED delivered
    <3>1. ~Owned(e) /\ ~Stopping(e)
      BY <2>8, FateIsRight
    <3>2. delivered' = AllHanded(seen, ends)
      BY <1>3, <2>3, <2>8, <3>1 DEF Delivered
    <3>3. Delivered(seen, ends, delivered', lastID')
      BY <2>2, <2>4, <2>7, <3>1, <3>2 DEF Delivered, e
    <3>4. delivered' \in Seq(Events)
      BY <1>1, <2>8
    <3> QED
      BY <2>5, <2>6, <2>8, <3>3, <3>4 DEF ends
  <2>9. CASE Fate(e) \in {"decode", "remote"} /\ Return(Fate(e)) /\ UNCHANGED delivered
    <3>1. Stopping(e) /\ (Fate(e) = "decode" <=> Undecodable(e))
      BY <2>9, FateIsRight
    <3>2. {x \in ends : x < m} = old
      <4>1. ~(m < m)
        BY <1>2
      <4> QED
        BY <2>2, <2>7, <4>1
    <3>3. StoppedAt(seen, ends, delivered', m, Fate(e))
      BY <1>3, <2>2, <2>7, <2>9, <3>1, <3>2 DEF StoppedAt, Delivered, e
    <3>4. delivered' \in Seq(Events)
      BY <1>1, <2>9
    <3> QED
      BY <2>5, <2>6, <2>9, <3>3, <3>4 DEF ends, m
  <2>10. CASE /\ Fate(e) = "deliver"
              /\ delivered' = Append(delivered, Handed(e))
              /\ GoOn(atEOF) \/ Return("callback")
    <3>1. Owned(e) /\ ~Stopping(e)
      BY <2>10, FateIsRight
    <3>2. delivered' = AllHanded(seen, ends)
      BY <1>3, <2>3, <2>10, <3>1 DEF Delivered
    <3>3. Delivered(seen, ends, delivered', lastID')
      BY <2>2, <2>4, <2>7, <3>1, <3>2 DEF Delivered, e
    <3>4. Handed(e) \in Events
      <4>1. e \in [name : Allowed, id : Int, data : Seq(ValuesOf("data"))]
        BY <1>1, <1>4, <1>5, <2>5, <3>1 DEF Event, Owned
      <4>2. Kind(e) \in Kinds
        BY <3>1, KindIsTold DEF Owned
      <4> QED
        BY <4>1, <4>2 DEF Handed
    <3>5. delivered' \in Seq(Events)
      BY <1>1, <2>10, <3>4
    <3> QED
      BY <2>5, <2>6, <2>10, <3>3, <3>5 DEF ends
  <2> QED
    BY <2>1, <2>8, <2>9, <2>10
<1> QED
  BY <1>7, <1>8

(* A step that ends the stream needs to keep the types and tell the truth.  *)
LEMMA DoneIInv ==
  ASSUME TypeOK', pc' = "done", result' # "none", ResultIsTruthful'
  PROVE  IInv'
BY DEF IInv, ParserFollows, NothingYet, ReturnsOnce, DeliversExactly

(* What a return says.                                                      *)
LEMMA ReturnValue ==
  ASSUME NEW err, Return(err)
  PROVE  pc' = "done" /\ result' \in {err, "ctx"} /\ (err = "nil" => result' = "nil")
BY DEF Return

(* Reading a line.                                                          *)
LEMMA ScanIInv == IInv /\ Scan => IInv'
<1> SUFFICES ASSUME IInv, pc = "scan", conn = "open", NEW line \in Lines,
                    seen' = Append(seen, line),
                    IF line.field = "blank" THEN Dispatch(FALSE) ELSE Field(line),
                    UNCHANGED <<ctxDone, conn>>
             PROVE  IInv'
  BY DEF Scan
<1> DEFINE n == Len(seen)
           more == Append(seen, line)
<1>1. /\ TypeOK /\ result = "none" /\ seen \in Seq(Lines)
      /\ Delivered(seen, EventEnds(seen, FALSE), delivered, lastID)
      /\ Event = EventOf(seen, n + 1)
      /\ hasID <=> DOMAIN Values(seen, n + 1, "id") # {}
  BY DEF IInv, TypeOK, ReturnsOnce, DeliversExactly, Delivered, ParserFollows
<1>2. /\ more \in Seq(Lines) /\ n \in Nat /\ Len(more) + 1 = n + 2 /\ seen' = more
      /\ n + 1 \in 1 .. n + 1
  BY <1>1
<1>3. conn' = "open" /\ ctxDone' \in BOOLEAN
  BY <1>1 DEF TypeOK
<1>4. CASE line.field = "blank"
  <2> DEFINE ends == EventEnds(seen, TRUE)
  <2>1. Dispatch(FALSE)
    BY <1>4
  <2>2. /\ name' \in {NoName} \cup ValuesOf("event") /\ dataLines' \in Seq(ValuesOf("data"))
        /\ id' \in Int /\ hasID' \in BOOLEAN /\ lastID' \in Nat
        /\ delivered' \in Seq([event : [name : Allowed, id : Int, data : Seq(ValuesOf("data"))],
                               kind  : Kinds])
        /\ \/ /\ UNCHANGED <<pc, result>>
              /\ Delivered(seen, ends, delivered', lastID') /\ Event' = NoEvent /\ ~hasID'
           \/ Return("callback")
           \/ \E err \in {"decode", "remote"} :
                Return(err) /\ StoppedAt(seen, ends, delivered', n + 1, err)
    BY <2>1, DispatchOutcome DEF GoOn
  <2>3. ASSUME pc' \in {"scan", "done"},
               result' \in {"none", "ctx", "callback", "decode", "remote"}
        PROVE  TypeOK'
    BY <1>2, <1>3, <2>2, <2>3 DEF TypeOK
  <2>4. IsBlank(line)
    BY <1>4 DEF IsBlank
  <2>5. EventEnds(more, FALSE) = ends /\ ends \in SUBSET (1 .. n + 1)
    <3>1. ends \in SUBSET (1 .. n + 1)
      BY <1>2 DEF EventEnds
    <3> QED
      BY <3>1, <1>1, <2>4, EndsAtBlank
  <2>6. \A e \in ends : EventOf(more, e) = EventOf(seen, e)
    BY <1>1, <2>5, EarlierEvents
  <2>7. /\ AllHanded(more, ends) = AllHanded(seen, ends)
        /\ LastPositive(more, ends) = LastPositive(seen, ends)
    BY <1>1, <2>5, EarlierHanded
  <2>8. CASE /\ UNCHANGED <<pc, result>>
             /\ Delivered(seen, ends, delivered', lastID') /\ Event' = NoEvent /\ ~hasID'
    <3>1. TypeOK' /\ pc' = "scan" /\ result' = "none"
      BY <1>1, <2>3, <2>8
    <3>2. DeliversExactly'
      BY <1>2, <2>5, <2>6, <2>7, <2>8 DEF DeliversExactly, Delivered
    <3>3. ParserFollows'
      <4>1. Block(more, n + 2) = {}
        BY <1>1, <2>4, BlankLine
      <4>2. EventOf(more, n + 2) = NoEvent /\ DOMAIN Values(more, n + 2, "id") = {}
        BY <4>1, EmptyBlock
      <4> QED
        BY <1>2, <2>8, <4>2 DEF ParserFollows
    <3> QED
      BY <3>1, <3>2, <3>3 DEF IInv, NothingYet, ReturnsOnce, ResultIsTruthful
  <2>9. CASE Return("callback")
    <3>1. pc' = "done" /\ result' \in {"callback", "ctx"}
      BY <2>9, ReturnValue
    <3> QED
      BY <2>3, <3>1, DoneIInv DEF ResultIsTruthful
  <2>10. ASSUME NEW err \in {"decode", "remote"}, Return(err),
                StoppedAt(seen, ends, delivered', n + 1, err)
         PROVE  IInv'
    <3>1. pc' = "done" /\ result' \in {err, "ctx"}
      BY <2>10, ReturnValue
    <3>2. TypeOK' /\ result' # "none" /\ result' # "nil"
      BY <2>3, <2>10, <3>1
    <3>3. ASSUME result' = err PROVE FirstErrorWins'
      <4> DEFINE before == {e \in ends : e < n + 1}
      <4>1. before \in SUBSET (1 .. n + 1)
        BY <2>5
      <4>2. AllHanded(more, before) = AllHanded(seen, before)
        BY <1>1, <4>1, EarlierHanded
      <4>3. StoppedAt(more, ends, delivered', n + 1, result')
        BY <2>6, <2>10, <3>3, <4>2 DEF StoppedAt
      <4>4. EventEnds(seen', (conn = "closed")') = ends
        BY <1>2, <1>3, <2>5
      <4> QED
        BY <1>2, <4>3, <4>4 DEF FirstErrorWins, StoppedAt
    <3> QED
      BY <3>1, <3>2, <3>3, DoneIInv DEF ResultIsTruthful
  <2> QED
    BY <2>2, <2>8, <2>9, <2>10
<1>5. CASE line.field # "blank"
  <2>1. Field(line) /\ ~IsBlank(line)
    BY <1>5 DEF IsBlank
  <2>2. pc' = "scan" /\ result' = "none" /\ lastID' = lastID /\ delivered' = delivered
    BY <1>1, <2>1 DEF Field
  <2>3. TypeOK'
    <3>1. /\ name' \in {NoName} \cup ValuesOf("event") /\ id' \in Int
          /\ dataLines' \in Seq(ValuesOf("data"))
      BY <1>1, <2>1, LineTypes DEF Field, TypeOK
    <3>2. hasID' \in BOOLEAN
      BY <1>1, <2>1 DEF Field, TypeOK
    <3> QED
      BY <1>1, <1>2, <1>3, <2>2, <3>1, <3>2 DEF TypeOK
  <2>4. DeliversExactly'
    <3> DEFINE ends == EventEnds(seen, FALSE)
    <3>1. EventEnds(more, FALSE) = ends /\ ends \in SUBSET (1 .. n + 1)
      <4>1. ends \in SUBSET (1 .. n + 1)
        BY <1>2 DEF EventEnds
      <4> QED
        BY <4>1, <1>1, <2>1, EndsAtField
    <3>2. \A e \in ends : EventOf(more, e) = EventOf(seen, e)
      BY <1>1, <3>1, EarlierEvents
    <3>3. /\ AllHanded(more, ends) = AllHanded(seen, ends)
          /\ LastPositive(more, ends) = LastPositive(seen, ends)
      BY <1>1, <3>1, EarlierHanded
    <3> QED
      BY <1>1, <1>2, <2>2, <3>1, <3>2, <3>3 DEF DeliversExactly, Delivered
  <2>5. ParserFollows'
    <3> DEFINE number == line.field = "id" /\ line.value # NaN
               old == EventOf(seen, n + 1)
    <3>1. /\ EventOf(more, n + 2) =
               [name |-> IF line.field = "event" THEN line.value ELSE old.name,
                id   |-> IF number THEN line.value ELSE old.id,
                data |-> IF line.field = "data" THEN Append(old.data, line.value) ELSE old.data]
          /\ DOMAIN Values(more, n + 2, "id") # {}
               <=> number \/ DOMAIN Values(seen, n + 1, "id") # {}
      BY <1>1, <2>1, FieldEvent
    <3>2. /\ old.name = name /\ old.data = dataLines
          /\ old.id = IF hasID THEN id ELSE 0
      BY <1>1 DEF Event
    <3>3. /\ name' = IF line.field = "event" THEN line.value ELSE name
          /\ dataLines' = IF line.field = "data" THEN Append(dataLines, line.value) ELSE dataLines
      BY <2>1 DEF Field
    <3>4. /\ number => id' = line.value /\ hasID'
          /\ ~number => id' = id /\ (hasID' <=> hasID)
      BY <2>1 DEF Field
    <3>5. hasID' <=> number \/ hasID
      BY <3>4
    <3>6. (IF hasID' THEN id' ELSE 0) = IF number THEN line.value ELSE old.id
      BY <3>2, <3>4
    <3>7. Event' = EventOf(more, n + 2)
      BY <3>1, <3>2, <3>3, <3>6 DEF Event
    <3> QED
      BY <1>1, <1>2, <3>1, <3>5, <3>7 DEF ParserFollows
  <2> QED
    BY <2>2, <2>3, <2>4, <2>5 DEF IInv, NothingYet, ReturnsOnce, ResultIsTruthful
<1> QED
  BY <1>4, <1>5

(* The end of the response.                                                 *)
LEMMA ScanEOFIInv == IInv /\ ScanEOF => IInv'
<1> SUFFICES ASSUME IInv, ScanEOF PROVE IInv'
  OBVIOUS
<1> DEFINE n == Len(seen)
           ends == EventEnds(seen, TRUE)
<1>1. /\ TypeOK /\ pc = "scan" /\ Dispatch(TRUE)
      /\ seen' = seen /\ ctxDone' = ctxDone /\ conn' = conn /\ conn = "closed"
  BY DEF IInv, ScanEOF
<1>2. /\ name' \in {NoName} \cup ValuesOf("event") /\ dataLines' \in Seq(ValuesOf("data"))
      /\ id' \in Int /\ hasID' \in BOOLEAN /\ lastID' \in Nat
      /\ delivered' \in Seq([event : [name : Allowed, id : Int, data : Seq(ValuesOf("data"))],
                             kind  : Kinds])
      /\ \/ /\ Return("nil")
            /\ Delivered(seen, ends, delivered', lastID') /\ Event' = NoEvent /\ ~hasID'
         \/ Return("callback")
         \/ \E err \in {"decode", "remote"} :
              Return(err) /\ StoppedAt(seen, ends, delivered', n + 1, err)
  <2>1. pc = "scan" /\ Dispatch(TRUE)
    BY <1>1
  <2> QED
    BY <2>1, DispatchOutcome DEF GoOn
<1>3. ASSUME pc' = "done", result' \in {"nil", "ctx", "callback", "decode", "remote"}
      PROVE  TypeOK'
  BY <1>1, <1>2, <1>3 DEF TypeOK
<1>4. EventEnds(seen', (conn = "closed")') = ends
  BY <1>1
<1>5. CASE /\ Return("nil")
           /\ Delivered(seen, ends, delivered', lastID') /\ Event' = NoEvent /\ ~hasID'
  <2>1. pc' = "done" /\ result' = "nil"
    BY <1>5, ReturnValue
  <2>2. NilMeansComplete'
    BY <1>1, <1>5 DEF NilMeansComplete, Delivered
  <2> QED
    BY <1>3, <2>1, <2>2, DoneIInv DEF ResultIsTruthful
<1>6. CASE Return("callback")
  <2>1. pc' = "done" /\ result' \in {"callback", "ctx"}
    BY <1>6, ReturnValue
  <2> QED
    BY <1>3, <2>1, DoneIInv DEF ResultIsTruthful
<1>7. ASSUME NEW err \in {"decode", "remote"}, Return(err),
             StoppedAt(seen, ends, delivered', n + 1, err)
      PROVE  IInv'
  <2>1. pc' = "done" /\ result' \in {err, "ctx"}
    BY <1>7, ReturnValue
  <2>2. TypeOK' /\ result' # "none" /\ result' # "nil"
    BY <1>3, <1>7, <2>1
  <2>3. ASSUME result' = err PROVE FirstErrorWins'
    <3>1. StoppedAt(seen', ends, delivered', n + 1, result')
      BY <1>1, <1>7, <2>3
    <3> QED
      BY <1>4, <3>1 DEF FirstErrorWins, StoppedAt
  <2> QED
    BY <2>1, <2>2, <2>3, DoneIInv DEF ResultIsTruthful
<1> QED
  BY <1>2, <1>5, <1>6, <1>7

LEMMA NextIInv == IInv /\ [Next]_vars => IInv'
<1> SUFFICES ASSUME IInv, [Next]_vars PROVE IInv'
  OBVIOUS
<1>1. TypeOK
  BY DEF IInv
<1>2. CASE Scan
  BY <1>2, ScanIInv
<1>3. CASE ScanEOF
  BY <1>3, ScanEOFIInv
<1>4. CASE Cancel
  <2>1. TypeOK'
    BY <1>1, <1>4 DEF TypeOK, Cancel, parser
  <2> QED
    BY <1>4, <2>1 DEF IInv, Cancel, parser, ParserFollows, Event, NothingYet, ReturnsOnce,
                      DeliversExactly, ResultIsTruthful, NilMeansComplete, FirstErrorWins
<1>5. CASE End
  <2>1. TypeOK'
    BY <1>1, <1>5 DEF TypeOK, End, parser
  <2>2. ResultIsTruthful'
    BY <1>5 DEF End, IInv, ReturnsOnce, ResultIsTruthful
  <2> QED
    BY <1>5, <2>1, <2>2 DEF IInv, End, parser, ParserFollows, Event, NothingYet, ReturnsOnce,
                            DeliversExactly
<1>6. CASE Connect
  <2>1. CASE ~ctxDone /\ pc' = "scan" /\ UNCHANGED result
    <3>1. TypeOK'
      BY <1>1, <1>6, <2>1 DEF TypeOK, Connect, parser
    <3>2. pc = "connect" /\ UNCHANGED <<seen, parser, lastID, delivered>>
      BY <1>6 DEF Connect
    <3>3. seen = <<>> /\ delivered = <<>> /\ lastID = 0 /\ result = "none"
      BY <3>2 DEF IInv, NothingYet, ReturnsOnce
    <3>4. DeliversExactly'
      BY <3>2, <3>3, NoLines DEF DeliversExactly
    <3>5. ParserFollows'
      BY <2>1, <3>2 DEF IInv, ParserFollows, parser, Event
    <3> QED
      BY <2>1, <3>1, <3>3, <3>4, <3>5 DEF IInv, NothingYet, ReturnsOnce, ResultIsTruthful
  <2>2. CASE ~ctxDone /\ pc' = "done" /\ result' = "status"
    <3>1. TypeOK'
      BY <1>1, <1>6, <2>2 DEF TypeOK, Connect, parser
    <3> QED
      BY <2>2, <3>1, DoneIInv DEF ResultIsTruthful
  <2>3. CASE Return("transport")
    <3>1. pc' = "done" /\ result' \in {"transport", "ctx"}
      BY <2>3, ReturnValue
    <3>2. TypeOK'
      BY <1>1, <1>6, <3>1 DEF TypeOK, Connect, parser
    <3> QED
      BY <3>1, <3>2, DoneIInv DEF ResultIsTruthful
  <2> QED
    BY <1>6, <2>1, <2>2, <2>3 DEF Connect
<1>7. CASE ScanFails
  <2>1. pc' = "done" /\ result' \in {"read", "ctx"}
    BY <1>7, ReturnValue DEF ScanFails
  <2>2. TypeOK'
    BY <1>1, <1>7, <2>1 DEF TypeOK, ScanFails, parser
  <2> QED
    BY <2>1, <2>2, DoneIInv DEF ResultIsTruthful
<1>8. CASE LineTooLong
  <2>1. pc' = "done" /\ result' \in {"toolong", "ctx"}
    BY <1>8, ReturnValue DEF LineTooLong
  <2>2. TypeOK'
    BY <1>1, <1>8, <2>1 DEF TypeOK, LineTooLong, parser
  <2> QED
    BY <2>1, <2>2, DoneIInv DEF ResultIsTruthful
<1>9. CASE UNCHANGED vars
  BY <1>9 DEF IInv, TypeOK, vars, parser, ParserFollows, Event, NothingYet, ReturnsOnce,
              DeliversExactly, ResultIsTruthful, NilMeansComplete, FirstErrorWins
<1> QED
  BY <1>2, <1>3, <1>4, <1>5, <1>6, <1>7, <1>8, <1>9 DEF Next

LEMMA Invariance == Spec => []IInv
BY InitIInv, NextIInv, PTL DEF Spec

(* Every variable keeps its type.                                           *)
THEOREM TypeCorrect == Spec => []TypeOK
<1>1. IInv => TypeOK
  BY DEF IInv
<1> QED
  BY <1>1, Invariance, PTL

(* However the lines of the stream are cut into events, in whatever order   *)
(* their fields come: while the stream runs, the callback has had exactly   *)
(* the events the helper owns, in order, with their names, ids and data.    *)
THEOREM DeliveryIsExact == Spec => []DeliversExactly
<1>1. IInv => DeliversExactly
  BY DEF IInv
<1> QED
  BY <1>1, Invariance, PTL

(* nil means that the response ended and everything in it was delivered; a  *)
(* remote error and one of decoding are those of the first event that       *)
(* stops the stream, and what came before it was delivered.                 *)
THEOREM ResultsAreTruthful == Spec => []ResultIsTruthful
<1>1. IInv => ResultIsTruthful
  BY DEF IInv
<1> QED
  BY <1>1, Invariance, PTL
=============================================================================
