----------------------- MODULE AccumulateBlocksProofs -----------------------
(***************************************************************************)
(* Proofs about AccumulateBlocks: on every timeline, window and threshold  *)
(* the two loops of accumulate_blocks return what DayBlocks says.          *)
(***************************************************************************)
EXTENDS AccumulateBlocks, FiniteSums

-----------------------------------------------------------------------------
(* The rows that are read.                                                 *)

\* The inputs, as Init picks them.
Setting ==
    /\ line \in Timelines
    /\ query \in Time /\ start \in query..MaxTime /\ end \in start..MaxTime
    /\ dur \in Durations
    /\ repeats \subseteq query + 1 .. end - 1
    /\ \A t \in repeats : line[t] = line[t - 1] /\ line[t] \in States

\* The timeline that the rows describe once the trailing shutdown row is gone.
Carried == CarryForward(line, query, end)

\* The rows then.
Unread == RowsOf(Carried, query, end) \cup repeats

(* A line that changes nowhere between two instants is steady there.       *)
LEMMA SteadyBetween ==
    ASSUME NEW g, NEW a \in Int, NEW b \in Int,
           \A u \in a + 1 .. b - 1 : g[u] = g[u - 1]
    PROVE  \A u \in a..b - 1 : g[u] = g[a]
<1> DEFINE T == {i \in Nat : a + i < b /\ g[a + i] # g[a]}
<1>1. T = {}
  <2>1. SUFFICES ASSUME T # {} PROVE FALSE
    OBVIOUS
  <2>2. PICK i \in T : \A j \in T : i <= j
    BY <2>1, LeastNatural
  <2>3. i \in Nat /\ a + i < b /\ g[a + i] # g[a]
    BY <2>2
  <2>4. i # 0
    BY <2>3
  <2>5. g[a + i] = g[a + i - 1] /\ a + i - 1 = a + (i - 1) /\ i - 1 \in Nat
    BY <2>3, <2>4
  <2>6. i - 1 \in T
    BY <2>3, <2>5
  <2> QED BY <2>2, <2>6, <2>5
<1>2. SUFFICES ASSUME NEW u \in a..b - 1 PROVE g[u] = g[a]
  OBVIOUS
<1>3. u - a \in Nat /\ a + (u - a) = u /\ a + (u - a) < b
  OBVIOUS
<1> QED BY <1>1, <1>3

(* Before the first row that has a state there is none.                    *)
LEMMA StateHasRow ==
    ASSUME NEW g, NEW a \in Nat, NEW e \in Nat, NEW t \in a..e - 1, g[t] # NoState
    PROVE  \E u \in RowsOf(g, a, e) : u <= t
<1> DEFINE T == {u \in a..t : g[u] # NoState}
<1>1. T \subseteq Nat /\ t \in T
  OBVIOUS
<1>2. PICK u \in T : \A v \in T : u <= v
  BY <1>1, LeastNatural
<1>3. CASE u = a
  BY <1>2, <1>3 DEF RowsOf
<1>4. CASE u # a
  <2>1. u - 1 \in a..t /\ u - 1 \notin T
    BY <1>2, <1>4
  <2>2. g[u - 1] = NoState
    BY <2>1
  <2> QED BY <1>2, <1>4, <2>2 DEF RowsOf
<1> QED BY <1>3, <1>4

(* What the rows and instants of the setting are.                          *)
LEMMA SettingNat ==
    ASSUME Setting
    PROVE  /\ query \in Nat /\ start \in Nat /\ end \in Nat /\ dur \in Nat /\ MaxTime \in Nat
           /\ query <= start /\ start <= end /\ end <= MaxTime
           /\ line \in [Time -> Names \cup {NoState}]
           /\ \A t \in Time \ {0} : line[t] = NoState => line[t - 1] = NoState
           /\ NoState \notin Names /\ Unavailable \in Names
           /\ \A t \in repeats : /\ t \in Nat /\ query < t /\ t < end
                                 /\ line[t] = line[t - 1] /\ line[t] # NoState
                                 /\ line[t] # Unavailable
<1>1. MaxTime \in Nat
  BY LocalDaysAssumption
<1>2. query \in Nat /\ start \in Nat /\ end \in Nat /\ query <= start /\ start <= end /\ end <= MaxTime
  BY <1>1 DEF Setting, Time
<1>3. dur \in Nat
  BY DurationsAssumption DEF Setting
<1>4. NoState \notin Names /\ Unavailable \in Names /\ States \subseteq Names
  BY NamesAssumption DEF Names
<1>5. Unavailable \notin States
  BY AvailableAssumption
<1>6. \A t \in repeats : t \in Nat /\ query < t /\ t < end
  BY <1>2 DEF Setting
<1> QED BY <1>1, <1>2, <1>3, <1>4, <1>5, <1>6 DEF Setting, Timelines

(* Of a set of instants with more than one member some member is not the   *)
(* last, and the other way around.                                         *)
LEMMA MoreThanOne ==
    ASSUME NEW S, IsFiniteSet(S), NEW m \in S
    PROVE  Cardinality(S) > 1 <=> \E x \in S : x # m
<1>1. IsFiniteSet(S \ {m}) /\ Cardinality(S \ {m}) = Cardinality(S) - 1
  BY FS_RemoveElement
<1>2. Cardinality(S \ {m}) \in Nat /\ Cardinality(S) \in Nat
  BY <1>1, FS_CardinalityType
<1>3. Cardinality(S \ {m}) = 0 <=> S \ {m} = {}
  BY <1>1, FS_EmptySet
<1> QED BY <1>1, <1>2, <1>3

(* The trailing shutdown row is the last row with and without repeats.     *)
LEMMA TrailingRow ==
    ASSUME Setting,
           NEW R, R = RowsOf(line, query, end),
           NEW Q, Q = Queried
    PROVE  /\ R \subseteq Q /\ Q \subseteq query..end - 1
           /\ IsFiniteSet(R) /\ IsFiniteSet(Q)
           /\ Cardinality(Q) > 1 /\ line[Max(Q)] = Unavailable
              <=> Cardinality(R) > 1 /\ line[Max(R)] = Unavailable
           /\ Cardinality(R) > 1 /\ line[Max(R)] = Unavailable =>
                /\ Max(R) = Max(Q) /\ Max(Q) \in R /\ query < Max(Q)
                /\ \A t \in Q : t <= Max(Q)
<1> USE SettingNat
<1> DEFINE m == Max(R)
           M == Max(Q)
<1>1. R \subseteq Q /\ Q \subseteq query..end - 1
  BY DEF Queried, RowsOf
<1>2. IsFiniteSet(R) /\ IsFiniteSet(Q)
  <2>1. IsFiniteSet(query..end - 1)
    BY FS_Interval
  <2> QED BY <1>1, <2>1, FS_Subset
<1>3. Q \subseteq 0..MaxTime /\ R \subseteq 0..MaxTime
  BY <1>1
<1>4. \A x \in Q : \E u \in R : u <= x
  <2>1. SUFFICES ASSUME NEW x \in Q PROVE \E u \in R : u <= x
    OBVIOUS
  <2>2. x \in query..end - 1 /\ line[x] # NoState
    BY <1>1 DEF Queried, RowsOf
  <2> QED BY <2>2, StateHasRow
<1>5. CASE R = {}
  <2>1. Q = {}
    BY <1>4, <1>5
  <2>2. Cardinality(R) = 0 /\ Cardinality(Q) = 0
    BY <1>5, <2>1, FS_EmptySet
  <2> QED BY <1>1, <1>2, <2>2
<1>6. CASE R # {}
  <2>1. m \in R /\ \A t \in R : t <= m
    BY <1>3, <1>6, MaxMember
  <2>2. M \in Q /\ \A t \in Q : t <= M
    <3>1. Q # {}
      BY <1>1, <1>6
    <3> QED BY <1>3, <3>1, MaxMember
  <2> HIDE DEF m, M
  <2>3. line[m] = Unavailable => m = M
    <3>1. SUFFICES ASSUME line[m] = Unavailable, m # M PROVE FALSE
      OBVIOUS
    <3>2. M \in repeats /\ m < M
      BY <1>1, <2>1, <2>2, <3>1 DEF Queried
    <3>3. \A u \in m + 1 .. end - 1 : line[u] = line[u - 1]
      <4>1. SUFFICES ASSUME NEW u \in m + 1 .. end - 1 PROVE line[u] = line[u - 1]
        OBVIOUS
      <4>2. u \in query..end - 1 /\ u \notin R /\ u # query /\ u \in Time \ {0}
        BY <1>1, <2>1 DEF Time
      <4>3. CASE line[u] = NoState
        BY <4>2, <4>3
      <4>4. CASE line[u] # NoState
        BY <4>2, <4>4 DEF RowsOf
      <4> QED BY <4>3, <4>4
    <3>4. \A u \in m..end - 1 : line[u] = line[m]
      BY <1>1, <2>1, <3>3, SteadyBetween
    <3>5. M \in m..end - 1
      BY <1>1, <2>1, <3>2
    <3> QED BY <3>1, <3>2, <3>4, <3>5
  <2>4. line[M] = Unavailable => m = M
    <3>1. line[M] = Unavailable => M \in R
      BY <2>2 DEF Queried
    <3> QED BY <1>1, <2>1, <2>2, <3>1
  <2>5. m = M => (Cardinality(Q) > 1 <=> Cardinality(R) > 1)
    <3>1. Cardinality(R) > 1 <=> \E x \in R : x # m
      BY <1>2, <2>1, MoreThanOne
    <3>2. Cardinality(Q) > 1 <=> \E x \in Q : x # M
      BY <1>2, <2>2, MoreThanOne
    <3>3. (\E x \in Q : x # M) => \E x \in R : x # M
      <4>1. SUFFICES ASSUME NEW x \in Q, x # M PROVE \E u \in R : u # M
        OBVIOUS
      <4>2. PICK u \in R : u <= x
        BY <1>4
      <4> QED BY <1>1, <2>2, <4>1, <4>2
    <3> QED BY <1>1, <3>1, <3>2, <3>3
  <2>6. m = M /\ Cardinality(R) > 1 => query < M
    <3>1. Cardinality(R) > 1 => \E x \in R : x # m
      BY <1>2, <2>1, MoreThanOne
    <3> QED BY <1>1, <2>1, <3>1
  <2>7. /\ Cardinality(Q) > 1 /\ line[M] = Unavailable
           <=> Cardinality(R) > 1 /\ line[m] = Unavailable
        /\ Cardinality(R) > 1 /\ line[m] = Unavailable =>
              m = M /\ M \in R /\ query < M /\ \A t \in Q : t <= M
    BY <2>1, <2>2, <2>3, <2>4, <2>5, <2>6
  <2> QED BY <1>1, <1>2, <2>7 DEF m, M
<1> QED BY <1>5, <1>6

\* What carry_forward_states leaves of the rows.
Normalised == IF Cardinality(Queried) > 1 /\ line[Max(Queried)] = Unavailable
              THEN Queried \ {Max(Queried)} ELSE Queried

\* What the loops need of the timeline and the rows that are left.
CarriedOK ==
    /\ Carried \in [Time -> Names \cup {NoState}]
    /\ \A u \in query + 1 .. end - 1 : Carried[u] = NoState => Carried[u - 1] = NoState
    /\ \A t \in repeats : Carried[t] = Carried[t - 1] /\ Carried[t] # NoState
    /\ query > 0 => Carried[query - 1] = line[query - 1]
    /\ query < end => Carried[query] = line[query]
    /\ Normalised = Unread
    /\ \A t \in Unread : Carried[t] = line[t]

(* The rows that are left are those of the carried timeline.               *)
LEMMA CarriedRows == ASSUME Setting PROVE CarriedOK
<1> USE SettingNat
<1> DEFINE R == RowsOf(line, query, end)
           Q == Queried
           m == Max(Q)
<1>1. /\ R \subseteq Q /\ Q \subseteq query..end - 1
      /\ Cardinality(Q) > 1 /\ line[Max(Q)] = Unavailable
         <=> Cardinality(R) > 1 /\ line[Max(R)] = Unavailable
      /\ Cardinality(R) > 1 /\ line[Max(R)] = Unavailable =>
           /\ Max(R) = Max(Q) /\ Max(Q) \in R /\ query < Max(Q)
           /\ \A t \in Q : t <= Max(Q)
  BY TrailingRow
<1>2. CASE ~(Cardinality(R) > 1 /\ line[Max(R)] = Unavailable)
  <2>1. Carried = line
    BY <1>2 DEF Carried, CarryForward
  <2>2. Normalised = Q /\ Unread = Q
    BY <1>1, <1>2, <2>1 DEF Normalised, Unread, Queried
  <2>3. \A u \in query + 1 .. end - 1 : u \in Time \ {0}
    BY DEF Time
  <2> QED BY <2>1, <2>2, <2>3 DEF CarriedOK
<1>3. CASE Cardinality(R) > 1 /\ line[Max(R)] = Unavailable
  <2>1. Max(R) = m /\ m \in R /\ query < m /\ m < end /\ m \in Nat /\ \A t \in Q : t <= m
    <3>1. Max(R) = m /\ m \in R /\ query < m /\ \A t \in Q : t <= m
      BY <1>1, <1>3
    <3>2. m \in query..end - 1
      BY <1>1, <3>1
    <3> HIDE DEF m, R, Q
    <3> QED BY <3>1, <3>2
  <2>2. DOMAIN line = Time /\ m - 1 \in Time
    BY <2>1 DEF Time
  <2> HIDE DEF m
  <2>3. Carried = [t \in Time |-> IF t \in m..(end - 1) THEN line[m - 1] ELSE line[t]]
    BY <1>3, <2>1, <2>2 DEF Carried, CarryForward
  <2>4. Normalised = Q \ {m}
    BY <1>1, <1>3 DEF Normalised, m
  <2>5. \A t \in query..end - 1 : t \in Time
    BY DEF Time
  <2>6. \A t \in query..m - 1 : Carried[t] = line[t]
    BY <2>1, <2>3, <2>5
  <2>7. \A t \in m..end - 1 : Carried[t] = line[m - 1]
    BY <2>1, <2>3, <2>5
  <2>8. \A t \in m..end - 1 : Carried[t] = Carried[t - 1]
    <3>1. Carried[m - 1] = line[m - 1]
      BY <2>1, <2>6
    <3> QED BY <2>1, <2>7, <3>1
  <2>9. \A t \in repeats : t < m
    <3>1. \A t \in repeats : t \in Q /\ line[t] # line[m]
      BY <1>3, <2>1 DEF Queried
    <3> QED BY <2>1, <3>1
  <2>10. Unread = Q \ {m}
    <3>1. ASSUME NEW t \in Unread PROVE t \in Q \ {m}
      <4>1. CASE t \in repeats
        BY <2>1, <2>9, <4>1 DEF Queried
      <4>2. CASE t \notin repeats
        <5>1. t \in query..end - 1 /\ Carried[t] # NoState /\ (t = query \/ Carried[t] # Carried[t - 1])
          BY <3>1, <4>2 DEF Unread, RowsOf
        <5>2. t < m
          BY <2>1, <2>8, <5>1
        <5>3. line[t] # NoState /\ (t = query \/ line[t] # line[t - 1])
          <6>1. t \in query..m - 1 /\ (t = query \/ t - 1 \in query..m - 1)
            BY <2>1, <5>1, <5>2
          <6> QED BY <2>6, <5>1, <6>1
        <5> QED BY <5>1, <5>2, <5>3 DEF Queried, RowsOf
      <4> QED BY <4>1, <4>2
    <3>2. ASSUME NEW t \in Q, t # m PROVE t \in Unread
      <4>1. CASE t \in repeats
        BY <4>1 DEF Unread
      <4>2. CASE t \notin repeats
        <5>1. t \in query..end - 1 /\ line[t] # NoState /\ (t = query \/ line[t] # line[t - 1])
          BY <3>2, <4>2 DEF Queried, RowsOf
        <5>2. t \in query..m - 1 /\ (t = query \/ t - 1 \in query..m - 1)
          BY <2>1, <3>2, <5>1
        <5>3. Carried[t] # NoState /\ (t = query \/ Carried[t] # Carried[t - 1])
          BY <2>6, <5>1, <5>2
        <5> QED BY <5>1, <5>3 DEF Unread, RowsOf
      <4> QED BY <4>1, <4>2
    <3> QED BY <3>1, <3>2
  <2>11. Carried \in [Time -> Names \cup {NoState}]
    BY <2>2, <2>3
  <2>12. ASSUME NEW u \in query + 1 .. end - 1, Carried[u] = NoState
         PROVE  Carried[u - 1] = NoState
    <3>1. CASE u < m
      <4>1. u \in query..m - 1 /\ u - 1 \in query..m - 1 /\ u \in Time \ {0}
        BY <2>1, <2>5, <3>1
      <4> QED BY <2>6, <2>12, <4>1
    <3>2. CASE u >= m
      BY <2>1, <2>8, <2>12, <3>2
    <3> QED BY <2>1, <3>1, <3>2
  <2>13. ASSUME NEW t \in repeats PROVE Carried[t] = Carried[t - 1] /\ Carried[t] # NoState
    <3>1. t \in query..m - 1 /\ t - 1 \in query..m - 1
      BY <2>1, <2>9
    <3> QED BY <2>6, <3>1
  <2>14. query > 0 => Carried[query - 1] = line[query - 1]
    <3>1. query > 0 => query - 1 \in Time /\ query - 1 \notin m..(end - 1)
      BY <2>1 DEF Time
    <3> QED BY <2>3, <3>1
  <2>15. Carried[query] = line[query]
    BY <2>1, <2>6
  <2>16. \A t \in Unread : Carried[t] = line[t]
    <3>1. \A t \in Q \ {m} : t \in query..m - 1
      BY <1>1, <2>1
    <3> QED BY <2>6, <2>10, <3>1
  <2> QED BY <2>4, <2>10, <2>11, <2>12, <2>13, <2>14, <2>15, <2>16 DEF CarriedOK
<1> QED BY <1>2, <1>3

-----------------------------------------------------------------------------
(* The collecting loop.                                                    *)

\* The visit the window begins in began before it.
Continues == start > 0 /\ line[start - 1] = line[start]

Block == [state : Names, from : Nat, to : Nat, counts : BOOLEAN]

\* A stretch of one state of the carried timeline, from the first instant of
\* that stretch in the window; on rows from the window's start it counts unless
\* it is the continuation.
IsBlock(b) ==
    /\ b \in Block
    /\ start <= b.from /\ b.from < b.to /\ b.to <= end
    /\ \A u \in b.from..b.to - 1 : Carried[u] = b.state
    /\ b.from = start \/ Carried[b.from - 1] # b.state
    /\ query = start => (b.counts <=> (b.from = start => ~Continues))

\* Blocks that follow one another up to edge.
Chain(r, edge) ==
    /\ r \in Seq(Block)
    /\ \A i \in 1..Len(r) : IsBlock(r[i])
    /\ \A i \in 1..Len(r) - 1 : r[i].to = r[i + 1].from
    /\ r # <<>> => r[Len(r)].to = edge

\* Before the first of them there is no state.
NoneBefore(r, edge) ==
    \A u \in start..edge - 1 : r = <<>> \/ u < r[1].from => Carried[u] = NoState

\* How far the rows have been read.
Reached == IF rows = {} THEN end ELSE Min(rows)

Collecting ==
    /\ start < end
    /\ rows = {t \in Unread : Reached <= t}
    /\ query \in rows => first
    /\ Chain(raw, Later(start, Reached))
    /\ NoneBefore(raw, Later(start, Reached))
    /\ filtered = <<>>

(* The state in force at an instant is from before it if it was in force   *)
(* one instant before.                                                     *)
LEMMA SinceIs ==
    ASSUME Setting
    PROVE  /\ Since(query) \in Nat /\ Since(query) <= query
           /\ Since(query) < query <=> query > 0 /\ line[query - 1] = line[query]
<1>0. /\ query \in Nat /\ start \in Nat /\ end \in Nat /\ MaxTime \in Nat
      /\ query <= start /\ start <= end /\ end <= MaxTime
  BY SettingNat
<1> USE <1>0
<1> DEFINE T == {u \in 0..query : u = 0 \/ line[u - 1] # line[u]}
<1>1. T \subseteq 0..query /\ 0 \in T
  OBVIOUS
<1>2. Max(T) \in T /\ \A u \in T : u <= Max(T)
  BY <1>1, MaxMember
<1>3. query \in T <=> query = 0 \/ line[query - 1] # line[query]
  OBVIOUS
<1>4. Since(query) = Max(T)
  BY DEF Since
<1> HIDE DEF T
<1>5. Max(T) \in Nat /\ Max(T) <= query
  <2>1. Max(T) \in 0..query
    BY <1>1, <1>2
  <2> QED BY <2>1
<1>6. query \in T <=> Max(T) = query
  BY <1>2, <1>5
<1> QED BY <1>3, <1>4, <1>5, <1>6

\* Where the block of the first unread row ends, without regard to the window.
Ahead == IF Following = {} THEN end ELSE Min(Following)

(* What is known of the row that is read next.                             *)
LEMMA RowRead ==
    ASSUME Setting, rows = {t \in Unread : Reached <= t}, rows # {}
    PROVE  /\ Row = Reached /\ Row \in Nat /\ Ahead \in Nat
           /\ query <= Row /\ Row < Ahead /\ Ahead <= end
           /\ Following = {t \in Unread : Ahead <= t}
           /\ query \notin Following
           /\ line[Row] \in Names /\ \A u \in Row..Ahead - 1 : Carried[u] = line[Row]
           /\ BlockEnd = Ahead
           /\ BlockStart = Later(start, Row)
           /\ query = start /\ (query \in rows => first) =>
                (~(first /\ Changed(Row) < start) <=> (Row = start => ~Continues))
<1>0. /\ query \in Nat /\ start \in Nat /\ end \in Nat /\ MaxTime \in Nat
      /\ query <= start /\ start <= end /\ end <= MaxTime
      /\ line \in [Time -> Names \cup {NoState}]
  BY SettingNat
<1> USE <1>0
<1>1. CarriedOK
  BY CarriedRows
<1>2. Unread \subseteq query..end - 1
  <2>1. repeats \subseteq query..end - 1
    BY SettingNat
  <2>2. RowsOf(Carried, query, end) \subseteq query..end - 1
    BY DEF RowsOf
  <2> QED BY <2>1, <2>2 DEF Unread
<1>3. Row \in rows /\ \A t \in rows : Row <= t
  <2>1. rows \subseteq Unread
    OBVIOUS
  <2>2. query..end - 1 \subseteq Nat
    OBVIOUS
  <2>3. rows \subseteq Nat
    BY <1>2, <2>1, <2>2
  <2> QED BY <2>3, MinMember DEF Row
<1>4. Row = Reached /\ Row \in Unread /\ Row \in query..end - 1
  BY <1>2, <1>3 DEF Row, Reached
<1>5. \A t \in Following : t \in Unread /\ Row < t /\ t < end /\ t \in Nat
  <2>1. \A t \in Following : t \in rows /\ t # Row
    BY DEF Following
  <2>2. \A t \in Following : t \in Unread /\ Row <= t /\ t # Row
    BY <1>3, <2>1
  <2>3. \A t \in Following : t \in query..end - 1
    BY <1>2, <2>2
  <2> QED BY <1>4, <2>2, <2>3
<1>6. /\ Ahead \in Nat /\ Row < Ahead /\ Ahead <= end
      /\ Following = {t \in Unread : Ahead <= t}
      /\ BlockEnd = Ahead
  <2>1. CASE Following = {}
    <3>1. Ahead = end /\ BlockEnd = end
      BY <2>1 DEF Ahead, BlockEnd
    <3>2. \A t \in Unread : ~(end <= t)
      BY <1>2
    <3>3. Row < end
      BY <1>4
    <3> QED BY <2>1, <3>1, <3>2, <3>3
  <2>2. CASE Following # {}
    <3>1. Ahead \in Following /\ \A t \in Following : Ahead <= t
      <4>1. Following \subseteq Nat
        BY <1>5
      <4> QED BY <2>2, <4>1, MinMember DEF Ahead
    <3>2. Ahead \in Nat /\ Row < Ahead /\ Ahead < end
      BY <1>5, <3>1
    <3>3. ASSUME NEW t \in Unread, Ahead <= t PROVE t \in Following
      <4>1. t \in rows /\ t # Row
        BY <1>2, <1>4, <3>2, <3>3
      <4> QED BY <4>1 DEF Following
    <3>4. Following = {t \in Unread : Ahead <= t}
      BY <1>5, <3>1, <3>3
    <3>5. Ahead = Min(Following) /\ BlockEnd = Earlier(Changed(Min(Following)), end)
      BY <2>2 DEF Ahead, BlockEnd
    <3>6. Changed(Ahead) = Ahead
      BY <1>4, <3>2 DEF Changed
    <3>7. BlockEnd = Ahead
      BY <3>2, <3>5, <3>6 DEF Earlier
    <3> QED BY <3>2, <3>4, <3>7
  <2> QED BY <2>1, <2>2
<1>7. query \notin Following
  BY <1>4, <1>5
<1>8. line[Row] \in Names /\ \A u \in Row..Ahead - 1 : Carried[u] = line[Row]
  <2>1. Carried[Row] = line[Row] /\ Carried[Row] # NoState /\ Row \in Time
    <3>1. Carried[Row] = line[Row] /\ Row \in Time
      BY <1>1, <1>4 DEF CarriedOK, Time
    <3>2. Carried[Row] # NoState
      BY <1>1, <1>4 DEF CarriedOK, Unread, RowsOf
    <3> QED BY <3>1, <3>2
  <2>2. \A u \in Row + 1 .. Ahead - 1 : Carried[u] = Carried[u - 1]
    <3>1. SUFFICES ASSUME NEW u \in Row + 1 .. Ahead - 1 PROVE Carried[u] = Carried[u - 1]
      OBVIOUS
    <3>2. u \in query + 1 .. end - 1 /\ u \notin Following /\ ~(Ahead <= u)
      BY <1>4, <1>6
    <3>3. u \notin Unread
      BY <1>2, <1>3, <1>4, <3>1, <3>2 DEF Following
    <3>4. CASE Carried[u] = NoState
      BY <1>1, <3>2, <3>4 DEF CarriedOK
    <3>5. CASE Carried[u] # NoState
      BY <3>2, <3>3, <3>5 DEF Unread, RowsOf
    <3> QED BY <3>4, <3>5
  <2>3. \A u \in Row..Ahead - 1 : Carried[u] = Carried[Row]
    BY <1>4, <1>6, <2>2, SteadyBetween
  <2>4. line[Row] \in Names \cup {NoState}
    BY <2>1
  <2> QED BY <2>1, <2>3, <2>4
<1>9. BlockStart = Later(start, Row)
  <2>1. CASE Row = query
    BY <2>1, <1>4, SinceIs DEF BlockStart, Changed, Later
  <2>2. CASE Row # query
    BY <2>2 DEF BlockStart, Changed
  <2> QED BY <2>1, <2>2
<1>10. query = start /\ (query \in rows => first) =>
          (~(first /\ Changed(Row) < start) <=> (Row = start => ~Continues))
  <2>1. SUFFICES ASSUME query = start, query \in rows => first
                 PROVE  ~(first /\ Changed(Row) < start) <=> (Row = start => ~Continues)
    OBVIOUS
  <2>2. CASE Row = query
    <3>1. first /\ Changed(Row) = Since(query)
      BY <1>3, <2>1, <2>2 DEF Changed
    <3>2. Since(query) < start <=> Continues
      BY <2>1, SinceIs DEF Continues
    <3> QED BY <2>1, <2>2, <3>1, <3>2
  <2>3. CASE Row # query
    <3>1. Changed(Row) = Row
      BY <2>3 DEF Changed
    <3> QED BY <1>4, <2>1, <2>3, <3>1
  <2> QED BY <2>2, <2>3
<1> QED BY <1>4, <1>5, <1>6, <1>7, <1>8, <1>9, <1>10

(* A row of the last block's state extends it.                             *)
LEMMA ChainExtended ==
    ASSUME NEW r, NEW edge \in Nat, Chain(r, edge), r # <<>>,
           NEW n \in Nat, edge < n, n <= end,
           \A u \in edge..n - 1 : Carried[u] = r[Len(r)].state
    PROVE  Chain([r EXCEPT ![Len(r)].to = n], n)
<1> DEFINE k == Len(r)
           b == [r[k] EXCEPT !.to = n]
           q == [r EXCEPT ![k].to = n]
<1>1. r \in Seq(Block) /\ k \in Nat /\ k \in 1..k /\ r[k] \in Block
  BY DEF Chain
<1>2. IsBlock(r[k]) /\ r[k].to = edge
  BY <1>1 DEF Chain
<1>3. /\ b \in Block /\ b.from = r[k].from /\ b.to = n /\ b.state = r[k].state
      /\ b.counts = r[k].counts
  BY <1>1 DEF Block
<1>4. q = [r EXCEPT ![k] = b]
  OBVIOUS
<1>5. q \in Seq(Block) /\ Len(q) = k /\ q[k] = b /\ \A i \in 1..k : i # k => q[i] = r[i]
  BY <1>1, <1>3, <1>4
<1> HIDE DEF b, q, k
<1>6. r[k].from \in Nat /\ r[k].from < edge
  BY <1>1, <1>2 DEF IsBlock, Block
<1>7. IsBlock(b)
  <2>1. \A u \in b.from..b.to - 1 : Carried[u] = b.state
    <3>1. SUFFICES ASSUME NEW u \in r[k].from..n - 1 PROVE Carried[u] = r[k].state
      BY <1>3
    <3>2. CASE u < edge
      BY <1>2, <1>6, <3>2 DEF IsBlock
    <3>3. CASE u >= edge
      BY <1>6, <3>3 DEF k
    <3> QED BY <1>6, <3>2, <3>3
  <2>2. start <= b.from /\ b.from < b.to /\ b.to <= end
    BY <1>2, <1>3, <1>6 DEF IsBlock
  <2> QED BY <1>2, <1>3, <2>1, <2>2 DEF IsBlock
<1>8. \A i \in 1..k : IsBlock(q[i])
  BY <1>1, <1>5, <1>7 DEF Chain, k
<1>9. ASSUME NEW i \in 1..k - 1 PROVE q[i].to = q[i + 1].from
  <2>1. i \in 1..k /\ i # k /\ i + 1 \in 1..k /\ r[i].to = r[i + 1].from
    BY <1>1, <1>9 DEF Chain, k
  <2>2. q[i + 1].from = r[i + 1].from
    BY <1>3, <1>5, <2>1
  <2> QED BY <1>5, <2>1, <2>2
<1>10. q[k].to = n
  BY <1>3, <1>5
<1>11. Chain(q, n)
  BY <1>5, <1>8, <1>9, <1>10 DEF Chain
<1> QED BY <1>11 DEF q, k

(* A row of another state begins the next one.                             *)
LEMMA ChainAppended ==
    ASSUME NEW r, NEW edge, Chain(r, edge), NEW b, IsBlock(b), r # <<>> => b.from = edge
    PROVE  Chain(Append(r, b), b.to)
<1> DEFINE k == Len(r)
           q == Append(r, b)
<1>1. r \in Seq(Block) /\ k \in Nat /\ b \in Block
  BY DEF Chain, IsBlock
<1>2. q \in Seq(Block) /\ Len(q) = k + 1 /\ q[k + 1] = b /\ \A i \in 1..k : q[i] = r[i]
  BY <1>1
<1>3. \A i \in 1..k + 1 : IsBlock(q[i])
  <2>1. \A i \in 1..k : IsBlock(r[i])
    BY DEF Chain
  <2> QED BY <1>1, <1>2, <2>1
<1>4. ASSUME NEW i \in 1..(k + 1) - 1 PROVE q[i].to = q[i + 1].from
  <2>1. CASE i = k
    <3>1. r # <<>> /\ r[k].to = edge
      BY <1>1, <1>4, <2>1 DEF Chain
    <3> QED BY <1>1, <1>2, <1>4, <2>1, <3>1
  <2>2. CASE i # k
    <3>1. i \in 1..k /\ i + 1 \in 1..k /\ i \in 1..k - 1
      BY <1>1, <1>4, <2>2
    <3>2. r[i].to = r[i + 1].from
      BY <3>1 DEF Chain
    <3> QED BY <1>2, <3>1, <3>2
  <2> QED BY <2>1, <2>2
<1> QED BY <1>2, <1>3, <1>4 DEF Chain

(* The first block begins before where the last one ends.                  *)
LEMMA ChainWithin ==
    ASSUME NEW r, NEW edge \in Nat, Chain(r, edge), r # <<>>
    PROVE  r[1].from < edge
<1>1. /\ r \in Seq(Block) /\ Len(r) \in Nat /\ 1 <= Len(r)
      /\ \A i \in 1..Len(r) : /\ r[i].from \in Nat /\ r[i].to \in Nat
                              /\ r[i].from < r[i].to
      /\ \A i \in 1..Len(r) - 1 : r[i].to = r[i + 1].from
  BY DEF Chain, IsBlock, Block
<1> DEFINE T == {i \in Nat : i < Len(r) /\ r[1].from >= r[i + 1].to}
<1>2. T = {}
  <2>1. SUFFICES ASSUME T # {} PROVE FALSE
    OBVIOUS
  <2>2. PICK i \in T : \A j \in T : i <= j
    BY <2>1, LeastNatural
  <2>3. i \in Nat /\ i < Len(r) /\ r[1].from >= r[i + 1].to
    BY <2>2
  <2>4. i # 0
    BY <1>1, <2>3
  <2>5. i - 1 \in Nat /\ i - 1 < Len(r) /\ i \in 1..Len(r) - 1 /\ i + 1 \in 1..Len(r)
    BY <1>1, <2>3, <2>4
  <2>6. r[1].from \in Nat /\ r[i].to < r[i + 1].to /\ r[i].to \in Nat /\ r[i + 1].to \in Nat
    BY <1>1, <2>5
  <2>7. (i - 1) + 1 = i /\ r[1].from >= r[i].to
    BY <2>3, <2>6
  <2>8. i - 1 \in T
    BY <2>5, <2>7
  <2> QED BY <2>2, <2>3, <2>8
<1>3. Len(r) - 1 \in Nat /\ Len(r) - 1 < Len(r) /\ (Len(r) - 1) + 1 = Len(r)
  BY <1>1
<1>4. ~(r[1].from >= r[Len(r)].to)
  BY <1>2, <1>3
<1>5. r[Len(r)].to = edge
  BY DEF Chain
<1> QED BY <1>1, <1>4, <1>5

(* The first block is where it was, unless it is new.                      *)
LEMMA NoneBeforeKept ==
    ASSUME NEW r \in Seq(Block), NEW edge, NoneBefore(r, edge), NEW n,
           NEW q \in Seq(Block), q # <<>>,
           r = <<>> => q[1].from = edge,
           r # <<>> => q[1].from = r[1].from,
           r # <<>> => q[1].from < edge,
           edge \in Nat
    PROVE  NoneBefore(q, n)
<1>1. SUFFICES ASSUME NEW u \in start..n - 1, u < q[1].from PROVE Carried[u] = NoState
  BY DEF NoneBefore
<1>2. q[1].from \in Nat
  <2>1. 1 \in 1..Len(q)
    OBVIOUS
  <2>2. q[1] \in Block
    BY <2>1
  <2> QED BY <2>2 DEF Block
<1>3. CASE r = <<>>
  BY <1>1, <1>2, <1>3 DEF NoneBefore
<1>4. CASE r # <<>>
  BY <1>1, <1>2, <1>4 DEF NoneBefore
<1> QED BY <1>3, <1>4

(* One row adds its block to those collected.                              *)
LEMMA RowCollected ==
    ASSUME Setting, Collecting, Collect
    PROVE  Chain(raw', Later(start, Ahead)) /\ NoneBefore(raw', Later(start, Ahead))
<1>0. /\ query \in Nat /\ start \in Nat /\ end \in Nat
      /\ query <= start /\ start < end
      /\ rows # {} /\ rows = {t \in Unread : Reached <= t}
  BY SettingNat DEF Collecting, Collect
<1>1. /\ Row = Reached /\ Row \in Nat /\ Ahead \in Nat
      /\ query <= Row /\ Row < Ahead /\ Ahead <= end
      /\ line[Row] \in Names /\ \A u \in Row..Ahead - 1 : Carried[u] = line[Row]
      /\ BlockEnd = Ahead
      /\ BlockStart = Later(start, Row)
      /\ query = start =>
           (~(first /\ Changed(Row) < start) <=> (Row = start => ~Continues))
  BY <1>0, RowRead DEF Collecting
<1> DEFINE edge == Later(start, Row)
<1>2. /\ edge \in Nat /\ start <= edge /\ Row <= edge
      /\ edge = start \/ edge = Row
      /\ Row <= start => edge = start
  BY <1>0, <1>1 DEF Later
<1>3. Chain(raw, edge) /\ NoneBefore(raw, edge) /\ raw \in Seq(Block)
  BY <1>1 DEF Collecting, Chain
<1>4. CASE Ahead <= edge
  <2>1. Later(start, Ahead) = edge
    BY <1>0, <1>1, <1>2, <1>4 DEF Later
  <2>2. raw' = raw
    BY <1>1, <1>4 DEF Collect
  <2> QED BY <1>3, <2>1, <2>2
<1>5. CASE edge < Ahead
  <2>1. Later(start, Ahead) = Ahead
    BY <1>0, <1>1, <1>2, <1>5 DEF Later
  <2>2. ~(BlockEnd <= BlockStart)
    BY <1>1, <1>2, <1>5
  <2>3. \A u \in edge..Ahead - 1 : Carried[u] = line[Row]
    BY <1>1, <1>2
  <2> HIDE DEF edge
  <2>4. CASE raw # <<>> /\ raw[Len(raw)].state = line[Row]
    <3>1. raw' = [raw EXCEPT ![Len(raw)].to = Ahead]
      BY <1>1, <2>2, <2>4 DEF Collect
    <3>2. Chain(raw', Ahead)
      BY <1>0, <1>1, <1>2, <1>3, <1>5, <2>3, <2>4, <3>1, ChainExtended
    <3>3. raw' \in Seq(Block)
      BY <3>2 DEF Chain
    <3>4. Len(raw) \in Nat /\ 1 \in 1..Len(raw) /\ raw[1] \in Block /\ Len(raw) \in 1..Len(raw)
      BY <1>3, <2>4
    <3>5. raw' # <<>> /\ raw'[1].from = raw[1].from
      <4> DEFINE k == Len(raw)
                 b == [raw[k] EXCEPT !.to = Ahead]
      <4>1. raw' = [raw EXCEPT ![k] = b]
        BY <3>1
      <4>2. b.from = raw[k].from
        BY <3>4 DEF Block
      <4> HIDE DEF k, b
      <4>3. Len(raw') = Len(raw) /\ \A i \in 1..Len(raw) : raw'[i] = IF i = k THEN b ELSE raw[i]
        BY <1>3, <4>1
      <4>4. raw'[1].from = raw[1].from
        BY <3>4, <4>2, <4>3
      <4> QED BY <3>3, <3>4, <4>3, <4>4
    <3>6. raw[1].from < edge
      <4>1. IsBlock(raw[1]) /\ raw[1].from \in Nat /\ raw[1].to \in Nat /\ raw[1].from < raw[1].to
        BY <1>3, <3>4 DEF Chain, IsBlock, Block
      <4> QED BY ChainWithin, <1>2, <1>3, <3>4, <4>1
    <3>7. NoneBefore(raw', Ahead)
      BY <1>2, <1>3, <2>4, <3>3, <3>5, <3>6, NoneBeforeKept
    <3> QED BY <2>1, <3>2, <3>7
  <2>5. CASE ~(raw # <<>> /\ raw[Len(raw)].state = line[Row])
    <3> DEFINE b == [state |-> line[Row], from |-> edge, to |-> Ahead,
                     counts |-> ~(first /\ Changed(Row) < start)]
    <3>1. raw' = Append(raw, b)
      BY <1>1, <2>2, <2>5 DEF Collect, edge
    <3>2. b \in Block /\ b.from = edge /\ b.to = Ahead /\ b.state = line[Row]
      BY <1>1, <1>2 DEF Block
    <3>3. query = start => (b.counts <=> (b.from = start => ~Continues))
      <4>1. b.counts = ~(first /\ Changed(Row) < start)
        OBVIOUS
      <4>2. query = start => edge = Row
        BY <1>0, <1>1, <1>2
      <4> HIDE DEF b
      <4> QED BY <1>1, <3>2, <4>1, <4>2
    <3> HIDE DEF b
    <3>4. edge = start \/ Carried[edge - 1] # line[Row]
      <4>1. CASE edge = start
        BY <4>1
      <4>2. CASE edge # start /\ raw = <<>>
        <5>1. edge - 1 \in start..edge - 1
          BY <1>0, <1>2, <4>2
        <5>2. Carried[edge - 1] = NoState
          BY <1>3, <4>2, <5>1 DEF NoneBefore
        <5>3. NoState \notin Names
          BY NamesAssumption
        <5> QED BY <1>1, <5>2, <5>3
      <4>3. CASE raw # <<>>
        <5>1. Len(raw) \in 1..Len(raw) /\ IsBlock(raw[Len(raw)]) /\ raw[Len(raw)].to = edge
          BY <1>3, <4>3 DEF Chain
        <5>2. edge - 1 \in raw[Len(raw)].from..raw[Len(raw)].to - 1
          BY <1>2, <5>1 DEF IsBlock, Block
        <5>3. Carried[edge - 1] = raw[Len(raw)].state
          BY <5>1, <5>2 DEF IsBlock
        <5> QED BY <2>5, <4>3, <5>3
      <4> QED BY <4>1, <4>2, <4>3
    <3>5. IsBlock(b)
      BY <1>1, <1>2, <1>5, <2>3, <3>2, <3>3, <3>4 DEF IsBlock
    <3>6. Chain(raw', Ahead)
      BY <1>3, <3>1, <3>2, <3>5, ChainAppended
    <3>7. /\ raw' \in Seq(Block) /\ raw' # <<>>
          /\ raw = <<>> => raw'[1].from = edge
          /\ raw # <<>> => raw'[1].from = raw[1].from
      BY <1>3, <3>1, <3>2
    <3>8. raw # <<>> => raw[1].from < edge
      BY ChainWithin, <1>2, <1>3
    <3>9. raw # <<>> => raw'[1].from < edge
      BY <3>7, <3>8
    <3>10. NoneBefore(raw', Ahead)
      BY <1>2, <1>3, <3>7, <3>9, NoneBeforeKept
    <3> QED BY <2>1, <3>6, <3>10
  <2> QED BY <2>4, <2>5
<1> QED BY <1>1, <1>2, <1>4, <1>5

(* Before the first row is read no instant has a block or a state.         *)
LEMMA NoneRead ==
    ASSUME Setting, NEW edge, edge = IF Unread = {} THEN end ELSE Min(Unread)
    PROVE  /\ Chain(<<>>, Later(start, edge)) /\ NoneBefore(<<>>, Later(start, edge))
           /\ \A t \in Unread : edge <= t
<1>0. /\ query \in Nat /\ start \in Nat /\ end \in Nat /\ query <= start /\ start <= end
      /\ \A t \in repeats : t \in query..end - 1
  BY SettingNat
<1>1. Unread \subseteq query..end - 1
  BY <1>0 DEF Unread, RowsOf
<1>2. \A t \in Unread : edge <= t
  <2>1. CASE Unread = {}
    BY <2>1
  <2>2. CASE Unread # {}
    <3>1. Unread \subseteq Nat
      BY <1>0, <1>1
    <3> QED BY <2>2, <3>1, MinMember
  <2> QED BY <2>1, <2>2
<1>3. edge \in Nat /\ (Unread = {} => edge = end)
  <2>1. CASE Unread = {}
    BY <1>0, <2>1
  <2>2. CASE Unread # {}
    <3>1. Unread \subseteq Nat
      BY <1>0, <1>1
    <3> QED BY <2>2, <3>1, MinMember
  <2> QED BY <2>1, <2>2
<1>4. ASSUME NEW u \in start..Later(start, edge) - 1 PROVE Carried[u] = NoState
  <2>1. SUFFICES ASSUME Carried[u] # NoState PROVE FALSE
    OBVIOUS
  <2>2. u \in Nat /\ start <= u /\ u < edge
    BY <1>0, <1>3, <1>4 DEF Later
  <2>3. CASE u < end
    <3>1. PICK x \in RowsOf(Carried, query, end) : x <= u
      <4>1. u \in query..end - 1
        BY <1>0, <2>2, <2>3
      <4> QED BY <1>0, <2>1, <4>1, StateHasRow
    <3>2. x \in Unread /\ x \in Nat
      BY <1>0, <1>1, <3>1 DEF Unread
    <3> QED BY <1>2, <1>3, <2>2, <3>1, <3>2
  <2>4. CASE u >= end
    <3>1. edge > end
      BY <1>0, <1>3, <2>2, <2>4
    <3>2. Unread # {}
      BY <1>0, <1>3, <3>1
    <3>3. PICK t \in Unread : TRUE
      BY <3>2
    <3>4. t \in Nat /\ t < end
      BY <1>0, <1>1
    <3> QED BY <1>0, <1>2, <1>3, <3>1, <3>4
  <2> QED BY <1>0, <2>2, <2>3, <2>4
<1>5. Chain(<<>>, Later(start, edge))
  <2>1. <<>> \in Seq(Block) /\ Len(<<>>) = 0
    OBVIOUS
  <2> QED BY <2>1 DEF Chain
<1> QED BY <1>2, <1>4, <1>5 DEF NoneBefore

-----------------------------------------------------------------------------
(* The filtering loop.                                                     *)

\* The rows whose blocks survive, and to which state an instant goes.
Kept == Survivors(Carried, start, end, dur)
Given(t) == GivenTo(Carried, Kept, t)

\* Instants before p that go to s, and surviving blocks there that open a visit.
Share(s, p) == {t \in start..p - 1 : Given(t) = s}
Visits(s, p) ==
    {k \in Kept : k < p /\ Carried[k] = s /\ Given(k - 1) # s /\ (k = start => ~Continues)}

(* A block begins with a row of the window.                                *)
LEMMA BlockHasRow ==
    ASSUME Setting, NEW b, IsBlock(b)
    PROVE  b.from \in RowsOf(Carried, start, end)
<1>1. /\ start \in Nat /\ end \in Nat /\ b.from \in Nat /\ b.to \in Nat
      /\ start <= b.from /\ b.from < b.to /\ b.to <= end /\ b.state # NoState
  BY SettingNat DEF IsBlock, Block
<1>2. b.from \in start..end - 1 /\ b.from \in b.from..b.to - 1
  BY <1>1
<1>3. Carried[b.from] = b.state /\ (b.from = start \/ Carried[b.from - 1] # b.state)
  BY <1>2 DEF IsBlock
<1> QED BY <1>1, <1>2, <1>3 DEF RowsOf

(* What a block adds to the survivors, and to whom its instants go.        *)
LEMMA BlockGiven ==
    ASSUME Setting, NEW b, IsBlock(b),
           b.to = end \/ b.to \in RowsOf(Carried, start, end)
    PROVE  /\ Kept \subseteq start..end - 1
           /\ b.to - b.from >= dur =>
                /\ b.from \in Kept
                /\ \A t \in b.from..b.to - 1 : Given(t) = b.state
           /\ b.to - b.from < dur =>
                /\ b.from \notin Kept
                /\ \A t \in b.from..b.to - 1 : Given(t) = Given(b.from - 1)
           /\ \A k \in Kept : ~(b.from < k /\ k < b.to)
<1> DEFINE W == RowsOf(Carried, start, end)
           p == b.from
           q == b.to
           T == {u \in W : u > p} \cup {end}
<1>1. /\ start \in Nat /\ end \in Nat /\ dur \in Nat /\ p \in Nat /\ q \in Nat
      /\ start <= p /\ p < q /\ q <= end /\ b.state # NoState
  BY SettingNat DEF IsBlock, Block
<1>2. p \in W /\ W \subseteq start..end - 1
  BY BlockHasRow DEF RowsOf
<1>3. \A u \in p..q - 1 : Carried[u] = b.state
  BY DEF IsBlock
<1> HIDE DEF p, q
<1>4. \A u \in W : ~(p < u /\ u < q)
  <2>1. SUFFICES ASSUME NEW u \in W, p < u, u < q PROVE FALSE
    OBVIOUS
  <2>2. u \in p..q - 1 /\ u - 1 \in p..q - 1 /\ u # start
    BY <1>1, <1>2, <2>1
  <2>3. Carried[u] = Carried[u - 1]
    BY <1>3, <2>2
  <2> QED BY <2>2, <2>3 DEF RowsOf
<1>5. Min(T) = q
  <2>1. T \subseteq Nat /\ q \in T
    <3>1. end \in Nat /\ \A u \in W : u \in Nat
      BY <1>1, <1>2
    <3>2. q = end \/ q \in W
      BY DEF q
    <3> HIDE DEF W
    <3> QED BY <1>1, <3>1, <3>2
  <2>2. \A u \in T : q <= u
    BY <1>1, <1>2, <1>4
  <2>3. Min(T) \in T /\ \A u \in T : Min(T) <= u
    BY <2>1, MinMember
  <2> HIDE DEF T
  <2>4. Min(T) \in Nat
    BY <2>1, <2>3
  <2> QED BY <1>1, <2>1, <2>2, <2>3, <2>4
<1>6. Kept \subseteq W
  BY DEF Kept, Survivors
<1>7. p \in Kept <=> q - p >= dur
  BY <1>2, <1>5 DEF Kept, Survivors
<1>8. \A k \in Kept : ~(p < k /\ k < q)
  BY <1>4, <1>6
<1> HIDE DEF W, T
<1>9. \A k \in Kept : k \in Nat /\ start <= k /\ k < end
  <2>1. Kept \subseteq start..end - 1
    BY <1>2, <1>6
  <2> QED BY <1>1, <2>1
<1>10. \A t \in p..q - 1 : \A k \in Kept : k <= t <=> k <= p
  BY <1>1, <1>8, <1>9
<1>11. ASSUME p \in Kept, NEW t \in p..q - 1 PROVE Given(t) = b.state
  <2> DEFINE B == {k \in Kept : k <= t}
  <2>1. B \subseteq 0..end /\ p \in B /\ \A k \in B : k <= p
    <3>1. \A k \in B : k \in Kept /\ k <= t
      OBVIOUS
    <3>2. \A k \in B : k \in 0..end /\ k <= p
      BY <1>1, <1>9, <1>10, <3>1
    <3>3. p \in B
      BY <1>1, <1>11
    <3> QED BY <3>2, <3>3
  <2>2. Max(B) \in B /\ \A k \in B : k <= Max(B)
    BY <1>1, <2>1, MaxMember
  <2>3. Given(t) = IF B = {} THEN NoState ELSE Carried[Max(B)]
    BY DEF Given, GivenTo
  <2> HIDE DEF B
  <2>4. Max(B) \in Int
    <3>1. Max(B) \in 0..end
      BY <2>1, <2>2
    <3> QED BY <3>1
  <2>5. Max(B) = p
    BY <1>1, <2>1, <2>2, <2>4
  <2>6. Carried[p] = b.state
    BY <1>1, <1>3
  <2> QED BY <2>1, <2>3, <2>5, <2>6
<1>12. ASSUME p \notin Kept, NEW t \in p..q - 1 PROVE Given(t) = Given(p - 1)
  <2>1. {k \in Kept : k <= t} = {k \in Kept : k <= p - 1}
    <3>1. \A k \in Kept : k <= t <=> k <= p - 1
      BY <1>1, <1>9, <1>10, <1>12
    <3> QED BY <3>1
  <2> QED BY <2>1 DEF Given, GivenTo
<1> QED BY <1>1, <1>2, <1>6, <1>7, <1>8, <1>11, <1>12 DEF p, q

(* What instants of one owner add to its share.                            *)
LEMMA ShareGrows ==
    ASSUME NEW p \in Nat, NEW q \in Nat, start \in Nat, start <= p, p < q,
           \A t \in p..q - 1 : Given(t) = Given(p), NEW s
    PROVE  /\ Cardinality(Share(s, p)) \in Nat
           /\ Cardinality(Share(s, q)) = Cardinality(Share(s, p)) + IF s = Given(p) THEN q - p ELSE 0
<1>1. Share(s, p) \subseteq start..p - 1 /\ IsFiniteSet(start..p - 1)
  BY FS_Interval DEF Share
<1>2. IsFiniteSet(Share(s, p)) /\ Cardinality(Share(s, p)) \in Nat
  BY <1>1, FS_Subset, FS_CardinalityType
<1>3. start..q - 1 = (start..p - 1) \cup (p..q - 1)
  OBVIOUS
<1>4. CASE s = Given(p)
  <2>1. Share(s, q) = Share(s, p) \cup (p..q - 1)
    BY <1>3, <1>4 DEF Share
  <2>2. Share(s, p) \cap (p..q - 1) = {}
    BY <1>1
  <2>3. IsFiniteSet(p..q - 1) /\ Cardinality(p..q - 1) = q - p
    <3>1. p \in Int /\ q - 1 \in Int /\ ~(p > q - 1) /\ (q - 1) - p + 1 = q - p
      OBVIOUS
    <3> QED BY <3>1, FS_Interval
  <2>4. Cardinality(Share(s, q)) = Cardinality(Share(s, p)) + Cardinality(p..q - 1)
    BY <1>2, <2>1, <2>2, <2>3, DisjointUnion
  <2> QED BY <1>2, <1>4, <2>3, <2>4
<1>5. CASE s # Given(p)
  <2>1. Share(s, q) = Share(s, p)
    BY <1>3, <1>5 DEF Share
  <2> QED BY <1>2, <1>5, <2>1
<1> QED BY <1>4, <1>5

(* What a block adds to the visits.                                        *)
LEMMA VisitsGrow ==
    ASSUME Setting, NEW p \in Nat, NEW q \in Nat, p < q,
           Kept \subseteq start..end - 1, \A k \in Kept : ~(p < k /\ k < q), NEW s
    PROVE  /\ Cardinality(Visits(s, p)) \in Nat
           /\ Cardinality(Visits(s, q)) = Cardinality(Visits(s, p)) +
                IF /\ p \in Kept /\ Carried[p] = s /\ Given(p - 1) # s
                   /\ (p = start => ~Continues)
                THEN 1 ELSE 0
<1>1. start \in Nat /\ end \in Nat
  BY SettingNat
<1>2. \A k \in Kept : k \in Nat
  BY <1>1
<1>3. Visits(s, p) \subseteq start..end - 1 /\ IsFiniteSet(start..end - 1)
  <2>1. IsFiniteSet(start..end - 1)
    BY <1>1, FS_Interval
  <2>2. Visits(s, p) \subseteq Kept
    BY DEF Visits
  <2> QED BY <2>1, <2>2
<1>4. IsFiniteSet(Visits(s, p)) /\ Cardinality(Visits(s, p)) \in Nat
  BY <1>3, FS_Subset, FS_CardinalityType
<1>5. \A k \in Kept : k < q <=> k < p \/ k = p
  BY <1>2
<1>6. p \notin Visits(s, p)
  BY DEF Visits
<1>7. CASE /\ p \in Kept /\ Carried[p] = s /\ Given(p - 1) # s
           /\ (p = start => ~Continues)
  <2>1. Visits(s, q) = Visits(s, p) \cup {p}
    BY <1>5, <1>7 DEF Visits
  <2>2. Cardinality(Visits(s, p) \cup {p}) = Cardinality(Visits(s, p)) + 1
    BY <1>4, <1>6, FS_AddElement
  <2> QED BY <1>4, <1>7, <2>1, <2>2
<1>8. CASE ~ /\ p \in Kept /\ Carried[p] = s /\ Given(p - 1) # s
             /\ (p = start => ~Continues)
  <2>1. Visits(s, q) = Visits(s, p)
    BY <1>5, <1>8 DEF Visits
  <2> QED BY <1>4, <1>8, <2>1
<1> QED BY <1>7, <1>8

\* What the filter hands on, and what it adds up for a state.
Visit == [state : Names, secs : Nat, counts : BOOLEAN]
OfIn(F, s) == {k \in DOMAIN F : F[k].state = s}
SumOver(F, s) == SumFunction([k \in OfIn(F, s) |-> F[k].secs])
CountOver(F, s) == Cardinality({k \in OfIn(F, s) : F[k].counts})
LastState(F) == F[Len(F)].state

(* The sums of a state are numbers.                                        *)
LEMMA OverType ==
    ASSUME NEW F \in Seq(Visit), NEW s
    PROVE  /\ IsFiniteSet(OfIn(F, s)) /\ OfIn(F, s) \subseteq 1..Len(F)
           /\ \A k \in OfIn(F, s) : F[k].secs \in Nat
           /\ SumOver(F, s) \in Nat
           /\ CountOver(F, s) \in Nat
<1>1. Len(F) \in Nat /\ DOMAIN F = 1..Len(F) /\ \A k \in 1..Len(F) : F[k] \in Visit
  OBVIOUS
<1>2. OfIn(F, s) \subseteq 1..Len(F)
  BY <1>1 DEF OfIn
<1>3. IsFiniteSet(1..Len(F))
  BY <1>1, FS_Interval
<1>4. IsFiniteSet(OfIn(F, s))
  BY <1>2, <1>3, FS_Subset
<1>5. \A k \in OfIn(F, s) : F[k].secs \in Nat
  BY <1>1, <1>2 DEF Visit
<1> DEFINE f == [k \in OfIn(F, s) |-> F[k].secs]
<1>6. DOMAIN f = OfIn(F, s) /\ \A k \in DOMAIN f : f[k] \in Nat
  BY <1>5
<1> HIDE DEF f
<1>7. SumFunction(f) \in Nat
  BY <1>4, <1>6, SumNat
<1>8. IsFiniteSet({k \in OfIn(F, s) : F[k].counts})
  <2>1. {k \in OfIn(F, s) : F[k].counts} \subseteq OfIn(F, s)
    OBVIOUS
  <2> QED BY <1>4, <2>1, FS_Subset
<1>9. CountOver(F, s) \in Nat
  BY <1>8, FS_CardinalityType DEF CountOver
<1> QED BY <1>2, <1>4, <1>5, <1>7, <1>9 DEF SumOver, f

(* No visits have no time and no number.                                   *)
LEMMA NoVisits == \A s : SumOver(<<>>, s) = 0 /\ CountOver(<<>>, s) = 0
<1>1. SUFFICES ASSUME NEW s PROVE SumOver(<<>>, s) = 0 /\ CountOver(<<>>, s) = 0
  OBVIOUS
<1>2. OfIn(<<>>, s) = {}
  BY DEF OfIn
<1> DEFINE f == [k \in OfIn(<<>>, s) |-> <<>>[k].secs]
<1>3. DOMAIN f = {}
  BY <1>2
<1> HIDE DEF f
<1>4. SumFunction(f) = 0
  BY <1>3, SumEmpty
<1>5. {k \in OfIn(<<>>, s) : <<>>[k].counts} = {}
  BY <1>2
<1>6. CountOver(<<>>, s) = 0
  BY <1>5, FS_EmptySet DEF CountOver
<1> QED BY <1>4, <1>6 DEF SumOver, f

(* Time laid onto the last visit is its state's.                           *)
LEMMA VisitExtended ==
    ASSUME NEW F \in Seq(Visit), F # <<>>, NEW d \in Nat, NEW G,
           G = [F EXCEPT ![Len(F)].secs = @ + d]
    PROVE  /\ G \in Seq(Visit) /\ G # <<>> /\ Len(G) = Len(F)
           /\ G[Len(G)].state = F[Len(F)].state
           /\ \A s \in Names :
                /\ SumOver(G, s) = SumOver(F, s) + IF s = F[Len(F)].state THEN d ELSE 0
                /\ CountOver(G, s) = CountOver(F, s)
<1> DEFINE n == Len(F)
           v == [F[n] EXCEPT !.secs = @ + d]
<1>1. n \in Nat /\ n \in 1..n /\ DOMAIN F = 1..n /\ F[n] \in Visit
  OBVIOUS
<1>2. /\ v \in Visit /\ v.state = F[n].state /\ v.counts = F[n].counts
      /\ v.secs = F[n].secs + d
  BY <1>1 DEF Visit
<1>3. G = [F EXCEPT ![n] = v]
  OBVIOUS
<1> HIDE DEF n, v
<1>4. G \in Seq(Visit) /\ Len(G) = n /\ DOMAIN G = 1..n /\ G[n] = v
  BY <1>1, <1>2, <1>3 DEF n
<1>5. \A k \in 1..n : k # n => G[k] = F[k]
  BY <1>1, <1>3
<1>6. \A k \in 1..n : G[k].state = F[k].state /\ G[k].counts = F[k].counts
  BY <1>2, <1>4, <1>5
<1>7. ASSUME NEW s \in Names
      PROVE  /\ SumOver(G, s) = SumOver(F, s) + IF s = F[n].state THEN d ELSE 0
             /\ CountOver(G, s) = CountOver(F, s)
  <2>1. OfIn(G, s) = OfIn(F, s)
    BY <1>1, <1>4, <1>6 DEF OfIn
  <2>2. IsFiniteSet(OfIn(F, s)) /\ OfIn(F, s) \subseteq 1..n /\ SumOver(F, s) \in Nat
        /\ \A k \in OfIn(F, s) : F[k].secs \in Nat
    BY OverType DEF n
  <2>3. CountOver(G, s) = CountOver(F, s)
    <3>1. \A k \in OfIn(F, s) : G[k].counts = F[k].counts
      BY <1>6, <2>2
    <3>2. {k \in OfIn(F, s) : G[k].counts} = {k \in OfIn(F, s) : F[k].counts}
      BY <3>1
    <3> QED BY <2>1, <3>2 DEF CountOver
  <2> DEFINE f == [k \in OfIn(F, s) |-> F[k].secs]
             g == [k \in OfIn(F, s) |-> G[k].secs]
  <2>4. SumOver(F, s) = SumFunction(f) /\ SumOver(G, s) = SumFunction(g)
    BY <2>1 DEF SumOver
  <2>5. CASE s = F[n].state
    <3>1. n \in OfIn(F, s)
      BY <1>1, <2>5 DEF OfIn
    <3>2. \A k \in OfIn(F, s) : G[k].secs = IF k = n THEN F[n].secs + d ELSE F[k].secs
      BY <1>2, <1>4, <1>5, <2>2
    <3>3. g = [f EXCEPT ![n] = @ + d]
      BY <3>1, <3>2
    <3>4. IsFiniteSet(DOMAIN f) /\ n \in DOMAIN f /\ \A k \in DOMAIN f : f[k] \in Int
      BY <2>2, <3>1
    <3> HIDE DEF f, g
    <3>5. d \in Int
      OBVIOUS
    <3>6. SumFunction([f EXCEPT ![n] = @ + d]) = SumFunction(f) + d
      BY <3>4, <3>5, SumRaised
    <3> QED BY <2>3, <2>4, <2>5, <3>3, <3>6
  <2>6. CASE s # F[n].state
    <3>1. \A k \in OfIn(F, s) : k # n
      BY <2>6 DEF OfIn
    <3>2. \A k \in OfIn(F, s) : G[k].secs = F[k].secs
      BY <1>5, <2>2, <3>1
    <3>3. g = f
      BY <3>2
    <3> HIDE DEF f, g
    <3> QED BY <2>2, <2>3, <2>4, <2>6, <3>3
  <2> QED BY <2>5, <2>6
<1>8. G # <<>>
  BY <1>1, <1>4
<1> QED BY <1>2, <1>4, <1>7, <1>8 DEF n

(* So is that of a visit of its own, which may count.                      *)
LEMMA VisitAppended ==
    ASSUME NEW F \in Seq(Visit), NEW v \in Visit
    PROVE  LET G == Append(F, v) IN
           /\ G \in Seq(Visit) /\ G # <<>> /\ G[Len(G)] = v
           /\ \A s \in Names :
                /\ SumOver(G, s) = SumOver(F, s) + IF s = v.state THEN v.secs ELSE 0
                /\ CountOver(G, s) =
                     CountOver(F, s) + IF s = v.state /\ v.counts THEN 1 ELSE 0
<1> DEFINE n == Len(F)
           G == Append(F, v)
<1>1. /\ n \in Nat /\ DOMAIN F = 1..n /\ DOMAIN G = 1..n + 1 /\ Len(G) = n + 1
      /\ G \in Seq(Visit) /\ G[n + 1] = v /\ \A k \in 1..n : G[k] = F[k]
  OBVIOUS
<1> HIDE DEF n, G
<1>2. v.secs \in Nat /\ v.counts \in BOOLEAN
  BY DEF Visit
<1>3. ASSUME NEW s \in Names
      PROVE  /\ SumOver(G, s) = SumOver(F, s) + IF s = v.state THEN v.secs ELSE 0
             /\ CountOver(G, s) =
                  CountOver(F, s) + IF s = v.state /\ v.counts THEN 1 ELSE 0
  <2>1. IsFiniteSet(OfIn(F, s)) /\ OfIn(F, s) \subseteq 1..n /\ SumOver(F, s) \in Nat
        /\ CountOver(F, s) \in Nat
        /\ \A k \in OfIn(F, s) : F[k].secs \in Nat
    BY OverType DEF n
  <2>2. n + 1 \notin OfIn(F, s)
    BY <1>1, <2>1
  <2> DEFINE f == [k \in OfIn(F, s) |-> F[k].secs]
             g == [k \in OfIn(G, s) |-> G[k].secs]
             C == {k \in OfIn(F, s) : F[k].counts}
             D == {k \in OfIn(G, s) : G[k].counts}
  <2>3. SumOver(F, s) = SumFunction(f) /\ SumOver(G, s) = SumFunction(g)
        /\ CountOver(F, s) = Cardinality(C) /\ CountOver(G, s) = Cardinality(D)
    BY DEF SumOver, CountOver
  <2>4. CASE s = v.state
    <3>1. OfIn(G, s) = OfIn(F, s) \cup {n + 1}
      BY <1>1, <2>4 DEF OfIn
    <3>2. DOMAIN f = OfIn(F, s) /\ DOMAIN g = OfIn(F, s) \cup {n + 1} /\ g[n + 1] = v.secs
      BY <1>1, <3>1
    <3>3. \A k \in DOMAIN f : g[k] = f[k]
      BY <1>1, <2>1, <3>1
    <3>4. \A k \in DOMAIN g : g[k] \in Int
      <4>1. \A k \in DOMAIN f : f[k] \in Int
        BY <2>1
      <4> HIDE DEF f, g
      <4>2. g[n + 1] \in Int
        BY <1>2, <3>2
      <4> QED BY <3>2, <3>3, <4>1, <4>2
    <3>5. D = IF v.counts THEN C \cup {n + 1} ELSE C
      BY <1>1, <2>1, <3>1
    <3> HIDE DEF f, g
    <3>6. SumFunction(g) = SumFunction(f) + v.secs
      <4>1. IsFiniteSet(DOMAIN f) /\ n + 1 \notin DOMAIN f /\ DOMAIN g = DOMAIN f \cup {n + 1}
        BY <2>1, <2>2, <3>2
      <4>2. SumFunction(g) = SumFunction(f) + g[n + 1]
        BY <3>3, <3>4, <4>1, SumExtended
      <4> QED BY <3>2, <4>2
    <3>7. Cardinality(C \cup {n + 1}) = Cardinality(C) + 1
      <4>1. C \subseteq OfIn(F, s)
        OBVIOUS
      <4>2. IsFiniteSet(C) /\ n + 1 \notin C
        BY <2>1, <2>2, <4>1, FS_Subset
      <4> QED BY <4>2, FS_AddElement
    <3> HIDE DEF C, D
    <3>8. Cardinality(C) \in Nat
      BY <2>1, <2>3
    <3>9. Cardinality(D) = Cardinality(C) + IF v.counts THEN 1 ELSE 0
      BY <3>5, <3>7, <3>8
    <3> QED BY <2>3, <2>4, <3>6, <3>9
  <2>5. CASE s # v.state
    <3>1. OfIn(G, s) = OfIn(F, s)
      BY <1>1, <2>5 DEF OfIn
    <3>2. \A k \in OfIn(F, s) : G[k] = F[k]
      BY <1>1, <2>1
    <3>3. g = f /\ D = C
      BY <3>1, <3>2
    <3> HIDE DEF f, g, C, D
    <3> QED BY <2>1, <2>3, <2>5, <3>3
  <2> QED BY <2>4, <2>5
<1>4. G # <<>>
  BY <1>1
<1> QED BY <1>1, <1>3, <1>4 DEF G

\* Before p the visits in F have each state's share of the instants and, on
\* rows from the window's start, the visits that opened there.
FilteredTo(F, p) ==
    /\ F \in Seq(Visit)
    /\ F = <<>> <=> \A k \in Kept : p <= k
    /\ F # <<>> => Given(p - 1) = LastState(F)
    /\ \A s \in Names : SumOver(F, s) = Cardinality(Share(s, p))
    /\ query = start => \A s \in Names : CountOver(F, s) = Cardinality(Visits(s, p))

\* What the instants of a block add to the shares and the visits.
Filed(b) ==
    \A s \in Names :
        /\ Cardinality(Share(s, b.from)) \in Nat
        /\ Cardinality(Share(s, b.to)) = Cardinality(Share(s, b.from)) +
              IF s = Given(b.to - 1) THEN b.to - b.from ELSE 0
        /\ Cardinality(Visits(s, b.from)) \in Nat
        /\ Cardinality(Visits(s, b.to)) = Cardinality(Visits(s, b.from)) +
              IF /\ b.to - b.from >= dur /\ s = b.state /\ Given(b.from - 1) # s
                 /\ (b.from = start => ~Continues)
              THEN 1 ELSE 0

(* What is common to the ways a block is filtered.                         *)
LEMMA FilteredBlock ==
    ASSUME Setting, NEW F, NEW b, IsBlock(b), FilteredTo(F, b.from),
           b.to = end \/ b.to \in RowsOf(Carried, start, end)
    PROVE  /\ b.from \in Nat /\ b.to \in Nat /\ b.from < b.to /\ b.state \in Names
           /\ b.counts \in BOOLEAN /\ dur \in Nat
           /\ F = <<>> => Given(b.from - 1) = NoState
           /\ b.to - b.from >= dur => Given(b.to - 1) = b.state
           /\ b.to - b.from < dur => Given(b.to - 1) = Given(b.from - 1)
           /\ (\A k \in Kept : b.to <= k) <=> F = <<>> /\ b.to - b.from < dur
           /\ Filed(b)
<1> DEFINE p == b.from
           q == b.to
<1>1. /\ start \in Nat /\ end \in Nat /\ dur \in Nat /\ p \in Nat /\ q \in Nat
      /\ start <= p /\ p < q /\ q <= end /\ b.state \in Names /\ b.counts \in BOOLEAN
  BY SettingNat DEF IsBlock, Block
<1>2. /\ Kept \subseteq start..end - 1
      /\ q - p >= dur => p \in Kept /\ \A t \in p..q - 1 : Given(t) = b.state
      /\ q - p < dur => p \notin Kept /\ \A t \in p..q - 1 : Given(t) = Given(p - 1)
      /\ \A k \in Kept : ~(p < k /\ k < q)
  BY BlockGiven
<1>3. F = <<>> <=> \A k \in Kept : p <= k
  BY DEF FilteredTo
<1>4. p \in p..q - 1 /\ q - 1 \in p..q - 1
  BY <1>1
<1>5. Carried[p] = b.state
  BY <1>4 DEF IsBlock
<1> HIDE DEF p, q
<1>6. /\ \A t \in p..q - 1 : Given(t) = Given(p)
      /\ Given(p) = Given(q - 1)
      /\ q - p >= dur => Given(p) = b.state
      /\ q - p < dur => Given(p) = Given(p - 1)
  <2>1. CASE q - p >= dur
    BY <1>1, <1>2, <1>4, <2>1
  <2>2. CASE q - p < dur
    BY <1>1, <1>2, <1>4, <2>2
  <2> QED BY <1>1, <2>1, <2>2
<1>7. p \in Kept <=> q - p >= dur
  BY <1>1, <1>2
<1>8. F = <<>> => Given(p - 1) = NoState
  <2>1. \A k \in Kept : k \in Nat
    BY <1>1, <1>2
  <2>2. F = <<>> => {k \in Kept : k <= p - 1} = {}
    BY <1>1, <1>3, <2>1
  <2> QED BY <2>2 DEF Given, GivenTo
<1>9. (\A k \in Kept : q <= k) <=> F = <<>> /\ q - p < dur
  <2>1. \A k \in Kept : k \in Nat
    BY <1>1, <1>2
  <2>2. \A k \in Kept : q <= k <=> p <= k /\ k # p
    BY <1>1, <1>2, <2>1
  <2> QED BY <1>1, <1>3, <1>7, <2>2
<1>10. ASSUME NEW s \in Names
       PROVE  /\ Cardinality(Share(s, p)) \in Nat
              /\ Cardinality(Share(s, q)) =
                   Cardinality(Share(s, p)) + IF s = Given(q - 1) THEN q - p ELSE 0
              /\ Cardinality(Visits(s, p)) \in Nat
              /\ Cardinality(Visits(s, q)) = Cardinality(Visits(s, p)) +
                   IF /\ q - p >= dur /\ s = b.state /\ Given(p - 1) # s
                      /\ (p = start => ~Continues)
                   THEN 1 ELSE 0
  <2>1. /\ Cardinality(Share(s, p)) \in Nat
        /\ Cardinality(Share(s, q)) =
             Cardinality(Share(s, p)) + IF s = Given(q - 1) THEN q - p ELSE 0
    <3>1. p \in Nat /\ q \in Nat /\ start \in Nat /\ start <= p /\ p < q
      BY <1>1
    <3> QED BY <1>6, <3>1, ShareGrows
  <2>2. /\ Cardinality(Visits(s, p)) \in Nat
        /\ Cardinality(Visits(s, q)) = Cardinality(Visits(s, p)) +
             IF /\ p \in Kept /\ Carried[p] = s /\ Given(p - 1) # s
                /\ (p = start => ~Continues)
             THEN 1 ELSE 0
    BY <1>1, <1>2, VisitsGrow
  <2> QED BY <1>5, <1>7, <2>1, <2>2
<1>11. Filed(b)
  BY <1>10 DEF Filed, p, q
<1> QED BY <1>1, <1>4, <1>6, <1>8, <1>9, <1>11 DEF p, q

(* A glitch before any visit is dropped.                                   *)
LEMMA FilteredDropped ==
    ASSUME Setting, NEW b, IsBlock(b), FilteredTo(<<>>, b.from),
           b.to = end \/ b.to \in RowsOf(Carried, start, end),
           b.to - b.from < dur
    PROVE  FilteredTo(<<>>, b.to)
<1> DEFINE c == Given(b.to - 1)
<1>1. b.from \in Nat /\ b.to \in Nat /\ dur \in Nat
  BY SettingNat DEF IsBlock, Block
<1>2. ~(b.to - b.from >= dur)
  BY <1>1
<1>3. c = NoState /\ (\A k \in Kept : b.to <= k) /\ Filed(b)
  BY <1>1, FilteredBlock
<1>4. \A s \in Names : s # c
  BY <1>3, NamesAssumption
<1> HIDE DEF c
<1>5. \A s \in Names : /\ Cardinality(Share(s, b.to)) = Cardinality(Share(s, b.from))
                       /\ Cardinality(Visits(s, b.to)) = Cardinality(Visits(s, b.from))
  <2>1. SUFFICES ASSUME NEW s \in Names
                 PROVE  /\ Cardinality(Share(s, b.to)) = Cardinality(Share(s, b.from))
                        /\ Cardinality(Visits(s, b.to)) = Cardinality(Visits(s, b.from))
    OBVIOUS
  <2>2. s # Given(b.to - 1)
    BY <1>4 DEF c
  <2> QED BY <1>2, <1>3, <2>2 DEF Filed
<1> QED BY <1>3, <1>5 DEF FilteredTo

(* A glitch, or a return to the last visit's state, extends that visit.    *)
LEMMA FilteredExtended ==
    ASSUME Setting, NEW F, F # <<>>, NEW b, IsBlock(b), FilteredTo(F, b.from),
           b.to = end \/ b.to \in RowsOf(Carried, start, end),
           b.to - b.from < dur \/ LastState(F) = b.state
    PROVE  FilteredTo([F EXCEPT ![Len(F)].secs = @ + (b.to - b.from)], b.to)
<1> DEFINE c == LastState(F)
           d == b.to - b.from
           G == [F EXCEPT ![Len(F)].secs = @ + d]
<1>1. b.from \in Nat /\ b.to \in Nat /\ dur \in Nat /\ b.from < b.to
  BY SettingNat DEF IsBlock, Block
<1>2. F \in Seq(Visit) /\ Given(b.from - 1) = c /\ d \in Nat
  BY <1>1 DEF FilteredTo
<1>3. (d >= dur => c = b.state) /\ (d < dur => c = Given(b.from - 1))
  BY <1>1, <1>2
<1>4. /\ d >= dur => Given(b.to - 1) = b.state
      /\ d < dur => Given(b.to - 1) = Given(b.from - 1)
      /\ ~(\A k \in Kept : b.to <= k)
      /\ Filed(b)
  <2>1. Filed(b)
    BY FilteredBlock
  <2>2. (\A k \in Kept : b.to <= k) <=> F = <<>> /\ b.to - b.from < dur
    BY FilteredBlock
  <2>3. d >= dur => Given(b.to - 1) = b.state
    BY FilteredBlock
  <2>4. d < dur => Given(b.to - 1) = Given(b.from - 1)
    BY FilteredBlock
  <2> QED BY <2>1, <2>2, <2>3, <2>4
<1>5. /\ G \in Seq(Visit) /\ G # <<>> /\ LastState(G) = c
      /\ \A s \in Names :
           /\ SumOver(G, s) = SumOver(F, s) + IF s = c THEN d ELSE 0
           /\ CountOver(G, s) = CountOver(F, s)
  BY <1>2, VisitExtended DEF LastState
<1>6. /\ \A s \in Names : SumOver(F, s) = Cardinality(Share(s, b.from))
      /\ query = start => \A s \in Names : CountOver(F, s) = Cardinality(Visits(s, b.from))
  BY DEF FilteredTo
<1>7. Given(b.to - 1) = c
  BY <1>1, <1>3, <1>4
<1> HIDE DEF c, G
<1>8. ASSUME NEW s \in Names
      PROVE  /\ SumOver(G, s) = Cardinality(Share(s, b.to))
             /\ Cardinality(Visits(s, b.to)) = Cardinality(Visits(s, b.from))
  <2>1. /\ Cardinality(Share(s, b.to)) =
             Cardinality(Share(s, b.from)) + IF s = c THEN d ELSE 0
        /\ Cardinality(Visits(s, b.from)) \in Nat
        /\ Cardinality(Visits(s, b.to)) = Cardinality(Visits(s, b.from)) +
             IF /\ d >= dur /\ s = b.state /\ Given(b.from - 1) # s
                /\ (b.from = start => ~Continues)
             THEN 1 ELSE 0
    BY <1>4, <1>7 DEF Filed
  <2> HIDE DEF d
  <2>2. ~(d >= dur /\ s = b.state /\ Given(b.from - 1) # s)
    BY <1>2, <1>3
  <2> QED BY <1>5, <1>6, <2>1, <2>2
<1>9. FilteredTo(G, b.to)
  BY <1>4, <1>5, <1>6, <1>7, <1>8 DEF FilteredTo
<1> QED BY <1>9 DEF G, d

(* Any other block is a visit of its own.                                  *)
LEMMA FilteredAppended ==
    ASSUME Setting, NEW F, NEW b, IsBlock(b), FilteredTo(F, b.from),
           b.to = end \/ b.to \in RowsOf(Carried, start, end),
           b.to - b.from >= dur, F # <<>> => LastState(F) # b.state
    PROVE  FilteredTo(Append(F, [state |-> b.state, secs |-> b.to - b.from,
                                 counts |-> b.counts]), b.to)
<1> DEFINE c == b.state
           d == b.to - b.from
           v == [state |-> c, secs |-> d, counts |-> b.counts]
           G == Append(F, v)
<1>1. /\ b.from \in Nat /\ b.to \in Nat /\ dur \in Nat /\ b.from < b.to
      /\ b.state \in Names /\ b.counts \in BOOLEAN
      /\ query = start => (b.counts <=> (b.from = start => ~Continues))
  BY SettingNat DEF IsBlock, Block
<1>2. F \in Seq(Visit) /\ d \in Nat /\ v \in Visit
  BY <1>1 DEF FilteredTo, Visit
<1>3. ~(d < dur)
  BY <1>1
<1>4. /\ Given(b.to - 1) = c
      /\ F = <<>> => Given(b.from - 1) = NoState
      /\ ~(\A k \in Kept : b.to <= k)
      /\ Filed(b)
  BY <1>3, FilteredBlock
<1>5. /\ G \in Seq(Visit) /\ G # <<>> /\ LastState(G) = c
      /\ \A s \in Names :
           /\ SumOver(G, s) = SumOver(F, s) + IF s = c THEN d ELSE 0
           /\ CountOver(G, s) = CountOver(F, s) + IF s = c /\ b.counts THEN 1 ELSE 0
  <2>1. v.state = c /\ v.secs = d /\ v.counts = b.counts
    OBVIOUS
  <2> HIDE DEF v, d, c
  <2> QED BY <1>2, <2>1, VisitAppended DEF LastState
<1>6. /\ \A s \in Names : SumOver(F, s) = Cardinality(Share(s, b.from))
      /\ query = start => \A s \in Names : CountOver(F, s) = Cardinality(Visits(s, b.from))
  BY DEF FilteredTo
<1>7. Given(b.from - 1) # c
  <2>1. CASE F = <<>>
    BY <1>1, <1>4, <2>1, NamesAssumption
  <2>2. CASE F # <<>>
    BY <2>2 DEF FilteredTo
  <2> QED BY <2>1, <2>2
<1> HIDE DEF d, G, v
<1>8. ASSUME NEW s \in Names
      PROVE  /\ SumOver(G, s) = Cardinality(Share(s, b.to))
             /\ query = start => CountOver(G, s) = Cardinality(Visits(s, b.to))
  <2>1. d >= dur
    BY DEF d
  <2>2. /\ Cardinality(Share(s, b.to)) =
             Cardinality(Share(s, b.from)) + IF s = c THEN d ELSE 0
        /\ Cardinality(Visits(s, b.to)) = Cardinality(Visits(s, b.from)) +
             IF /\ d >= dur /\ s = c /\ Given(b.from - 1) # s
                /\ (b.from = start => ~Continues)
             THEN 1 ELSE 0
    BY <1>4 DEF Filed, d
  <2>3. SumOver(G, s) = Cardinality(Share(s, b.to))
    BY <1>5, <1>6, <2>2
  <2>4. ASSUME query = start PROVE CountOver(G, s) = Cardinality(Visits(s, b.to))
    <3>1. b.counts <=> (b.from = start => ~Continues)
      BY <1>1, <2>4
    <3>2. CountOver(F, s) = Cardinality(Visits(s, b.from))
      BY <1>6, <2>4
    <3> QED BY <1>5, <1>7, <2>1, <2>2, <3>1, <3>2
  <2> QED BY <2>3, <2>4
<1>9. FilteredTo(G, b.to)
  BY <1>4, <1>5, <1>8 DEF FilteredTo
<1> QED BY <1>9 DEF G, v, d

\* Where the first block that the filter has not seen begins.
PositionOf(r) == IF r = <<>> THEN end ELSE r[1].from

(* What is left once a block is filtered.                                  *)
LEMMA ChainTail ==
    ASSUME Setting, NEW r, Chain(r, end), r # <<>>
    PROVE  /\ Chain(Tail(r), end) /\ IsBlock(Head(r))
           /\ PositionOf(r) = Head(r).from /\ PositionOf(Tail(r)) = Head(r).to
           /\ Head(r).to = end \/ Head(r).to \in RowsOf(Carried, start, end)
<1> DEFINE k == Len(r)
           q == Tail(r)
<1>1. /\ r \in Seq(Block) /\ k \in Nat /\ 1 <= k /\ Head(r) = r[1]
      /\ \A i \in 1..k : IsBlock(r[i])
      /\ \A i \in 1..k - 1 : r[i].to = r[i + 1].from
      /\ r[k].to = end
  BY DEF Chain
<1>2. /\ q \in Seq(Block) /\ Len(q) = k - 1 /\ \A i \in 1..k - 1 : q[i] = r[i + 1]
      /\ q = <<>> <=> k = 1
  <2>1. q \in Seq(Block) /\ Len(q) = k - 1
    BY <1>1
  <2>2. \A i \in 1..k - 1 : q[i] = r[i + 1]
    BY <1>1
  <2> HIDE DEF k, q
  <2>3. q = <<>> <=> k = 1
    BY <1>1, <2>1
  <2> QED BY <2>1, <2>2, <2>3
<1> HIDE DEF k, q
<1>3. IsBlock(r[1])
  BY <1>1
<1>4. Chain(q, end)
  <2>1. \A i \in 1..k - 1 : i + 1 \in 1..k
    BY <1>1
  <2>2. \A i \in 1..Len(q) : IsBlock(q[i])
    BY <1>1, <1>2, <2>1
  <2>3. ASSUME NEW i \in 1..Len(q) - 1 PROVE q[i].to = q[i + 1].from
    <3>1. i \in 1..k - 1 /\ i + 1 \in 1..k - 1
      BY <1>1, <1>2
    <3>2. r[i + 1].to = r[(i + 1) + 1].from
      BY <1>1, <3>1
    <3> QED BY <1>2, <3>1, <3>2
  <2>4. q # <<>> => q[Len(q)].to = end
    <3>1. SUFFICES ASSUME q # <<>> PROVE q[Len(q)].to = end
      OBVIOUS
    <3>2. k - 1 \in 1..k - 1 /\ (k - 1) + 1 = k
      BY <1>1, <1>2, <3>1
    <3>3. q[k - 1] = r[k]
      BY <1>2, <3>2
    <3> QED BY <1>1, <1>2, <3>3
  <2> QED BY <1>2, <2>2, <2>3, <2>4 DEF Chain
<1>5. CASE k = 1
  <2>1. PositionOf(q) = end
    BY <1>2, <1>5 DEF PositionOf
  <2> QED BY <1>1, <1>3, <1>4, <1>5, <2>1 DEF PositionOf, q
<1>6. CASE k # 1
  <2>1. 1 \in 1..k - 1 /\ 2 \in 1..k
    BY <1>1, <1>6
  <2>2. q[1] = r[2] /\ r[1].to = r[2].from /\ IsBlock(r[2])
    BY <1>1, <1>2, <2>1
  <2>3. PositionOf(q) = r[1].to
    BY <1>2, <1>6, <2>2 DEF PositionOf
  <2>4. r[1].to \in RowsOf(Carried, start, end)
    BY <2>2, BlockHasRow
  <2> QED BY <1>1, <1>3, <1>4, <2>3, <2>4 DEF PositionOf, q
<1> QED BY <1>5, <1>6

(* Before the first block nothing is given to a state.                     *)
LEMMA NoneFiltered ==
    ASSUME Setting, start < end, Chain(raw, end), NoneBefore(raw, end)
    PROVE  FilteredTo(<<>>, PositionOf(raw))
<1> DEFINE p == PositionOf(raw)
<1>1. start \in Nat /\ end \in Nat
  BY SettingNat
<1>2. Kept \subseteq RowsOf(Carried, start, end)
  BY DEF Kept, Survivors
<1>3. \A k \in Kept : k \in start..end - 1 /\ Carried[k] # NoState
  BY <1>2 DEF RowsOf
<1>4. p \in Nat
  <2>1. CASE raw = <<>>
    BY <1>1, <2>1 DEF PositionOf
  <2>2. CASE raw # <<>>
    BY <1>1, <2>2, ChainTail DEF PositionOf, IsBlock, Block
  <2> QED BY <2>1, <2>2
<1>5. \A k \in Kept : k \in Nat /\ p <= k
  <2>1. SUFFICES ASSUME NEW k \in Kept, k < p PROVE FALSE
    BY <1>1, <1>3, <1>4
  <2>2. raw = <<>> \/ k < raw[1].from
    BY <2>1 DEF PositionOf
  <2> QED BY <1>3, <2>2 DEF NoneBefore
<1> HIDE DEF p
<1>6. ASSUME NEW s \in Names
      PROVE  SumOver(<<>>, s) = 0 /\ CountOver(<<>>, s) = 0
  BY NoVisits
<1>7. ASSUME NEW s \in Names
      PROVE  Cardinality(Share(s, p)) = 0 /\ Cardinality(Visits(s, p)) = 0
  <2>1. \A t \in start..p - 1 : {k \in Kept : k <= t} = {}
    BY <1>1, <1>4, <1>5
  <2>2. \A t \in start..p - 1 : Given(t) = NoState
    BY <2>1 DEF Given, GivenTo
  <2>3. Share(s, p) = {}
    BY <2>2, NamesAssumption DEF Share
  <2>4. Visits(s, p) = {}
    BY <1>4, <1>5 DEF Visits
  <2> QED BY <2>3, <2>4, FS_EmptySet
<1>8. <<>> \in Seq(Visit)
  OBVIOUS
<1> QED BY <1>5, <1>6, <1>7, <1>8 DEF FilteredTo, p

(* The filter takes in one block.                                          *)
LEMMA BlockFiltered ==
    ASSUME Setting, Chain(raw, end), FilteredTo(filtered, PositionOf(raw)), Filter
    PROVE  Chain(raw', end) /\ FilteredTo(filtered', PositionOf(raw'))
<1> DEFINE b == Head(raw)
<1>1. /\ raw' = Tail(raw) /\ raw # <<>>
      /\ filtered' = IF filtered # <<>> /\ Extends(b)
                     THEN [filtered EXCEPT ![Len(filtered)].secs = @ + (b.to - b.from)]
                     ELSE IF b.to - b.from < dur THEN filtered
                     ELSE Append(filtered, [state |-> b.state, secs |-> b.to - b.from,
                                            counts |-> b.counts])
  BY DEF Filter
<1>2. /\ Chain(raw', end) /\ IsBlock(b)
      /\ PositionOf(raw) = b.from /\ PositionOf(raw') = b.to
      /\ b.to = end \/ b.to \in RowsOf(Carried, start, end)
  BY <1>1, ChainTail
<1>3. Extends(b) <=> b.to - b.from < dur \/ LastState(filtered) = b.state
  BY DEF Extends, LastState
<1> HIDE DEF b
<1>4. FilteredTo(filtered, b.from)
  BY <1>2
<1>5. b.from \in Nat /\ b.to \in Nat /\ dur \in Nat
  BY <1>2, SettingNat DEF IsBlock, Block
<1>6. CASE filtered # <<>> /\ Extends(b)
  <2>1. filtered' = [filtered EXCEPT ![Len(filtered)].secs = @ + (b.to - b.from)]
    BY <1>1, <1>6
  <2>2. FilteredTo(filtered', b.to)
    BY <1>2, <1>3, <1>4, <1>6, <2>1, FilteredExtended
  <2> QED BY <1>2, <2>2
<1>7. CASE ~(filtered # <<>> /\ Extends(b)) /\ b.to - b.from < dur
  <2>1. filtered = <<>> /\ filtered' = <<>>
    BY <1>1, <1>3, <1>7
  <2>2. FilteredTo(<<>>, b.to)
    BY <1>2, <1>4, <1>7, <2>1, FilteredDropped
  <2> QED BY <1>2, <2>1, <2>2
<1>8. CASE ~(filtered # <<>> /\ Extends(b)) /\ ~(b.to - b.from < dur)
  <2>1. filtered' = Append(filtered, [state |-> b.state, secs |-> b.to - b.from,
                                      counts |-> b.counts])
    BY <1>1, <1>8
  <2>2. b.to - b.from >= dur /\ (filtered # <<>> => LastState(filtered) # b.state)
    BY <1>3, <1>5, <1>8
  <2>3. FilteredTo(filtered', b.to)
    BY <1>2, <1>4, <2>1, <2>2, FilteredAppended
  <2> QED BY <1>2, <2>3
<1> QED BY <1>6, <1>7, <1>8

-----------------------------------------------------------------------------
(* The function.                                                           *)

\* Where each part of the function stands.
LoopInv ==
    /\ Setting
    /\ phase \in {"carry", "collect", "filter", "done"}
    /\ phase = "carry" =>
         rows = Queried /\ first = TRUE /\ raw = <<>> /\ filtered = <<>>
    /\ phase = "collect" => Collecting
    /\ phase = "filter" =>
         start < end /\ Chain(raw, end) /\ FilteredTo(filtered, PositionOf(raw))
    /\ phase = "done" =>
         IF start = end THEN filtered = <<>> ELSE FilteredTo(filtered, end)

(* It holds at first.                                                      *)
LEMMA InitLoopInv == Init => LoopInv
  BY DEF Init, LoopInv, Setting

(* A step leaves the input alone, and all that is said of the input alone. *)
LEMMA InputKept ==
    ASSUME UNCHANGED input, Setting
    PROVE  /\ Setting' /\ start' = start /\ end' = end /\ query' = query
           /\ Unread' = Unread
           /\ \A r, e : (Chain(r, e) => Chain(r, e)') /\ (NoneBefore(r, e) => NoneBefore(r, e)')
           /\ \A F, p : FilteredTo(F, p) => FilteredTo(F, p)'
           /\ \A r : PositionOf(r)' = PositionOf(r)
<1>1. /\ line' = line /\ repeats' = repeats /\ query' = query /\ start' = start
      /\ end' = end /\ dur' = dur
  BY DEF input
<1>2. Setting'
  BY <1>1 DEF Setting
<1>3. Carried' = Carried /\ (Continues' <=> Continues)
  BY <1>1 DEF Carried, Continues
<1>4. Unread' = Unread
  BY <1>1, <1>3 DEF Unread
<1>5. \A b : IsBlock(b) <=> IsBlock(b)'
  BY <1>1, <1>3 DEF IsBlock
<1>6. \A r, e : Chain(r, e) => Chain(r, e)'
  BY <1>5 DEF Chain
<1>7. \A r, e : NoneBefore(r, e) => NoneBefore(r, e)'
  BY <1>1, <1>3 DEF NoneBefore
<1>8. Kept' = Kept
  BY <1>1, <1>3 DEF Kept
<1>9. \A t : Given(t)' = Given(t)
  BY <1>3, <1>8 DEF Given
<1>10. \A s, p : Share(s, p)' = Share(s, p) /\ Visits(s, p)' = Visits(s, p)
  BY <1>1, <1>3, <1>8, <1>9 DEF Share, Visits
<1>11. \A F, p : FilteredTo(F, p) => FilteredTo(F, p)'
  BY <1>1, <1>8, <1>9, <1>10 DEF FilteredTo
<1>12. \A r : PositionOf(r)' = PositionOf(r)
  BY <1>1 DEF PositionOf
<1> QED BY <1>1, <1>2, <1>4, <1>6, <1>7, <1>11, <1>12

(* Every step keeps it.                                                    *)
LEMMA NextLoopInv == LoopInv /\ [Next]_vars => LoopInv'
<1> SUFFICES ASSUME LoopInv, [Next]_vars PROVE LoopInv'
  OBVIOUS
<1>1. Setting /\ start \in Nat /\ end \in Nat /\ query \in Nat
      /\ query <= start /\ start <= end
  BY SettingNat DEF LoopInv
<1>2. UNCHANGED input
  BY DEF Next, Carry, Collect, Collected, Filter, Filtered, vars, input
<1>3. Setting' /\ start' = start /\ end' = end /\ query' = query /\ Unread' = Unread
  BY <1>1, <1>2, InputKept
<1>4. \A r, e : (Chain(r, e) => Chain(r, e)') /\ (NoneBefore(r, e) => NoneBefore(r, e)')
  BY <1>1, <1>2, InputKept
<1>5. \A F, p : FilteredTo(F, p) => FilteredTo(F, p)'
  BY <1>1, <1>2, InputKept
<1>6. \A r : PositionOf(r)' = PositionOf(r)
  BY <1>1, <1>2, InputKept
<1>7. CASE Carry
  <2>1. rows' = Normalised /\ first' = TRUE /\ raw' = <<>> /\ filtered' = <<>>
    BY <1>7 DEF Carry, LoopInv, Normalised
  <2>2. CASE end <= start
    <3>1. phase' = "done" /\ start = end
      BY <1>1, <1>7, <2>2 DEF Carry
    <3> QED BY <1>3, <2>1, <3>1 DEF LoopInv
  <2>3. CASE ~(end <= start)
    <3>1. phase' = "collect" /\ start < end
      BY <1>1, <1>7, <2>3 DEF Carry
    <3>2. Collecting'
      <4>1. rows' = Unread'
        BY <1>1, <1>3, <2>1, CarriedRows DEF CarriedOK
      <4>2. /\ Chain(<<>>, Later(start, Reached))' /\ NoneBefore(<<>>, Later(start, Reached))'
            /\ rows' = {t \in Unread' : Reached' <= t}
        <5>1. Reached' = IF Unread = {} THEN end ELSE Min(Unread)
          BY <1>3, <4>1 DEF Reached
        <5>2. /\ Chain(<<>>, Later(start, Reached')) /\ NoneBefore(<<>>, Later(start, Reached'))
              /\ \A t \in Unread : Reached' <= t
          BY <1>1, <5>1, NoneRead
        <5>3. Later(start, Reached)' = Later(start, Reached')
          BY <1>3 DEF Later
        <5> QED BY <1>3, <1>4, <4>1, <5>2, <5>3
      <4> QED BY <1>3, <2>1, <3>1, <4>2 DEF Collecting
    <3> QED BY <1>3, <3>1, <3>2 DEF LoopInv
  <2> QED BY <2>2, <2>3
<1>8. CASE Collect
  <2>1. Collecting /\ phase' = "collect" /\ filtered' = filtered /\ rows # {}
        /\ rows' = Following /\ first' = FALSE
    BY <1>8 DEF LoopInv, Collect
  <2>2. Following = {t \in Unread : Ahead <= t} /\ query \notin Following
    BY <1>1, <2>1, RowRead DEF Collecting
  <2>3. Reached' = Ahead
    BY <1>3, <2>1 DEF Reached, Ahead
  <2>4. Chain(raw', Later(start, Ahead)) /\ NoneBefore(raw', Later(start, Ahead))
    BY <1>1, <1>8, <2>1, RowCollected
  <2>5. Collecting'
    <3>1. (Later(start, Reached))' = Later(start, Ahead)
      BY <1>3, <2>3 DEF Later
    <3>2. Chain(raw, Later(start, Reached))' /\ NoneBefore(raw, Later(start, Reached))'
      BY <1>4, <2>4, <3>1
    <3> QED BY <1>3, <2>1, <2>2, <2>3, <3>2 DEF Collecting
  <2> QED BY <1>3, <2>1, <2>5 DEF LoopInv
<1>9. CASE Collected
  <2>1. Collecting /\ phase' = "filter" /\ filtered' = <<>> /\ raw' = raw
    BY <1>9 DEF LoopInv, Collected, Collecting
  <2>2. rows = {}
    <3>1. SUFFICES ASSUME rows # {} PROVE FALSE
      OBVIOUS
    <3>2. /\ BlockStart = Later(start, Row) /\ Row \in Nat /\ Row < end
      <4>1. Row \in Nat /\ Ahead \in Nat /\ Row < Ahead /\ Ahead <= end
            /\ BlockStart = Later(start, Row)
        BY <1>1, <2>1, <3>1, RowRead DEF Collecting
      <4> QED BY <1>1, <4>1
    <3>3. BlockStart >= end
      BY <1>9, <3>1 DEF Collected
    <3> QED BY <1>1, <2>1, <3>2, <3>3 DEF Collecting, Later
  <2>3. Later(start, Reached) = end
    BY <1>1, <2>2 DEF Reached, Later
  <2>4. start < end /\ Chain(raw, end) /\ NoneBefore(raw, end)
    BY <2>1, <2>3 DEF Collecting
  <2>5. FilteredTo(<<>>, PositionOf(raw))
    BY <1>1, <2>4, NoneFiltered
  <2>6. Chain(raw, end)' /\ FilteredTo(filtered, PositionOf(raw))'
    BY <1>3, <1>4, <1>5, <1>6, <2>1, <2>4, <2>5
  <2> QED BY <1>3, <2>1, <2>4, <2>6 DEF LoopInv
<1>10. CASE Filter
  <2>1. start < end /\ Chain(raw, end) /\ FilteredTo(filtered, PositionOf(raw))
        /\ phase' = "filter"
    BY <1>10 DEF LoopInv, Filter
  <2>2. Chain(raw', end) /\ FilteredTo(filtered', PositionOf(raw'))
    BY <1>1, <1>10, <2>1, BlockFiltered
  <2>3. Chain(raw, end)' /\ FilteredTo(filtered, PositionOf(raw))'
    BY <1>3, <1>4, <1>5, <1>6, <2>2
  <2> QED BY <1>3, <2>1, <2>3 DEF LoopInv
<1>11. CASE Filtered
  <2>1. start < end /\ FilteredTo(filtered, PositionOf(raw)) /\ raw = <<>>
        /\ phase' = "done" /\ filtered' = filtered
    BY <1>11 DEF LoopInv, Filtered
  <2>2. FilteredTo(filtered, end)
    BY <2>1 DEF PositionOf
  <2>3. FilteredTo(filtered, end)'
    BY <1>3, <1>5, <2>1, <2>2
  <2> QED BY <1>1, <1>3, <2>1, <2>3 DEF LoopInv
<1>12. CASE UNCHANGED vars
  <2>1. /\ phase' = phase /\ rows' = rows /\ first' = first /\ raw' = raw
        /\ filtered' = filtered /\ line' = line /\ repeats' = repeats
    BY <1>12 DEF vars
  <2>2. Queried' = Queried
    BY <1>3, <2>1 DEF Queried
  <2>3. Later(start, Reached)' = Later(start, Reached) /\ Reached' = Reached
    BY <1>3, <2>1 DEF Reached, Later
  <2>4. Collecting => Collecting'
    BY <1>3, <1>4, <2>1, <2>3 DEF Collecting
  <2>5. Chain(raw, end) => Chain(raw, end)'
    BY <1>3, <1>4, <2>1
  <2>6. FilteredTo(filtered, PositionOf(raw)) => FilteredTo(filtered, PositionOf(raw))'
    BY <1>3, <1>5, <1>6, <2>1
  <2>7. FilteredTo(filtered, end) => FilteredTo(filtered, end)'
    BY <1>3, <1>5, <2>1
  <2> QED BY <1>3, <2>1, <2>2, <2>4, <2>5, <2>6, <2>7 DEF LoopInv
<1> QED BY <1>7, <1>8, <1>9, <1>10, <1>11, <1>12 DEF Next

(* What the function returns, once it has returned.                        *)
LEMMA ResultIs ==
    ASSUME LoopInv, phase = "done"
    PROVE  /\ \A s \in Names : Result[s].secs = Expected[s].secs
           /\ query = start => Result = Expected
<1>1. Setting /\ start \in Nat /\ end \in Nat /\ start <= end /\ query <= start
      /\ query \in Nat
  BY SettingNat DEF LoopInv
<1>2. Result = [s \in Names |-> [secs |-> SumOver(filtered, s), count |-> CountOver(filtered, s)]]
  BY DEF Result, SumOver, CountOver, OfIn, Of
<1>3. CASE start = end
  <2>1. filtered = <<>>
    BY <1>3 DEF LoopInv
  <2>2. Result = [s \in Names |-> [secs |-> 0, count |-> 0]]
    BY <1>2, <2>1, NoVisits
  <2>3. Expected = [s \in Names |-> [secs |-> 0, count |-> 0]]
    BY <1>3 DEF Expected, EmptyDay, EmptyRow
  <2> QED BY <2>2, <2>3
<1>4. CASE start # end
  <2>1. FilteredTo(filtered, end)
    BY <1>4 DEF LoopInv
  <2> DEFINE Total(s) == Cardinality({t \in start..(end - 1) : GivenTo(Carried, Kept, t) = s})
             Number(s) == Cardinality(
                {k \in Kept : /\ Carried[k] = s
                              /\ GivenTo(Carried, Kept, k - 1) # s
                              /\ k = start => ~(start > 0 /\ Carried[start - 1] = Carried[start])})
  <2>2. Expected = [s \in Names |-> [secs |-> Total(s), count |-> Number(s)]]
    BY <1>4 DEF Expected, Blocks, Carried, Kept
  <2>3. \A s \in Names : SumOver(filtered, s) = Total(s)
    BY <2>1 DEF FilteredTo, Share, Given
  <2>4. ASSUME query = start, NEW s \in Names PROVE CountOver(filtered, s) = Number(s)
    <3>1. (start > 0 /\ Carried[start - 1] = Carried[start]) <=> Continues
      <4>1. /\ start > 0 => Carried[start - 1] = line[start - 1]
            /\ Carried[start] = line[start]
        BY <1>1, <1>4, <2>4, CarriedRows DEF CarriedOK
      <4> QED BY <4>1 DEF Continues
    <3>2. \A k \in Kept : k < end
      <4>1. Kept \subseteq start..end - 1
        BY DEF Kept, Survivors, RowsOf
      <4> QED BY <1>1, <4>1
    <3>3. Number(s) = Cardinality(Visits(s, end))
      BY <3>1, <3>2 DEF Visits, Given
    <3> QED BY <2>1, <2>4, <3>3 DEF FilteredTo
  <2> HIDE DEF Total, Number
  <2> QED BY <1>2, <2>2, <2>3, <2>4
<1> QED BY <1>3, <1>4

(* On rows queried from the window's start the two loops return, on every  *)
(* timeline, the declarative blocks of DayBlocks: real seconds per state,  *)
(* a glitch's time with the visit before it, and each visit once.          *)
THEOREM LoopsComputeDays == Spec => []QueriedDayMatches
<1>1. LoopInv => QueriedDayMatches
  BY ResultIs DEF QueriedDayMatches
<1> QED BY InitLoopInv, NextLoopInv, <1>1, PTL DEF Spec

(* On rows queried from earlier, as a tick shares one query among frames,  *)
(* the seconds are those of the window.                                    *)
THEOREM SharedQueryServesWindows == Spec => []SharedQuerySecs
<1>1. LoopInv => SharedQuerySecs
  BY ResultIs DEF SharedQuerySecs
<1> QED BY InitLoopInv, NextLoopInv, <1>1, PTL DEF Spec
=============================================================================
