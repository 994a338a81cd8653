--------------------------- MODULE PublishedProofs ---------------------------
(* Theorems of Published, for every value of its constants.                *)
EXTENDS Published, FiniteSums

-----------------------------------------------------------------------------
(* The result of a frame.                                                  *)

\* The dominant state of result r leads, or is kept through the hysteresis.
Leads(r) ==
    IF r.secs = <<>> THEN r.dominant = NoState
    ELSE /\ r.dominant \in DOMAIN r.secs
         /\ \A s \in DOMAIN r.secs :
               (r.secs[s] - r.secs[r.dominant]) * Whole <= r.window * Hysteresis

(* An input is a window and seconds of some of the states.                 *)
LEMMA InputsType ==
    ASSUME NEW i \in Inputs
    PROVE  /\ i.window \in Nat
           /\ \E S \in SUBSET States : i.secs \in [S -> Nat]
<1>1. PICK w \in Windows :
        i \in {[window |-> w, secs |-> b] :
                 b \in {c \in UNION {[S -> 0..w] : S \in SUBSET States} : SumFunction(c) <= w}}
  BY DEF Inputs
<1>2. PICK b \in UNION {[S -> 0..w] : S \in SUBSET States} : i = [window |-> w, secs |-> b]
  BY <1>1
<1>3. PICK S \in SUBSET States : b \in [S -> 0..w]
  BY <1>2
<1>4. w \in Nat
  BY PublishedAssumption
<1>5. b \in [S -> Nat]
  BY <1>3, <1>4
<1> QED
  BY <1>2, <1>4, <1>5

(* _pick_dominant returns a state that no other leads by more than the     *)
(* hysteresis.                                                             *)
LEMMA ResultsLead ==
    ASSUME NEW i \in Inputs, NEW prior \in States \cup {NoState}, NEW r \in Results(i, prior)
    PROVE  Leads(r) /\ r.dominant \in States \cup {NoState}
<1> DEFINE b == i.secs
           w == i.window
<1>1. PICK S \in SUBSET States : b \in [S -> Nat]
  BY InputsType
<1>2. w \in Nat /\ Whole \in Nat /\ Hysteresis \in Nat /\ DOMAIN b = S
  BY <1>1, InputsType, PublishedAssumption
<1>3. w * Hysteresis \in Nat
  BY <1>2
<1>4. r.secs = b /\ r.window = w
  BY DEF Results
<1>5. CASE b = <<>>
  <2>1. r.dominant = NoState
    BY <1>5 DEF Results
  <2> QED
    BY <1>4, <1>5, <2>1 DEF Leads
<1>6. CASE b # <<>>
  <2>1. PICK leader \in Leaders(b) : r.dominant = Picked(b, w, prior, leader)
    BY <1>6 DEF Results
  <2>2. leader \in S /\ \A s \in S : b[s] <= b[leader]
    BY <1>2 DEF Leaders
  <2> HIDE DEF b, w
  <2>3. CASE r.dominant = leader
    <3>1. ASSUME NEW s \in S PROVE (b[s] - b[leader]) * Whole <= w * Hysteresis
      <4>1. b[s] \in Nat /\ b[leader] \in Nat /\ b[s] - b[leader] <= 0
        BY <1>1, <2>2
      <4>2. (b[s] - b[leader]) * Whole <= 0 * Whole
        BY <1>2, <4>1, ProductMonotone
      <4>3. (b[s] - b[leader]) * Whole \in Int
        BY <1>2, <4>1
      <4> QED
        BY <1>2, <1>3, <4>2, <4>3
    <3> QED
      BY <1>2, <1>4, <1>6, <2>2, <2>3, <3>1 DEF Leads
  <2>4. CASE r.dominant # leader
    <3>1. /\ r.dominant = prior /\ prior \in S
          /\ ~((b[leader] - b[prior]) * Whole > w * Hysteresis)
      BY <1>2, <2>1, <2>4 DEF Picked
    <3>2. ASSUME NEW s \in S PROVE (b[s] - b[prior]) * Whole <= w * Hysteresis
      <4>1. /\ b[s] \in Nat /\ b[leader] \in Nat /\ b[prior] \in Nat
            /\ b[s] - b[prior] <= b[leader] - b[prior]
        BY <1>1, <2>2, <3>1
      <4>2. (b[s] - b[prior]) * Whole <= (b[leader] - b[prior]) * Whole
        BY <1>2, <4>1, ProductMonotone
      <4>3. (b[s] - b[prior]) * Whole \in Int /\ (b[leader] - b[prior]) * Whole \in Int
        BY <1>2, <4>1
      <4> QED
        BY <1>3, <3>1, <4>2, <4>3
    <3> QED
      BY <1>2, <1>4, <1>6, <3>1, <3>2 DEF Leads
  <2> QED
    BY <2>3, <2>4
<1> QED
  BY <1>5, <1>6
-----------------------------------------------------------------------------
(* The inductive invariant.                                                *)

\* What the coordinator and the source have for entity e.
Value(e) == IF e = "frame" THEN data ELSE source

(* The coordinator's data is a result or none; no entity outlives its      *)
(* coordinator; an entity that is not added has an empty cache; and a      *)
(* cache that is not empty knows the availability, and of the frame the    *)
(* result, as they are: what may be older in it is the source's state,     *)
(* which is written directly.                                              *)
CacheInv ==
    /\ source \in Lives
    /\ data \in Result \cup {NoResult}
    /\ success \in BOOLEAN
    /\ published \in [Entities -> Lives \cup Result \cup {NoResult, Unavailable, Absent}]
    /\ cache \in [Entities -> [value : Lives \cup Result \cup {NoResult}, available : BOOLEAN]
                               \cup {Unset}]
    /\ ~up => \A e \in Entities : published[e] = Absent
    /\ \A e \in Entities :
          /\ published[e] = Absent => cache[e] = Unset
          /\ cache[e] # Unset => /\ cache[e].available = success
                                 /\ e = "frame" => cache[e].value = data

(* It holds at the start.                                                  *)
LEMMA InitCacheInv == Init => CacheInv /\ PublishedIsCurrent
  BY DEF Init, CacheInv, PublishedIsCurrent, Added

(* The prior state handed to _pick_dominant is a state, or none.           *)
LEMMA PriorType == CacheInv => Prior \in States \cup {NoState}
<1> SUFFICES ASSUME CacheInv, data # NoResult PROVE data.dominant \in States \cup {NoState}
  BY DEF Prior
<1>1. data \in Result
  BY DEF CacheInv
<1>2. PICK i \in Inputs, prior \in States \cup {NoState} : data \in Results(i, prior)
  BY <1>1 DEF Result
<1> QED
  BY <1>2, ResultsLead

(* What UpdateListeners leaves is current: an entity it skips has the      *)
(* triple it wrote last.                                                   *)
LEMMA ListenersCurrent ==
    ASSUME CacheInv, PublishedIsCurrent, UpdateListeners, up, up' = up, source' = source,
           data' \in Result \cup {NoResult}, success' \in BOOLEAN
    PROVE  CacheInv' /\ PublishedIsCurrent'
<1> DEFINE Values == Lives \cup Result \cup {NoResult}
<1>1. \A e \in Entities : Triple(e) \in [value : Values, available : BOOLEAN]
  BY DEF Triple, CacheInv
<1>2. \A e \in Entities : Written(e) \in Values \cup {Unavailable}
  BY DEF Triple, Written, CacheInv
<1>3. \A e \in Entities : Triple(e) # Unset /\ Written(e) # Absent
  BY <1>1, <1>2, SentinelAssumption
<1>4. /\ \A e \in Entities : published'[e] = IF e \in Added /\ ShouldWrite(e) THEN Written(e)
                                            ELSE published[e]
      /\ \A e \in Entities : cache'[e] = IF e \in Added /\ ShouldWrite(e) THEN Triple(e)
                                        ELSE cache[e]
      /\ published' \in [Entities -> Values \cup {Unavailable, Absent}]
      /\ cache' \in [Entities -> [value : Values, available : BOOLEAN] \cup {Unset}]
  BY <1>1, <1>2 DEF UpdateListeners, CacheInv
<1>5. ASSUME NEW e \in Entities
      PROVE  /\ published'[e] = Absent => cache'[e] = Unset
             /\ cache'[e] # Unset => /\ cache'[e].available = success'
                                     /\ e = "frame" => cache'[e].value = data'
             /\ published'[e] # Absent =>
                  published'[e] = IF ~success' THEN Unavailable
                                  ELSE IF e = "frame" THEN data' ELSE source'
  <2>1. CASE e \in Added /\ ShouldWrite(e)
    <3>1. published'[e] = Written(e) /\ cache'[e] = Triple(e)
      BY <1>4, <2>1
    <3> QED
      BY <1>3, <3>1 DEF Triple, Written
  <2>2. CASE e \notin Added
    <3>1. published'[e] = published[e] /\ cache'[e] = cache[e] /\ published[e] = Absent
      BY <1>4, <2>2 DEF Added
    <3> QED
      BY <3>1 DEF CacheInv
  <2>3. CASE e \in Added /\ cache[e] = Triple(e)
    <3>1. published'[e] = published[e] /\ cache'[e] = cache[e] /\ published[e] # Absent
      BY <1>4, <2>3 DEF Added, ShouldWrite
    <3>2. cache[e] # Unset
      BY <1>3, <2>3
    <3>3. success' = success /\ (e = "frame" => data' = data)
      BY <2>3, <3>2 DEF Triple, CacheInv
    <3> QED
      BY <2>3, <3>1, <3>2, <3>3 DEF CacheInv, PublishedIsCurrent
  <2> QED
    BY <2>1, <2>2, <2>3 DEF ShouldWrite
<1>6. CacheInv'
  BY <1>4, <1>5 DEF CacheInv
<1>7. PublishedIsCurrent'
  BY <1>5 DEF PublishedIsCurrent, Added
<1> QED
  BY <1>6, <1>7

(* No step breaks it, and none leaves an old state with Home Assistant.    *)
LEMMA NextCacheInv ==
    CacheInv /\ PublishedIsCurrent /\ [Next]_vars => CacheInv' /\ PublishedIsCurrent'
<1> SUFFICES ASSUME CacheInv, PublishedIsCurrent, [Next]_vars
             PROVE  CacheInv' /\ PublishedIsCurrent'
  OBVIOUS
<1>1. ASSUME NEW i \in Inputs, Tick(i) PROVE CacheInv' /\ PublishedIsCurrent'
  <2>1. data' \in Result
    BY <1>1, PriorType DEF Tick, Result
  <2> QED
    BY <1>1, <2>1, ListenersCurrent DEF Tick
<1>2. CASE FrameFails \/ TickFails
  <2>1. data' \in Result \cup {NoResult}
    BY <1>2 DEF FrameFails, TickFails, CacheInv
  <2> QED
    BY <1>2, <2>1, ListenersCurrent DEF FrameFails, TickFails
<1>3. ASSUME NEW i \in Inputs, SetUp(i) PROVE CacheInv' /\ PublishedIsCurrent'
  <2>1. data' \in Result \cup {NoResult}
    BY <1>3 DEF SetUp, Result
  <2>2. /\ success' = TRUE /\ up' = TRUE /\ UNCHANGED <<source, published, cache>>
        /\ \A e \in Entities : published[e] = Absent
    BY <1>3 DEF SetUp, CacheInv
  <2> QED
    BY <2>1, <2>2 DEF CacheInv, PublishedIsCurrent, Added
<1>4. ASSUME NEW e \in Entities, Add(e) PROVE CacheInv' /\ PublishedIsCurrent'
  <2>1. /\ UNCHANGED <<source, data, success, up, cache>> /\ up /\ cache[e] = Unset
        /\ published' = [published EXCEPT ![e] = Written(e)]
    BY <1>4 DEF Add, CacheInv
  <2>2. Written(e) = IF ~success THEN Unavailable ELSE IF e = "frame" THEN data ELSE source
    BY <2>1 DEF Written, Triple
  <2> QED
    BY <2>1, <2>2 DEF CacheInv, PublishedIsCurrent, Added
<1>5. ASSUME NEW e \in Entities, Remove(e) PROVE CacheInv' /\ PublishedIsCurrent'
  BY <1>5 DEF Remove, CacheInv, PublishedIsCurrent, Added
<1>6. CASE Unload
  BY <1>6 DEF Unload, CacheInv, PublishedIsCurrent, Added
<1>7. ASSUME NEW s \in Lives, SourceChanges(s) PROVE CacheInv' /\ PublishedIsCurrent'
  <2>1. /\ UNCHANGED <<data, success, up, cache>> /\ source' = s
        /\ published' = IF "live" \in Added THEN [published EXCEPT !["live"] = Written("live")]
                        ELSE published
    BY <1>7 DEF SourceChanges
  <2>2. Written("live") = IF ~success THEN Unavailable ELSE s
    BY <2>1 DEF Written, Triple
  <2>3. Written("live") # Absent
    BY <2>2, SentinelAssumption
  <2> QED
    BY <2>1, <2>2, <2>3 DEF CacheInv, PublishedIsCurrent, Added, Entities
<1>8. CASE UNCHANGED vars
  BY <1>8 DEF vars, CacheInv, PublishedIsCurrent, Added
<1> QED
  BY <1>1, <1>2, <1>3, <1>4, <1>5, <1>6, <1>7, <1>8 DEF Next

(* Home Assistant holds of every entity its value now, or that it is not   *)
(* available: no skipped write leaves an old one (_est_should_write,       *)
(* _est_reset_cache, _source_changed).                                     *)
THEOREM PublishedStaysCurrent == Spec => []PublishedIsCurrent
<1>1. CacheInv /\ PublishedIsCurrent => PublishedIsCurrent
  OBVIOUS
<1> QED
  BY <1>1, InitCacheInv, NextCacheInv, PTL DEF Spec

(* The dominant state of a result, fresh or kept through failing frames,   *)
(* is one of its breakdown, and no other leads it by more than the         *)
(* hysteresis (_pick_dominant).                                            *)
THEOREM DominantStaysInLead == Spec => []DominantLeads
<1>1. CacheInv => DominantLeads
  <2> SUFFICES ASSUME CacheInv, data # NoResult PROVE Leads(data)
    BY DEF DominantLeads, Leads
  <2>1. data \in Result
    BY DEF CacheInv
  <2>2. PICK i \in Inputs, prior \in States \cup {NoState} : data \in Results(i, prior)
    BY <2>1 DEF Result
  <2> QED
    BY <2>2, ResultsLead
<1> QED
  BY <1>1, InitCacheInv, NextCacheInv, PTL DEF Spec
-----------------------------------------------------------------------------
(* The shares of a frame.                                                  *)

(* A rounded quotient exceeds the quotient by less than one.               *)
LEMMA RoundedBound ==
    ASSUME NEW n \in Nat, NEW d \in Nat, d > 0
    PROVE  /\ Rounded(n, d) \in Nat
           /\ d * Rounded(n, d) <= n + d
           /\ n = 0 => Rounded(n, d) = 0
<1> DEFINE q == n \div d
           m == n % d
<1>1. q \in Nat /\ m \in Nat /\ m < d /\ d * q + m = n
  BY SMT
<1>2. n = 0 => q = 0 /\ m = 0
  BY SMT
<1>3. d * (q + 1) = d * q + d /\ d * q \in Nat
  BY <1>1, SMT
<1> HIDE DEF q, m
<1>4. Rounded(n, d) = IF 2 * m > d \/ (2 * m = d /\ q % 2 = 1) THEN q + 1 ELSE q
  BY DEF Rounded, q, m
<1>5. d * Rounded(n, d) <= n + d
  BY <1>1, <1>3, <1>4
<1>6. n = 0 => Rounded(n, d) = 0
  BY <1>2, <1>4
<1> QED
  BY <1>1, <1>4, <1>5, <1>6

(* A share exceeds its part of the whole by a unit at most, and there is   *)
(* one for every state that holds time and for no other.                   *)
LEMMA PctBound ==
    ASSUME NEW secs \in Nat, NEW w \in Nat, w > 0
    PROVE  /\ Pct(secs, w) \in Nat
           /\ w * Pct(secs, w) <= Whole * secs + w
           /\ Pct(secs, w) > 0 <=> secs > 0
<1>1. Whole \in Nat /\ secs * Whole \in Nat /\ secs * Whole = Whole * secs
  BY PublishedAssumption
<1>2. secs = 0 => secs * Whole = 0
  BY <1>1
<1> DEFINE n == secs * Whole
<1> HIDE DEF n
<1>3. /\ Rounded(n, w) \in Nat /\ w * Rounded(n, w) <= n + w
      /\ n = 0 => Rounded(n, w) = 0
  BY <1>1, RoundedBound DEF n
<1>4. Pct(secs, w) = IF secs > 0 /\ Rounded(n, w) = 0 THEN 1 ELSE Rounded(n, w)
  BY DEF Pct, n
<1>5. n \in Nat /\ n = Whole * secs /\ (secs = 0 => n = 0)
  BY <1>1, <1>2 DEF n
<1> QED
  BY <1>3, <1>4, <1>5

\* The shares are fine enough for the states, as 10000 units are for 99 of
\* them, and every window is longer than the tolerance, but for an empty one.
FineShares ==
    /\ IsFiniteSet(States)
    /\ Cardinality(States) * Cardinality(States) < Whole
    /\ \A w \in Windows : w = 0 \/ Epsilon < w

(* n shares but that of the largest part l do not use up the whole: w is   *)
(* the window, p what its parts are in all, x the sum of the other shares. *)
LEMMA LargestHasShare ==
    ASSUME NEW w \in Nat, w > 0, NEW p \in Nat, p <= w, NEW n \in Nat, NEW l \in Nat,
           p <= l * n, NEW c \in Nat, n * n < c, n > 0, NEW x \in Int,
           w * x <= c * (p - l) + w * n
    PROVE  x < c
<1> SUFFICES ASSUME x >= c PROVE FALSE
  OBVIOUS
<1> DEFINE r == w - p + l
<1>1. r \in Int /\ c * (p - l) = c * w - c * r
  <2>1. p - l = w - r
    OBVIOUS
  <2>2. r \in Int
    OBVIOUS
  <2> HIDE DEF r
  <2>3. c * (w - r) = c * w - c * r
    BY <2>2, SMT
  <2> QED
    BY <2>1, <2>2, <2>3
<1>2. c * w <= w * x
  <2>1. c * w <= x * w
    BY ProductMonotone
  <2>2. x * w = w * x
    BY SMT
  <2> QED
    BY <2>1, <2>2
<1>3. n * r >= w
  <2>1. (w - p) * 1 <= (w - p) * n
    <3>1. 1 * (w - p) <= n * (w - p)
      BY ProductMonotone
    <3>2. 1 * (w - p) = w - p /\ n * (w - p) = (w - p) * n
      BY SMT
    <3> QED
      BY <3>1, <3>2
  <2>2. n * r = (w - p) * n + l * n
    BY SMT
  <2>3. (w - p) * n \in Int /\ l * n \in Int
    BY SMT
  <2> QED
    BY <2>1, <2>2, <2>3
<1> HIDE DEF r
<1>4. c * r <= w * n
  <2>1. c * w \in Int /\ c * r \in Int /\ w * n \in Int /\ w * x \in Int
    BY <1>1, SMT
  <2> QED
    BY <1>1, <1>2, <2>1
<1>5. c * w <= w * (n * n)
  <2>1. (c * r) * n <= (w * n) * n
    <3>1. c * r \in Int /\ w * n \in Int
      BY <1>1, SMT
    <3> QED
      BY <1>4, <3>1, ProductMonotone
  <2>2. w * c <= (n * r) * c
    <3>1. n * r \in Int
      BY <1>1, SMT
    <3> QED
      BY <1>3, <3>1, ProductMonotone
  <2>3. (c * r) * n = (n * r) * c /\ (w * n) * n = w * (n * n) /\ w * c = c * w
    BY <1>1, SMT
  <2>4. (n * r) * c \in Int /\ w * (n * n) \in Int /\ c * w \in Int
    BY <1>1, SMT
  <2> QED
    BY <2>1, <2>2, <2>3, <2>4
<1>6. w * (n * n) < w * c
  <2>1. (n * n + 1) * w <= c * w
    <3>1. n * n + 1 \in Int /\ n * n + 1 <= c
      BY SMT
    <3> QED
      BY <3>1, ProductMonotone
  <2>2. (n * n + 1) * w = w * (n * n) + w /\ c * w = w * c
    BY SMT
  <2>3. w * (n * n) \in Int /\ w * c \in Int
    BY SMT
  <2> QED
    BY <2>1, <2>2, <2>3
<1>7. w * c = c * w /\ c * w \in Int /\ w * (n * n) \in Int
  BY SMT
<1> QED
  BY <1>5, <1>6, <1>7

(* Of the parts of a window, of which there are some, one is the largest.  *)
LEMMA LargestIs ==
    ASSUME NEW b, DOMAIN b # {}, NEW w \in Nat, \A s \in DOMAIN b : b[s] \in 0..w
    PROVE  Largest(b) \in DOMAIN b /\ \A t \in DOMAIN b : b[t] <= b[Largest(b)]
<1> DEFINE T == {w - b[s] : s \in DOMAIN b}
<1>1. T \subseteq Nat /\ T # {}
  OBVIOUS
<1>2. PICK x \in T : \A y \in T : x <= y
  <2> HIDE DEF T
  <2> QED
    BY <1>1, LeastNatural
<1>3. PICK s \in DOMAIN b : x = w - b[s]
  BY <1>2
<1>4. \A t \in DOMAIN b : b[t] <= b[s]
  <2> SUFFICES ASSUME NEW t \in DOMAIN b PROVE b[t] <= b[s]
    OBVIOUS
  <2>1. w - b[s] <= w - b[t]
    BY <1>2, <1>3
  <2>2. b[s] \in Int /\ b[t] \in Int
    OBVIOUS
  <2> QED
    BY <2>1, <2>2
<1> QED
  BY <1>3, <1>4 DEF Largest

(* An input's parts are of finitely many states and fill its window at     *)
(* most; the window is longer than the tolerance, or empty.                *)
LEMMA InputsFill ==
    ASSUME FineShares, NEW i \in Inputs
    PROVE  /\ i.window \in Nat /\ (i.window = 0 \/ Epsilon < i.window)
           /\ IsFiniteSet(DOMAIN i.secs)
           /\ Cardinality(DOMAIN i.secs) \in Nat
           /\ Cardinality(DOMAIN i.secs) <= Cardinality(States)
           /\ i.secs \in [DOMAIN i.secs -> 0..i.window]
           /\ SumFunction(i.secs) <= i.window
<1>1. PICK w \in Windows :
        i \in {[window |-> w, secs |-> b] :
                 b \in {c \in UNION {[S -> 0..w] : S \in SUBSET States} : SumFunction(c) <= w}}
  BY DEF Inputs
<1>2. PICK b \in UNION {[S -> 0..w] : S \in SUBSET States} :
        i = [window |-> w, secs |-> b] /\ SumFunction(b) <= w
  BY <1>1
<1>3. PICK S \in SUBSET States : b \in [S -> 0..w]
  BY <1>2
<1>4. w \in Nat /\ (w = 0 \/ Epsilon < w) /\ DOMAIN b = S /\ i.window = w /\ i.secs = b
  BY <1>2, <1>3, PublishedAssumption DEF FineShares
<1>5. IsFiniteSet(S) /\ Cardinality(S) \in Nat /\ Cardinality(S) <= Cardinality(States)
  BY FS_Subset, FS_CardinalityType DEF FineShares
<1> QED
  BY <1>2, <1>3, <1>4, <1>5

(* The shares of a window add up, in sum and one by one.                   *)
LEMMA SharesOfInput ==
    ASSUME FineShares, NEW i \in Inputs, i.window > 0
    PROVE  LET slices == Shares[i].slices
               total == SumFunction(slices) + Shares[i].rest
           IN  /\ total >= Whole
               /\ total <= Whole + Cardinality(DOMAIN i.secs)
               /\ i.window - SumFunction(i.secs) <= Epsilon /\ i.secs # <<>> => total = Whole
               /\ \A s \in DOMAIN i.secs : slices[s] > 0 <=> i.secs[s] > 0
<1> DEFINE b == i.secs
           w == i.window
           D == DOMAIN b
           n == Cardinality(D)
           each == [s \in D |-> Pct(b[s], w)]
           slices == Shares[i].slices
           total == SumFunction(slices) + Shares[i].rest
<1>1. Shares[i] = Balanced(each, b, w)
  BY DEF Shares
<1>2. /\ w \in Nat /\ w > 0 /\ Epsilon < w /\ IsFiniteSet(D) /\ n \in Nat
      /\ n <= Cardinality(States) /\ b \in [D -> 0..w] /\ SumFunction(b) <= w
      /\ Whole \in Nat /\ Whole > 0 /\ Epsilon \in Nat
  BY InputsFill, PublishedAssumption
<1>3. \A s \in D : b[s] \in Nat /\ b[s] \in 0..w
  BY <1>2
<1> HIDE DEF b, w, D, n, slices, total
<1>4. DOMAIN each = D /\ \A s \in D : each[s] = Pct(b[s], w)
  OBVIOUS
<1> HIDE DEF each
<1>5. \A s \in D : /\ each[s] \in Nat
                   /\ w * each[s] <= Whole * b[s] + w
                   /\ each[s] > 0 <=> b[s] > 0
  <2> TAKE s \in D
  <2>1. b[s] \in Nat /\ each[s] = Pct(b[s], w)
    BY <1>3, <1>4
  <2>2. /\ Pct(b[s], w) \in Nat
        /\ w * Pct(b[s], w) <= Whole * b[s] + w
        /\ Pct(b[s], w) > 0 <=> b[s] > 0
    BY <1>2, <2>1, PctBound, Zenon
  <2> QED
    BY <2>1, <2>2, Zenon
<1>6. SumFunction(each) \in Int /\ SumFunction(b) \in Int /\ DOMAIN b = D
  <2>1. DOMAIN b = D
    BY <1>2
  <2> QED
    BY <1>2, <1>3, <1>4, <1>5, <2>1, SumType
<1>7. w * SumFunction(each) <= Whole * SumFunction(b) + w * n
  <2>1. \A s \in DOMAIN each : each[s] \in Int /\ b[s] \in Int
    BY <1>3, <1>4, <1>5
  <2>2. \A s \in DOMAIN each : w * each[s] <= Whole * b[s] + w
    BY <1>4, <1>5, Zenon
  <2>3. DOMAIN b = DOMAIN each /\ IsFiniteSet(DOMAIN each) /\ n = Cardinality(DOMAIN each)
    BY <1>2, <1>4, <1>6 DEF n
  <2>4. w \in Int /\ Whole \in Int
    BY <1>2
  <2>5. w * SumFunction(each) <= Whole * SumFunction(b) + w * Cardinality(DOMAIN each)
    BY <2>1, <2>2, <2>3, <2>4, SumBound, Zenon
  <2> QED
    BY <2>3, <2>5, Zenon
<1>8. SumFunction(each) <= Whole + n
  <2>1. SumFunction(b) * Whole <= w * Whole
    BY <1>2, <1>6, ProductMonotone
  <2>2. w * SumFunction(each) <= w * (Whole + n)
    <3>1. /\ SumFunction(b) * Whole = Whole * SumFunction(b) /\ w * (Whole + n) = w * Whole + w * n
          /\ w * Whole \in Int /\ Whole * SumFunction(b) \in Int
          /\ w * n \in Int /\ w * SumFunction(each) \in Int
      BY <1>2, <1>6, SMT
    <3> QED
      BY <1>7, <2>1, <3>1
  <2>3. \A x, y \in Int : x < y => ~(w * y <= w * x)
    BY <1>2, SMT
  <2> QED
    BY <1>2, <1>6, <2>2, <2>3
<1> DEFINE drift == Whole - SumFunction(each)
<1>9. drift \in Int
  BY <1>2, <1>6
<1>10. CASE w - SumFunction(b) > Epsilon
  <2>1. Shares[i] = [slices |-> each, rest |-> IF drift > 0 THEN drift ELSE 0]
    <3>1. ~(w = 0) /\ ~(w > 0 /\ w - SumFunction(b) <= Epsilon)
      BY <1>2, <1>6, <1>10
    <3> QED
      BY <1>1, <3>1 DEF Balanced
  <2>2. slices = each /\ total = IF drift > 0 THEN Whole ELSE SumFunction(each)
    BY <1>2, <1>6, <2>1 DEF slices, total
  <2>3. total >= Whole /\ total <= Whole + n
    BY <1>2, <1>6, <1>8, <2>2
  <2>4. \A s \in D : slices[s] > 0 <=> b[s] > 0
    BY <1>5, <2>2
  <2>5. ~(w - SumFunction(b) <= Epsilon)
    BY <1>2, <1>6, <1>10
  <2> QED
    BY <2>3, <2>4, <2>5 DEF slices, total, b, w, D, n
<1>11. CASE w - SumFunction(b) <= Epsilon
  <2>1. D # {}
    <3> SUFFICES ASSUME D = {} PROVE FALSE
      OBVIOUS
    <3>1. SumFunction(b) = 0
      BY <1>2, <1>6, SumsUnfold, SumIsLast
    <3> QED
      BY <1>2, <1>11, <3>1
  <2>2. b # <<>>
    BY <1>6, <2>1
  <2> DEFINE L == Largest(b)
             h == [each EXCEPT ![L] = @ + drift]
  <2>3. L \in D /\ \A t \in D : b[t] <= b[L]
    BY <1>2, <1>3, <1>6, <2>1, LargestIs
  <2>4. Shares[i] = [slices |-> h, rest |-> 0]
    <3>1. ~(w = 0) /\ w > 0
      BY <1>2
    <3> QED
      BY <1>1, <1>11, <2>2, <3>1 DEF Balanced
  <2> HIDE DEF L
  <2>5. SumFunction(h) = Whole
    <3>1. \A s \in DOMAIN each : each[s] \in Int
      BY <1>4, <1>5
    <3>2. SumFunction(h) = SumFunction(each) + drift
      BY <1>2, <1>4, <1>9, <2>3, <3>1, SumRaised
    <3> QED
      BY <1>2, <1>6, <3>2
  <2>6. slices = h /\ total = Whole
    BY <1>2, <2>4, <2>5 DEF slices, total
  <2>7. b[L] > 0
    <3> SUFFICES ASSUME ~(b[L] > 0) PROVE FALSE
      OBVIOUS
    <3>1. \A s \in D : b[s] = 0
      BY <1>3, <2>3
    <3>2. 1 * SumFunction(b) <= 0 * SumFunction(b) + 0 * n
      <4>1. \A s \in D : 1 * b[s] <= 0 * b[s] + 0 /\ b[s] \in Int
        BY <3>1
      <4>2. \A s \in DOMAIN b : 1 * b[s] <= 0 * b[s] + 0
        BY <1>6, <4>1
      <4>3. \A s \in DOMAIN b : b[s] \in Int /\ b[s] \in Int
        BY <1>6, <4>1
      <4>4. IsFiniteSet(DOMAIN b) /\ 1 \in Int /\ 0 \in Int
        BY <1>2, <1>6
      <4>5. 1 * SumFunction(b) <= 0 * SumFunction(b) + 0 * Cardinality(DOMAIN b)
        BY <4>2, <4>3, <4>4, SumBound, Zenon
      <4> QED
        BY <1>6, <4>5 DEF n
    <3>3. SumFunction(b) <= 0
      BY <1>2, <1>6, <3>2
    <3> QED
      BY <1>2, <1>6, <1>11, <3>3
  <2>8. SumFunction(each) - each[L] < Whole
    <3> DEFINE others == [each EXCEPT ![L] = @ + (0 - each[L])]
               parts == [b EXCEPT ![L] = @ + (0 - b[L])]
    <3>1. each[L] \in Nat /\ b[L] \in Nat
      BY <1>3, <1>5, <2>3
    <3>2. SumFunction(others) = SumFunction(each) - each[L]
      <4>1. \A s \in DOMAIN each : each[s] \in Int
        BY <1>4, <1>5
      <4>2. 0 - each[L] \in Int
        BY <3>1
      <4>3. SumFunction(others) = SumFunction(each) + (0 - each[L])
        BY <1>2, <1>4, <2>3, <4>1, <4>2, SumRaised
      <4> QED
        BY <1>6, <3>1, <4>3
    <3>3. SumFunction(parts) = SumFunction(b) - b[L]
      <4>1. \A s \in DOMAIN b : b[s] \in Int
        BY <1>3, <1>6
      <4>2. 0 - b[L] \in Int
        BY <3>1
      <4>3. SumFunction(parts) = SumFunction(b) + (0 - b[L])
        BY <1>2, <1>6, <2>3, <4>1, <4>2, SumRaised
      <4> QED
        BY <1>6, <3>1, <4>3
    <3>4. /\ DOMAIN others = D /\ DOMAIN parts = D
          /\ \A s \in D : others[s] = IF s = L THEN 0 ELSE each[s]
          /\ \A s \in D : parts[s] = IF s = L THEN 0 ELSE b[s]
      BY <1>4, <1>6, <3>1
    <3> HIDE DEF others, parts
    <3>5. \A s \in D : /\ others[s] \in Int /\ parts[s] \in Int
                       /\ w * others[s] <= Whole * parts[s] + w
      <4> TAKE s \in D
      <4>1. w * 0 = 0 /\ Whole * 0 = 0
        BY <1>2
      <4> QED
        BY <1>2, <1>3, <1>5, <3>4, <4>1
    <3>6. w * SumFunction(others) <= Whole * SumFunction(parts) + w * n
      <4>1. /\ DOMAIN parts = DOMAIN others /\ IsFiniteSet(DOMAIN others)
            /\ n = Cardinality(DOMAIN others) /\ w \in Int /\ Whole \in Int
        BY <1>2, <3>4 DEF n
      <4>2. \A s \in DOMAIN others : others[s] \in Int /\ parts[s] \in Int
        BY <3>4, <3>5
      <4>3. \A s \in DOMAIN others : w * others[s] <= Whole * parts[s] + w
        BY <3>4, <3>5, Zenon
      <4>4. w * SumFunction(others) <= Whole * SumFunction(parts) + w * Cardinality(DOMAIN others)
        BY <4>1, <4>2, <4>3, SumBound, Zenon
      <4> QED
        BY <4>1, <4>4, Zenon
    <3>7. SumFunction(b) <= b[L] * n
      <4>1. \A s \in D : 1 * b[s] <= 0 * b[s] + b[L] /\ b[s] \in Int
        BY <1>3, <2>3
      <4>2. 1 * SumFunction(b) <= 0 * SumFunction(b) + b[L] * n
        <5>1. \A s \in DOMAIN b : 1 * b[s] <= 0 * b[s] + b[L]
          BY <1>6, <4>1
        <5>2. \A s \in DOMAIN b : b[s] \in Int /\ b[s] \in Int
          BY <1>6, <4>1
        <5>3. IsFiniteSet(DOMAIN b) /\ 1 \in Int /\ 0 \in Int /\ b[L] \in Int
          BY <1>2, <1>6, <3>1
        <5>4. 1 * SumFunction(b) <= 0 * SumFunction(b) + b[L] * Cardinality(DOMAIN b)
          BY <5>1, <5>2, <5>3, SumBound, Zenon
        <5> QED
          BY <1>6, <5>4, Zenon DEF n
      <4>3. b[L] * n \in Int
        BY <1>2, <3>1
      <4> QED
        BY <1>6, <4>2, <4>3
    <3>8. n > 0 /\ n * n < Whole
      <4>1. n # 0
        BY <1>2, <2>1, FS_EmptySet DEF n
      <4>2. Cardinality(States) \in Nat
        BY FS_CardinalityType DEF FineShares
      <4>3. /\ n * n <= Cardinality(States) * n
            /\ n * Cardinality(States) <= Cardinality(States) * Cardinality(States)
        BY <1>2, <4>2, ProductMonotone
      <4>4. /\ n * Cardinality(States) = Cardinality(States) * n
            /\ n * n \in Int /\ Cardinality(States) * n \in Int
            /\ Cardinality(States) * Cardinality(States) \in Int
        BY <1>2, <4>2, SMT
      <4> QED
        BY <1>2, <4>1, <4>3, <4>4 DEF FineShares
    <3>9. SumFunction(b) \in Nat
      BY <1>2, <1>6, <1>11
    <3>10. SumFunction(others) < Whole
      <4>1. w * SumFunction(others) <= Whole * (SumFunction(b) - b[L]) + w * n
        BY <3>3, <3>6
      <4>2. SumFunction(others) \in Int
        BY <1>6, <3>1, <3>2
      <4> QED
        BY <1>2, <3>1, <3>7, <3>8, <3>9, <4>1, <4>2, LargestHasShare
    <3> QED
      BY <3>2, <3>10
  <2>9. \A s \in D : slices[s] > 0 <=> b[s] > 0
    <3> TAKE s \in D
    <3>1. CASE s = L
      <4>1. h[L] = each[L] + drift
        BY <1>4, <2>3
      <4>2. h[L] > 0
        BY <1>2, <1>5, <1>6, <2>3, <2>8, <4>1
      <4> QED
        BY <2>6, <2>7, <3>1, <4>2
    <3>2. CASE s # L
      <4>1. h[s] = each[s]
        BY <1>4, <3>2
      <4> QED
        BY <1>5, <2>6, <4>1
    <3> QED
      BY <3>1, <3>2
  <2>10. total >= Whole /\ total <= Whole + n
    BY <1>2, <2>6
  <2> QED
    BY <2>6, <2>9, <2>10 DEF slices, total, b, w, D, n
<1>12. w - SumFunction(b) \in Int
  BY <1>2, <1>6
<1> QED
  BY <1>2, <1>10, <1>11, <1>12

(* The shares of a window make a whole, of a covered one exactly, and just *)
(* the states that hold time have one (compute_frame's breakdown_pct): for *)
(* every window and its fillings, if the shares are fine enough.           *)
THEOREM SharesMakeAWhole == FineShares /\ Spec => []SharesAddUp
<1>1. ASSUME FineShares, CacheInv PROVE SharesAddUp
  <2> SUFFICES ASSUME data # NoResult, data.window > 0
               PROVE  LET slices == data.shares.slices
                          total == SumFunction(slices) + data.shares.rest
                      IN  /\ total >= Whole
                          /\ total <= Whole + Cardinality(DOMAIN data.secs)
                          /\ data.window - SumFunction(data.secs) <= Epsilon /\ data.secs # <<>>
                               => total = Whole
                          /\ \A s \in DOMAIN data.secs : slices[s] > 0 <=> data.secs[s] > 0
    BY DEF SharesAddUp
  <2>1. data \in Result
    BY <1>1 DEF CacheInv
  <2>2. PICK i \in Inputs, prior \in States \cup {NoState} : data \in Results(i, prior)
    BY <2>1 DEF Result
  <2>3. data.window = i.window /\ data.secs = i.secs /\ data.shares = Shares[i]
    BY <2>2 DEF Results
  <2> QED
    BY <1>1, <2>3, SharesOfInput
<1> SUFFICES ASSUME FineShares PROVE Spec => []SharesAddUp
  OBVIOUS
<1>2. CacheInv => SharesAddUp
  BY <1>1
<1> QED
  BY <1>2, InitCacheInv, NextCacheInv, PTL DEF Spec
=============================================================================
