--------------------------- MODULE PagedWalkProofs ---------------------------
(***************************************************************************)
(* The limiter holds its limit and a walk lists what it owes, for any      *)
(* callers, identities, limit, window, sources, page size and faults.      *)
(***************************************************************************)
EXTENDS PagedWalk, FiniteSetTheorems, TLAPS

Counter == [used : Nat, ttl : Int]

Shape == /\ clock \in 0 .. Window - 1
         /\ counters \in [Identities -> [Buckets -> Counter]]
         /\ bucket \in [Callers -> Buckets]
         /\ let \in [Identities -> [Buckets -> Nat]]

\* The limit alone is not inductive: the counter must stand for every request let through,
\* and must not expire before the first second after the window.
Counted == \A i \in Identities :
             /\ \A b \in Buckets : let[i][b] <= counters[i][b].used
             /\ let[i]["this"] > 0 => counters[i]["this"].ttl >= Window + 1 - clock
             /\ let[i]["last"] > 0 => clock = 0

Inv == Shape /\ Counted /\ ThrottleHolds

LEMMA AgedIsCounter ==
  ASSUME NEW counter \in Counter PROVE Aged(counter) \in Counter
BY DEF Aged, Absent, Counter

LEMMA InitInv == Init => Inv
<1> SUFFICES ASSUME LimiterInit PROVE Inv
  BY DEF Init
<1> USE LimiterAssumption DEF LimiterInit
<1>1. Absent \in Counter /\ Absent.used = 0
  BY DEF Absent, Counter
<1>2. Shape
  BY <1>1 DEF Shape, Buckets
<1>3. \A i \in Identities, b \in Buckets : let[i][b] = 0 /\ counters[i][b].used = 0
  BY <1>1
<1> QED BY <1>2, <1>3 DEF Inv, Counted, ThrottleHolds, Buckets

\* A counter that has more than a second to live loses one.
LEMMA AgedKeeps ==
  ASSUME NEW counter \in Counter, counter.ttl > 1
  PROVE  Aged(counter).used = counter.used /\ Aged(counter).ttl = counter.ttl - 1
BY DEF Aged, Counter

\* The counter of this window loses a second, of which it has enough.
LEMMA TickKeeps == Inv /\ Tick => Inv'
<1> SUFFICES ASSUME Inv, Tick PROVE Inv'
  OBVIOUS
<1> USE LimiterAssumption
<1>1. clock \in Nat /\ clock + 1 < Window /\ clock' = clock + 1
  BY DEF Inv, Shape, Tick
<1>2. Shape'
  <2>1. \A i \in Identities, b \in Buckets : Aged(counters[i][b]) \in Counter
    BY AgedIsCounter DEF Inv, Shape
  <2>2. let' \in [Identities -> [Buckets -> Nat]]
    <3>1. \A i \in Identities : [let[i] EXCEPT !["last"] = 0] \in [Buckets -> Nat]
      BY DEF Inv, Shape
    <3> QED BY <3>1 DEF Tick
  <2>3. counters' \in [Identities -> [Buckets -> Counter]]
    BY <2>1 DEF Tick
  <2>4. clock' \in 0 .. Window - 1 /\ bucket' = bucket
    BY <1>1 DEF Tick
  <2> QED BY <2>2, <2>3, <2>4 DEF Inv, Shape
<1>3. \A i \in Identities : let'[i]["this"] = let[i]["this"] /\ let'[i]["last"] = 0
  BY DEF Inv, Shape, Tick, Buckets
<1>4. ASSUME NEW i \in Identities
      PROVE  /\ let'[i]["this"] <= counters'[i]["this"].used
             /\ let'[i]["this"] > 0 => counters'[i]["this"].ttl >= Window + 1 - clock'
  <2>1. counters'[i]["this"] = Aged(counters[i]["this"])
    BY DEF Tick, Buckets
  <2>2. counters[i]["this"] \in Counter /\ let[i]["this"] \in Nat
    BY DEF Inv, Shape, Buckets
  <2>3. CASE let[i]["this"] = 0
    BY <1>3, <2>1, <2>2, <2>3, AgedIsCounter DEF Counter
  <2>4. CASE let[i]["this"] > 0
    <3>1. /\ counters[i]["this"].ttl >= Window + 1 - clock
          /\ let[i]["this"] <= counters[i]["this"].used
      BY <2>4 DEF Inv, Counted, Buckets
    <3>2. counters[i]["this"].ttl > 1
      BY <1>1, <2>2, <3>1 DEF Counter
    <3> QED BY <1>1, <1>3, <2>1, <2>2, <3>1, <3>2, AgedKeeps DEF Counter
  <2> QED BY <2>2, <2>3, <2>4
<1>5. \A i \in Identities : counters'[i]["last"].used \in Nat
  BY <1>2 DEF Shape, Buckets, Counter
<1>6. ThrottleHolds'
  BY <1>3 DEF Inv, ThrottleHolds, Buckets
<1> QED BY <1>2, <1>3, <1>4, <1>5, <1>6 DEF Inv, Counted, Buckets

\* What was counted in this window is still counted in the first second of the next.
LEMMA TurnKeeps == Inv /\ Turn => Inv'
<1> SUFFICES ASSUME Inv, Turn PROVE Inv'
  OBVIOUS
<1> USE LimiterAssumption
<1>1. \A i \in Identities : NewKeys(i) \in [Buckets -> Counter]
  <2>1. \A i \in Identities : Aged(counters[i]["this"]) \in Counter
    BY AgedIsCounter DEF Inv, Shape, Buckets
  <2> QED BY <2>1 DEF NewKeys, Absent, Counter
<1>2. Shape'
  <2>1. \A i \in Identities : let[i]["this"] \in Nat
    BY DEF Inv, Shape, Buckets
  <2>2. let' \in [Identities -> [Buckets -> Nat]]
    BY <2>1 DEF Turn
  <2> QED BY <1>1, <2>2 DEF Shape, Turn, Buckets
<1>3. \A i \in Identities : let'[i]["this"] = 0
  BY DEF Turn, Buckets
<1>4. \A i \in Identities : counters'[i]["this"].used \in Nat
  BY <1>2 DEF Shape, Buckets, Counter
<1>5. ASSUME NEW i \in Identities
      PROVE  let'[i]["last"] <= counters'[i]["last"].used /\ let'[i]["last"] <= Limit
  <2>1. counters'[i]["last"].used \in Nat
    BY <1>2 DEF Shape, Buckets, Counter
  <2>2. CASE let'[i]["last"] = 0
    BY <2>1, <2>2
  <2>3. CASE let'[i]["last"] # 0
    <3>1. AboutToCount(i) /\ let'[i]["last"] = let[i]["this"]
      BY <2>3 DEF Turn, Buckets
    <3>2. counters'[i]["last"] = Aged(counters[i]["this"])
      BY <3>1 DEF Turn, NewKeys, Buckets
    <3>3. counters[i]["this"] \in Counter /\ let[i]["this"] \in Nat /\ let[i]["this"] > 0
      BY <2>3, <3>1 DEF Inv, Shape, Buckets
    <3>4. /\ counters[i]["this"].ttl >= Window + 1 - clock
          /\ let[i]["this"] <= counters[i]["this"].used
          /\ let[i]["this"] <= Limit
      BY <3>3 DEF Inv, Counted, ThrottleHolds, Buckets
    <3>5. counters[i]["this"].ttl > 1
      BY <3>3, <3>4 DEF Inv, Shape, Turn, Counter
    <3> QED BY <3>1, <3>2, <3>3, <3>4, <3>5, AgedKeeps
  <2> QED BY <2>2, <2>3
<1>6. clock' = 0
  BY DEF Turn
<1> QED BY <1>2, <1>3, <1>4, <1>5, <1>6 DEF Inv, Counted, ThrottleHolds, Buckets

\* Counting a request renews the key and never lowers the count.
LEMMA CountKeeps ==
  ASSUME Inv, NEW c \in Callers, NEW where, Leave(c, where), Incremented(c),
         \/ let' = let
         \/ /\ bucket[c] = "this" \/ clock = 0
            /\ Used(c) <= Limit
            /\ let' = [let EXCEPT ![Identity[c]][bucket[c]] = @ + 1]
  PROVE  Inv'
<1> USE LimiterAssumption
<1> DEFINE j == Identity[c]
<1>1. j \in Identities /\ bucket[c] \in Buckets
  BY DEF Identities, Inv, Shape
<1>2. clock' = clock /\ bucket' \in [Callers -> Buckets]
  BY DEF Leave, Inv, Shape, Buckets
<1> DEFINE old == counters[j][bucket[c]]
           new == counters'[j][bucket[c]]
<1>3. old \in Counter
  BY <1>1 DEF Inv, Shape
<1>4. new = [used |-> IF old.used > Limit THEN old.used ELSE old.used + 1, ttl |-> Lifetime]
  BY <1>1 DEF Incremented, Inv, Shape
<1>5. /\ new \in Counter
      /\ new.used >= old.used /\ new.ttl = Window + 1
      /\ Used(c) <= Limit => new.used = old.used + 1
  BY <1>3, <1>4 DEF Counter, Lifetime, Used
<1>6. counters' \in [Identities -> [Buckets -> Counter]]
  BY <1>1, <1>4, <1>5 DEF Incremented, Inv, Shape
<1>7. let' \in [Identities -> [Buckets -> Nat]]
  <2>1. let[j] \in [Buckets -> Nat] /\ let[j][bucket[c]] + 1 \in Nat
    BY <1>1 DEF Inv, Shape
  <2>2. [let[j] EXCEPT ![bucket[c]] = @ + 1] \in [Buckets -> Nat]
    BY <2>1
  <2> QED BY <2>2 DEF Inv, Shape
<1>8. ASSUME NEW i \in Identities, NEW b \in Buckets
      PROVE  /\ let'[i][b] <= counters'[i][b].used /\ let'[i][b] <= Limit
             /\ b = "this" /\ let'[i][b] > 0 => counters'[i][b].ttl >= Window + 1 - clock'
             /\ b = "last" /\ let'[i][b] > 0 => clock' = 0
  <2>1. CASE i = j /\ b = bucket[c]
    <3>1. /\ let[i][b] <= old.used /\ let[i][b] <= Limit /\ let[i][b] \in Nat
          /\ b = "last" /\ let[i][b] > 0 => clock = 0
      BY <2>1 DEF Inv, Counted, ThrottleHolds, Shape
    <3>2. clock \in Nat
      BY DEF Inv, Shape
    <3>3. \/ let'[i][b] = let[i][b]
          \/ /\ let'[i][b] = let[i][b] + 1 /\ Used(c) <= Limit
             /\ b = "this" \/ clock = 0
      BY <1>1, <2>1 DEF Inv, Shape
    <3>4. let'[i][b] <= new.used /\ let'[i][b] <= Limit
      BY <1>3, <1>5, <3>1, <3>3 DEF Counter, Used
    <3> QED BY <1>2, <1>5, <2>1, <3>1, <3>2, <3>3, <3>4
  <2>2. CASE ~(i = j /\ b = bucket[c])
    <3>1. let'[i][b] = let[i][b]
      BY <1>1, <2>2 DEF Inv, Shape
    <3>2. counters'[i][b] = counters[i][b]
      BY <1>1, <2>2 DEF Incremented, Inv, Shape
    <3> QED BY <1>2, <3>1, <3>2 DEF Inv, Counted, ThrottleHolds
  <2> QED BY <2>1, <2>2
<1>9. Shape'
  BY <1>2, <1>6, <1>7 DEF Inv, Shape
<1> QED BY <1>8, <1>9 DEF Inv, Counted, ThrottleHolds, Buckets

\* A request that arrives, is let through or refused.
LEMMA CallKeeps ==
  ASSUME Inv, NEW c \in Callers, NEW where, Ask(c) \/ Pass(c, where) \/ Refuse(c)
  PROVE  Inv'
<1>1. CASE Ask(c)
  BY <1>1 DEF Ask, Inv, Shape, Counted, ThrottleHolds
<1>2. CASE Pass(c, where)
  <2>1. CASE Incremented(c)
    BY <1>2, <2>1, CountKeeps DEF Pass
  <2>2. CASE UNCHANGED <<counters, let>>
    BY <1>2, <2>2 DEF Pass, Leave, Inv, Shape, Counted, ThrottleHolds, Buckets
  <2> QED BY <1>2, <2>1, <2>2 DEF Pass
<1>3. CASE Refuse(c)
  BY <1>3, CountKeeps DEF Refuse
<1> QED BY <1>1, <1>2, <1>3

LEMMA NextInv == Inv /\ [Next]_vars => Inv'
<1> SUFFICES ASSUME Inv, [Next]_vars PROVE Inv'
  OBVIOUS
<1> USE WalkAssumption
<1>1. CASE UNCHANGED limiterVars
  BY <1>1 DEF limiterVars, Inv, Shape, Counted, ThrottleHolds
<1>2. CASE WalkerAsks \/ WalkerPasses \/ WalkerRefused
  BY <1>2, CallKeeps DEF WalkerAsks, WalkerPasses, WalkerRefused
<1>3. CASE Unanswered
  BY <1>3 DEF Unanswered, Inv, Shape, Counted, ThrottleHolds, Buckets
<1>4. CASE Time
  BY <1>4, TickKeeps, TurnKeeps DEF Time
<1>5. ASSUME NEW c \in Callers, Rival(c) PROVE Inv'
  BY <1>5, CallKeeps DEF Rival
<1>6. CASE ReadPage \/ Answered \/ Upsert
  BY <1>1, <1>6 DEF ReadPage, Answered, Upsert
<1>7. CASE UNCHANGED vars
  BY <1>1, <1>7 DEF vars
<1> QED BY <1>2, <1>3, <1>4, <1>5, <1>6, <1>7 DEF Next, WalkerSteps

\* Behind the limiter no identity is let through more often in a window than the limit, as
\* long as Redis answers, requests that count up to a second after the end of their window
\* included, and whoever else asks (ratelimit.py, check).
THEOREM Throttled == Spec => []ThrottleHolds
<1>1. Inv => ThrottleHolds
  BY DEF Inv
<1> QED BY InitInv, NextInv, <1>1, PTL DEF Spec

-----------------------------------------------------------------------------
(* Pages.                                                                  *)

LEMMA MinIsLeast ==
  ASSUME NEW S \in SUBSET Nat, S # {}
  PROVE  Min(S) \in S /\ \A y \in S : Min(S) <= y
<1>1. PICK m \in S : \A n \in S : <<n, m>> \notin OpToRel(<, Nat)
  BY NatLessThanWellFounded, WFMin
<1>2. ASSUME NEW n \in S PROVE m <= n
  <2>1. <<n, m>> \in Nat \X Nat
    OBVIOUS
  <2>2. ~(n < m)
    BY <1>1, <2>1 DEF OpToRel
  <2> QED BY <2>2
<1>3. \E x \in S : \A y \in S : x <= y
  BY <1>2
<1> QED BY <1>3 DEF Min

\* The rows a page is taken from, and the page.
Found == {r \in Matching(rows) : Below(r)}

LEMMA MatchingIsRows ==
  ASSUME filter \in Filters, NEW table
  PROVE  Matching(table) \subseteq Keys
BY WalkAssumption DEF Matching, Keys

LEMMA RowsAreFinite == IsFiniteSet(Keys)
BY WalkAssumption, FS_Product DEF Keys

\* The windows of a full page have a least one, which is the cursor; a page that is not
\* full has every row that was found.
LEMMA PageIsTop ==
  ASSUME filter \in Filters, NEW items \in Pages
  PROVE  /\ items \subseteq Found /\ items \subseteq Keys
         /\ NextCursor(items) \in Windows \union {None}
         /\ NextCursor(items) = None => items = Found
         /\ NextCursor(items) # None =>
              /\ \A s \in items : NextCursor(items) <= WindowOf(s)
              /\ \E s \in items : WindowOf(s) = NextCursor(items)
              /\ \A r \in Found \ items : WindowOf(r) <= NextCursor(items)
<1> USE WalkAssumption
<1>1. /\ items \subseteq Found
      /\ Cardinality(items) = Min({PageSize, Cardinality(Found)})
      /\ \A r \in Found \ items, t \in items : WindowOf(r) <= WindowOf(t)
  BY DEF Pages, Found
<1>2. Found \subseteq Keys
  BY MatchingIsRows DEF Found
<1>3. IsFiniteSet(Found) /\ Cardinality(Found) \in Nat
  BY <1>2, RowsAreFinite, FS_Subset, FS_CardinalityType
<1>4. \A r \in Keys : WindowOf(r) \in Windows /\ WindowOf(r) \in Nat
  BY DEF Keys, WindowOf
<1>5. CASE Cardinality(items) = PageSize
  <2> DEFINE W == {WindowOf(r) : r \in items}
  <2>1. items # {}
    BY <1>5, FS_EmptySet
  <2>2. W \in SUBSET Nat /\ W \subseteq Windows /\ W # {}
    BY <1>1, <1>2, <1>4, <2>1
  <2>3. Min(W) \in W /\ \A y \in W : Min(W) <= y
    BY <2>2, MinIsLeast
  <2>4. NextCursor(items) = Min(W) /\ Min(W) # None
    BY <1>5, <2>2, <2>3 DEF NextCursor
  <2>5. PICK s \in items : WindowOf(s) = Min(W)
    BY <2>3
  <2>6. \A t \in items : Min(W) <= WindowOf(t)
    BY <2>3
  <2>7. \A r \in Found \ items : WindowOf(r) <= Min(W)
    BY <1>1, <2>5
  <2>8. Min(W) \in Windows
    BY <2>2, <2>3
  <2> QED BY <1>1, <1>2, <2>4, <2>5, <2>6, <2>7, <2>8
<1>6. CASE Cardinality(items) # PageSize
  <2>1. Cardinality(items) = Cardinality(Found)
    <3>1. {PageSize, Cardinality(Found)} \in SUBSET Nat
      BY <1>3
    <3>2. Min({PageSize, Cardinality(Found)}) \in {PageSize, Cardinality(Found)}
      BY <3>1, MinIsLeast
    <3> QED BY <1>1, <1>6, <3>2
  <2>2. items = Found
    BY <1>1, <1>3, <2>1, FS_Subset
  <2>3. NextCursor(items) = None
    BY <1>6 DEF NextCursor
  <2> QED BY <1>2, <2>2, <2>3
<1> QED BY <1>5, <1>6

-----------------------------------------------------------------------------
(* Types.  A counter is there as long as it has seconds to live.           *)

BoundedCounter == [used : 0 .. Limit + 1, ttl : 0 .. Window + 1]
Sound(counter) == counter \in BoundedCounter /\ (counter.used = 0 <=> counter.ttl = 0)

LEMMA LimiterTypes ==
  LimiterTypeOK <=> /\ clock \in 0 .. Window - 1
                    /\ counters \in [Identities -> [Buckets -> BoundedCounter]]
                    /\ \A i \in Identities, b \in Buckets : Sound(counters[i][b])
                    /\ bucket \in [Callers -> Buckets]
                    /\ let \in [Identities -> [Buckets -> Nat]]
BY DEF LimiterTypeOK, Sound, BoundedCounter

LEMMA AgedIsSound ==
  ASSUME NEW counter, Sound(counter)
  PROVE  Sound(Aged(counter)) /\ Sound(Absent)
BY LimiterAssumption DEF Sound, BoundedCounter, Aged, Absent

LEMMA TickTypes == LimiterTypeOK /\ Tick => LimiterTypeOK'
<1> SUFFICES ASSUME LimiterTypeOK, Tick PROVE LimiterTypeOK'
  OBVIOUS
<1>1. \A i \in Identities, b \in Buckets : Sound(Aged(counters[i][b]))
  BY AgedIsSound, LimiterTypes
<1>2. \A i \in Identities, b \in Buckets : Sound(counters'[i][b])
  BY <1>1 DEF Tick
<1>3. counters' \in [Identities -> [Buckets -> BoundedCounter]]
  BY <1>1 DEF Tick, Sound
<1>4. let' \in [Identities -> [Buckets -> Nat]]
  <2>1. \A i \in Identities : [let[i] EXCEPT !["last"] = 0] \in [Buckets -> Nat]
    BY LimiterTypes
  <2> QED BY <2>1 DEF Tick
<1>5. clock' \in 0 .. Window - 1 /\ bucket' \in [Callers -> Buckets]
  BY LimiterAssumption, LimiterTypes DEF Tick
<1> QED BY <1>2, <1>3, <1>4, <1>5 DEF LimiterTypeOK, Sound, BoundedCounter

LEMMA TurnTypes == LimiterTypeOK /\ Turn => LimiterTypeOK'
<1> SUFFICES ASSUME LimiterTypeOK, Turn PROVE LimiterTypeOK'
  OBVIOUS
<1>1. \A i \in Identities : Sound(Aged(counters[i]["this"])) /\ Sound(Absent)
  BY AgedIsSound, LimiterTypes DEF Buckets
<1>2. \A i \in Identities, b \in Buckets : Sound(NewKeys(i)[b])
  BY <1>1 DEF NewKeys
<1>3. \A i \in Identities : NewKeys(i) \in [Buckets -> BoundedCounter]
  BY <1>1 DEF NewKeys, Sound
<1>4. \A i \in Identities, b \in Buckets : Sound(counters'[i][b])
  BY <1>2 DEF Turn
<1>5. counters' \in [Identities -> [Buckets -> BoundedCounter]]
  BY <1>3 DEF Turn
<1>6. let' \in [Identities -> [Buckets -> Nat]]
  <2>1. \A i \in Identities : let[i]["this"] \in Nat
    BY LimiterTypes DEF Buckets
  <2> QED BY <2>1 DEF Turn
<1>7. clock' \in 0 .. Window - 1 /\ bucket' \in [Callers -> Buckets]
  BY LimiterAssumption DEF Turn, Buckets
<1> QED BY <1>4, <1>5, <1>6, <1>7 DEF LimiterTypeOK, Sound, BoundedCounter

LEMMA IncrementedTypes ==
  ASSUME LimiterTypeOK, NEW c \in Callers, Incremented(c)
  PROVE  /\ counters' \in [Identities -> [Buckets -> BoundedCounter]]
         /\ \A i \in Identities, b \in Buckets : Sound(counters'[i][b])
<1> DEFINE j == Identity[c]
           old == counters[j][bucket[c]]
           new == [used |-> IF old.used > Limit THEN old.used ELSE old.used + 1, ttl |-> Lifetime]
<1>1. j \in Identities /\ bucket[c] \in Buckets
  BY LimiterTypes DEF Identities
<1>2. old \in BoundedCounter
  BY <1>1, LimiterTypes
<1>3. Sound(new)
  BY <1>2, LimiterAssumption DEF Sound, BoundedCounter, Lifetime
<1>4. counters' = [counters EXCEPT ![j][bucket[c]] = new]
  BY DEF Incremented
<1> HIDE DEF new, old, j
<1>5. ASSUME NEW i \in Identities, NEW b \in Buckets
      PROVE  counters'[i][b] = IF i = j /\ b = bucket[c] THEN new ELSE counters[i][b]
  BY <1>1, <1>4, LimiterTypes
<1>6. \A i \in Identities, b \in Buckets : Sound(counters'[i][b])
  BY <1>3, <1>5, LimiterTypes
<1>7. counters' \in [Identities -> [Buckets -> BoundedCounter]]
  <2>1. new \in BoundedCounter
    BY <1>3 DEF Sound
  <2>2. [counters[j] EXCEPT ![bucket[c]] = new] \in [Buckets -> BoundedCounter]
    BY <1>1, <2>1, LimiterTypes
  <2> QED BY <1>1, <1>4, <2>2, LimiterTypes
<1> QED BY <1>6, <1>7

LEMMA CallTypes ==
  ASSUME LimiterTypeOK, NEW c \in Callers, NEW where,
         Ask(c) \/ Pass(c, where) \/ Refuse(c)
  PROVE  LimiterTypeOK'
<1>1. CASE Ask(c)
  BY <1>1 DEF Ask, LimiterTypeOK
<1>2. CASE Pass(c, where) \/ Refuse(c)
  <2>1. /\ clock' = clock
        /\ bucket' = [bucket EXCEPT ![c] = "this"]
        /\ \/ Incremented(c)
           \/ UNCHANGED counters
    BY <1>2 DEF Pass, Refuse, Leave
  <2>2. bucket' \in [Callers -> Buckets]
    BY <2>1, LimiterTypes DEF Buckets
  <2>3. let' \in [Identities -> [Buckets -> Nat]]
    <3> DEFINE j == Identity[c]
    <3>1. j \in Identities /\ bucket[c] \in Buckets
      BY LimiterTypes DEF Identities
    <3>2. let[j] \in [Buckets -> Nat] /\ let[j][bucket[c]] + 1 \in Nat
      BY <3>1, LimiterTypes
    <3>3. [let[j] EXCEPT ![bucket[c]] = @ + 1] \in [Buckets -> Nat]
      BY <3>2
    <3>4. [let EXCEPT ![j][bucket[c]] = @ + 1] \in [Identities -> [Buckets -> Nat]]
      BY <3>3, LimiterTypes
    <3>5. \/ let' = let
          \/ let' = [let EXCEPT ![j][bucket[c]] = @ + 1]
      BY <1>2 DEF Pass, Refuse
    <3> HIDE DEF j
    <3> QED BY <3>4, <3>5, LimiterTypes
  <2>4. /\ counters' \in [Identities -> [Buckets -> BoundedCounter]]
        /\ \A i \in Identities, b \in Buckets : Sound(counters'[i][b])
    BY <2>1, IncrementedTypes, LimiterTypes
  <2> QED BY <2>1, <2>2, <2>3, <2>4 DEF LimiterTypeOK, Sound, BoundedCounter
<1> QED BY <1>1, <1>2

Typed == TypeOK /\ page \in [items : SUBSET Keys, next : Windows \union {None}]

Locations == [Callers -> {"out", "count", "list", "answer"}]

LEMMA NoPageIsPage == NoPage \in [items : SUBSET Keys, next : Windows \union {None}]
BY DEF NoPage

LEMMA InitTyped == Init => Typed
<1> SUFFICES ASSUME Init PROVE Typed
  OBVIOUS
<1> USE WalkAssumption, LimiterAssumption
<1>1. LimiterTypeOK
  <2>1. Sound(Absent) /\ Absent \in BoundedCounter
    BY DEF Sound, Absent, BoundedCounter
  <2> QED BY <2>1 DEF Init, LimiterInit, LimiterTypeOK, Buckets, Sound, BoundedCounter
<1>2. owed \subseteq Keys
  BY MatchingIsRows DEF Init
<1>3. rows \in [Keys -> {None, "forecast", "settled"}]
  BY DEF Init, Keys
<1> QED BY <1>1, <1>2, <1>3, NoPageIsPage DEF Init, LimiterInit, Typed, TypeOK, NoPage

\* Only the request that has read a page has one.
LEMMA AsideTyped ==
  ASSUME Typed, NEW c \in Callers, NEW where \in {"out", "count", "list"},
         at[c] # "answer", LimiterTypeOK', faults' \in 0 .. MaxFaults,
         at' = [at EXCEPT ![c] = where], UNCHANGED <<tableVars, walkVars, page>>
  PROVE  Typed'
<1>1. at' \in Locations
  BY DEF Typed, TypeOK, Locations
<1>2. page # NoPage => at'[Walker] = "answer"
  BY WalkAssumption DEF Typed, TypeOK
<1>3. rows' = rows /\ writes' = writes /\ owed' = owed
  BY DEF tableVars
<1>4. /\ filter' = filter /\ cursor' = cursor /\ listed' = listed
      /\ twice' = twice /\ ends' = ends /\ walk' = walk /\ page' = page
  BY DEF walkVars
<1> QED BY <1>1, <1>2, <1>3, <1>4 DEF Typed, TypeOK, Locations, NoPage

LEMMA CallTyped ==
  ASSUME Typed, NEW c \in Callers, NEW where \in {"out", "list"},
         Ask(c) \/ Pass(c, where) \/ Refuse(c), UNCHANGED <<tableVars, walkVars, page>>
  PROVE  Typed'
<1>1. LimiterTypeOK'
  BY CallTypes DEF Typed, TypeOK
<1>2. faults' \in 0 .. MaxFaults
  BY LimiterAssumption DEF Typed, TypeOK, Ask, Pass, Refuse, Fault
<1>3. \E to \in {"out", "count", "list"} : at' = [at EXCEPT ![c] = to] /\ at[c] # "answer"
  BY DEF Ask, Pass, Refuse, Leave
<1> QED BY <1>1, <1>2, <1>3, AsideTyped

LEMMA UpsertTyped == Typed /\ Upsert => Typed'
<1> SUFFICES ASSUME Typed, Upsert PROVE Typed'
  OBVIOUS
<1>1. rows' \in [Keys -> {None, "forecast", "settled"}]
  <2>1. PICK r \in filter.sources \X Windows, v \in {"forecast", "settled"} :
          rows' = [rows EXCEPT ![r] = v]
    BY DEF Upsert
  <2> QED BY <2>1 DEF Typed, TypeOK
<1>2. writes' \in 0 .. MaxWrites
  BY WalkAssumption DEF Upsert, Typed, TypeOK
<1>3. owed' \subseteq Keys
  BY DEF Upsert, Typed, TypeOK
<1> QED BY <1>1, <1>2, <1>3
        DEF Upsert, Typed, TypeOK, limiterVars, LimiterTypeOK, walkVars, NoPage

LEMMA ReadPageTyped == Typed /\ ReadPage => Typed'
<1> SUFFICES ASSUME Typed, ReadPage PROVE Typed'
  OBVIOUS
<1>1. PICK items \in Pages : page' = [items |-> items, next |-> NextCursor(items)]
  BY DEF ReadPage
<1>2. items \subseteq Keys /\ NextCursor(items) \in Windows \union {None}
  BY PageIsTop DEF Typed, TypeOK
<1>3. page' \in [items : SUBSET Keys, next : Windows \union {None}]
  BY <1>1, <1>2
<1>4. at' \in Locations /\ at'[Walker] = "answer"
  BY WalkAssumption DEF ReadPage, Typed, TypeOK, Locations
<1> QED BY <1>3, <1>4
        DEF ReadPage, Typed, TypeOK, limiterVars, LimiterTypeOK, walkVars, tableVars, Locations

LEMMA AnsweredTyped == Typed /\ Answered => Typed'
<1> SUFFICES ASSUME Typed, Answered PROVE Typed'
  OBVIOUS
<1>1. at' \in Locations /\ page' = NoPage
  BY DEF Answered, Typed, TypeOK, Locations
<1>2. page.items \subseteq Keys /\ page.next \in Windows \union {None}
  BY DEF Typed, TypeOK
<1>3. /\ listed' \subseteq Keys /\ twice' \subseteq listed' /\ ends' \subseteq Windows
      /\ cursor' \in Windows \union {None} /\ walk' \in {"on", "done"}
  BY <1>2 DEF Answered, Typed, TypeOK
<1> QED BY <1>1, <1>3, NoPageIsPage
        DEF Answered, Typed, TypeOK, limiterVars, LimiterTypeOK, tableVars, Locations, NoPage

LEMMA UnansweredTyped == Typed /\ Unanswered => Typed'
<1> SUFFICES ASSUME Typed, Unanswered PROVE Typed'
  OBVIOUS
<1>1. at' \in Locations /\ page' = NoPage /\ bucket' \in [Callers -> Buckets]
  BY DEF Unanswered, Typed, TypeOK, Locations, LimiterTypeOK, Buckets
<1>2. faults' \in 0 .. MaxFaults
  BY LimiterAssumption DEF Unanswered, Fault, Typed, TypeOK
<1>3. LimiterTypeOK'
  BY <1>1 DEF Unanswered, Typed, TypeOK, LimiterTypeOK
<1> QED BY <1>1, <1>2, <1>3, NoPageIsPage
        DEF Unanswered, Typed, TypeOK, tableVars, walkVars, Locations, NoPage

LEMMA NextTyped == Typed /\ [Next]_vars => Typed'
<1> SUFFICES ASSUME Typed, [Next]_vars PROVE Typed'
  OBVIOUS
<1> USE WalkAssumption
<1>1. CASE WalkerAsks \/ WalkerPasses \/ WalkerRefused
  BY <1>1, CallTyped DEF WalkerAsks, WalkerPasses, WalkerRefused
<1>2. ASSUME NEW c \in Callers, Rival(c) PROVE Typed'
  BY <1>2, CallTyped DEF Rival
<1>3. CASE Time
  <2>1. LimiterTypeOK' /\ at' = at /\ faults' = faults
    BY <1>3, TickTypes, TurnTypes DEF Time, Tick, Turn, Typed, TypeOK
  <2> QED BY <1>3, <2>1 DEF Time, Typed, TypeOK, tableVars, walkVars, NoPage
<1>4. CASE UNCHANGED vars
  BY <1>4 DEF vars, Typed, TypeOK, limiterVars, LimiterTypeOK, tableVars, walkVars, NoPage
<1> QED BY <1>1, <1>2, <1>3, <1>4, UpsertTyped, ReadPageTyped, AnsweredTyped, UnansweredTyped
        DEF Next, WalkerSteps

\* Every reachable state is well typed: a counter is there exactly as long as it has seconds
\* to live and stops counting one above the limit, and a page is under way only to a client
\* whose request has read one (ratelimit.py, check; api.py, list_telemetry, list_plant).
THEOREM TypeCorrect == Spec => []TypeOK
<1>1. Typed => TypeOK
  BY DEF Typed
<1> QED BY InitTyped, NextTyped, <1>1, PTL DEF Spec

-----------------------------------------------------------------------------
(* The walk.                                                               *)

\* What a walk may leave out: a tie with the end of a page.
Excused(r) == /\ WindowOf(r) \in ends
              /\ \E s \in listed : WindowOf(s) = WindowOf(r)

\* That the finished walk is complete says nothing of a walk under way.  The cursor parts
\* what was listed from what is still to come, and the page between the two continues the
\* one and begins the other.
DoneAsksNoMore == walk = "done" => at[Walker] = "out"
OwedMatches    == owed \subseteq Matching(rows)
ListedIsAbove  == walk = "on" => \A r \in listed : cursor # None /\ cursor <= WindowOf(r)
OwedIsBelow    == walk = "on" => \A r \in owed \ listed : Below(r) \/ Excused(r)
PageFollows ==
  at[Walker] = "answer" =>
    /\ \A s \in page.items : Below(s)
    /\ page.next # None => /\ \E s \in page.items : WindowOf(s) = page.next
                           /\ \A s \in page.items : page.next <= WindowOf(s)
    /\ \A r \in owed \ (listed \union page.items) :
         \/ Excused(r)
         \/ page.next # None /\ WindowOf(r) <= page.next

WalkInv == /\ DoneAsksNoMore /\ OwedMatches /\ ListedIsAbove /\ OwedIsBelow /\ PageFollows
           /\ twice = {} /\ WalkIsComplete

LEMMA InitWalk == Init => WalkInv
BY WalkAssumption
   DEF Init, LimiterInit, WalkInv, DoneAsksNoMore, OwedMatches, ListedIsAbove, OwedIsBelow,
       PageFollows, WalkIsComplete, Below

LEMMA WindowsAreNumbers ==
  ASSUME NEW r \in Keys
  PROVE  WindowOf(r) \in Windows /\ WindowOf(r) \in Nat
BY WalkAssumption DEF Keys, WindowOf

\* The request moves, but not to or from a page.
LEMMA AsideWalks ==
  ASSUME WalkInv, UNCHANGED <<tableVars, walkVars>>,
         \/ UNCHANGED at
         \/ UNCHANGED at[Walker]
         \/ walk = "on" /\ at'[Walker] # "answer"
         \/ at[Walker] # "out" /\ at'[Walker] # "answer",
         UNCHANGED page \/ at'[Walker] # "answer"
  PROVE  WalkInv'
<1>1. /\ rows' = rows /\ owed' = owed /\ filter' = filter /\ cursor' = cursor
      /\ listed' = listed /\ twice' = twice /\ ends' = ends /\ walk' = walk
  BY DEF tableVars, walkVars
<1>2. Matching(rows)' = Matching(rows)
  BY <1>1 DEF Matching
<1>3. \A r : (Excused(r)' <=> Excused(r)) /\ (Below(r)' <=> Below(r))
  BY <1>1 DEF Excused, Below
<1>4. DoneAsksNoMore'
  BY <1>1 DEF WalkInv, DoneAsksNoMore
<1>5. PageFollows'
  BY <1>1, <1>3 DEF WalkInv, PageFollows
<1>6. OwedMatches' /\ ListedIsAbove' /\ OwedIsBelow' /\ WalkIsComplete'
  BY <1>1, <1>2, <1>3
     DEF WalkInv, OwedMatches, ListedIsAbove, OwedIsBelow, WalkIsComplete
<1> QED BY <1>1, <1>4, <1>5, <1>6 DEF WalkInv

\* A row that is revised is owed no longer if it stops matching, and never again.
LEMMA UpsertWalks == WalkInv /\ Upsert => WalkInv'
<1> SUFFICES ASSUME WalkInv, Upsert PROVE WalkInv'
  OBVIOUS
<1>1. /\ filter' = filter /\ cursor' = cursor /\ listed' = listed /\ page' = page
      /\ twice' = twice /\ ends' = ends /\ walk' = walk /\ at' = at /\ walk = "on"
      /\ owed' = owed \intersect Matching(rows')
  BY DEF Upsert, walkVars
<1>2. Matching(rows)' = Matching(rows')
  BY <1>1 DEF Matching
<1>3. \A r : (Excused(r)' <=> Excused(r)) /\ (Below(r)' <=> Below(r))
  BY <1>1 DEF Excused, Below
<1>4. DoneAsksNoMore' /\ OwedMatches' /\ ListedIsAbove' /\ WalkIsComplete'
  BY <1>1, <1>2 DEF WalkInv, DoneAsksNoMore, OwedMatches, ListedIsAbove, WalkIsComplete
<1>5. OwedIsBelow'
  BY <1>1, <1>3 DEF WalkInv, OwedIsBelow
<1>6. PageFollows'
  BY <1>1, <1>3 DEF WalkInv, PageFollows
<1> QED BY <1>1, <1>4, <1>5, <1>6 DEF WalkInv

\* What is owed and below the cursor is on the page, or not above its end.
LEMMA ReadPageWalks == Typed /\ WalkInv /\ ReadPage => WalkInv'
<1> SUFFICES ASSUME Typed, WalkInv, ReadPage PROVE WalkInv'
  OBVIOUS
<1>1. PICK items \in Pages : page' = [items |-> items, next |-> NextCursor(items)]
  BY DEF ReadPage
<1>2. /\ rows' = rows /\ owed' = owed /\ filter' = filter /\ cursor' = cursor
      /\ listed' = listed /\ twice' = twice /\ ends' = ends /\ walk' = walk
      /\ at[Walker] = "list"
  BY DEF ReadPage, tableVars, walkVars
<1>3. walk = "on"
  BY <1>2 DEF WalkInv, DoneAsksNoMore, Typed, TypeOK
<1>4. \A r : (Excused(r)' <=> Excused(r)) /\ (Below(r)' <=> Below(r))
  BY <1>2 DEF Excused, Below
<1>5. Matching(rows)' = Matching(rows)
  BY <1>2 DEF Matching
<1>6. /\ items \subseteq Found
      /\ NextCursor(items) = None => items = Found
      /\ NextCursor(items) # None =>
           /\ \A s \in items : NextCursor(items) <= WindowOf(s)
           /\ \E s \in items : WindowOf(s) = NextCursor(items)
           /\ \A r \in Found \ items : WindowOf(r) <= NextCursor(items)
  BY PageIsTop DEF Typed, TypeOK
<1>7. page'.items = items /\ page'.next = NextCursor(items)
  BY <1>1
<1>8. \A s \in items : Below(s)
  BY <1>6 DEF Found
<1>9. ASSUME NEW r \in owed, r \notin listed, r \notin items, ~Excused(r)
      PROVE  NextCursor(items) # None /\ WindowOf(r) <= NextCursor(items)
  <2>1. r \in Found
    BY <1>3, <1>9 DEF WalkInv, OwedMatches, OwedIsBelow, Found
  <2> QED BY <1>6, <1>9, <2>1
<1>10. PageFollows'
  BY <1>2, <1>4, <1>6, <1>7, <1>8, <1>9 DEF PageFollows
<1>11. /\ DoneAsksNoMore' /\ OwedMatches' /\ ListedIsAbove' /\ OwedIsBelow' /\ WalkIsComplete'
  BY <1>2, <1>3, <1>4, <1>5
     DEF WalkInv, DoneAsksNoMore, OwedMatches, ListedIsAbove, OwedIsBelow, WalkIsComplete
<1> QED BY <1>2, <1>10, <1>11 DEF WalkInv

\* The page is listed and the cursor moves down to its end.
LEMMA AnsweredWalks == Typed /\ WalkInv /\ Answered => WalkInv'
<1> SUFFICES ASSUME Typed, WalkInv, Answered PROVE WalkInv'
  OBVIOUS
<1> USE WalkAssumption
<1>1. /\ rows' = rows /\ owed' = owed /\ filter' = filter
      /\ listed' = listed \union page.items /\ cursor' = page.next
      /\ twice' = twice \union (listed \intersect page.items)
      /\ at[Walker] = "answer" /\ at'[Walker] = "out"
  BY DEF Answered, tableVars, Typed, TypeOK
<1>2. walk = "on" /\ (cursor = None \/ cursor \in Nat)
  BY <1>1 DEF WalkInv, DoneAsksNoMore, Typed, TypeOK
<1>3. /\ page.items \subseteq Keys /\ listed \subseteq Keys /\ owed \subseteq Keys
      /\ page.next \in Windows \union {None}
  BY DEF Typed, TypeOK
<1>4. /\ \A s \in page.items : Below(s)
      /\ page.next # None => /\ \E s \in page.items : WindowOf(s) = page.next
                             /\ \A s \in page.items : page.next <= WindowOf(s)
      /\ \A r \in owed \ (listed \union page.items) :
           Excused(r) \/ (page.next # None /\ WindowOf(r) <= page.next)
  BY <1>1 DEF WalkInv, PageFollows
<1>5. \A r \in listed : cursor # None /\ cursor <= WindowOf(r)
  BY <1>2 DEF WalkInv, ListedIsAbove
<1>6. twice' = {}
  <2>1. \A r \in listed \intersect page.items : FALSE
    BY <1>2, <1>3, <1>4, <1>5, WindowsAreNumbers DEF Below
  <2> QED BY <1>1, <2>1 DEF WalkInv
<1>7. OwedMatches'
  <2>1. Matching(rows)' = Matching(rows)
    BY <1>1 DEF Matching
  <2> QED BY <1>1, <2>1 DEF WalkInv, OwedMatches
<1>8. ASSUME NEW r, Excused(r) PROVE Excused(r)'
  <2>1. ends \subseteq ends'
    BY DEF Answered
  <2> QED BY <1>1, <1>8, <2>1 DEF Excused
<1>9. CASE page.next = None
  <2>1. walk' = "done"
    BY <1>9 DEF Answered
  <2>2. \A r \in owed' \ listed' : Excused(r)'
    BY <1>1, <1>4, <1>8, <1>9
  <2>3. DoneAsksNoMore' /\ ListedIsAbove' /\ OwedIsBelow' /\ PageFollows'
    BY <1>1, <2>1 DEF DoneAsksNoMore, ListedIsAbove, OwedIsBelow, PageFollows
  <2>4. WalkIsComplete'
    BY <1>6, <2>2 DEF WalkIsComplete, Excused
  <2> QED BY <1>6, <1>7, <2>3, <2>4 DEF WalkInv
<1>10. CASE page.next # None
  <2>1. walk' = "on" /\ ends' = ends \union {page.next}
    BY <1>2, <1>10 DEF Answered
  <2>2. PICK e \in page.items : WindowOf(e) = page.next
    BY <1>4, <1>10
  <2>3. page.next \in Nat
    BY <1>3, <1>10
  <2>4. ListedIsAbove'
    <3>1. ASSUME NEW r \in listed PROVE page.next <= WindowOf(r)
      BY <1>2, <1>3, <1>4, <1>5, <2>2, <2>3, <3>1, WindowsAreNumbers DEF Below
    <3>2. \A r \in page.items : page.next <= WindowOf(r)
      BY <1>4, <1>10
    <3> QED BY <1>1, <1>10, <3>1, <3>2 DEF ListedIsAbove
  <2>5. OwedIsBelow'
    <3>1. ASSUME NEW r \in owed, r \notin listed, r \notin page.items
          PROVE  Below(r)' \/ Excused(r)'
      <4>1. CASE Excused(r)
        BY <1>8, <4>1
      <4>2. CASE WindowOf(r) = page.next
        <5>1. WindowOf(r) \in ends' /\ e \in listed' /\ WindowOf(e) = WindowOf(r)
          BY <1>1, <2>1, <2>2, <4>2
        <5> QED BY <5>1 DEF Excused
      <4>3. CASE ~Excused(r) /\ WindowOf(r) # page.next
        <5>1. WindowOf(r) <= page.next
          BY <1>4, <3>1, <4>3
        <5>2. WindowOf(r) < page.next
          BY <1>3, <2>3, <4>3, <5>1, WindowsAreNumbers
        <5> QED BY <1>1, <5>2 DEF Below
      <4> QED BY <4>1, <4>2, <4>3
    <3> QED BY <1>1, <3>1 DEF OwedIsBelow
  <2>6. DoneAsksNoMore' /\ PageFollows' /\ WalkIsComplete'
    BY <1>1, <2>1 DEF DoneAsksNoMore, PageFollows, WalkIsComplete
  <2> QED BY <1>6, <1>7, <2>4, <2>5, <2>6 DEF WalkInv
<1> QED BY <1>9, <1>10

LEMMA NextWalk == Typed /\ WalkInv /\ [Next]_vars => WalkInv'
<1> SUFFICES ASSUME Typed, WalkInv, [Next]_vars PROVE WalkInv'
  OBVIOUS
<1> USE WalkAssumption
<1>1. CASE WalkerAsks
  BY <1>1, AsideWalks DEF WalkerAsks, Ask, Typed, TypeOK
<1>2. CASE WalkerPasses \/ WalkerRefused
  BY <1>2, AsideWalks DEF WalkerPasses, WalkerRefused, Pass, Refuse, Leave, Typed, TypeOK
<1>3. CASE Unanswered
  BY <1>3, AsideWalks DEF Unanswered, Typed, TypeOK
<1>4. CASE Time
  BY <1>4, AsideWalks DEF Time, Tick, Turn
<1>5. ASSUME NEW c \in Callers, Rival(c) PROVE WalkInv'
  <2>1. at'[Walker] = at[Walker]
    BY <1>5 DEF Rival, Ask, Pass, Refuse, Leave, Typed, TypeOK
  <2> QED BY <1>5, <2>1, AsideWalks DEF Rival
<1>6. CASE UNCHANGED vars
  BY <1>6, AsideWalks DEF vars
<1> QED BY <1>1, <1>2, <1>3, <1>4, <1>5, <1>6, UpsertWalks, ReadPageWalks, AnsweredWalks
        DEF Next, WalkerSteps

\* A finished walk has listed every row that matched all the while, and none twice, whatever
\* was upserted, retried or refused meanwhile, except rows that share their window with the
\* end of a page; for any sources, windows, filters and size of a page (api.py,
\* list_telemetry, list_plant; FR-API-11).
THEOREM Complete == Spec => []WalkIsComplete
<1>1. Init => Typed /\ WalkInv
  BY InitTyped, InitWalk
<1>2. Typed /\ WalkInv /\ [Next]_vars => (Typed /\ WalkInv)'
  BY NextTyped, NextWalk
<1>3. WalkInv => WalkIsComplete
  BY DEF WalkInv
<1> QED BY <1>1, <1>2, <1>3, PTL DEF Spec
=============================================================================
