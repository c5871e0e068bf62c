--------------------------- MODULE PricingProofs ---------------------------
(***************************************************************************)
(* What TLAPS proves of prices.  Of Feeds, for every set of venues, prices  *)
(* and ids and every timeout: that a venue is priced from its newest print, *)
(* that no return joins two sides of a gap, and that a silent socket is     *)
(* given up.  Of CurveSearch and RowBuild, for every ladder, scale, target, *)
(* spread and skew: that the searches return what they are defined to, that *)
(* the solver's bound is exact, that a built row pays no better than its    *)
(* targets, and that its epoch is within the budget.                       *)
(***************************************************************************)
EXTENDS Feeds, RowBuild, NatSets

-----------------------------------------------------------------------------
(* The feeds.                                                              *)

Received == [id : Nat, price : Nat, age : Nat]

(* The stored tick is the newest of the connection's, and there is one as   *)
(* soon as anything was received on it.                                    *)
TickInv ==
    /\ newest \in Nat
    /\ tick # <<>> => tick \in Received
    /\ link = "up" => IF tick = <<>> THEN newest = 0 ELSE tick.id = newest

(* A cycle without a price leaves no anchor behind it. *)
AnchorInv ==
    /\ anchor \in Nat \cup {NoAnchor} /\ gap \in BOOLEAN
    /\ gap => anchor = NoAnchor
    /\ NoReturnAcrossGap

(* The read began with the last frame, or the ticker began it again since:   *)
(* no more than once, as the next tick is not due before the read times out. *)
QuietInv ==
    /\ keepalive \in Nat /\ quiet \in Nat /\ reading \in Nat /\ due \in Nat
    /\ ReadTimeout < Period =>
         /\ reading <= ReadTimeout /\ due <= Period
         /\ quiet <= reading \/ (quiet <= reading + ReadTimeout /\ due <= reading)

(* A cross-section of prices: positive, and of finitely many venues. *)
PriceSection(q) == IsFiniteSet(DOMAIN q) /\ \A v \in DOMAIN q : q[v] \in Nat \ {0}

FeedsInv ==
    /\ TickInv /\ AnchorInv /\ QuietInv /\ link \in {"up", "down"}
    /\ PriceSection(section)

-----------------------------------------------------------------------------
(* Ages and ticks. *)

(* A tick is not the absence of one. *)
LEMMA TickIsSomething ==
    ASSUME NEW t \in Received
    PROVE  t # <<>>
<1>1. DOMAIN t = {"id", "price", "age"} /\ DOMAIN <<>> = {}
  BY DEF Received
<1>2. QED BY <1>1

LEMMA TickReceived ==
    ASSUME NEW id \in Nat, NEW price \in Nat
    PROVE  Printed(id, price) \in Received /\ Printed(id, price).id = id
BY DEF Printed, Received

(* Ageing a tick changes neither its id nor whether there is one. *)
LEMMA AgeingKeepsTheTick ==
    ASSUME Elapse, tick # <<>> => tick \in Received
    PROVE  /\ tick = <<>> => tick' = <<>>
           /\ tick # <<>> => tick' \in Received /\ tick'.id = tick.id
<1>1. tick' = IF tick = <<>> THEN tick ELSE [tick EXCEPT !.age = Older(@, StaleAfter)]
  BY DEF Elapse
<1>2. CASE tick = <<>>
  BY <1>1, <1>2
<1>3. CASE tick # <<>>
  <2>1. tick' = [tick EXCEPT !.age = Older(tick.age, StaleAfter)] /\ tick \in Received
    BY <1>1, <1>3
  <2>2. Older(tick.age, StaleAfter) \in Nat
    BY <2>1 DEF Older, Received
  <2>3. QED BY <1>3, <2>1, <2>2 DEF Received
<1>4. QED BY <1>2, <1>3

-----------------------------------------------------------------------------
(* The three parts, step by step. *)

(* The frames that carry a book. *)
Brings(id, price) == Book(id, price) \/ Snapshot(id, price)

LEMMA FrameKeepsTick ==
    ASSUME TickInv, NEW id \in Nat \ {0}, NEW price \in Nat, Brings(id, price)
    PROVE  TickInv'
<1> DEFINE t == Printed(id, price)
<1>1. t \in Received /\ t.id = id /\ t # <<>>
  BY TickReceived, TickIsSomething
<1>2. link = "up" /\ link' = "up"
  BY DEF Brings, Book, Snapshot, Frame
<1> HIDE DEF t
<1>3. CASE Snapshot(id, price)
  <2>1. tick' = t /\ newest' = id
    BY <1>3 DEF Snapshot, t
  <2>2. QED BY <1>1, <1>2, <2>1 DEF TickInv
<1>4. CASE Book(id, price)
  <2>1. newest' = IF newest >= id THEN newest ELSE id
    BY <1>4, LargerOfTwo DEF Book, TickInv
  <2>2. CASE tick # <<>> /\ id <= tick.id
    <3>1. tick' = tick
      BY <1>4, <2>2 DEF Book
    <3>2. newest' = newest
      BY <1>2, <2>1, <2>2 DEF TickInv
    <3>3. QED BY <1>2, <2>2, <3>1, <3>2 DEF TickInv
  <2>3. CASE ~(tick # <<>> /\ id <= tick.id)
    <3>1. tick' = t
      BY <1>4, <2>3 DEF Book, t
    <3>2. CASE tick = <<>>
      <4>1. newest' = id
        BY <1>2, <2>1, <3>2 DEF TickInv
      <4>2. QED BY <1>1, <1>2, <3>1, <4>1 DEF TickInv
    <3>3. CASE tick # <<>>
      <4>1. tick.id \in Nat /\ newest = tick.id
        BY <1>2, <3>3 DEF TickInv, Received
      <4>2. newest' = id
        BY <2>1, <2>3, <3>3, <4>1
      <4>3. QED BY <1>1, <1>2, <3>1, <4>2 DEF TickInv
    <3>4. QED BY <3>2, <3>3
  <2>4. QED BY <2>2, <2>3
<1>5. QED BY <1>3, <1>4 DEF Brings

LEMMA TickStep ==
    ASSUME TickInv, [FeedsNext]_feedsVars
    PROVE  TickInv'
<1>1. CASE Connect
  BY <1>1 DEF TickInv, Connect, ClearedTick
<1>2. CASE UNCHANGED tickVars /\ (link' = link \/ link' = "down")
  BY <1>2 DEF TickInv, tickVars
<1>3. CASE \E id \in 1 .. MaxId, price \in Prints \cup {Broken} : Brings(id, price)
  <2>1. PICK id \in 1 .. MaxId, price \in Prints \cup {Broken} : Brings(id, price)
    BY <1>3
  <2>2. id \in Nat \ {0} /\ price \in Nat
    BY FeedsAssumption DEF Broken
  <2>3. QED BY <2>1, <2>2, FrameKeepsTick
<1>4. CASE Elapse
  <2>1. link' = link /\ newest' = newest
    BY <1>4 DEF Elapse
  <2>2. QED BY <1>4, <2>1, AgeingKeepsTheTick, TickIsSomething DEF TickInv
<1>5. QED
  BY <1>1, <1>2, <1>3, <1>4
  DEF FeedsNext, feedsVars, socketVars, Brings, Closed, ReadTimesOut, Disconnect, Keepalive, PeerGoes, OtherFrame, Frame,
      Cycle

(* What a cycle makes of the anchor. *)
LEMMA ObserveKeepsAnchor ==
    ASSUME AnchorInv, Observe
    PROVE  AnchorInv'
<1>1. SampleMin \in Nat /\ SampleMax \in Nat
  BY FeedsAssumption
<1>2. CASE TooSoon
  BY <1>2 DEF AnchorInv, Observe, NoReturnAcrossGap
<1>3. CASE ~TooSoon
  <2>1. anchor' = 0 /\ gap' = FALSE /\ folded' = IF Outage THEN <<>> ELSE [span |-> anchor, gap |-> gap]
    BY <1>3 DEF Observe
  <2>2. NoReturnAcrossGap'
    <3>1. CASE Outage
      BY <2>1, <3>1 DEF NoReturnAcrossGap
    <3>2. CASE ~Outage
      <4>1. anchor \in Nat /\ anchor <= SampleMax /\ anchor >= SampleMin /\ gap = FALSE
        BY <1>1, <1>3, <3>2 DEF Outage, TooSoon, AnchorInv, NoAnchor
      <4>2. folded'.gap = FALSE /\ folded'.span = anchor
        BY <2>1, <3>2, <4>1
      <4>3. QED BY <1>1, <4>1, <4>2 DEF NoReturnAcrossGap
    <3>3. QED BY <3>1, <3>2
  <2>3. QED BY <2>1, <2>2 DEF AnchorInv
<1>4. QED BY <1>2, <1>3

LEMMA AnchorStep ==
    ASSUME AnchorInv, [FeedsNext]_feedsVars
    PROVE  AnchorInv'
<1>1. CASE UNCHANGED loopVars /\ (folded' = <<>> \/ folded' = folded)
  BY <1>1 DEF AnchorInv, loopVars, NoReturnAcrossGap
<1>2. CASE Cycle
  <2>1. Observe \/ (anchor' = Forgotten /\ gap' = TRUE /\ folded' = <<>>)
    <3>1. PICK q : IF Combined(q) # NoPrice THEN Observe
                   ELSE anchor' = Forgotten /\ gap' = TRUE /\ folded' = <<>>
      BY <1>2 DEF Cycle
    <3>2. CASE Combined(q) # NoPrice
      BY <3>1, <3>2
    <3>3. CASE ~(Combined(q) # NoPrice)
      BY <3>1, <3>3
    <3>4. QED BY <3>2, <3>3
  <2>2. CASE anchor' = Forgotten /\ gap' = TRUE /\ folded' = <<>>
    BY <2>2 DEF AnchorInv, NoReturnAcrossGap, Forgotten
  <2>3. QED BY <2>1, <2>2, ObserveKeepsAnchor
<1>3. CASE Elapse
  <2>1. gap' = gap /\ folded' = <<>> /\ anchor' = (IF anchor = NoAnchor THEN anchor ELSE Older(anchor, SampleMax))
    BY <1>3 DEF Elapse
  <2>2. anchor' \in Nat \cup {NoAnchor} /\ (anchor = NoAnchor => anchor' = NoAnchor)
    BY <2>1 DEF AnchorInv, Older
  <2>3. QED BY <2>1, <2>2 DEF AnchorInv, NoReturnAcrossGap
<1>4. QED
  BY <1>1, <1>2, <1>3
  DEF FeedsNext, feedsVars, cycleVars, LoopIdle, Connect, Closed, ReadTimesOut, Disconnect, Keepalive, PeerGoes, OtherFrame,
      Frame, Book, Snapshot

LEMMA QuietStep ==
    ASSUME QuietInv, [FeedsNext]_feedsVars
    PROVE  QuietInv'
<1>1. ReadTimeout \in Nat /\ Hourly \in Nat
  BY FeedsAssumption
<1>2. keepalive' = keepalive
  BY DEF FeedsNext, feedsVars, socketVars, Connect, Closed, ReadTimesOut, Disconnect, Keepalive, PeerGoes,
         OtherFrame, Frame, Book, Snapshot, Cycle, Elapse
<1>3. Period' = Period /\ Period \in Nat
  BY <1>1, <1>2 DEF Period, QuietInv
<1>4. CASE UNCHANGED <<quiet, reading, due>>
  BY <1>2, <1>3, <1>4 DEF QuietInv
<1>5. CASE quiet' = 0 /\ reading' = 0 /\ (due' = 0 \/ due' = due)
  BY <1>1, <1>2, <1>3, <1>5 DEF QuietInv
<1>6. CASE Keepalive
  <2>1. reading' = 0 /\ due' = 0 /\ quiet' = quiet /\ due >= Period
    BY <1>6 DEF Keepalive, TickerDue
  <2>2. QED BY <1>1, <1>2, <1>3, <2>1 DEF QuietInv
<1>7. CASE Elapse
  <2>1. CASE link = "up"
    <3>1. quiet' = Older(quiet, 2 * ReadTimeout) /\ reading' = reading + 1 /\ due' = due + 1
          /\ ~(reading >= ReadTimeout) /\ ~(due >= Period)
      BY <1>7, <2>1 DEF Elapse, TimesOut, TickerDue
    <3>2. quiet' \in Nat /\ quiet' <= quiet + 1
      BY <1>1, <3>1 DEF QuietInv, Older
    <3>3. QED BY <1>1, <1>2, <1>3, <3>1, <3>2 DEF QuietInv
  <2>2. CASE link # "up"
    <3>1. UNCHANGED <<quiet, reading, due>>
      BY <1>7, <2>2 DEF Elapse
    <3>2. QED BY <1>4, <3>1
  <2>3. QED BY <2>1, <2>2
<1>8. QED
  BY <1>4, <1>5, <1>6, <1>7
  DEF FeedsNext, feedsVars, socketVars, Connect, Closed, ReadTimesOut, Disconnect, PeerGoes, OtherFrame,
      Frame, Book, Snapshot, Cycle

(* The socket is up or down. *)
LEMMA LinkStep ==
    ASSUME link \in {"up", "down"}, [FeedsNext]_feedsVars
    PROVE  link' \in {"up", "down"}
BY DEF FeedsNext, feedsVars, socketVars, Connect, Closed, ReadTimesOut, Disconnect, Keepalive, PeerGoes, OtherFrame,
       Frame, Book, Snapshot, Cycle, Elapse

-----------------------------------------------------------------------------
(* The values of q below x, and up to x. *)
Low(q, x)  == {v \in DOMAIN q : q[v] < x}
UpTo(q, x) == {v \in DOMAIN q : q[v] <= x}

CrossSection(q) == IsFiniteSet(DOMAIN q) /\ \A v \in DOMAIN q : q[v] \in Nat

(* There is a k-th smallest value. *)
LEMMA KthIs ==
    ASSUME NEW q, CrossSection(q), NEW k \in 1 .. Size(q)
    PROVE  /\ \E v \in DOMAIN q : Kth(q, k) = q[v]
           /\ Kth(q, k) \in Nat
           /\ Cardinality(Low(q, Kth(q, k))) < k
           /\ Cardinality(UpTo(q, Kth(q, k))) >= k
<1> DEFINE V    == {q[v] : v \in DOMAIN q}
           Good == {x \in V : Cardinality(UpTo(q, x)) >= k}
           n    == Size(q)
<1>1. Range(q) = V
  BY DEF Range
<1>2. V \in SUBSET Nat /\ IsFiniteSet(V) /\ n \in Nat /\ k \in Nat \ {0} /\ k <= n
  <2>1. n \in Nat
    BY FS_CardinalityType DEF CrossSection, Size
  <2>2. QED BY <2>1, ValuesFinite DEF CrossSection
<1>3. \A x : /\ IsFiniteSet(Low(q, x)) /\ Cardinality(Low(q, x)) \in Nat
             /\ IsFiniteSet(UpTo(q, x)) /\ Cardinality(UpTo(q, x)) \in Nat
  <2>1. \A x : Low(q, x) \in SUBSET DOMAIN q /\ UpTo(q, x) \in SUBSET DOMAIN q
    BY DEF Low, UpTo
  <2>2. IsFiniteSet(DOMAIN q)
    BY DEF CrossSection
  <2>3. QED BY <2>1, <2>2, FS_Subset, FS_CardinalityType
<1>4. PICK x \in Good : \A y \in Good : x <= y
  <2>1. V # {}
    <3>1. CASE DOMAIN q = {}
      <4>1. n = 0
        BY <3>1, FS_EmptySet DEF Size
      <4>2. QED BY <1>2, <4>1
    <3>2. QED BY <3>1
  <2>2. PICK m \in V : \A y \in V : m >= y
    <3> HIDE DEF V
    <3>1. QED BY <1>2, <2>1, GreatestAndLeast
  <2>3. UpTo(q, m) = DOMAIN q
    BY <1>2, <2>2 DEF UpTo
  <2>4. m \in Good
    BY <1>2, <2>2, <2>3 DEF Size
  <2>5. Good \in SUBSET V /\ Good # {}
    BY <2>4
  <2> HIDE DEF Good, V
  <2>6. Good \in SUBSET Nat /\ IsFiniteSet(Good)
    BY <1>2, <2>5, FS_Subset
  <2>7. QED BY <2>5, <2>6, GreatestAndLeast
<1>5. x \in V /\ x \in Nat /\ Cardinality(UpTo(q, x)) >= k
  BY <1>2, <1>4
<1>6. Cardinality(Low(q, x)) < k
  <2> SUFFICES ASSUME ~(Cardinality(Low(q, x)) < k) PROVE FALSE
    OBVIOUS
  <2> DEFINE L == {q[v] : v \in Low(q, x)}
  <2>1. Low(q, x) # {}
    <3>1. CASE Low(q, x) = {}
      <4>1. Cardinality(Low(q, x)) = 0
        BY <3>1, FS_EmptySet
      <4>2. QED BY <1>2, <4>1
    <3>2. QED BY <3>1
  <2>2. L \in SUBSET V /\ L # {} /\ IsFiniteSet(L)
    BY <1>3, <2>1, ValuesFinite DEF Low
  <2>3. L \in SUBSET Nat
    BY <1>2, <2>2
  <2>4. PICK y \in L : \A z \in L : y >= z
    <3> HIDE DEF L
    <3>1. QED BY <2>2, <2>3, GreatestAndLeast
  <2>5. y < x /\ y \in V /\ y \in Nat
    BY <1>2, <2>3, <2>4 DEF Low
  <2>6. UpTo(q, y) = Low(q, x)
    <3>1. ASSUME NEW v \in DOMAIN q, q[v] <= y PROVE q[v] < x
      BY <1>2, <1>5, <2>5, <3>1
    <3>2. ASSUME NEW v \in DOMAIN q, q[v] < x PROVE q[v] <= y
      <4>1. v \in Low(q, x)
        BY <3>2 DEF Low
      <4>2. q[v] \in L
        BY <4>1
      <4>3. y >= q[v]
        BY <2>4, <4>2
      <4>4. y \in Nat /\ q[v] \in Nat
        BY <1>2, <2>5
      <4>5. QED BY <4>3, <4>4
    <3>3. QED BY <3>1, <3>2 DEF Low, UpTo
  <2>7. y \in Good
    <3>1. Cardinality(UpTo(q, y)) >= k
      BY <1>2, <1>3, <2>6
    <3>2. QED BY <2>5, <3>1
  <2>8. x <= y
    BY <1>4, <2>7
  <2>9. QED BY <1>5, <2>5, <2>8
<1>7. \E z \in Range(q) : /\ Cardinality(Low(q, z)) < k
                          /\ Cardinality(UpTo(q, z)) >= k
  BY <1>1, <1>5, <1>6
<1> DEFINE K == CHOOSE z \in Range(q) : /\ Cardinality(Low(q, z)) < k
                                        /\ Cardinality(UpTo(q, z)) >= k
<1>8. K \in Range(q) /\ Cardinality(Low(q, K)) < k /\ Cardinality(UpTo(q, K)) >= k
  BY <1>7
<1>9. Kth(q, k) = K
  BY DEF Kth, Low, UpTo
<1> HIDE DEF K
<1>10. QED BY <1>1, <1>2, <1>8, <1>9

(* A value whose rank a majority reaches from either side is between that    *)
(* majority's.                                                             *)
LEMMA KthBetween ==
    ASSUME NEW q, CrossSection(q), NEW k \in 1 .. Size(q),
           NEW H \in SUBSET DOMAIN q, NEW least \in Nat, NEW most \in Nat,
           \A v \in H : least <= q[v] /\ q[v] <= most,
           k <= Cardinality(H), Size(q) < k + Cardinality(H)
    PROVE  least <= Kth(q, k) /\ Kth(q, k) <= most
<1> DEFINE x == Kth(q, k)
<1>1. x \in Nat /\ Cardinality(Low(q, x)) < k /\ Cardinality(UpTo(q, x)) >= k
  BY KthIs
<1>2. IsFiniteSet(DOMAIN q) /\ IsFiniteSet(H) /\ Cardinality(H) \in Nat /\ Size(q) \in Nat
  BY FS_Subset, FS_CardinalityType DEF CrossSection, Size
<1>3. Low(q, x) \in SUBSET DOMAIN q /\ UpTo(q, x) \in SUBSET DOMAIN q
  BY DEF Low, UpTo
<1>4. IsFiniteSet(Low(q, x)) /\ Cardinality(Low(q, x)) \in Nat /\ Cardinality(UpTo(q, x)) \in Nat
  BY <1>2, <1>3, FS_Subset, FS_CardinalityType
<1> HIDE DEF x
<1>5. least <= x
  <2>1. Cardinality(UpTo(q, x)) + Cardinality(H) > Cardinality(DOMAIN q)
    BY <1>1, <1>2, <1>4 DEF Size
  <2>2. UpTo(q, x) \cap H # {}
    BY <1>2, <1>3, <2>1, FS_MajoritiesIntersect
  <2>3. PICK v \in H : v \in UpTo(q, x)
    BY <2>2
  <2>4. q[v] <= x /\ least <= q[v] /\ q[v] \in Nat
    BY <2>3 DEF UpTo, CrossSection
  <2>5. QED BY <1>1, <2>4
<1>6. x <= most
  <2> SUFFICES ASSUME ~(x <= most) PROVE FALSE
    OBVIOUS
  <2>1. \A v \in H : q[v] < x
    BY <1>1 DEF CrossSection
  <2>2. H \in SUBSET Low(q, x)
    BY <2>1 DEF Low
  <2>3. Cardinality(H) <= Cardinality(Low(q, x))
    BY <1>4, <2>2, FS_Subset
  <2>4. QED BY <1>1, <1>2, <1>4, <2>3
<1>7. QED BY <1>5, <1>6 DEF x

(* The median of a cross-section is between the values of any majority. *)
LEMMA MedianBetween ==
    ASSUME NEW q, CrossSection(q),
           NEW H \in SUBSET DOMAIN q, NEW least \in Nat, NEW most \in Nat,
           \A v \in H : least <= q[v] /\ q[v] <= most,
           2 * Cardinality(H) > Size(q), Size(q) > 0
    PROVE  Median(q) \in Nat /\ least <= Median(q) /\ Median(q) <= most
<1> DEFINE n == Size(q)
           h == Cardinality(H)
           j == n \div 2
<1>1. n \in Nat /\ h \in Nat /\ h <= n
  BY FS_Subset, FS_CardinalityType DEF CrossSection, Size
<1>2. 2 * h > n /\ n > 0
  OBVIOUS
<1> HIDE DEF n, h
<1>3. j \in Nat /\ n = 2 * j + (n % 2) /\ n % 2 \in {0, 1}
  BY <1>1
<1>4. CASE n % 2 = 1
  <2>1. j + 1 \in 1 .. n /\ j + 1 <= h /\ n < j + 1 + h
    BY <1>1, <1>2, <1>3, <1>4
  <2>2. Median(q) = Kth(q, j + 1)
    BY <1>4 DEF Median, n
  <2> HIDE DEF j
  <2>3. j + 1 \in 1 .. Size(q)
    BY <2>1 DEF n
  <2>4. Kth(q, j + 1) \in Nat /\ least <= Kth(q, j + 1) /\ Kth(q, j + 1) <= most
    BY <2>1, <2>3, KthIs, KthBetween DEF n, h
  <2>5. QED BY <2>2, <2>4
<1>5. CASE n % 2 = 0
  <2>1. /\ j \in 1 .. n /\ j <= h /\ n < j + h
        /\ j + 1 \in 1 .. n /\ j + 1 <= h /\ n < j + 1 + h
    BY <1>1, <1>2, <1>3, <1>5
  <2>2. Median(q) = (Kth(q, j) + Kth(q, j + 1)) \div 2
    BY <1>5 DEF Median, n
  <2> HIDE DEF j
  <2>3. j \in 1 .. Size(q) /\ j + 1 \in 1 .. Size(q)
    BY <2>1 DEF n
  <2>4. Kth(q, j + 1) \in Nat /\ least <= Kth(q, j + 1) /\ Kth(q, j + 1) <= most
    BY <2>1, <2>3, KthIs, KthBetween DEF n, h
  <2>5. Kth(q, j) \in Nat /\ least <= Kth(q, j) /\ Kth(q, j) <= most
    BY <2>1, <2>3, KthIs, KthBetween DEF n, h
  <2>6. \A a, b \in Nat : least <= a /\ a <= most /\ least <= b /\ b <= most =>
            (a + b) \div 2 \in Nat /\ least <= (a + b) \div 2 /\ (a + b) \div 2 <= most
    OBVIOUS
  <2>7. QED BY <2>2, <2>4, <2>5, <2>6
<1>6. QED BY <1>3, <1>4, <1>5

-----------------------------------------------------------------------------
(* The threshold and those it leaves. *)

(* All of the venues have a least and a greatest value between them. *)
LEMMA MedianIsNat ==
    ASSUME NEW q, CrossSection(q), Size(q) > 0
    PROVE  Median(q) \in Nat
<1> DEFINE V == {q[v] : v \in DOMAIN q}
<1>1. Size(q) \in Nat
  BY FS_CardinalityType DEF CrossSection, Size
<1>2. DOMAIN q # {}
  <2>1. CASE DOMAIN q = {}
    <3>1. Size(q) = 0
      BY <2>1, FS_EmptySet DEF Size
    <3>2. QED BY <3>1
  <2>2. QED BY <2>1
<1>3. V \in SUBSET Nat /\ V # {} /\ IsFiniteSet(V) /\ \A v \in DOMAIN q : q[v] \in V
  BY <1>2, ValuesFinite DEF CrossSection
<1>4. PICK most \in V : \A y \in V : most >= y
  <2> HIDE DEF V
  <2>1. QED BY <1>3, GreatestAndLeast
<1>5. most \in Nat /\ \A v \in DOMAIN q : 0 <= q[v] /\ q[v] <= most
  <2> HIDE DEF V
  <2>1. most \in Nat
    BY <1>3, <1>4
  <2>2. ASSUME NEW v \in DOMAIN q PROVE 0 <= q[v] /\ q[v] <= most
    <3>1. q[v] \in V /\ q[v] \in Nat /\ most >= q[v]
      BY <1>3, <1>4
    <3>2. QED BY <2>1, <3>1
  <2>3. QED BY <2>1, <2>2
<1>6. 2 * Cardinality(DOMAIN q) > Size(q)
  <2>1. \A n \in Nat : n > 0 => 2 * n > n
    OBVIOUS
  <2>2. QED BY <1>1, <2>1 DEF Size
<1> HIDE DEF V
<1>7. QED BY <1>5, <1>6, MedianBetween

(* The deviations are a cross-section of the same venues. *)
LEMMA DeviationsAre ==
    ASSUME NEW q, PriceSection(q), NEW m \in Nat \ {0}, m = Median(q)
    PROVE  /\ CrossSection(Deviations(q)) /\ DOMAIN Deviations(q) = DOMAIN q
           /\ \A v \in DOMAIN q : Abs(q[v] - m) * Parts < m * (Deviations(q)[v] + 1)
<1> DEFINE d == Deviations(q)
<1>1. DOMAIN d = DOMAIN q /\ \A v \in DOMAIN q : d[v] = (Abs(q[v] - m) * Parts) \div m
  BY DEF Deviations
<1>2. ASSUME NEW v \in DOMAIN q
      PROVE  d[v] \in Nat /\ Abs(q[v] - m) * Parts < m * (d[v] + 1)
  <2>1. q[v] \in Nat /\ Parts \in Nat
    BY ReferenceAssumption DEF PriceSection
  <2>2. Abs(q[v] - m) \in Nat
    BY <2>1 DEF Abs
  <2> DEFINE x == Abs(q[v] - m) * Parts
  <2>3. x \in Nat
    BY <2>1, <2>2, ProductIsNat
  <2> HIDE DEF x
  <2>4. x \div m \in Nat /\ x < m * (x \div m) + m
    BY <2>3, Quotient, SMT
  <2>5. \A e \in Nat : m * e + m = m * (e + 1)
    BY SMT
  <2>6. d[v] = x \div m
    BY <1>1 DEF x
  <2> HIDE DEF d
  <2>7. QED BY <2>4, <2>5, <2>6 DEF x
<1> HIDE DEF d
<1>3. QED BY <1>1, <1>2 DEF PriceSection, CrossSection, d

(* The disagreement is capped before it is multiplied. *)
LEMMA ThresholdCapped ==
    ASSUME NEW D \in Nat, D <= DispersionMax
    PROVE  /\ Max({(D * KTenths) \div 10, Floor}) \in Nat
           /\ Slack \in Nat \ {0}
           /\ Max({(D * KTenths) \div 10, Floor}) + 1 <= Slack
<1>1. DispersionMax \in Nat /\ KTenths \in Nat /\ Floor \in Nat
  BY ReferenceAssumption
<1> DEFINE x == D * KTenths
           y == DispersionMax * KTenths
<1>2. x \in Nat /\ y \in Nat /\ x <= y
  <2>1. KTenths * D <= KTenths * DispersionMax
    BY <1>1, Scaling
  <2>2. x = KTenths * D /\ y = KTenths * DispersionMax
    BY <1>1, SMT
  <2>3. QED BY <1>1, <2>1, <2>2, ProductIsNat
<1> HIDE DEF x, y
<1>3. x \div 10 \in Nat /\ y \div 10 \in Nat /\ x \div 10 <= y \div 10
  BY <1>2
<1>4. Max({x \div 10, Floor}) = (IF x \div 10 >= Floor THEN x \div 10 ELSE Floor)
  BY <1>1, <1>3, LargerOfTwo
<1>5. Max({y \div 10, Floor}) = (IF y \div 10 >= Floor THEN y \div 10 ELSE Floor)
  BY <1>1, <1>3, LargerOfTwo
<1>6. Slack = Max({y \div 10, Floor}) + 1
  BY DEF Slack, y
<1>7. QED BY <1>1, <1>3, <1>4, <1>5, <1>6 DEF x

(* A deviation below the slack, both ways. *)
LEMMA WithinSlack ==
    ASSUME NEW a \in Nat, NEW m \in Nat, NEW P \in Nat, NEW S \in Nat, Abs(a - m) * P < m * S
    PROVE  a * P <= m * (P + S) /\ m * P - m * S <= a * P
<1>1. m * (P + S) = m * P + m * S /\ m * P \in Nat /\ m * S \in Nat /\ a * P \in Nat
  BY SMT
<1>2. CASE a < m
  <2>1. Abs(a - m) = m - a
    BY <1>2 DEF Abs
  <2>2. m * P - a * P < m * S
    BY <2>1, Distributed
  <2>3. a * P <= m * P
    BY <1>2, SMT
  <2>4. QED BY <1>1, <2>2, <2>3
<1>3. CASE ~(a < m)
  <2>1. Abs(a - m) = a - m
    BY <1>3 DEF Abs
  <2>2. a * P - m * P < m * S
    BY <2>1, Distributed
  <2>3. m * P <= a * P
    BY <1>3, SMT
  <2>4. QED BY <1>1, <2>2, <2>3
<1>4. QED BY <1>2, <1>3

(* A venue that is used is within the slack of the median. *)
LEMMA UsedIsNear ==
    ASSUME NEW q, PriceSection(q), Size(q) >= 3, Agreed(q),
           NEW m \in Nat \ {0}, m = Median(q), NEW v \in Used(q)
    PROVE  /\ Slack \in Nat
           /\ q[v] * Parts <= m * (Parts + Slack)
           /\ m * Parts - m * Slack <= q[v] * Parts
<1> DEFINE d == Deviations(q)
<1>1. CrossSection(d) /\ DOMAIN d = DOMAIN q /\ v \in DOMAIN q
  BY DeviationsAre DEF Used
<1>2. Abs(q[v] - m) * Parts < m * (d[v] + 1)
  BY <1>1, DeviationsAre
<1>3. Size(d) = Size(q) /\ Size(d) > 0
  <2>1. Size(q) \in Nat
    BY FS_CardinalityType DEF PriceSection, Size
  <2>2. Size(d) = Size(q)
    BY <1>1 DEF Size
  <2>3. QED BY <2>1, <2>2
<1>4. d[v] <= Threshold(q)
  BY DEF Used
<1> HIDE DEF d
<1>5. Median(d) \in Nat
  BY <1>1, <1>3, MedianIsNat
<1>6. Median(d) <= DispersionMax
  BY DEF Agreed, Disagreement, d
<1>7. Threshold(q) = Max({(Median(d) * KTenths) \div 10, Floor})
  <2>1. ~(Size(q) < 3)
    <3>1. Size(q) \in Nat
      BY FS_CardinalityType DEF PriceSection, Size
    <3>2. QED BY <3>1
  <2>2. QED BY <2>1 DEF Threshold, Disagreement, d
<1>8. Threshold(q) \in Nat /\ Slack \in Nat \ {0} /\ Threshold(q) + 1 <= Slack
  BY <1>5, <1>6, <1>7, ThresholdCapped
<1>9. d[v] \in Nat /\ q[v] \in Nat /\ Parts \in Nat
  BY <1>1, ReferenceAssumption DEF PriceSection, CrossSection
<1>10. Abs(q[v] - m) * Parts < m * Slack
  <2>1. m * (d[v] + 1) <= m * Slack
    BY <1>4, <1>8, <1>9, Scaling
  <2>2. Abs(q[v] - m) * Parts \in Int /\ m * (d[v] + 1) \in Int /\ m * Slack \in Int
    BY <1>8, <1>9, SMT DEF Abs
  <2>3. QED BY <1>2, <2>1, <2>2
<1>11. QED BY <1>8, <1>9, <1>10, WithinSlack

-----------------------------------------------------------------------------
(* Whatever a minority prints. *)

LEMMA FewCannotMove ==
    ASSUME NEW q, PriceSection(q), Size(q) >= 3, Combined(q) # NoPrice,
           NEW H \in SUBSET DOMAIN q, 2 * Cardinality(H) > Size(q)
    PROVE  LET range == {q[v] : v \in H}
           IN  /\ Combined(q) * Parts >= Min(range) * Parts - Slack * Max(range)
               /\ Combined(q) * Parts <= Max(range) * (Parts + Slack)
<1> DEFINE range == {q[v] : v \in H}
           least    == Min(range)
           most    == Max(range)
           m     == Median(q)
           price  == Combined(q)
<1>1. Size(q) \in Nat /\ Size(q) > 0 /\ IsFiniteSet(H) /\ Cardinality(H) \in Nat
  BY FS_Subset, FS_CardinalityType DEF PriceSection, Size
<1>2. H # {}
  <2>1. CASE H = {}
    <3>1. Cardinality(H) = 0
      BY <2>1, FS_EmptySet
    <3>2. QED BY <1>1, <3>1
  <2>2. QED BY <2>1
<1>3. range \in SUBSET Nat /\ range # {} /\ IsFiniteSet(range) /\ \A v \in H : q[v] \in range
  BY <1>1, <1>2, ValuesFinite DEF PriceSection
<1>4. least \in range /\ most \in range
  <2> HIDE DEF range
  <2>1. QED BY <1>3, MinInSet, MaxInSet
<1>5. \A x \in range : least <= x /\ x <= most
  <2> HIDE DEF range
  <2>1. \E a \in range : \A x \in range : a <= x
    BY <1>3, GreatestAndLeast
  <2>2. \E a \in range : \A x \in range : a >= x
    BY <1>3, GreatestAndLeast
  <2>3. QED BY <1>3, <2>1, <2>2 DEF Min, Max
<1>6. least \in Nat /\ most \in Nat /\ least >= 1
  BY <1>3, <1>4 DEF PriceSection
<1>7. \A v \in H : least <= q[v] /\ q[v] <= most
  BY <1>3, <1>5
<1> HIDE DEF least, most, range, price
<1>8. CrossSection(q)
  BY DEF CrossSection, PriceSection
<1>9. m \in Nat /\ least <= m /\ m <= most
  BY <1>1, <1>6, <1>7, <1>8, MedianBetween
<1>10. m \in Nat \ {0}
  BY <1>6, <1>9
<1>11. Agreed(q) /\ price = SumFunctionOnSet(q, Used(q)) \div Cardinality(Used(q))
  BY DEF Combined, price
<1>12. Used(q) # {} /\ IsFiniteSet(Used(q)) /\ \A v \in Used(q) : q[v] \in Nat
  <2>1. Used(q) \in SUBSET DOMAIN q
    BY DEF Used
  <2>2. CASE Used(q) = {}
    <3>1. Cardinality(Used(q)) = 0
      BY <2>2, FS_EmptySet
    <3>2. QED BY <1>11, <3>1, ReferenceAssumption DEF Agreed
  <2>3. CASE Used(q) # {}
    BY <1>8, <2>1, <2>3, FS_Subset DEF CrossSection
  <2>4. QED BY <2>2, <2>3
<1>13. price \in Nat /\ \E v, w \in Used(q) : q[v] <= price /\ price <= q[w]
  BY <1>11, <1>12, MeanBetween
<1>14. PICK v \in Used(q), w \in Used(q) : q[v] <= price /\ price <= q[w]
  BY <1>13
<1>15. q[v] \in Nat /\ q[w] \in Nat /\ Parts \in Nat /\ Slack \in Nat
  BY <1>10, <1>11, <1>12, UsedIsNear, ReferenceAssumption
<1>16. m * Parts - m * Slack <= q[v] * Parts /\ q[w] * Parts <= m * (Parts + Slack)
  BY <1>10, <1>11, UsedIsNear
<1> HIDE DEF m
<1>17. \A a \in Nat, b \in Nat, P \in Nat : a <= b => a * P <= b * P
  <2> TAKE a \in Nat, b \in Nat, P \in Nat
  <2> HAVE a <= b
  <2>1. P * a <= P * b
    BY Scaling
  <2>2. P * a = a * P /\ P * b = b * P
    BY SMT
  <2>3. QED BY <2>1, <2>2
<1>18. price * Parts <= most * (Parts + Slack)
  <2>1. Parts + Slack \in Nat
    BY <1>15
  <2>2. price * Parts <= q[w] * Parts /\ m * (Parts + Slack) <= most * (Parts + Slack)
    BY <1>6, <1>9, <1>13, <1>14, <1>15, <1>17, <2>1
  <2>3. /\ price * Parts \in Nat /\ q[w] * Parts \in Nat
        /\ m * (Parts + Slack) \in Nat /\ most * (Parts + Slack) \in Nat
    BY <1>6, <1>9, <1>13, <1>15, <2>1, ProductIsNat
  <2>4. QED BY <1>16, <2>2, <2>3
<1>19. price * Parts >= least * Parts - Slack * most
  <2>1. q[v] * Parts <= price * Parts /\ least * Parts <= m * Parts /\ m * Slack <= most * Slack
    BY <1>6, <1>9, <1>13, <1>14, <1>15, <1>17
  <2>2. /\ price * Parts \in Nat /\ q[v] * Parts \in Nat /\ least * Parts \in Nat
        /\ m * Parts \in Nat /\ m * Slack \in Nat /\ most * Slack \in Nat
    BY <1>6, <1>9, <1>13, <1>15, ProductIsNat
  <2>3. Slack * most = most * Slack
    BY <1>6, <1>15, SMT
  <2>4. QED BY <1>16, <2>1, <2>2, <2>3
<1>20. QED BY <1>18, <1>19 DEF price, least, most, range

-----------------------------------------------------------------------------
(* What a cycle hands over is one: a quote is of a book that is whole. *)

LEMMA OwnQuoteIsPriced ==
    ASSUME TickInv, link \in {"up", "down"}, Venue \in OwnQuote
    PROVE  tick.price \in Nat \ {0}
<1>1. Status = "live" /\ tick.price # Broken
  BY DEF OwnQuote
<1>2. link # "down" /\ ~(link = "up" /\ tick = <<>>)
  BY <1>1 DEF Status
<1>3. tick \in Received
  BY <1>2 DEF TickInv
<1>4. QED BY <1>1, <1>3 DEF Received, Broken

LEMMA SectionStep ==
    ASSUME TickInv, link \in {"up", "down"}, PriceSection(section), [FeedsNext]_feedsVars
    PROVE  PriceSection(section')
<1>1. CASE section' = section
  BY <1>1
<1>2. CASE section' = <<>>
  <2>1. DOMAIN section' = {}
    BY <1>2
  <2>2. QED BY <2>1, FS_EmptySet DEF PriceSection
<1>3. CASE Cycle
  <2> DEFINE Seen(seen, others) ==
               section' = [v \in seen \cup OwnQuote |-> IF v = Venue THEN tick.price ELSE others[v]]
  <2>1. PICK seen \in SUBSET Others : \E others \in [seen -> Prices] : Seen(seen, others)
    BY <1>3 DEF Cycle
  <2>2. PICK others \in [seen -> Prices] : Seen(seen, others)
    BY <2>1
  <2>3. IsFiniteSet(seen \cup OwnQuote)
    <3>1. IsFiniteSet(seen)
      BY FeedsAssumption, FS_Subset
    <3>2. IsFiniteSet(OwnQuote)
      BY FS_Singleton, FS_EmptySet DEF OwnQuote
    <3>3. QED BY <3>1, <3>2, FS_Union
  <2>4. ASSUME NEW v \in seen \cup OwnQuote
        PROVE  section'[v] \in Nat \ {0}
    <3>1. CASE v = Venue
      <4>1. Venue \in OwnQuote
        BY <3>1, FeedsAssumption
      <4>2. QED BY <2>2, <3>1, <4>1, OwnQuoteIsPriced
    <3>2. CASE v # Venue
      <4>1. v \in seen
        BY <3>2 DEF OwnQuote
      <4>2. others[v] \in Nat \ {0}
        BY <4>1, FeedsAssumption
      <4>3. QED BY <2>2, <3>2, <4>2
    <3>3. QED BY <3>1, <3>2
  <2>5. QED BY <2>2, <2>3, <2>4 DEF PriceSection
<1>4. QED
  BY <1>1, <1>2, <1>3
  DEF FeedsNext, feedsVars, cycleVars, LoopIdle, Connect, Closed, ReadTimesOut, Disconnect, Keepalive, PeerGoes, OtherFrame,
      Frame, Book, Snapshot, Elapse

-----------------------------------------------------------------------------
(* The theorems. *)

LEMMA InitSound == FeedsInit => FeedsInv
<1> SUFFICES ASSUME FeedsInit PROVE FeedsInv
  OBVIOUS
<1>1. TickInv
  BY DEF FeedsInit, TickInv
<1>2. AnchorInv
  BY DEF FeedsInit, AnchorInv, NoReturnAcrossGap
<1>3. QuietInv
  <2>1. ReadTimeout \in Nat /\ Hourly \in Nat /\ keepalive \in Nat
    BY FeedsAssumption DEF FeedsInit
  <2>2. Period \in Nat
    BY <2>1 DEF Period
  <2>3. quiet = 0 /\ reading = 0 /\ due = 0
    BY DEF FeedsInit
  <2>4. QED BY <2>1, <2>2, <2>3 DEF QuietInv
<1>4. PriceSection(section)
  <2>1. DOMAIN section = {}
    BY DEF FeedsInit
  <2>2. QED BY <2>1, FS_EmptySet DEF PriceSection
<1>5. QED BY <1>1, <1>2, <1>3, <1>4 DEF FeedsInit, FeedsInv

LEMMA Invariance == FeedsSpec => []FeedsInv
<1>1. FeedsInv /\ [FeedsNext]_feedsVars => FeedsInv'
  <2> SUFFICES ASSUME FeedsInv, [FeedsNext]_feedsVars PROVE FeedsInv'
    OBVIOUS
  <2>1. TickInv' /\ AnchorInv' /\ QuietInv' /\ link' \in {"up", "down"}
    BY TickStep, AnchorStep, QuietStep, LinkStep DEF FeedsInv
  <2>2. PriceSection(section')
    BY SectionStep DEF FeedsInv
  <2>3. QED BY <2>1, <2>2 DEF FeedsInv, PriceSection
<1>2. QED BY <1>1, InitSound, PTL DEF FeedsSpec

(* A venue contributes the newest print of the connection it has now, for    *)
(* every order of ids, resets, reconnects and silences (feed/mod.rs         *)
(* 371-480): an older connection's book is never priced from.               *)
THEOREM OnlyTheNewestPrint == FeedsSpec => []QuoteIsCurrent
<1>1. FeedsInv => QuoteIsCurrent
  <2> SUFFICES ASSUME FeedsInv, Venue \in OwnQuote
               PROVE  tick.id = newest /\ tick.age <= StaleAfter
    BY DEF QuoteIsCurrent
  <2>1. Status = "live"
    BY DEF OwnQuote
  <2>2. link # "down" /\ ~(link = "up" /\ tick = <<>>) /\ tick.age <= StaleAfter
    BY <2>1 DEF Status
  <2>3. QED BY <2>2 DEF FeedsInv, TickInv
<1>2. QED BY <1>1, Invariance, PTL

(* Venues that are a minority of three or more, whatever they print, take    *)
(* the reference no further out of the range of the others than the slack   *)
(* (fair_value.rs 363-392, 461-597), for every parameter of the combination: *)
(* the others hold the median between their prices, and the disagreement is *)
(* capped before it is multiplied into a threshold.                        *)
THEOREM MinorityCannotMoveIt == FeedsSpec => []FewCannotMoveIt
<1>1. FeedsInv => FewCannotMoveIt
  <2> SUFFICES ASSUME FeedsInv, NEW H \in SUBSET DOMAIN section,
                      Combined(section) # NoPrice, Size(section) >= 3,
                      2 * Cardinality(H) > Size(section)
               PROVE  LET range == {section[v] : v \in H}
                      IN  /\ Combined(section) * Parts >= Min(range) * Parts - Slack * Max(range)
                          /\ Combined(section) * Parts <= Max(range) * (Parts + Slack)
    BY DEF FewCannotMoveIt
  <2>1. PriceSection(section)
    BY DEF FeedsInv
  <2>2. QED BY <2>1, FewCannotMove
<1>2. QED BY <1>1, Invariance, PTL

(* Every return the volatility takes joins two references with none missing  *)
(* in between, a sampled interval apart (skew.rs 134-203, main.rs           *)
(* 2394-2401).                                                             *)
THEOREM ReturnsAreUnbroken == FeedsSpec => []NoReturnAcrossGap
<1>1. FeedsInv => NoReturnAcrossGap
  BY DEF FeedsInv, AnchorInv
<1>2. QED BY <1>1, Invariance, PTL

(* Where the read timeout is shorter than the ticker's period, the silence of *)
(* a socket that is up is bounded by twice the timeout, for every timeout and *)
(* period: the ticker begins the read again at most once (ws.rs 105-107,     *)
(* 280-313).                                                                 *)
THEOREM SilenceIsBounded == FeedsSpec => []SilenceEnds
<1>1. FeedsInv => SilenceEnds
  <2> SUFFICES ASSUME QuietInv, ReadTimeout < Period PROVE quiet <= 2 * ReadTimeout
    BY DEF FeedsInv, SilenceEnds
  <2>1. ReadTimeout \in Nat
    BY FeedsAssumption
  <2>2. /\ quiet \in Nat /\ reading \in Nat /\ reading <= ReadTimeout
        /\ quiet <= reading \/ quiet <= reading + ReadTimeout
    BY DEF QuietInv
  <2>3. QED BY <2>1, <2>2
<1>2. QED BY <1>1, Invariance, PTL

-----------------------------------------------------------------------------
(* The search.                                                             *)

(* A price p at or above the average at q: less than the target costs at p   *)
(* does not buy it.                                                        *)
LEMMA BidNeeds ==
    ASSUME NEW d, IsSide(d), NEW q \in Nat, q <= Room(d), NEW k \in Nat \ {0}, NEW y \in Nat,
           NEW p \in Nat \ {0}, BidAverage(q, d) <= 2 * d.cap * p, BidGross(q, d, k) >= y
    PROVE  CeilDiv(y * k, p) <= q
<1> DEFINE c == 2 * d.cap
           a == BidAverage(q, d)
<1>1. c \in Nat \ {0} /\ a \in Nat /\ a <= c * p
  BY Averages
<1>2. y * (c * k) <= q * a
  BY BidPays
<1> HIDE DEF c, a
<1>3. q * a <= q * (c * p)
  <2>1. c * p \in Int
    BY <1>1, SMT
  <2>2. QED BY <1>1, <2>1, Scaling
<1>4. /\ y * (c * k) = c * (y * k) /\ q * (c * p) = c * (q * p)
      /\ c * (y * k) \in Int /\ c * (q * p) \in Int /\ q * a \in Int /\ y * k \in Int /\ q * p \in Int
  BY <1>1, SMT
<1>5. c * (y * k) <= c * (q * p)
  BY <1>2, <1>3, <1>4
<1>6. y * k <= q * p
  BY <1>1, <1>4, <1>5, Cancelling
<1>7. QED BY <1>4, <1>6, CeilReaches

(* A price at or below it: what the target costs at p buys it. *)
LEMMA BidSuffices ==
    ASSUME NEW d, IsSide(d), NEW q \in Nat, q <= Room(d), NEW k \in Nat \ {0}, NEW y \in Nat,
           NEW p \in Nat \ {0}, 2 * d.cap * p <= BidAverage(q, d), CeilDiv(y * k, p) <= q
    PROVE  BidGross(q, d, k) >= y
<1> DEFINE c == 2 * d.cap
           a == BidAverage(q, d)
<1>1. c \in Nat \ {0} /\ a \in Nat /\ c * p <= a
  BY Averages
<1>2. SUFFICES y * (c * k) <= q * a
  BY BidPays
<1> HIDE DEF c, a
<1>3. q * (c * p) <= q * a
  <2>1. c * p \in Int
    BY <1>1, SMT
  <2>2. QED BY <1>1, <2>1, Scaling
<1>4. /\ y * (c * k) = c * (y * k) /\ q * (c * p) = c * (q * p)
      /\ c * (y * k) \in Int /\ c * (q * p) \in Int /\ q * a \in Int /\ y * k \in Int /\ q * p \in Int
  BY <1>1, SMT
<1>5. y * k <= q * p
  BY <1>4, CeilReaches
<1>6. c * (y * k) <= c * (q * p)
  BY <1>1, <1>4, <1>5, Scaling
<1>7. QED BY <1>3, <1>4, <1>6

(* The same of an ask: what the target buys at a price above the average is  *)
(* paid for, more than it buys at a price below it is not.                  *)
LEMMA AskSuffices ==
    ASSUME NEW d, IsSide(d), NEW q \in Nat, q <= Room(d), NEW k \in Nat \ {0}, NEW y \in Nat,
           NEW p \in Nat \ {0}, AskAverage(q, d) <= 2 * d.cap * p, q <= (y * k) \div p
    PROVE  AskCost(q, d, k) <= y
<1> DEFINE c == 2 * d.cap
           a == AskAverage(q, d)
<1>1. c \in Nat \ {0} /\ a \in Nat /\ a <= c * p
  BY Averages
<1>2. SUFFICES q * a <= y * (c * k)
  BY AskCharges
<1> HIDE DEF c, a
<1>3. q * a <= q * (c * p)
  <2>1. c * p \in Int
    BY <1>1, SMT
  <2>2. QED BY <1>1, <2>1, Scaling
<1>4. /\ y * (c * k) = c * (y * k) /\ q * (c * p) = c * (q * p)
      /\ c * (y * k) \in Int /\ c * (q * p) \in Int /\ q * a \in Int /\ y * k \in Int /\ q * p \in Int
  BY <1>1, SMT
<1>5. q * p <= y * k
  <2>1. (y * k) \div p >= q
    BY <1>4, Quotient
  <2>2. QED BY <1>4, <2>1, QuotientReaches
<1>6. c * (q * p) <= c * (y * k)
  BY <1>1, <1>4, <1>5, Scaling
<1>7. QED BY <1>3, <1>4, <1>6

LEMMA AskNeeds ==
    ASSUME NEW d, IsSide(d), NEW q \in Nat, q <= Room(d), NEW k \in Nat \ {0}, NEW y \in Nat,
           NEW p \in Nat \ {0}, 2 * d.cap * p <= AskAverage(q, d), AskCost(q, d, k) <= y
    PROVE  q <= (y * k) \div p
<1> DEFINE c == 2 * d.cap
           a == AskAverage(q, d)
<1>1. c \in Nat \ {0} /\ a \in Nat /\ c * p <= a
  BY Averages
<1>2. q * a <= y * (c * k)
  BY AskCharges
<1> HIDE DEF c, a
<1>3. q * (c * p) <= q * a
  <2>1. c * p \in Int
    BY <1>1, SMT
  <2>2. QED BY <1>1, <2>1, Scaling
<1>4. /\ y * (c * k) = c * (y * k) /\ q * (c * p) = c * (q * p)
      /\ c * (y * k) \in Int /\ c * (q * p) \in Int /\ q * a \in Int /\ y * k \in Int /\ q * p \in Int
  BY <1>1, SMT
<1>5. c * (q * p) <= c * (y * k)
  BY <1>2, <1>3, <1>4
<1>6. q * p <= y * k
  BY <1>1, <1>4, <1>5, Cancelling
<1>7. (y * k) \div p >= q
  BY <1>4, <1>6, QuotientReaches
<1>8. QED BY <1>4, <1>7, Quotient

(* The refinement's prices, the average rounded either way, are prices of the *)
(* ladder's range around it.                                               *)
LEMMA RoundedAverages ==
    ASSUME NEW d, IsSide(d), NEW q \in Nat, q <= Room(d)
    PROVE  LET c == 2 * d.cap
               f == Span(d) * (2 * d.used + q)
           IN  /\ f \div c \in Nat /\ CeilDiv(f, c) \in Nat /\ CeilDiv(f, c) <= Span(d)
               /\ f \div c <= CeilDiv(f, c)
               /\ BidAverage(q, d) <= c * (d.high - f \div c)
               /\ c * (d.high - CeilDiv(f, c)) <= BidAverage(q, d)
               /\ c * (d.low + f \div c) <= AskAverage(q, d)
               /\ AskAverage(q, d) <= c * (d.low + CeilDiv(f, c))
<1> DEFINE c == 2 * d.cap
           f == Span(d) * (2 * d.used + q)
           g == f \div c
           e == CeilDiv(f, c)
           w == Span(d)
<1>1. d.high \in Nat /\ d.low \in Nat /\ d.cap \in Nat \ {0} /\ d.used \in Nat /\ w \in Nat
  BY DEF IsSide, Span
<1>2. 2 * d.used + q \in Nat /\ 2 * d.used + q <= c /\ c \in Nat \ {0}
  BY <1>1 DEF Room
<1>3. f \in Nat /\ f <= w * c /\ w * c \in Nat
  BY <1>1, <1>2, Scaling, ProductIsNat
<1>4. BidAverage(q, d) = c * d.high - f /\ AskAverage(q, d) = c * d.low + f
  <2>1. 2 * d.high * d.cap = c * d.high /\ 2 * d.low * d.cap = c * d.low
    BY <1>1, SMT
  <2>2. QED BY <2>1 DEF BidAverage, AskAverage
<1> HIDE DEF c, f, w
<1>5. g \in Int /\ c * g <= f /\ f < c * g + c
  BY <1>2, <1>3, Quotient
<1>6. e \in Int /\ f <= c * e /\ c * e < f + c
  BY <1>2, <1>3, CeilCovers
<1>7. e <= w
  BY <1>1, <1>2, <1>3, CeilReaches
<1>8. g >= 0
  BY <1>2, <1>3, QuotientReaches
<1> HIDE DEF g, e
<1>9. c * g \in Int /\ c * e \in Int /\ c * d.high \in Int /\ c * d.low \in Int
  BY <1>1, <1>2, <1>5, <1>6, SMT
<1>10. g <= e
  <2>1. c * g <= c * e
    BY <1>3, <1>5, <1>6, <1>9
  <2>2. QED BY <1>2, <1>5, <1>6, <2>1, Cancelling
<1>11. /\ c * (d.high - g) = c * d.high - c * g /\ c * (d.high - e) = c * d.high - c * e
       /\ c * (d.low + g) = c * d.low + c * g /\ c * (d.low + e) = c * d.low + c * e
  BY <1>1, <1>2, <1>5, <1>6, SMT
<1>12. /\ g \in Nat /\ e \in Nat
       /\ BidAverage(q, d) <= c * (d.high - g) /\ c * (d.high - e) <= BidAverage(q, d)
       /\ c * (d.low + g) <= AskAverage(q, d) /\ AskAverage(q, d) <= c * (d.low + e)
  BY <1>3, <1>4, <1>5, <1>6, <1>8, <1>9, <1>10, <1>11
<1>13. QED BY <1>7, <1>10, <1>12 DEF c, f, g, e, w

Searched == pc \in {"refining", "bisecting", "returned"}

(* What the bracket stands for while it narrows: a bid's upper end buys the  *)
(* target and nothing below the lower end does; an ask's lower end is paid   *)
(* for and nothing above the upper end is.                                 *)
BidBracket(l, h) ==
    /\ 1 <= l /\ l <= h /\ h <= Room(side)
    /\ Buys(h) /\ \A x \in Nat : 1 <= x /\ x < l => ~Buys(x)
AskBracket(l, h) ==
    /\ 0 <= l /\ l <= h /\ h <= Room(side)
    /\ PaidFor(l) /\ \A x \in Nat : h < x /\ x <= Room(side) => ~PaidFor(x)

Bracket(l, h) == IF way = "bid" THEN BidBracket(l, h) ELSE AskBracket(l, h)

SearchInv ==
    /\ SearchTypeOK
    /\ Searched => ~Exceeds /\ Bracket(lo, hi)
    /\ pc = "returned" => lo = hi
    /\ pc = "reverted" => Exceeds

LEMMA SearchConstants ==
    ASSUME SearchTypeOK
    PROVE  /\ IsSide(side) /\ Room(side) \in Nat /\ s \in Nat \ {0}
           /\ target \in Nat /\ lo \in Nat /\ hi \in Nat /\ Scaled \in Nat
           /\ \A q \in Nat : q <= Room(side) => BidGross(q, side, s) \in Nat /\ AskCost(q, side, s) \in Nat
<1>1. /\ LadderPrices \subseteq Nat /\ Scales \subseteq Nat \ {0} /\ MaxCapacity \in Nat
      /\ side \in Sides /\ s \in Scales /\ target \in Nat /\ lo \in Nat /\ hi \in Nat
  BY CurveAssumption DEF CurveAssumption, SearchTypeOK
<1>2. IsSide(side)
  <2>1. /\ side.low \in LadderPrices /\ side.high \in LadderPrices
        /\ side.cap \in 1 .. MaxCapacity /\ side.used \in 0 .. MaxCapacity
        /\ side.low <= side.high /\ side.used <= side.cap
    BY <1>1 DEF Sides
  <2>2. side.low \in Nat /\ side.high \in Nat
    BY <1>1, <2>1
  <2>3. side.cap \in Nat \ {0}
    BY <1>1, <2>1
  <2>4. side.used \in Nat
    BY <1>1, <2>1
  <2>5. QED BY <2>1, <2>2, <2>3, <2>4 DEF IsSide
<1>3. Room(side) \in Nat
  BY <1>2 DEF Room, IsSide
<1>4. Scaled \in Nat
  BY <1>1, ProductIsNat DEF Scaled
<1>5. s \in Nat \ {0}
  BY <1>1
<1>6. ASSUME NEW q \in Nat, q <= Room(side)
      PROVE  BidGross(q, side, s) \in Nat /\ AskCost(q, side, s) \in Nat
  BY <1>2, <1>5, <1>6, BidPays, AskCharges
<1>7. QED BY <1>1, <1>2, <1>3, <1>4, <1>5, <1>6

(* Where the target is bought, everything above buys it; where it pays,      *)
(* everything below is paid for.                                           *)
LEMMA Monotone ==
    ASSUME SearchTypeOK, NEW x \in Nat, NEW z \in Nat, x <= z, z <= Room(side)
    PROVE  /\ Buys(x) => Buys(z)
           /\ PaidFor(z) => PaidFor(x)
<1>1. /\ IsSide(side) /\ s \in Nat \ {0} /\ target \in Nat
  BY SearchConstants
<1>2. /\ BidGross(x, side, s) \in Nat /\ BidGross(z, side, s) \in Nat
      /\ BidGross(x, side, s) <= BidGross(z, side, s)
  BY <1>1, BidGrows
<1>3. /\ AskCost(x, side, s) \in Nat /\ AskCost(z, side, s) \in Nat
      /\ AskCost(x, side, s) <= AskCost(z, side, s)
  BY <1>1, AskGrows
<1>4. QED BY <1>1, <1>2, <1>3 DEF Buys, PaidFor

(* What a price says of an amount, whose average lies to one side of it.      *)
LEMMA PricesDecide ==
    ASSUME SearchTypeOK, NEW q \in Nat, q <= Room(side), NEW p \in Nat \ {0}
    PROVE  /\ CeilDiv(Scaled, p) \in Int /\ Scaled \div p \in Nat
           /\ BidAverage(q, side) <= 2 * side.cap * p /\ Buys(q) => CeilDiv(Scaled, p) <= q
           /\ 2 * side.cap * p <= BidAverage(q, side) /\ CeilDiv(Scaled, p) <= q => Buys(q)
           /\ AskAverage(q, side) <= 2 * side.cap * p /\ q <= Scaled \div p => PaidFor(q)
           /\ 2 * side.cap * p <= AskAverage(q, side) /\ PaidFor(q) => q <= Scaled \div p
<1>1. IsSide(side) /\ s \in Nat \ {0} /\ target \in Nat /\ Scaled \in Nat
  BY SearchConstants
<1>2. CeilDiv(Scaled, p) \in Int /\ Scaled \div p \in Int
  BY <1>1, CeilCovers, Quotient
<1>3. Scaled \div p >= 0
  BY <1>1, QuotientReaches
<1>4. BidAverage(q, side) <= 2 * side.cap * p /\ Buys(q) => CeilDiv(Scaled, p) <= q
  BY <1>1, BidNeeds DEF Buys, Scaled
<1>5. 2 * side.cap * p <= BidAverage(q, side) /\ CeilDiv(Scaled, p) <= q => Buys(q)
  BY <1>1, BidSuffices DEF Buys, Scaled
<1>6. AskAverage(q, side) <= 2 * side.cap * p /\ q <= Scaled \div p => PaidFor(q)
  BY <1>1, AskSuffices DEF PaidFor, Scaled
<1>7. 2 * side.cap * p <= AskAverage(q, side) /\ PaidFor(q) => q <= Scaled \div p
  BY <1>1, AskNeeds DEF PaidFor, Scaled
<1>8. QED BY <1>2, <1>3, <1>4, <1>5, <1>6, <1>7

(* A side priced at nothing buys nothing. *)
LEMMA PricedBid ==
    ASSUME SearchTypeOK, Buys(Room(side))
    PROVE  side.high # 0
<1> DEFINE r == Room(side)
           a == BidAverage(r, side)
           d == 2 * side.cap * s
<1>1. /\ IsSide(side) /\ r \in Nat /\ s \in Nat \ {0} /\ target \in Nat \ {0}
      /\ side.cap \in Nat \ {0} /\ a \in Nat /\ a <= 2 * side.cap * side.high
  BY SearchConstants, Averages DEF SearchTypeOK, IsSide
<1>2. target * d <= r * a
  <2>1. BidGross(r, side, s) >= target /\ r <= Room(side)
    BY <1>1 DEF Buys
  <2>2. QED BY <1>1, <2>1, BidPays
<1>3. d \in Nat \ {0}
  BY <1>1, SMT
<1>4. SUFFICES ASSUME side.high = 0 PROVE FALSE
  OBVIOUS
<1>5. a = 0
  <2> HIDE DEF a, d
  <2> QED BY <1>1, <1>4
<1> HIDE DEF r, a, d
<1>6. r * a = 0 /\ target * d \in Int /\ d * target = target * d /\ d * 0 = 0
  BY <1>1, <1>3, <1>5, SMT
<1>7. d * target <= d * 0
  BY <1>2, <1>6
<1>8. target <= 0
  BY <1>1, <1>3, <1>7, Cancelling
<1>9. QED BY <1>1, <1>8

LEMMA SeedBidKeeps ==
    ASSUME SearchTypeOK, SeedBid
    PROVE  lo' \in Nat /\ hi' \in Nat /\ BidBracket(lo', hi')
<1> DEFINE best  == CeilDiv(Scaled, side.high)
           worst == CeilDiv(Scaled, side.low)
           r     == Room(side)
<1>0. PICK l \in {lo'}, h \in {hi'} : TRUE
  OBVIOUS
<1>1. /\ way = "bid" /\ ~Exceeds
      /\ l = IF best > 1 /\ best <= r THEN best ELSE 1
      /\ h = IF side.low # 0 /\ worst >= l /\ worst < r THEN worst ELSE r
  BY <1>0 DEF SeedBid
<1>2. /\ IsSide(side) /\ r \in Nat /\ side.low \in Nat /\ side.high \in Nat
  BY SearchConstants DEF IsSide
<1>3. r >= 1 /\ Buys(r) /\ side.high # 0
  BY <1>1, <1>2, PricedBid DEF Exceeds, Room, IsSide
<1>4. \A q \in Nat : q <= r => /\ 2 * side.cap * side.low <= BidAverage(q, side)
                             /\ BidAverage(q, side) <= 2 * side.cap * side.high
  BY <1>2, Averages
<1>5. best \in Int /\ (side.low # 0 => worst \in Int)
  BY <1>2, <1>3, PricesDecide
<1>6. ASSUME NEW q \in Nat, q <= r, Buys(q) PROVE best <= q
  BY <1>2, <1>3, <1>4, <1>6, PricesDecide
<1>7. ASSUME NEW q \in Nat, q <= r, side.low # 0, worst <= q PROVE Buys(q)
  BY <1>2, <1>4, <1>7, PricesDecide
<1> HIDE DEF best, worst, r
<1>8. best <= r
  BY <1>2, <1>3, <1>6
<1>9. l \in Nat /\ 1 <= l /\ l <= r /\ (l = 1 \/ l = best)
  BY <1>1, <1>2, <1>3, <1>5
<1>10. h \in Nat /\ l <= h /\ h <= r
  BY <1>1, <1>2, <1>5, <1>9
<1>11. Buys(h)
  <2>1. CASE h = r
    BY <1>3, <2>1
  <2>2. CASE h # r
    <3>1. side.low # 0 /\ h = worst
      BY <1>1, <2>2
    <3>2. QED BY <1>5, <1>7, <1>10, <3>1
  <2>3. QED BY <2>1, <2>2
<1>12. ASSUME NEW x \in Nat, 1 <= x, x < l PROVE ~Buys(x)
  <2>1. l = best /\ x <= r /\ ~(best <= x)
    BY <1>2, <1>5, <1>9, <1>12
  <2>2. QED BY <1>6, <2>1
<1>13. BidBracket(l, h)
  BY <1>9, <1>10, <1>11, <1>12 DEF BidBracket, r
<1>14. QED BY <1>0, <1>9, <1>10, <1>13

LEMMA SeedAskKeeps ==
    ASSUME SearchTypeOK, SeedAsk
    PROVE  lo' \in Nat /\ hi' \in Nat /\ AskBracket(lo', hi')
<1> DEFINE most  == Room(side) - 1
           worst == Scaled \div side.high
           best  == Scaled \div side.low
           r     == Room(side)
<1>0. PICK l \in {lo'}, h \in {hi'} : TRUE
  OBVIOUS
<1>1. /\ way = "ask" /\ ~Exceeds /\ AskCost(r, side, s) # target
      /\ l = IF worst > most THEN most ELSE worst
      /\ h = IF side.low # 0 /\ best < most /\ best >= l THEN best ELSE most
  BY <1>0 DEF SeedAsk
<1>2. /\ IsSide(side) /\ r \in Nat /\ side.low \in Nat /\ side.high \in Nat
      /\ target \in Nat /\ AskCost(r, side, s) \in Nat
  BY SearchConstants DEF IsSide
<1>3. r >= 1 /\ ~PaidFor(r) /\ side.high # 0
  <2>1. r >= 1 /\ ~(AskCost(r, side, s) < target) /\ side.high # 0
    BY <1>1, <1>2 DEF Exceeds, Room, IsSide
  <2>2. QED BY <1>1, <1>2, <2>1 DEF PaidFor
<1>4. \A q \in Nat : q <= r => /\ 2 * side.cap * side.low <= AskAverage(q, side)
                             /\ AskAverage(q, side) <= 2 * side.cap * side.high
  BY <1>2, Averages
<1>5. worst \in Nat /\ (side.low # 0 => best \in Nat) /\ most \in Nat /\ most = r - 1
  BY <1>2, <1>3, PricesDecide
<1>6. ASSUME NEW q \in Nat, q <= r, q <= worst PROVE PaidFor(q)
  BY <1>2, <1>3, <1>4, <1>6, PricesDecide
<1>7. ASSUME NEW q \in Nat, q <= r, side.low # 0, PaidFor(q) PROVE q <= best
  BY <1>2, <1>4, <1>7, PricesDecide
<1> HIDE DEF best, worst, r, most
<1>8. l \in Nat /\ l <= worst /\ l <= most /\ l <= r
  BY <1>1, <1>2, <1>5
<1>9. h \in Nat /\ l <= h /\ h <= r /\ (h = most \/ (h = best /\ side.low # 0))
  BY <1>1, <1>2, <1>5, <1>8
<1>10. PaidFor(l)
  BY <1>6, <1>8
<1>11. ASSUME NEW x \in Nat, h < x, x <= r PROVE ~PaidFor(x)
  <2>1. CASE h = most
    <3>1. x = r
      BY <1>2, <1>5, <1>11, <2>1
    <3>2. QED BY <1>3, <3>1
  <2>2. CASE h = best /\ side.low # 0
    <3>1. ~(x <= best)
      BY <1>9, <1>11, <2>2
    <3>2. QED BY <1>7, <1>11, <2>2, <3>1
  <2>3. QED BY <1>9, <2>1, <2>2
<1>12. AskBracket(l, h)
  BY <1>8, <1>9, <1>10, <1>11 DEF AskBracket, r
<1>13. QED BY <1>0, <1>8, <1>9, <1>12

(* The average a refinement divides by, at one end of the bracket, bounds the *)
(* averages of everything on the other side of that end.                    *)
LEMMA EndsBound ==
    ASSUME SearchTypeOK, NEW q \in Nat, q <= Room(side)
    PROVE  LET c     == 2 * side.cap
               floor == Drift(q) \div Den
               ceil  == CeilDiv(Drift(q), Den)
           IN  /\ side.high - floor \in Nat /\ side.high - ceil \in Nat
               /\ side.low + floor \in Nat /\ side.low + ceil \in Nat
               /\ \A x \in Nat : q <= x /\ x <= Room(side) =>
                      /\ BidAverage(x, side) <= c * (side.high - floor)
                      /\ c * (side.low + floor) <= AskAverage(x, side)
               /\ \A x \in Nat : x <= q =>
                      /\ c * (side.high - ceil) <= BidAverage(x, side)
                      /\ AskAverage(x, side) <= c * (side.low + ceil)
<1> DEFINE c     == 2 * side.cap
           floor == Drift(q) \div Den
           ceil  == CeilDiv(Drift(q), Den)
<1>1. /\ IsSide(side) /\ side.high \in Nat /\ side.low \in Nat /\ side.low <= side.high
      /\ Span(side) = side.high - side.low /\ c \in Nat /\ Room(side) \in Nat
  BY SearchConstants DEF IsSide, Span
<1>2. /\ floor \in Nat /\ ceil \in Nat /\ ceil <= Span(side) /\ floor <= ceil
      /\ BidAverage(q, side) <= c * (side.high - floor)
      /\ c * (side.high - ceil) <= BidAverage(q, side)
      /\ c * (side.low + floor) <= AskAverage(q, side)
      /\ AskAverage(q, side) <= c * (side.low + ceil)
  BY <1>1, RoundedAverages DEF Drift, Den
<1> HIDE DEF c, floor, ceil
<1>3. /\ side.high - floor \in Nat /\ side.high - ceil \in Nat
      /\ side.low + floor \in Nat /\ side.low + ceil \in Nat
  BY <1>1, <1>2
<1> DEFINE a1 == c * (side.high - floor)
           a2 == c * (side.high - ceil)
           b1 == c * (side.low + floor)
           b2 == c * (side.low + ceil)
<1>4. a1 \in Int /\ a2 \in Int /\ b1 \in Int /\ b2 \in Int
  <2>1. \A n \in Nat : c * n \in Int
    BY <1>1, ProductIsNat
  <2>2. QED BY <1>3, <2>1
<1>5. /\ BidAverage(q, side) <= a1 /\ a2 <= BidAverage(q, side)
      /\ b1 <= AskAverage(q, side) /\ AskAverage(q, side) <= b2
  BY <1>2
<1> HIDE DEF a1, a2, b1, b2
<1>6. BidAverage(q, side) \in Nat /\ AskAverage(q, side) \in Nat
  BY <1>1, Averages
<1>7. ASSUME NEW x \in Nat, q <= x, x <= Room(side)
      PROVE  BidAverage(x, side) <= a1 /\ b1 <= AskAverage(x, side)
  <2>1. /\ BidAverage(x, side) \in Nat /\ AskAverage(x, side) \in Nat
        /\ BidAverage(x, side) <= BidAverage(q, side) /\ AskAverage(q, side) <= AskAverage(x, side)
    <3>1. q \in 0 .. x
      BY <1>7
    <3>2. QED BY <1>1, <1>7, <3>1, Averages
  <2>2. QED BY <1>4, <1>5, <1>6, <2>1
<1>8. ASSUME NEW x \in Nat, x <= q
      PROVE  a2 <= BidAverage(x, side) /\ AskAverage(x, side) <= b2
  <2>1. /\ BidAverage(q, side) <= BidAverage(x, side) /\ AskAverage(x, side) <= AskAverage(q, side)
    <3>1. x \in 0 .. q
      BY <1>8
    <3>2. QED BY <1>1, <3>1, Averages
  <2>2. BidAverage(x, side) \in Nat /\ AskAverage(x, side) \in Nat
    <3>1. x <= Room(side)
      BY <1>1, <1>8
    <3>2. QED BY <1>1, <3>1, Averages
  <2>3. QED BY <1>4, <1>5, <1>6, <2>1, <2>2
<1>9. QED BY <1>3, <1>7, <1>8 DEF a1, a2, b1, b2, c, floor, ceil

LEMMA RefineBidKeeps ==
    ASSUME SearchTypeOK, BidBracket(lo, hi), RefineBid
    PROVE  lo' \in Nat /\ hi' \in Nat /\ BidBracket(lo', hi')
<1> DEFINE r     == Room(side)
           above == side.high - Drift(lo) \div Den
           seed  == CeilDiv(Scaled, above)
           below == side.high - CeilDiv(Drift(hi), Den)
           cut   == CeilDiv(Scaled, below)
           least == IF seed > hi THEN hi ELSE seed
<1>0. PICK l \in {lo'}, h \in {hi'} : TRUE
  OBVIOUS
<1>1. /\ l = IF above # 0 /\ least > lo THEN least ELSE lo
      /\ h = IF below # 0 /\ cut < hi /\ cut >= l THEN cut ELSE hi
  BY <1>0 DEF RefineBid
<1>2. /\ lo \in Nat /\ hi \in Nat /\ r \in Nat /\ 1 <= lo /\ lo <= hi /\ hi <= r /\ Buys(hi)
      /\ \A x \in Nat : 1 <= x /\ x < lo => ~Buys(x)
  BY SearchConstants DEF BidBracket
<1>3. /\ above \in Nat
      /\ \A x \in Nat : lo <= x /\ x <= r => BidAverage(x, side) <= 2 * side.cap * above
  <2>1. lo <= r
    BY <1>2
  <2>2. QED BY <1>2, <2>1, EndsBound
<1>4. /\ below \in Nat
      /\ \A x \in Nat : x <= hi => 2 * side.cap * below <= BidAverage(x, side)
  BY <1>2, EndsBound
<1>5. (above # 0 => seed \in Int) /\ (below # 0 => cut \in Int)
  BY <1>2, <1>3, <1>4, PricesDecide
<1>6. ASSUME NEW x \in Nat, lo <= x, x <= r, above # 0, Buys(x) PROVE seed <= x
  BY <1>3, <1>6, PricesDecide
<1>7. ASSUME NEW x \in Nat, x <= hi, below # 0, cut <= x PROVE Buys(x)
  <2>1. x <= r
    BY <1>2, <1>7
  <2>2. QED BY <1>4, <1>7, <2>1, PricesDecide
<1> HIDE DEF r, above, seed, below, cut
<1>8. above # 0 => seed <= hi
  BY <1>2, <1>6
<1>9. l \in Nat /\ lo <= l /\ l <= hi /\ (l = lo \/ (above # 0 /\ l = seed))
  BY <1>1, <1>2, <1>5, <1>8
<1>10. h \in Nat /\ l <= h /\ h <= hi /\ (h = hi \/ (below # 0 /\ h = cut))
  BY <1>1, <1>2, <1>5, <1>9
<1>11. Buys(h)
  BY <1>2, <1>7, <1>10
<1>12. ASSUME NEW x \in Nat, 1 <= x, x < l PROVE ~Buys(x)
  <2>1. CASE x < lo
    BY <1>2, <1>12, <2>1
  <2>2. CASE ~(x < lo)
    <3>1. above # 0 /\ l = seed /\ lo <= x /\ x <= r /\ ~(seed <= x)
      BY <1>2, <1>5, <1>9, <1>12, <2>2
    <3>2. QED BY <1>6, <3>1
  <2>3. QED BY <2>1, <2>2
<1>13. 1 <= l /\ h <= r
  BY <1>2, <1>9, <1>10
<1>14. BidBracket(l, h)
  BY <1>10, <1>11, <1>12, <1>13 DEF BidBracket, r
<1>15. QED BY <1>0, <1>9, <1>10, <1>14

LEMMA RefineAskKeeps ==
    ASSUME SearchTypeOK, AskBracket(lo, hi), RefineAsk
    PROVE  lo' \in Nat /\ hi' \in Nat /\ AskBracket(lo', hi')
<1>0. PICK l \in {lo'}, h \in {hi'} : TRUE
  OBVIOUS
<1> DEFINE r     == Room(side)
           below == side.low + Drift(lo) \div Den
           cut   == Scaled \div below
           above == side.low + CeilDiv(Drift(h), Den)
           seed  == Scaled \div above
           most  == IF seed > h THEN h ELSE seed
<1>1. /\ h = IF below # 0 /\ cut < hi THEN cut ELSE hi
      /\ l = IF above # 0 /\ most > lo THEN most ELSE lo
  <2>1. h = hi' /\ l = lo'
    BY <1>0
  <2>2. h = IF below # 0 /\ cut < hi THEN cut ELSE hi
    BY <2>1 DEF RefineAsk
  <2>3. lo' = LET above1 == side.low + CeilDiv(Drift(hi'), Den)
                  seed1  == Scaled \div above1
                  most1  == IF seed1 > hi' THEN hi' ELSE seed1
              IN  IF above1 # 0 /\ most1 > lo THEN most1 ELSE lo
    BY DEF RefineAsk
  <2>4. QED BY <2>1, <2>2, <2>3
<1>2. /\ lo \in Nat /\ hi \in Nat /\ r \in Nat /\ lo <= hi /\ hi <= r /\ PaidFor(lo)
      /\ \A x \in Nat : hi < x /\ x <= r => ~PaidFor(x)
  BY SearchConstants DEF AskBracket
<1>3. lo <= r
  BY <1>2
<1>4. /\ below \in Nat
      /\ \A x \in Nat : lo <= x /\ x <= r => 2 * side.cap * below <= AskAverage(x, side)
  BY <1>2, <1>3, EndsBound
<1>5. below # 0 => cut \in Nat
  BY <1>2, <1>4, PricesDecide
<1>6. ASSUME NEW x \in Nat, lo <= x, x <= r, below # 0, PaidFor(x) PROVE x <= cut
  BY <1>4, <1>6, PricesDecide
<1>7. h \in Nat /\ lo <= h /\ h <= hi /\ (h = hi \/ (below # 0 /\ h = cut))
  <2>1. below # 0 => lo <= cut
    BY <1>2, <1>3, <1>6
  <2> HIDE DEF below, cut
  <2>2. QED BY <1>1, <1>2, <1>5, <2>1
<1>8. h <= r
  <2> HIDE DEF r
  <2> QED BY <1>2, <1>7
<1>9. /\ above \in Nat
      /\ \A x \in Nat : x <= h => AskAverage(x, side) <= 2 * side.cap * above
  BY <1>7, <1>8, EndsBound
<1>10. above # 0 => seed \in Nat
  BY <1>7, <1>8, <1>9, PricesDecide
<1>11. ASSUME NEW x \in Nat, x <= h, above # 0, x <= seed PROVE PaidFor(x)
  <2>1. x <= r
    <3> HIDE DEF r
    <3> QED BY <1>2, <1>8, <1>11, <1>7
  <2>2. QED BY <1>9, <1>11, <2>1, PricesDecide
<1> HIDE DEF r, below, cut, above, seed
<1>12. l \in Nat /\ lo <= l /\ l <= h /\ (l = lo \/ (above # 0 /\ l <= seed))
  <2>1. CASE above # 0 /\ most > lo
    <3>1. l = most /\ seed \in Nat /\ h \in Nat
      BY <1>1, <1>7, <1>10, <2>1
    <3>2. most \in Nat /\ most <= h /\ most <= seed
      BY <3>1
    <3>3. QED BY <1>2, <2>1, <3>1, <3>2
  <2>2. CASE ~(above # 0 /\ most > lo)
    <3>1. l = lo
      BY <1>1, <2>2
    <3>2. QED BY <1>2, <1>7, <3>1
  <2>3. QED BY <2>1, <2>2
<1>13. PaidFor(l)
  BY <1>2, <1>11, <1>12
<1>14. ASSUME NEW x \in Nat, h < x, x <= r PROVE ~PaidFor(x)
  <2>1. CASE hi < x
    BY <1>2, <1>14, <2>1
  <2>2. CASE ~(hi < x)
    <3>1. below # 0 /\ h = cut /\ lo <= x /\ ~(x <= cut)
      BY <1>2, <1>5, <1>7, <1>14, <2>2
    <3>2. QED BY <1>6, <1>14, <3>1
  <2>3. QED BY <2>1, <2>2
<1>15. AskBracket(l, h)
  BY <1>2, <1>7, <1>8, <1>12, <1>13, <1>14 DEF AskBracket, r
<1>16. QED BY <1>0, <1>7, <1>12, <1>15

LEMMA BisectBidKeeps ==
    ASSUME SearchTypeOK, BidBracket(lo, hi), BisectBid
    PROVE  lo' \in Nat /\ hi' \in Nat /\ BidBracket(lo', hi')
<1> DEFINE r   == Room(side)
           mid == lo + (hi - lo) \div 2
<1>0. PICK l \in {lo'}, h \in {hi'} : TRUE
  OBVIOUS
<1>1. /\ lo < hi
      /\ Buys(mid) => h = mid /\ l = lo
      /\ ~Buys(mid) => l = mid + 1 /\ h = hi
  BY <1>0 DEF BisectBid
<1>2. /\ lo \in Nat /\ hi \in Nat /\ r \in Nat /\ 1 <= lo /\ lo <= hi /\ hi <= r /\ Buys(hi)
      /\ \A x \in Nat : 1 <= x /\ x < lo => ~Buys(x)
  BY SearchConstants DEF BidBracket
<1>3. mid \in Nat /\ lo <= mid /\ mid < hi
  BY <1>1, <1>2
<1> HIDE DEF mid, r
<1>4. CASE Buys(mid)
  <2>1. h = mid /\ l = lo /\ h <= r
    BY <1>1, <1>2, <1>3, <1>4
  <2>2. QED BY <1>0, <1>2, <1>3, <1>4, <2>1 DEF BidBracket, r
<1>5. CASE ~Buys(mid)
  <2>1. l = mid + 1 /\ h = hi
    BY <1>1, <1>5
  <2>2. ASSUME NEW x \in Nat, 1 <= x, x < l PROVE ~Buys(x)
    <3>1. x <= mid /\ mid <= r
      BY <1>2, <1>3, <2>1, <2>2
    <3>2. QED BY <1>3, <1>5, <3>1, Monotone DEF r
  <2>3. l \in Nat /\ 1 <= l /\ l <= h
    BY <1>2, <1>3, <2>1
  <2>4. QED BY <1>0, <1>2, <2>1, <2>2, <2>3 DEF BidBracket, r
<1>6. QED BY <1>4, <1>5

LEMMA BisectAskKeeps ==
    ASSUME SearchTypeOK, AskBracket(lo, hi), BisectAsk
    PROVE  lo' \in Nat /\ hi' \in Nat /\ AskBracket(lo', hi')
<1> DEFINE r   == Room(side)
           mid == lo + (hi - lo + 1) \div 2
<1>0. PICK l \in {lo'}, h \in {hi'} : TRUE
  OBVIOUS
<1>1. /\ lo < hi
      /\ PaidFor(mid) => l = mid /\ h = hi
      /\ ~PaidFor(mid) => h = mid - 1 /\ l = lo
  BY <1>0 DEF BisectAsk
<1>2. /\ lo \in Nat /\ hi \in Nat /\ r \in Nat /\ lo <= hi /\ hi <= r /\ PaidFor(lo)
      /\ \A x \in Nat : hi < x /\ x <= r => ~PaidFor(x)
  BY SearchConstants DEF AskBracket
<1>3. mid \in Nat /\ lo < mid /\ mid <= hi
  BY <1>1, <1>2
<1> HIDE DEF mid, r
<1>4. CASE PaidFor(mid)
  <2>1. l = mid /\ h = hi /\ 0 <= l
    BY <1>1, <1>2, <1>3, <1>4
  <2>2. QED BY <1>0, <1>2, <1>3, <1>4, <2>1 DEF AskBracket, r
<1>5. CASE ~PaidFor(mid)
  <2>1. h = mid - 1 /\ l = lo
    BY <1>1, <1>5
  <2>2. ASSUME NEW x \in Nat, h < x, x <= r PROVE ~PaidFor(x)
    <3>1. mid <= x
      BY <1>3, <2>1, <2>2
    <3>2. QED BY <1>3, <1>5, <2>2, <3>1, Monotone DEF r
  <2>3. h \in Nat /\ lo <= h /\ h <= hi
    <3>1. lo \in Nat /\ hi \in Nat /\ h = mid - 1
      BY <1>2, <2>1
    <3>2. QED BY <1>3, <3>1
  <2>4. l <= h /\ h <= r /\ 0 <= l
    BY <1>2, <2>1, <2>3
  <2>5. QED BY <1>0, <1>2, <2>1, <2>2, <2>3, <2>4 DEF AskBracket, r
<1>6. QED BY <1>4, <1>5

(* The search keeps its bracket, step by step. *)
LEMMA SearchStarts ==
    ASSUME SearchInit
    PROVE  SearchInv
BY CurveAssumption DEF CurveAssumption, SearchInit, SearchInv, SearchTypeOK, Searched

LEMMA SearchKeeps ==
    ASSUME SearchInv, SearchNext
    PROVE  SearchInv'
<1>1. SearchTypeOK /\ lo \in Nat /\ hi \in Nat
  BY DEF SearchInv, SearchTypeOK
<1> DEFINE Same == /\ way' = way /\ target' = target /\ side' = side /\ s' = s
<1>2. Same
  BY DEF SearchNext, Revert, WholeRoom, SeedBid, SeedAsk, RefineBid, RefineAsk, Refined,
         BisectBid, BisectAsk, Return
<1>3. /\ (SearchTypeOK' <=> /\ pc' \in {"called", "refining", "bisecting", "returned", "reverted"}
                           /\ round' \in 0 .. 3 /\ lo' \in Nat /\ hi' \in Nat)
      /\ Exceeds' = Exceeds /\ Bracket(lo, hi)' = Bracket(lo', hi')
  BY <1>1, <1>2 DEF SearchTypeOK, Exceeds, Bracket, BidBracket, AskBracket, Buys, PaidFor
<1>4. SUFFICES /\ SearchTypeOK'
               /\ Searched' => ~Exceeds /\ Bracket(lo', hi')
               /\ pc' = "returned" => lo' = hi'
               /\ pc' = "reverted" => Exceeds
  BY <1>3 DEF SearchInv
<1>5. CASE Revert
  BY <1>1, <1>3, <1>5 DEF Revert, Searched, SearchTypeOK
<1>6. CASE WholeRoom
  <2>1. /\ way = "ask" /\ ~Exceeds /\ AskCost(Room(side), side, s) = target
        /\ lo' = Room(side) /\ hi' = Room(side) /\ pc' = "returned" /\ round' = round
    BY <1>6 DEF WholeRoom
  <2>2. Room(side) \in Nat /\ target \in Nat
    BY <1>1, SearchConstants
  <2>3. AskBracket(lo', hi')
    BY <2>1, <2>2 DEF AskBracket, PaidFor
  <2>4. QED BY <1>1, <1>3, <2>1, <2>2, <2>3 DEF Bracket, SearchTypeOK
<1>7. CASE SeedBid
  BY <1>1, <1>3, <1>7, SeedBidKeeps DEF SeedBid, Bracket, SearchTypeOK
<1>8. CASE SeedAsk
  BY <1>1, <1>3, <1>8, SeedAskKeeps DEF SeedAsk, Bracket, SearchTypeOK
<1>9. CASE RefineBid
  <2>1. /\ way = "bid" /\ pc = "refining" /\ pc' = pc /\ round < 3 /\ round' = round + 1
    BY <1>9 DEF RefineBid, Refining
  <2>2. BidBracket(lo, hi) /\ ~Exceeds
    BY <2>1 DEF SearchInv, Searched, Bracket
  <2>3. round' \in 0 .. 3
    BY <1>1, <2>1 DEF SearchTypeOK
  <2>4. QED BY <1>1, <1>3, <1>9, <2>1, <2>2, <2>3, RefineBidKeeps DEF Bracket
<1>10. CASE RefineAsk
  <2>1. /\ way = "ask" /\ pc = "refining" /\ pc' = pc /\ round < 3 /\ round' = round + 1
    BY <1>10 DEF RefineAsk, Refining
  <2>2. AskBracket(lo, hi) /\ ~Exceeds
    BY <2>1 DEF SearchInv, Searched, Bracket
  <2>3. round' \in 0 .. 3
    BY <1>1, <2>1 DEF SearchTypeOK
  <2>4. QED BY <1>1, <1>3, <1>10, <2>1, <2>2, <2>3, RefineAskKeeps DEF Bracket
<1>11. CASE Refined
  BY <1>1, <1>3, <1>11 DEF Refined, SearchInv, Searched, SearchTypeOK
<1>12. CASE BisectBid
  <2>1. way = "bid" /\ pc = "bisecting" /\ pc' = pc /\ round' = round
    BY <1>12 DEF BisectBid
  <2>2. BidBracket(lo, hi) /\ ~Exceeds
    BY <2>1 DEF SearchInv, Searched, Bracket
  <2>3. QED BY <1>1, <1>3, <1>12, <2>1, <2>2, BisectBidKeeps DEF Bracket, SearchTypeOK
<1>13. CASE BisectAsk
  <2>1. way = "ask" /\ pc = "bisecting" /\ pc' = pc /\ round' = round
    BY <1>13 DEF BisectAsk
  <2>2. AskBracket(lo, hi) /\ ~Exceeds
    BY <2>1 DEF SearchInv, Searched, Bracket
  <2>3. QED BY <1>1, <1>3, <1>13, <2>1, <2>2, BisectAskKeeps DEF Bracket, SearchTypeOK
<1>14. CASE Return
  <2>1. /\ pc = "bisecting" /\ ~(lo < hi) /\ pc' = "returned"
        /\ lo' = lo /\ hi' = hi /\ round' = round
    BY <1>14 DEF Return
  <2>2. Bracket(lo, hi) /\ ~Exceeds
    BY <2>1 DEF SearchInv, Searched
  <2>3. lo <= hi
    BY <2>2 DEF Bracket, BidBracket, AskBracket
  <2>4. lo = hi
    BY <1>1, <2>1, <2>3
  <2>5. QED BY <1>1, <1>3, <2>1, <2>2, <2>4 DEF SearchTypeOK
<1>15. QED BY <1>5, <1>6, <1>7, <1>8, <1>9, <1>10, <1>11, <1>12, <1>13, <1>14 DEF SearchNext

LEMMA SearchStutters ==
    ASSUME SearchInv, UNCHANGED searchVars
    PROVE  SearchInv'
BY DEF SearchInv, searchVars, SearchTypeOK, Searched, Exceeds, Bracket, BidBracket, AskBracket,
       Buys, PaidFor

LEMMA BracketReturns ==
    ASSUME SearchInv
    PROVE  ReturnsExpected
<1>1. /\ IsSide(side) /\ Room(side) \in Nat /\ s \in Nat \ {0} /\ target \in Nat
      /\ lo \in Nat /\ hi \in Nat
  BY SearchConstants DEF SearchInv
<1>2. pc \in {"refining", "bisecting"} => 0 <= lo /\ lo <= hi /\ hi <= Room(side)
  BY <1>1 DEF SearchInv, Searched, Bracket, BidBracket, AskBracket
<1>3. ASSUME pc = "returned" PROVE (IF way = "bid" THEN hi ELSE lo) = Expected
  <2>1. lo = hi /\ Bracket(lo, hi)
    BY <1>3 DEF SearchInv, Searched
  <2>2. CASE way = "bid"
    <3> DEFINE m == AmountInBid(target, side, s)
    <3>1. /\ 1 <= lo /\ hi <= Room(side) /\ Buys(hi)
          /\ \A x \in Nat : 1 <= x /\ x < lo => ~Buys(x)
      BY <2>1, <2>2 DEF Bracket, BidBracket
    <3>2. hi \in 1 .. Room(side) /\ BidGross(hi, side, s) \in Nat /\ target <= BidGross(hi, side, s)
      BY <1>1, <2>1, <3>1, SearchConstants DEF Buys, SearchInv
    <3>3. m \in 1 .. Room(side) /\ target <= BidGross(m, side, s) /\ m <= hi
      BY <1>1, <3>2, AmountInBidIs
    <3>4. m \in Nat /\ 1 <= m /\ m <= Room(side)
      BY <1>1, <3>3
    <3>5. Buys(m)
      BY <1>1, <3>3, <3>4, SearchConstants DEF Buys, SearchInv
    <3>6. ~(m < lo)
      BY <3>1, <3>4, <3>5
    <3> HIDE DEF m
    <3>7. m = hi
      BY <1>1, <2>1, <3>3, <3>4, <3>6
    <3>8. QED BY <2>2, <3>7 DEF Expected, m
  <2>3. CASE way # "bid"
    <3> DEFINE m == AmountOutAsk(target, side, s)
    <3>1. /\ hi <= Room(side) /\ PaidFor(lo)
          /\ \A x \in Nat : hi < x /\ x <= Room(side) => ~PaidFor(x)
      BY <2>1, <2>3 DEF Bracket, AskBracket
    <3>2. m \in 0 .. Room(side) /\ AskCost(m, side, s) <= target
          /\ \A q \in 0 .. Room(side) : AskCost(q, side, s) <= target => q <= m
      BY <1>1, AmountOutAskIs
    <3>3. m \in Nat /\ m <= Room(side) /\ PaidFor(m)
      BY <1>1, <3>2 DEF PaidFor
    <3>4. ~(hi < m)
      BY <3>1, <3>3
    <3>5. lo <= m
      BY <1>1, <2>1, <3>1, <3>2 DEF PaidFor
    <3> HIDE DEF m
    <3>6. m = lo
      BY <1>1, <2>1, <3>3, <3>4, <3>5
    <3>7. QED BY <2>3, <3>6 DEF Expected, m
  <2>4. QED BY <2>2, <2>3
<1>4. QED BY <1>2, <1>3 DEF ReturnsExpected

(* The searches, alone and inside the row's construction, return what they   *)
(* are defined to, for every ladder, scale, use and target: curve.rs.       *)
THEOREM SearchReturnsExpected ==
    SearchSpec => []ReturnsExpected
<1>1. SearchInit => SearchInv
  BY SearchStarts
<1>2. SearchInv /\ [SearchNext]_searchVars => SearchInv'
  BY SearchKeeps, SearchStutters
<1>3. SearchInv => ReturnsExpected
  BY BracketReturns
<1>4. QED BY <1>1, <1>2, <1>3, PTL DEF SearchSpec

-----------------------------------------------------------------------------
(* The solver.                                                             *)

(* The least of four. *)
LEMMA LeastOfFour ==
    ASSUME NEW a \in Nat, NEW b \in Nat, NEW c \in Nat, NEW d \in Nat
    PROVE  LET m == Min({a, b, c, d}) IN
           /\ m \in Nat /\ m \in {a, b, c, d}
           /\ m <= a /\ m <= b /\ m <= c /\ m <= d
<1>1. \E x \in {a, b, c, d} : \A y \in {a, b, c, d} : x <= y
  OBVIOUS
<1> DEFINE m == Min({a, b, c, d})
<1>2. m \in {a, b, c, d} /\ \A y \in {a, b, c, d} : m <= y
  BY <1>1 DEF Min
<1> HIDE DEF m
<1>3. QED BY <1>2 DEF m

(* The impact, rounded down, stays within a headroom up to the boundary...   *)
LEMMA ImpactFits ==
    ASSUME NEW k \in Nat, NEW c \in Nat \ {0}, k <= c, NEW h \in Nat, NEW x \in Nat
    PROVE  /\ Impact(x, k, c) \in Nat /\ Impact(x, k, c) <= x
           /\ (2 * c) * Impact(x, k, c) <= x * k
           /\ x * k < (2 * c) * Impact(x, k, c) + 2 * c
           /\ k = 0 => Impact(x, k, c) = 0
           /\ k # 0 => /\ Boundary(c, h, k) \in Nat
                       /\ Impact(x, k, c) <= h <=> x <= Boundary(c, h, k)
<1> DEFINE d == 2 * c
           n == x * k
           g == n \div d
           b == (d * (h + 1) - 1) \div k
<1>1. d \in Nat \ {0} /\ k <= d /\ n \in Nat /\ d * (h + 1) \in Nat
  BY ProductIsNat, SMT
<1>2. Impact(x, k, c) = g /\ (k # 0 => Boundary(c, h, k) = b)
  BY DEF Impact, Boundary
<1>3. g \in Int /\ d * g <= n /\ n < d * g + d
  <2> HIDE DEF d, n
  <2> QED BY <1>1, Quotient
<1>4. n <= x * d /\ x * d \in Nat
  <2> HIDE DEF d
  <2> QED BY <1>1, Scaling, ProductIsNat
<1> HIDE DEF d
<1>5. \A y \in Int : (g >= y) <=> (y * d <= n)
  <2> HIDE DEF n
  <2> QED BY <1>1, QuotientReaches
<1>6. g >= 0
  <2> HIDE DEF n, g
  <2>1. 0 * d <= n
    BY <1>1
  <2>2. QED BY <1>5, <2>1
<1>7. g <= x
  <2> HIDE DEF n, g
  <2>1. d * g <= d * x /\ d * x \in Int
    <3>1. x * d = d * x /\ d * g \in Int
      BY <1>1, <1>3, SMT
    <3>2. QED BY <1>1, <1>3, <1>4, <3>1
  <2>2. QED BY <1>1, <1>3, <2>1, Cancelling
<1>8. k = 0 => g = 0
  <2>1. SUFFICES ASSUME k = 0 PROVE g = 0
    OBVIOUS
  <2>2. n = 0
    BY <2>1
  <2> HIDE DEF n, g
  <2>3. ~(1 * d <= n)
    BY <1>1, <2>2
  <2>4. ~(g >= 1)
    BY <1>5, <2>3
  <2>5. QED BY <1>3, <1>6, <2>4
<1>9. ASSUME k # 0 PROVE b \in Nat /\ (g <= h <=> x <= b)
  <2> DEFINE t == d * (h + 1)
  <2>1. t \in Nat /\ t - 1 \in Int /\ d <= t
    <3>1. d * 1 <= d * (h + 1)
      BY <1>1, Scaling
    <3>2. QED BY <1>1, <3>1
  <2>2. k \in Nat \ {0}
    BY <1>9
  <2> HIDE DEF t
  <2>3. b \in Int
    BY <2>1, <2>2, Quotient DEF t
  <2>4. \A y \in Int : (b >= y) <=> (y * k <= t - 1)
    BY <2>1, <2>2, QuotientReaches DEF t
  <2>5. b >= 0
    <3>1. 0 * k <= t - 1
      BY <1>1, <2>1
    <3> HIDE DEF b
    <3>2. QED BY <2>4, <3>1
  <2>6. (h + 1) * d = t
    BY <1>1 DEF t
  <2>7. (g >= h + 1) <=> (t <= n)
    <3> HIDE DEF g, n
    <3> QED BY <1>5, <2>6
  <2>8. (b >= x) <=> (n <= t - 1)
    <3> HIDE DEF b
    <3> QED BY <2>4
  <2> HIDE DEF b, n, g
  <2>9. QED BY <1>1, <1>3, <2>1, <2>3, <2>5, <2>7, <2>8
<1> HIDE DEF g, b
<1>10. QED BY <1>2, <1>3, <1>6, <1>7, <1>8, <1>9 DEF d, n

(* ... and what is left of the width within the other up to the endpoint.    *)
LEMMA SpanFits ==
    ASSUME NEW k \in Nat, NEW c \in Nat \ {0}, k <= c, NEW h \in Nat, NEW x \in Nat
    PROVE  /\ Endpoint(c, h, k) \in Nat
           /\ x - Impact(x, k, c) <= h <=> x <= Endpoint(c, h, k)
<1> DEFINE d == 2 * c
           n == d - k
           g == Impact(x, k, c)
           t == h * d
           e == t \div n
<1>1. d \in Nat \ {0} /\ n \in Nat \ {0} /\ t \in Nat
  BY ProductIsNat, SMT
<1>2. g \in Nat /\ d * g <= x * k /\ x * k < d * g + d
  BY ImpactFits
<1>3. Endpoint(c, h, k) = e
  BY SMT DEF Endpoint
<1> HIDE DEF g, d
<1>4. /\ d * (x - g) = x * d - d * g /\ x * n = x * d - x * k
      /\ x * d \in Int /\ d * g \in Int /\ x * k \in Int /\ d * h = t
      /\ d * (h + 1) = t + d /\ d * (x - g) \in Int
  BY <1>1, <1>2, SMT
<1>5. e \in Int /\ (\A y \in Int : (e >= y) <=> (y * n <= t))
  <2> HIDE DEF n, t
  <2> QED BY <1>1, Quotient, QuotientReaches
<1>6. e >= 0
  <2>1. 0 * n <= t
    BY <1>1
  <2> HIDE DEF e, n, t
  <2>2. QED BY <1>5, <2>1
<1> DEFINE w == x - g
<1>7. w \in Int /\ d * w = x * d - d * g
  BY <1>2, <1>4
<1> HIDE DEF t, n, e, w
<1>8. ASSUME w <= h PROVE x * n <= t
  <2>1. d * w <= d * h
    BY <1>1, <1>7, <1>8, Scaling
  <2>2. QED BY <1>1, <1>2, <1>4, <1>7, <2>1
<1>9. ASSUME ~(w <= h) PROVE ~(x * n <= t)
  <2>1. d * (h + 1) <= d * w
    BY <1>1, <1>7, <1>9, Scaling
  <2>2. QED BY <1>1, <1>2, <1>4, <1>7, <2>1
<1>10. w <= h <=> e >= x
  BY <1>5, <1>8, <1>9
<1>11. w <= h <=> x <= e
  BY <1>5, <1>10
<1>12. QED BY <1>3, <1>5, <1>6, <1>11 DEF w, g

(* The width chosen fits both headrooms, and no wider one does.             *)
LEMMA Widest ==
    ASSUME NEW k \in Nat, NEW c \in Nat \ {0}, k <= c, NEW near \in Nat, NEW far \in Nat,
           NEW wanted \in Nat
    PROVE  LET w == WidestWidth(k, c, near, far, wanted)
           IN  /\ w \in Nat /\ w <= PriceMax
               /\ Impact(w, k, c) \in Nat /\ Impact(w, k, c) <= w
               /\ Impact(w, k, c) <= near /\ w - Impact(w, k, c) <= far
               /\ \/ w = Least(wanted, PriceMax)
                  \/ ~(Impact(w + 1, k, c) <= near)
                  \/ ~((w + 1) - Impact(w + 1, k, c) <= far)
<1> DEFINE w == WidestWidth(k, c, near, far, wanted)
           b == Boundary(c, near, k)
           e == Endpoint(c, far, k)
<1>1. PriceMax \in Nat
  BY RowAssumption DEF RowAssumption
<1>2. e \in Nat /\ \A x \in Nat : (x - Impact(x, k, c) <= far) <=> (x <= e)
  BY SpanFits
<1>3. b \in Nat /\ (k = 0 => b = PriceMax)
  <2>1. CASE k = 0
    BY <1>1, <2>1 DEF Boundary
  <2>2. CASE k # 0
    BY <2>2, ImpactFits
  <2>3. QED BY <2>1, <2>2
<1>4. \A x \in Nat :
          /\ Impact(x, k, c) \in Nat /\ Impact(x, k, c) <= x
          /\ (k = 0 => Impact(x, k, c) = 0)
          /\ (k # 0 => (Impact(x, k, c) <= near <=> x <= b))
  BY ImpactFits
<1> HIDE DEF b, e
<1>5. /\ w \in Nat /\ w \in {PriceMax, wanted, b, e}
      /\ w <= PriceMax /\ w <= wanted /\ w <= b /\ w <= e
  <2>1. w = Min({PriceMax, wanted, b, e})
    BY DEF WidestWidth, b, e
  <2> HIDE DEF w
  <2>2. QED BY <1>1, <1>2, <1>3, <2>1, LeastOfFour
<1> HIDE DEF w
<1>6. Impact(w, k, c) \in Nat /\ Impact(w, k, c) <= w /\ w - Impact(w, k, c) <= far
  BY <1>2, <1>4, <1>5
<1>7. Impact(w, k, c) <= near
  BY <1>4, <1>5
<1>8. \/ w = Least(wanted, PriceMax)
      \/ ~(Impact(w + 1, k, c) <= near)
      \/ ~((w + 1) - Impact(w + 1, k, c) <= far)
  <2>0. w + 1 \in Nat
    BY <1>5
  <2>1. CASE w = PriceMax \/ w = wanted
    BY <1>1, <1>5, <2>1 DEF Least
  <2>2. CASE w = e
    <3>1. ~(w + 1 <= e)
      BY <1>5, <2>2
    <3> DEFINE z == w + 1
    <3>2. z \in Nat /\ ~(z <= e)
      BY <2>0, <3>1
    <3> HIDE DEF z
    <3>3. ~(z - Impact(z, k, c) <= far)
      BY <1>2, <3>2
    <3>4. QED BY <3>3 DEF z
  <2>3. CASE w = b /\ k # 0
    <3>1. ~(w + 1 <= b)
      BY <1>5, <2>3
    <3>2. QED BY <1>4, <2>0, <2>3, <3>1
  <2>4. QED BY <1>3, <1>5, <2>1, <2>2, <2>3
<1>9. QED BY <1>5, <1>6, <1>7, <1>8 DEF w

(* What both sides share of an input they solve. *)
SolverInput(i) ==
    /\ Solvable(i) /\ i.cap \in Nat /\ i.capture \in Nat /\ i.wanted \in Nat
    /\ i.target \in Nat /\ i.minPrice \in Nat /\ i.maxPrice \in Nat

Taken(i) == Least(i.capture, i.cap)

WidthOfBid(i) == WidestWidth(Taken(i), i.cap, i.maxPrice - i.target, i.target - i.minPrice, i.wanted)
WidthOfAsk(i) == WidestWidth(Taken(i), i.cap, i.target - i.minPrice, i.maxPrice - i.target, i.wanted)

LEMMA InputFacts ==
    ASSUME NEW i, SolverInput(i)
    PROVE  /\ i.cap \in Nat \ {0} /\ Taken(i) \in Nat /\ Taken(i) <= i.cap
           /\ i.target \in Nat /\ i.minPrice \in Nat /\ i.maxPrice \in Nat /\ i.wanted \in Nat
           /\ i.minPrice <= i.target /\ i.target <= i.maxPrice /\ i.maxPrice <= PriceMax
           /\ i.maxPrice - i.target \in Nat /\ i.target - i.minPrice \in Nat
<1>1. /\ i.cap \in Nat /\ i.cap > 0 /\ i.capture \in Nat /\ i.wanted \in Nat
      /\ i.target \in Nat /\ i.minPrice \in Nat /\ i.maxPrice \in Nat
      /\ i.minPrice <= i.target /\ i.target <= i.maxPrice /\ PriceMax \in Nat
  BY RowAssumption DEF RowAssumption, SolverInput, Solvable
<1>2. i.maxPrice <= PriceMax
  <2>1. i.maxPrice \in 0 .. PriceMax
    BY DEF SolverInput, Solvable
  <2>2. QED BY <1>1, <2>1
<1>3. Taken(i) \in Nat /\ Taken(i) <= i.cap
  BY <1>1 DEF Taken, Least
<1>4. QED BY <1>1, <1>2, <1>3

(* A side solved keeps to its bounds, trades the capture at its target or    *)
(* worse, and could not be wider.                                          *)
LEMMA BidSolved ==
    ASSUME NEW i, SolverInput(i)
    PROVE  LET b == SolveBid(i)
               w == Span(b)
           IN  /\ IsSide(b) /\ b.cap = i.cap /\ b.used = 0
               /\ b.size = Taken(i) /\ b.size \in Nat /\ b.size <= b.cap
               /\ i.minPrice <= b.low /\ b.high <= i.maxPrice /\ w \in Nat
               /\ (2 * b.cap) * (b.high - i.target) <= w * b.size
               /\ b.high - i.target \in Nat /\ b.high - i.target = Impact(w, b.size, i.cap)
               /\ \/ w = Least(i.wanted, PriceMax)
                  \/ ~Within((i.target + Impact(w + 1, b.size, i.cap)) - (w + 1),
                             i.target + Impact(w + 1, b.size, i.cap), i)
<1> DEFINE k == Taken(i)
           w == WidthOfBid(i)
           m == Impact(w, k, i.cap)
           v == Impact(w + 1, k, i.cap)
           near == i.maxPrice - i.target
           far  == i.target - i.minPrice
           b == SolveBid(i)
<1>1. /\ i.cap \in Nat \ {0} /\ k \in Nat /\ k <= i.cap /\ near \in Nat /\ far \in Nat
      /\ i.target \in Nat /\ i.minPrice \in Nat /\ i.maxPrice \in Nat /\ i.wanted \in Nat
      /\ i.minPrice <= i.target /\ i.target <= i.maxPrice
  BY InputFacts
<1>2. /\ w \in Nat /\ m \in Nat /\ m <= w /\ m <= near /\ w - m <= far
      /\ w = Least(i.wanted, PriceMax) \/ ~(v <= near) \/ ~((w + 1) - v <= far)
  <2>1. w = WidestWidth(k, i.cap, near, far, i.wanted)
    BY DEF WidthOfBid
  <2> HIDE DEF k, near, far, w
  <2>2. QED BY <1>1, <2>1, Widest
<1>3. v \in Nat /\ (2 * i.cap) * m <= w * k
  <2>1. w + 1 \in Nat
    BY <1>2
  <2>2. QED BY <1>1, <1>2, <2>1, ImpactFits
<1>4. b = [low |-> (i.target + m) - w, high |-> i.target + m, cap |-> i.cap, used |-> 0, size |-> k]
  BY DEF SolveBid, Taken, WidthOfBid
<1> HIDE DEF b, w, m, v, k
<1>5. /\ b.low = (i.target + m) - w /\ b.high = i.target + m /\ b.cap = i.cap
      /\ b.used = 0 /\ b.size = k
  BY <1>4
<1>6. /\ b.low \in Nat /\ b.high \in Nat /\ b.low <= b.high /\ b.high - b.low = w
      /\ i.minPrice <= b.low /\ b.high <= i.maxPrice /\ b.high - i.target = m
  BY <1>1, <1>2, <1>5
<1>7. IsSide(b) /\ Span(b) = w
  BY <1>1, <1>5, <1>6 DEF IsSide, Span
<1>8. \/ w = Least(i.wanted, PriceMax)
      \/ ~Within((i.target + v) - (w + 1), i.target + v, i)
  BY <1>1, <1>2, <1>3 DEF Within
<1>9. QED BY <1>1, <1>2, <1>3, <1>5, <1>6, <1>7, <1>8 DEF b, w, m, v, k

LEMMA AskSolved ==
    ASSUME NEW i, SolverInput(i)
    PROVE  LET a == SolveAsk(i)
               w == Span(a)
           IN  /\ IsSide(a) /\ a.cap = i.cap /\ a.used = 0
               /\ a.size = Taken(i) /\ a.size \in Nat /\ a.size <= a.cap
               /\ i.minPrice <= a.low /\ a.high <= i.maxPrice /\ w \in Nat
               /\ (2 * a.cap) * (i.target - a.low) <= w * a.size
               /\ i.target - a.low \in Nat /\ i.target - a.low = Impact(w, a.size, i.cap)
               /\ \/ w = Least(i.wanted, PriceMax)
                  \/ ~Within(i.target - Impact(w + 1, a.size, i.cap),
                             i.target - Impact(w + 1, a.size, i.cap) + (w + 1), i)
<1> DEFINE k == Taken(i)
           w == WidthOfAsk(i)
           m == Impact(w, k, i.cap)
           v == Impact(w + 1, k, i.cap)
           near == i.target - i.minPrice
           far  == i.maxPrice - i.target
           a == SolveAsk(i)
<1>1. /\ i.cap \in Nat \ {0} /\ k \in Nat /\ k <= i.cap /\ near \in Nat /\ far \in Nat
      /\ i.target \in Nat /\ i.minPrice \in Nat /\ i.maxPrice \in Nat /\ i.wanted \in Nat
      /\ i.minPrice <= i.target /\ i.target <= i.maxPrice
  BY InputFacts
<1>2. /\ w \in Nat /\ m \in Nat /\ m <= w /\ m <= near /\ w - m <= far
      /\ w = Least(i.wanted, PriceMax) \/ ~(v <= near) \/ ~((w + 1) - v <= far)
  <2>1. w = WidestWidth(k, i.cap, near, far, i.wanted)
    BY DEF WidthOfAsk
  <2> HIDE DEF k, near, far, w
  <2>2. QED BY <1>1, <2>1, Widest
<1>3. v \in Nat /\ (2 * i.cap) * m <= w * k
  <2>1. w + 1 \in Nat
    BY <1>2
  <2>2. QED BY <1>1, <1>2, <2>1, ImpactFits
<1>4. a = [low |-> i.target - m, high |-> i.target - m + w, cap |-> i.cap, used |-> 0, size |-> k]
  BY DEF SolveAsk, Taken, WidthOfAsk
<1> HIDE DEF a, w, m, v, k
<1>5. /\ a.low = i.target - m /\ a.high = i.target - m + w /\ a.cap = i.cap
      /\ a.used = 0 /\ a.size = k
  BY <1>4
<1>6. /\ a.low \in Nat /\ a.high \in Nat /\ a.low <= a.high /\ a.high - a.low = w
      /\ i.minPrice <= a.low /\ a.high <= i.maxPrice /\ i.target - a.low = m
  BY <1>1, <1>2, <1>5
<1>7. IsSide(a) /\ Span(a) = w
  BY <1>1, <1>5, <1>6 DEF IsSide, Span
<1>8. \/ w = Least(i.wanted, PriceMax)
      \/ ~Within(i.target - v, i.target - v + (w + 1), i)
  BY <1>1, <1>2, <1>3 DEF Within
<1>9. QED BY <1>1, <1>2, <1>3, <1>5, <1>6, <1>7, <1>8 DEF a, w, m, v, k

(* A side whose capture averages the price t or worse for the taker, before  *)
(* any rounding of amounts.                                                *)
BidKeeps(d, t) ==
    /\ IsSide(d) /\ d.used = 0 /\ d.size \in Nat /\ d.size <= d.cap
    /\ (2 * d.cap) * (d.high - t) <= Span(d) * d.size
AskKeeps(d, t) ==
    /\ IsSide(d) /\ d.used = 0 /\ d.size \in Nat /\ d.size <= d.cap
    /\ (2 * d.cap) * (t - d.low) <= Span(d) * d.size

LEMMA KeepFacts ==
    ASSUME NEW d, IsSide(d), d.size \in Nat, NEW t \in Nat
    PROVE  /\ d.high \in Nat /\ d.low \in Nat /\ d.cap \in Nat \ {0} /\ 2 * d.cap \in Nat \ {0}
           /\ Span(d) \in Nat /\ Span(d) * d.size \in Nat
           /\ (2 * d.cap) * (d.high - t) \in Int /\ (2 * d.cap) * (t - d.low) \in Int
           /\ CeilDiv(Span(d) * d.size, 2 * d.cap) \in Int
           /\ Span(d) * d.size <= (2 * d.cap) * CeilDiv(Span(d) * d.size, 2 * d.cap)
           /\ (2 * d.cap) * CeilDiv(Span(d) * d.size, 2 * d.cap) \in Int
<1> DEFINE w == Span(d)
           n == w * d.size
           c == 2 * d.cap
           e == CeilDiv(n, c)
<1>1. d.high \in Nat /\ d.low \in Nat /\ d.cap \in Nat \ {0} /\ c \in Nat \ {0} /\ w \in Nat
  BY DEF IsSide, Span
<1>2. n \in Nat
  <2> HIDE DEF w
  <2> QED BY <1>1, ProductIsNat
<1>3. c * (d.high - t) \in Int /\ c * (t - d.low) \in Int
  <2> HIDE DEF c
  <2> QED BY <1>1, SMT
<1> HIDE DEF n, c
<1>4. e \in Int /\ n <= c * e
  BY <1>1, <1>2, CeilCovers
<1>5. c * e \in Int
  <2> HIDE DEF e
  <2> QED BY <1>1, <1>4, SMT
<1>6. QED BY <1>1, <1>2, <1>3, <1>4, <1>5 DEF c, n, w

(* The realised averages, rounded away from the taker. *)
LEMMA BidAveragesBelow ==
    ASSUME NEW d, NEW t \in Nat, BidKeeps(d, t)
    PROVE  AvgBid(d) <= t
<1> DEFINE c == 2 * d.cap
           n == Span(d) * d.size
           e == CeilDiv(n, c)
<1>1. /\ d.high \in Nat /\ c \in Nat \ {0} /\ e \in Int /\ c * e \in Int /\ n \in Nat
      /\ c * (d.high - t) \in Int /\ n <= c * e /\ c * (d.high - t) <= n
  BY KeepFacts DEF BidKeeps
<1> HIDE DEF c, n, e
<1>2. c * (d.high - t) <= c * e
  BY <1>1
<1>3. d.high - t <= e
  <2>1. d.high - t \in Int
    BY <1>1
  <2>2. QED BY <1>1, <1>2, <2>1, Cancelling
<1>4. AvgBid(d) = d.high - e
  BY DEF AvgBid, e, n, c, Span
<1>5. QED BY <1>1, <1>3, <1>4

LEMMA AskAveragesAbove ==
    ASSUME NEW d, NEW t \in Nat, AskKeeps(d, t)
    PROVE  AvgAsk(d) >= t
<1> DEFINE c == 2 * d.cap
           n == Span(d) * d.size
           e == CeilDiv(n, c)
<1>1. /\ d.low \in Nat /\ c \in Nat \ {0} /\ e \in Int /\ c * e \in Int /\ n \in Nat
      /\ c * (t - d.low) \in Int /\ n <= c * e /\ c * (t - d.low) <= n
  BY KeepFacts DEF AskKeeps
<1> HIDE DEF c, n, e
<1>2. c * (t - d.low) <= c * e
  BY <1>1
<1>3. t - d.low <= e
  <2>1. t - d.low \in Int
    BY <1>1
  <2>2. QED BY <1>1, <1>2, <2>1, Cancelling
<1>4. AvgAsk(d) = d.low + e
  BY DEF AvgAsk, e, n, c, Span
<1>5. QED BY <1>1, <1>3, <1>4

(* The amounts of the capture, at the pool's own arithmetic. *)
LEMMA BidTakesTarget ==
    ASSUME NEW d, NEW t \in Nat \ {0}, BidKeeps(d, t), NEW k \in Nat \ {0}
    PROVE  BidGross(d.size, d, k) <= (d.size * t) \div k
<1> DEFINE c == 2 * d.cap
           n == Span(d) * d.size
           y == BidGross(d.size, d, k)
           q == d.size
<1>1. /\ d.high \in Nat /\ d.cap \in Nat \ {0} /\ c \in Nat \ {0} /\ n \in Nat
      /\ c * (d.high - t) \in Int /\ c * (d.high - t) <= n /\ d.used = 0 /\ Span(d) \in Nat
      /\ IsSide(d) /\ q \in Nat /\ q <= Room(d)
  BY KeepFacts DEF BidKeeps, Room
<1>2. BidAverage(q, d) <= c * t
  <2>1. BidAverage(q, d) = 2 * d.high * d.cap - Span(d) * (2 * 0 + q)
    BY <1>1 DEF BidAverage
  <2>2. 2 * 0 + q = q /\ 2 * d.high * d.cap = c * d.high
    BY <1>1, SMT
  <2>3. BidAverage(q, d) = c * d.high - n
    BY <2>1, <2>2
  <2> HIDE DEF c, n
  <2>4. c * (d.high - t) = c * d.high - c * t /\ c * d.high \in Int /\ c * t \in Int
    BY <1>1, SMT
  <2>5. QED BY <1>1, <2>3, <2>4
<1>3. y \in Nat
  BY <1>1, BidPays
<1> HIDE DEF y, c
<1>4. CeilDiv(y * k, t) <= q
  <2>1. BidGross(q, d, k) >= y
    BY <1>3 DEF y
  <2>2. QED BY <1>1, <1>2, <1>3, <2>1, BidNeeds DEF c
<1>5. y * k <= q * t
  <2>1. y * k \in Int
    BY <1>3, ProductIsNat
  <2>2. QED BY <1>1, <1>4, <2>1, CeilReaches
<1>6. q * t \in Nat
  BY <1>1, ProductIsNat
<1>7. (q * t) \div k >= y
  BY <1>3, <1>5, <1>6, QuotientReaches
<1>8. (q * t) \div k \in Int
  BY <1>6, Quotient
<1>9. QED BY <1>3, <1>7, <1>8 DEF y

LEMMA AskGivesTarget ==
    ASSUME NEW d, NEW t \in Nat \ {0}, AskKeeps(d, t), NEW k \in Nat \ {0}
    PROVE  AskCost(d.size, d, k) >= CeilDiv(d.size * t, k)
<1> DEFINE c == 2 * d.cap
           n == Span(d) * d.size
           y == AskCost(d.size, d, k)
           q == d.size
<1>1. /\ d.low \in Nat /\ d.cap \in Nat \ {0} /\ c \in Nat \ {0} /\ n \in Nat
      /\ c * (t - d.low) \in Int /\ c * (t - d.low) <= n /\ d.used = 0 /\ Span(d) \in Nat
      /\ IsSide(d) /\ q \in Nat /\ q <= Room(d)
  BY KeepFacts DEF AskKeeps, Room
<1>2. c * t <= AskAverage(q, d)
  <2>1. AskAverage(q, d) = 2 * d.low * d.cap + Span(d) * (2 * 0 + q)
    BY <1>1 DEF AskAverage
  <2>2. 2 * 0 + q = q /\ 2 * d.low * d.cap = c * d.low
    BY <1>1, SMT
  <2>3. AskAverage(q, d) = c * d.low + n
    BY <2>1, <2>2
  <2> HIDE DEF c, n
  <2>4. c * (t - d.low) = c * t - c * d.low /\ c * d.low \in Int /\ c * t \in Int
    BY <1>1, SMT
  <2>5. QED BY <1>1, <2>3, <2>4
<1>3. y \in Nat
  BY <1>1, AskCharges
<1> HIDE DEF y, c
<1>4. q <= (y * k) \div t
  <2>1. AskCost(q, d, k) <= y
    BY <1>3 DEF y
  <2>2. QED BY <1>1, <1>2, <1>3, <2>1, AskNeeds DEF c
<1>5. y * k \in Nat /\ (y * k) \div t \in Int
  <2>1. y * k \in Nat
    BY <1>3, ProductIsNat
  <2>2. QED BY <2>1, Quotient
<1>6. (y * k) \div t >= q
  <2> DEFINE z == (y * k) \div t
  <2>1. q <= z /\ z \in Int
    BY <1>4, <1>5
  <2> HIDE DEF z
  <2>2. z >= q
    BY <1>1, <2>1
  <2>3. QED BY <2>2 DEF z
<1>7. q * t <= y * k
  BY <1>1, <1>5, <1>6, QuotientReaches
<1>8. q * t \in Nat
  BY <1>1, ProductIsNat
<1>9. CeilDiv(q * t, k) <= y /\ CeilDiv(q * t, k) \in Int
  <2> DEFINE m == q * t
  <2>1. m \in Int /\ m <= y * k
    BY <1>7, <1>8
  <2> HIDE DEF m, q
  <2>2. CeilDiv(m, k) \in Int
    BY <2>1, CeilCovers
  <2>3. y \in Int
    BY <1>3
  <2>4. CeilDiv(m, k) <= y <=> m <= y * k
    BY <2>1, <2>3, CeilReaches
  <2>5. QED BY <2>1, <2>2, <2>4 DEF m
<1>10. QED BY <1>3, <1>9 DEF y

(* Lifting the ask clears the bid, and only ever raises prices. *)
LEMMA LiftedClears ==
    ASSUME NEW b, IsSide(b), NEW i, SolverInput(i)
    PROVE  LET a == SolveAsk(i)
               c == Lifted(b, a)
           IN  /\ AskKeeps(c, i.target) /\ b.high <= c.low /\ b.low < c.high
               /\ c.cap = a.cap /\ c.size = a.size
<1> DEFINE a == SolveAsk(i)
           c == Lifted(b, a)
           t == i.target
<1>1. /\ IsSide(a) /\ a.used = 0 /\ a.size \in Nat /\ a.size <= a.cap
      /\ (2 * a.cap) * (t - a.low) <= Span(a) * a.size /\ t \in Nat
  BY AskSolved, InputFacts
<1>2. /\ a.low \in Nat /\ a.high \in Nat /\ a.low <= a.high /\ a.cap \in Nat \ {0}
      /\ b.low \in Nat /\ b.high \in Nat /\ b.low <= b.high
  BY <1>1 DEF IsSide
<1>3. PICK al, ah, ac, az : a = [low |-> al, high |-> ah, cap |-> ac, used |-> 0, size |-> az]
  BY DEF SolveAsk
<1> DEFINE low  == Greatest(al, b.high)
           mid  == Greatest(ah, low)
           high == IF mid <= b.low THEN b.low + 1 ELSE mid
<1>4. c = [low |-> low, high |-> high, cap |-> ac, used |-> 0, size |-> az]
  <2> HIDE DEF a
  <2>1. a.low = al /\ a.high = ah
    BY <1>3
  <2>2. c = [a EXCEPT !.low = low, !.high = high]
    BY <2>1 DEF Lifted
  <2> HIDE DEF c, low, high
  <2>3. QED BY <1>3, <2>2
<1> HIDE DEF a, c
<1>5. a.low = al /\ a.high = ah /\ a.cap = ac /\ a.size = az
  BY <1>3
<1>6. c.low = low /\ c.high = high /\ c.cap = ac /\ c.used = 0 /\ c.size = az
  BY <1>4
<1>7. /\ low \in Nat /\ high \in Nat /\ a.low <= low /\ a.high <= high /\ low <= high
      /\ b.high <= low /\ b.low < high
  BY <1>2, <1>5 DEF Greatest
<1> HIDE DEF low, high
<1>8. IsSide(c) /\ Span(c) = high - low /\ Span(a) = ah - al
  BY <1>2, <1>5, <1>6, <1>7 DEF IsSide, Span
<1> DEFINE x == low - al
           y == high - ah
           w == ah - al
           d == 2 * ac
<1>9. /\ x \in Nat /\ y \in Nat /\ w \in Nat /\ high - low = w + y - x /\ t - low = (t - al) - x
      /\ t - al \in Int /\ d \in Nat /\ az \in Nat /\ az <= d
  BY <1>1, <1>2, <1>5, <1>7
<1>10. d * (t - al) <= w * az
  BY <1>1, <1>5, <1>8
<1>11. d * (t - low) <= (high - low) * az
  <2> DEFINE g == t - al
  <2> HIDE DEF d, w, x, y, g
  <2>1. /\ d * (g - x) = d * g - d * x /\ (w + y - x) * az = w * az + y * az - az * x
        /\ d * g \in Int /\ d * x \in Int /\ w * az \in Int /\ y * az \in Nat /\ az * x \in Int
    <3>1. /\ d * (g - x) = d * g - d * x /\ (w + y - x) * az = w * az + y * az - az * x
          /\ d * g \in Int /\ d * x \in Int /\ w * az \in Int /\ az * x \in Int
      BY <1>9, SMT DEF g
    <3>2. y * az \in Nat
      BY <1>9, ProductIsNat
    <3>3. QED BY <3>1, <3>2
  <2>2. az * x <= d * x
    <3>1. x * az <= x * d
      BY <1>9, Scaling
    <3>2. x * az = az * x /\ x * d = d * x
      BY <1>9, SMT
    <3>3. QED BY <3>1, <3>2
  <2>3. d * g <= w * az
    BY <1>10 DEF g
  <2>4. d * (g - x) <= (w + y - x) * az
    BY <2>1, <2>2, <2>3
  <2>5. QED BY <1>9, <2>4 DEF g
<1>12. AskKeeps(c, t)
  BY <1>1, <1>5, <1>6, <1>8, <1>11 DEF AskKeeps, d
<1>13. QED BY <1>5, <1>6, <1>7, <1>12 DEF a, c

-----------------------------------------------------------------------------
(* The row.                                                                *)

(* The half-spread that reaches the row is at most BPS_MAX whole basis       *)
(* points.  The configuration bounds the cap and the widening by BPS_MAX    *)
(* each (config.rs 870, 1317), not their sum; every shipped configuration   *)
(* is far below.  In the last basis point the property does not hold.       *)
SpreadsFit ==
    \A spread \in Spreads, extra \in Degraded : HalfSpread(spread, extra) <= (Bps - 1) * Fine

(* A flat ladder at the reference, and an epoch it can pay for. *)
PlanOK ==
    /\ FlatBid /\ pc \in {"returned", "reverted"}
    /\ plan.bid \in Nat /\ plan.bid <= MaxCapacity
    /\ plan.rowBid \in Nat /\ plan.rowAsk \in Nat
    /\ plan.bid >= 1 => ~Buys(plan.bid)

ShapeOK ==
    /\ shape.skew \in Int /\ shape.minPrice \in Nat
    /\ shape.mid \in Nat /\ 1 <= shape.mid /\ shape.mid <= PriceMax
    /\ shape.bid \in Nat /\ shape.ask \in Nat
    /\ shape.bid <= shape.mid /\ shape.mid <= shape.ask
    /\ shape.skew >= 0 => shape.mid <= fair

Clears == SpreadsFit /\ shape.skew > 0 => shape.bid >= shape.minPrice

(* The two inputs of the solver are this shape's. *)
InputsOK ==
    /\ SolverInput(row.bidIn) /\ SolverInput(row.askIn)
    /\ row.bidIn.target = shape.bid /\ row.bidIn.cap = plan.rowBid
    /\ row.bidIn.minPrice = shape.minPrice /\ row.bidIn.maxPrice = shape.mid
    /\ row.askIn.target = shape.ask /\ row.askIn.cap = plan.rowAsk
    /\ row.bid = SolveBid(row.bidIn)
    /\ row = [bid |-> row.bid, ask |-> row.ask, bidIn |-> row.bidIn, askIn |-> row.askIn]

RowInv ==
    /\ SearchInv
    /\ stage \in {"searching", "planned", "shaped", "solved", "built", "dropped"}
    /\ stage \in {"searching", "planned"} => shape = <<>>
    /\ stage # "searching" => PlanOK
    /\ stage \notin {"searching", "planned"} => ShapeOK /\ Clears
    /\ stage \in {"shaped", "solved", "built"} => plan.rowBid > 0 /\ plan.rowAsk > 0 /\ shape.bid > 0
    /\ stage = "solved" => InputsOK /\ row.ask = SolveAsk(row.askIn)
    /\ stage = "built" => InputsOK /\ row.ask = Lifted(row.bid, SolveAsk(row.askIn))

LEMMA RowConstants ==
    /\ Bps \in Nat \ {0} /\ Fine \in Nat \ {0} /\ PriceMax \in Nat \ {0}
    /\ FineBps \in Nat \ {0} /\ Captures \subseteq Nat
    /\ Configured \subseteq 0 .. MaxCapacity /\ Bases \subseteq Nat
    /\ OnChain \subseteq [bid : Nat, ask : Nat]
    /\ MinPrices \subseteq 0 .. PriceMax /\ Widths \subseteq Nat
    /\ Spreads \subseteq [s0 : Nat, vol : Nat] /\ Degraded \subseteq Nat
    /\ SpreadCap \in Nat /\ SkewUp \in Nat /\ SkewDown \in Nat /\ RawSkews \subseteq Int
    /\ MaxCapacity \in Nat \ {0}
<1>1. /\ Bps \in Nat \ {0} /\ Fine \in Nat \ {0} /\ PriceMax \in Nat \ {0}
      /\ Captures \subseteq Nat
      /\ Configured \subseteq 0 .. MaxCapacity /\ Bases \subseteq Nat
      /\ OnChain \subseteq [bid : Nat, ask : Nat]
      /\ MinPrices \subseteq 0 .. PriceMax /\ Widths \subseteq Nat
      /\ Spreads \subseteq [s0 : Nat, vol : Nat] /\ Degraded \subseteq Nat
      /\ SpreadCap \in Nat /\ SkewUp \in Nat /\ SkewDown \in Nat /\ RawSkews \subseteq Int
  BY RowAssumption DEF RowAssumption
<1>2. FineBps \in Nat \ {0}
  BY <1>1, SMT DEF FineBps
<1>3. MaxCapacity \in Nat \ {0}
  BY CurveAssumption DEF CurveAssumption
<1>4. QED BY <1>1, <1>2, <1>3

(* A finished search stays finished. *)
LEMMA SearchIsOver ==
    ASSUME pc \in {"returned", "reverted"}
    PROVE  ~SearchNext
BY DEF SearchNext, Revert, WholeRoom, SeedBid, SeedAsk, RefineBid, RefineAsk, Refining, Refined,
       BisectBid, BisectAsk, Return

(* What the planner cut the epoch to does not spend the budget. *)
LEMMA EpochAffordable ==
    ASSUME SearchInv, FlatBid, pc \in {"returned", "reverted"},
           NEW q \in Nat, 1 <= q, q <= MaxCapacity, q <= Affordable
    PROVE  ~Buys(q)
<1>1. /\ SearchTypeOK /\ Room(side) \in Nat /\ lo \in Nat /\ hi \in Nat /\ IsSide(side)
  BY SearchConstants DEF SearchInv
<1>2. way = "bid" /\ side.used = 0 /\ side.cap = MaxCapacity /\ Room(side) = MaxCapacity
  BY <1>1, RowConstants DEF FlatBid, Room
<1>3. CASE pc = "returned"
  <2>1. lo = hi /\ Bracket(lo, hi)
    BY <1>3 DEF SearchInv, Searched
  <2>2. \A x \in Nat : 1 <= x /\ x < lo => ~Buys(x)
    BY <1>2, <2>1 DEF Bracket, BidBracket
  <2>3. q <= hi - 1
    BY <1>3 DEF Affordable
  <2>4. q < lo
    BY <1>1, <2>1, <2>3
  <2>5. QED BY <2>2, <2>4
<1>4. CASE pc = "reverted"
  <2>1. ~Buys(Room(side))
    <3>1. Exceeds /\ ~(side.used >= side.cap)
      BY <1>2, <1>4, RowConstants DEF SearchInv
    <3>2. QED BY <1>2, <3>1 DEF Exceeds
  <2>2. q <= Room(side)
    BY <1>2
  <2>3. QED BY <1>1, <2>1, <2>2, Monotone
<1>5. QED BY <1>3, <1>4

LEMMA PlanKeeps ==
    ASSUME SearchInv, Plan
    PROVE  PlanOK'
<1>1. /\ stage = "searching" /\ pc \in {"returned", "reverted"} /\ FlatBid
      /\ UNCHANGED <<way, target, side, s, pc, round, lo, hi>>
  BY DEF Plan, searchVars
<1>2. PICK want \in Configured, base \in Bases, held \in OnChain :
          LET bid == Least(want, Affordable)
              ask == Least(want, base)
          IN  plan' = [bid |-> bid, ask |-> ask, rowBid |-> InForce(held.bid, bid),
                       rowAsk |-> InForce(held.ask, ask)]
  BY DEF Plan
<1>3. want \in Nat /\ want <= MaxCapacity /\ base \in Nat
  <2>1. want \in 0 .. MaxCapacity /\ base \in Nat /\ MaxCapacity \in Nat
    BY RowConstants
  <2>2. QED BY <2>1
<1>4. Affordable \in Nat
  <2>1. lo \in Nat /\ hi \in Nat /\ MaxCapacity \in Nat \ {0}
    BY RowConstants, SearchConstants DEF SearchInv
  <2>2. CASE pc = "returned"
    <3>1. Bracket(lo, hi) /\ way = "bid"
      BY <1>1, <2>2 DEF SearchInv, Searched, FlatBid
    <3>2. 1 <= lo /\ lo <= hi
      BY <3>1 DEF Bracket, BidBracket
    <3>3. QED BY <2>1, <2>2, <3>2 DEF Affordable
  <2>3. CASE pc = "reverted"
    BY <2>1, <2>3 DEF Affordable
  <2>4. QED BY <1>1, <2>2, <2>3
<1> DEFINE b == Least(want, Affordable)
           a == Least(want, base)
<1>5. b \in Nat /\ a \in Nat /\ b <= MaxCapacity /\ b <= Affordable
  BY <1>3, <1>4, RowConstants DEF Least
<1>6. /\ plan'.bid = b /\ plan'.rowBid = InForce(held.bid, b) /\ plan'.rowAsk = InForce(held.ask, a)
      /\ held.bid \in Nat /\ held.ask \in Nat
  BY <1>2, RowConstants
<1>7. b >= 1 => ~Buys(b)
  <2> HIDE DEF b
  <2> QED BY <1>1, <1>5, EpochAffordable
<1>8. FlatBid' /\ pc' \in {"returned", "reverted"}
  BY <1>1 DEF FlatBid
<1>9. plan'.bid >= 1 => ~Buys(plan'.bid)
  BY <1>6, <1>7
<1> HIDE DEF a, b
<1>10. plan'.rowBid \in Nat /\ plan'.rowAsk \in Nat
  BY <1>5, <1>6 DEF InForce
<1>11. QED BY <1>1, <1>5, <1>6, <1>8, <1>9, <1>10 DEF PlanOK, Buys

LEMMA HalfInRange ==
    ASSUME NEW spread \in Spreads, NEW extra \in Degraded
    PROVE  LET half == HalfSpread(spread, extra) IN half \in Nat /\ half <= FineBps - 1
<1>1. spread.s0 \in Nat /\ spread.vol \in Nat
  BY RowConstants
<1>2. extra * Fine \in Nat
  <2>1. extra \in Nat /\ Fine \in Nat
    BY RowConstants
  <2>2. QED BY <2>1, ProductIsNat
<1> DEFINE wanted == spread.s0 + spread.vol
           capped == IF wanted > SpreadCap THEN Greatest(SpreadCap, spread.s0) ELSE wanted
<1>3. capped \in Nat
  BY <1>1, RowConstants DEF Greatest
<1>4. HalfSpread(spread, extra) = Least(capped + extra * Fine, FineBps - 1)
  BY DEF HalfSpread
<1> DEFINE x == extra * Fine
<1> HIDE DEF capped, x
<1>5. capped + x \in Nat /\ FineBps - 1 \in Nat
  BY <1>2, <1>3, RowConstants DEF x
<1>6. QED BY <1>4, <1>5 DEF Least, x

(* A quotient of a natural is one, and at most what it is compared with.     *)
LEMMA QuotientIsNat ==
    ASSUME NEW n \in Nat, NEW d \in Nat \ {0}
    PROVE  n \div d \in Nat /\ CeilDiv(n, d) \in Nat
<1>1. n \div d \in Int /\ CeilDiv(n, d) \in Int
  BY Quotient, CeilCovers
<1>2. n \div d >= 0
  BY QuotientReaches
<1>3. CeilDiv(n, d) >= 0
  <2>1. SUFFICES ASSUME CeilDiv(n, d) <= -1 PROVE FALSE
    BY <1>1
  <2>2. n <= (-1) * d
    BY <2>1, CeilReaches
  <2>3. QED BY <2>2
<1>4. QED BY <1>1, <1>2, <1>3

LEMMA TargetsAroundMid ==
    ASSUME NEW mid \in Nat, NEW half \in Nat, half <= FineBps - 1
    PROVE  /\ BidTarget(mid, half) \in Nat /\ BidTarget(mid, half) <= mid
           /\ AskTarget(mid, half) \in Nat /\ mid <= AskTarget(mid, half)
<1> DEFINE f == FineBps
           n == mid * (f - half)
           m == mid * (f + half)
<1>1. f \in Nat \ {0} /\ f - half \in Nat /\ f - half <= f /\ f + half \in Nat /\ f <= f + half
  BY RowConstants
<1> HIDE DEF f
<1>2. n \in Nat /\ m \in Nat /\ n <= mid * f /\ mid * f <= m /\ mid * f \in Nat
  BY <1>1, Scaling, ProductIsNat
<1>3. BidTarget(mid, half) = n \div f /\ AskTarget(mid, half) = CeilDiv(m, f)
  BY DEF BidTarget, AskTarget, f
<1> HIDE DEF n, m
<1>4. n \div f \in Nat /\ CeilDiv(m, f) \in Nat
  BY <1>1, <1>2, QuotientIsNat
<1>5. n \div f <= mid
  <2>1. SUFFICES ASSUME n \div f >= mid + 1 PROVE FALSE
    BY <1>4
  <2>2. (mid + 1) * f <= n
    BY <1>1, <1>2, <2>1, QuotientReaches
  <2>3. (mid + 1) * f = mid * f + f
    BY <1>1, SMT
  <2>4. QED BY <1>1, <1>2, <2>2, <2>3
<1>6. mid <= CeilDiv(m, f)
  <2>1. SUFFICES ASSUME CeilDiv(m, f) <= mid - 1 PROVE FALSE
    BY <1>4
  <2>2. m <= (mid - 1) * f
    BY <1>1, <1>2, <2>1, CeilReaches
  <2>3. (mid - 1) * f = mid * f - f
    BY <1>1, SMT
  <2>4. QED BY <1>1, <1>2, <2>2, <2>3
<1>7. QED BY <1>3, <1>4, <1>5, <1>6

LEMMA SkewTypes ==
    ASSUME NEW raw \in Int, NEW cap \in Nat
    PROVE  /\ Applied(raw, cap) \in Int
           /\ Applied(raw, cap) > 0 => Applied(raw, cap) <= cap
<1>1. RoundedSkew(raw) \in Int
  <2>1. (raw + 5) \div 10 \in Int /\ (5 - raw) \div 10 \in Int
    BY Quotient
  <2>2. QED BY <2>1 DEF RoundedSkew
<1>2. QED BY <1>1, RowConstants DEF Applied, Greatest, Least

LEMMA CapTypes ==
    ASSUME fair \in Nat \ {0}, NEW half \in Nat, NEW minPrice \in Nat
    PROVE  FloorCap(half, minPrice) \in Nat /\ FloorCap(half, minPrice) <= Bps - 1
<1> DEFINE wb == WholeBps(half)
           m == CeilDiv(minPrice * Bps, Bps - wb) + 1
           e == CeilDiv(m * Bps, fair)
<1>1. Bps \in Nat \ {0} /\ Fine \in Nat \ {0}
  BY RowConstants
<1>2. wb \in Nat /\ wb <= Bps - 1
  <2>1. CeilDiv(half, Fine) \in Nat
    BY <1>1, QuotientIsNat
  <2>2. QED BY <1>1, <2>1 DEF WholeBps, Least
<1> HIDE DEF wb
<1>3. m \in Nat
  <2>1. Bps - wb \in Nat \ {0} /\ minPrice * Bps \in Nat
    BY <1>1, <1>2, ProductIsNat
  <2>2. QED BY <2>1, QuotientIsNat
<1> HIDE DEF m
<1>4. e \in Nat
  <2>1. m * Bps \in Nat
    BY <1>1, <1>3, ProductIsNat
  <2>2. QED BY <2>1, QuotientIsNat
<1>5. FloorCap(half, minPrice) = IF fair <= m THEN 0 ELSE Least(Greatest(Bps - e, 0), Bps - 1)
  BY DEF FloorCap, m, e, wb
<1> HIDE DEF e
<1>6. QED BY <1>1, <1>4, <1>5 DEF Least, Greatest

LEMMA MidTypes ==
    ASSUME fair \in Nat \ {0}, fair <= PriceMax, NEW skew \in Int
    PROVE  /\ SkewedMid(skew) \in Nat /\ 1 <= SkewedMid(skew) /\ SkewedMid(skew) <= PriceMax
           /\ skew >= 0 => SkewedMid(skew) <= fair
           /\ skew >= 0 => \A m \in Nat : m * Bps <= fair * (Bps - skew) => m <= SkewedMid(skew)
<1> DEFINE n == fair * (Bps - skew)
           g == n \div Bps
<1>1. Bps \in Nat \ {0} /\ PriceMax \in Nat \ {0} /\ n \in Int
  <2>1. Bps \in Nat \ {0} /\ PriceMax \in Nat \ {0}
    BY RowConstants
  <2> DEFINE a == fair
             b == Bps - skew
  <2>2. a \in Int /\ b \in Int
    BY <2>1
  <2> HIDE DEF a, b
  <2>3. a * b \in Int
    BY <2>2
  <2>4. QED BY <2>1, <2>3 DEF a, b
<1>2. SkewedMid(skew) = Greatest(1, Least(g, PriceMax))
  BY DEF SkewedMid
<1>3. g \in Int /\ \A y \in Int : (g >= y) <=> (y * Bps <= n)
  <2> HIDE DEF n
  <2> QED BY <1>1, Quotient, QuotientReaches
<1> DEFINE f == fair
<1>4. f \in Nat \ {0} /\ f <= PriceMax
  OBVIOUS
<1>5. skew >= 0 => g <= f
  <2>1. SUFFICES ASSUME skew >= 0, g >= f + 1 PROVE FALSE
    BY <1>3, <1>4
  <2>2. (f + 1) * Bps <= n
    <3>1. f + 1 \in Int
      BY <1>4
    <3> HIDE DEF n, g, f
    <3>2. QED BY <1>3, <2>1, <3>1
  <2>3. n <= f * Bps
    <3>1. Bps - skew \in Int /\ Bps - skew <= Bps /\ Bps \in Int /\ f \in Nat
      BY <1>1, <1>4, <2>1
    <3>2. QED BY <3>1, Scaling
  <2> HIDE DEF n, f
  <2>4. (f + 1) * Bps = f * Bps + Bps /\ f * Bps \in Int
    BY <1>1, <1>4, SMT
  <2>5. QED BY <1>1, <2>2, <2>3, <2>4
<1> HIDE DEF g, f
<1>6. /\ SkewedMid(skew) \in Nat /\ 1 <= SkewedMid(skew) /\ SkewedMid(skew) <= PriceMax
      /\ skew >= 0 => SkewedMid(skew) <= f
  BY <1>1, <1>2, <1>3, <1>4, <1>5 DEF Greatest, Least
<1>7. ASSUME skew >= 0, NEW m \in Nat, m * Bps <= n PROVE m <= SkewedMid(skew)
  <2>1. g >= m
    BY <1>3, <1>7
  <2>2. QED BY <1>1, <1>2, <1>3, <1>4, <1>5, <1>7, <2>1 DEF Greatest, Least
<1>8. QED BY <1>6, <1>7 DEF f, n

(* The floor cap does what it is for, roundings included. *)
LEMMA CapClearsFloor ==
    ASSUME fair \in Nat \ {0}, fair <= PriceMax, NEW half \in Nat, half <= (Bps - 1) * Fine,
           NEW minPrice \in Nat, NEW skew \in Int, skew > 0, skew <= FloorCap(half, minPrice)
    PROVE  BidTarget(SkewedMid(skew), half) >= minPrice
<1> DEFINE wb  == CeilDiv(half, Fine)
           m0  == CeilDiv(minPrice * Bps, Bps - wb)
           m   == m0 + 1
           e   == CeilDiv(m * Bps, fair)
           mid == SkewedMid(skew)
           f   == fair
<1>1. Bps \in Nat \ {0} /\ Fine \in Nat \ {0} /\ FineBps \in Nat \ {0} /\ f \in Nat \ {0}
  BY RowConstants
<1>2. wb \in Nat /\ half <= wb * Fine /\ wb <= Bps - 1 /\ WholeBps(half) = wb
  <2>1. CeilDiv(half, Fine) \in Nat
    BY <1>1, QuotientIsNat
  <2>2. half <= Fine * wb
    BY <1>1, CeilCovers
  <2>3. Bps - 1 \in Int /\ wb <= Bps - 1
    BY <1>1, CeilReaches
  <2> HIDE DEF wb
  <2>4. wb \in Nat /\ Fine * wb = wb * Fine
    BY <1>1, <2>1, SMT DEF wb
  <2>5. WholeBps(half) = wb
    BY <1>1, <2>3, <2>4 DEF WholeBps, Least, wb
  <2>6. QED BY <2>2, <2>3, <2>4, <2>5
<1>3. /\ ~(f <= m)
      /\ FloorCap(half, minPrice) = Least(Greatest(Bps - e, 0), Bps - 1)
  <2>1. FloorCap(half, minPrice) = IF f <= m THEN 0 ELSE Least(Greatest(Bps - e, 0), Bps - 1)
    BY <1>2 DEF FloorCap
  <2>2. FloorCap(half, minPrice) # 0
    OBVIOUS
  <2>3. QED BY <2>1, <2>2
<1> HIDE DEF wb
<1>4. /\ minPrice * Bps \in Nat /\ Bps - wb \in Nat \ {0} /\ m0 \in Nat
      /\ minPrice * Bps <= (Bps - wb) * m0
  <2> DEFINE n == minPrice * Bps
             r == Bps - wb
  <2>1. n \in Nat /\ r \in Nat \ {0}
    BY <1>1, <1>2, ProductIsNat
  <2> HIDE DEF n, r, m, e, mid, f
  <2>2. CeilDiv(n, r) \in Nat
    BY <2>1, QuotientIsNat
  <2>3. n \in Int
    BY <2>1
  <2>4. n <= r * CeilDiv(n, r)
    BY <2>1, <2>3, CeilCovers
  <2>5. QED BY <2>1, <2>2, <2>4 DEF n, r
<1> HIDE DEF m0
<1>5. m * Bps \in Nat
  BY <1>1, <1>4, ProductIsNat
<1>6. e \in Nat
  <2> HIDE DEF m, f
  <2> QED BY <1>1, <1>5, QuotientIsNat DEF f
<1>7. e <= Bps - skew
  <2> HIDE DEF e, m
  <2> QED BY <1>1, <1>3, <1>6 DEF Least, Greatest
<1>8. m * Bps <= f * (Bps - skew)
  <2> DEFINE n == m * Bps
             z == Bps - skew
  <2>1. z \in Int /\ n \in Int /\ e <= z
    BY <1>1, <1>5, <1>7
  <2> HIDE DEF n, z, f
  <2>2. n <= z * f
    BY <1>1, <2>1, CeilReaches DEF n, f
  <2>3. z * f = f * z
    BY <1>1, <2>1, SMT
  <2>4. QED BY <2>2, <2>3 DEF n, z
<1>9. mid \in Nat /\ m0 <= mid
  <2>1. m \in Nat /\ skew >= 0
    BY <1>4
  <2>2. mid \in Nat /\ m <= mid
    BY <1>8, <2>1, MidTypes
  <2> HIDE DEF mid
  <2>3. QED BY <1>4, <2>2
<1> HIDE DEF m, e, mid, f
<1> DEFINE g == FineBps - half
           r == Bps - wb
<1>10. g \in Nat /\ r \in Nat /\ Fine * r <= g /\ Fine * r \in Nat
  <2>1. FineBps = Bps * Fine /\ Fine * r = Bps * Fine - wb * Fine
    BY <1>1, <1>2, SMT DEF FineBps
  <2>2. wb * Fine \in Nat /\ r \in Nat /\ Bps * Fine \in Nat
    BY <1>1, <1>2, <1>4, ProductIsNat
  <2>3. Fine * r \in Nat
    BY <1>1, <2>2, ProductIsNat
  <2> HIDE DEF r
  <2>4. QED BY <1>2, <2>1, <2>2, <2>3
<1>11. minPrice * FineBps <= mid * g
  <2> HIDE DEF g, r
  <2>1. minPrice * FineBps = Fine * (minPrice * Bps)
    BY <1>1, SMT DEF FineBps
  <2>2. Fine * (minPrice * Bps) <= Fine * (r * m0)
    <3>1. r * m0 \in Nat
      BY <1>4, <1>10, ProductIsNat
    <3>2. QED BY <1>1, <1>4, <3>1, Scaling DEF r
  <2>3. Fine * (r * m0) = m0 * (Fine * r)
    BY <1>1, <1>4, <1>10, SMT
  <2>4. m0 * (Fine * r) <= m0 * g
    BY <1>4, <1>10, Scaling
  <2>5. g * m0 <= g * mid
    BY <1>4, <1>9, <1>10, Scaling
  <2>6. g * m0 = m0 * g /\ g * mid = mid * g
    BY <1>4, <1>9, <1>10, SMT
  <2>7. /\ minPrice * FineBps \in Nat /\ m0 * (Fine * r) \in Nat /\ m0 * g \in Nat /\ mid * g \in Nat
    BY <1>1, <1>4, <1>9, <1>10, ProductIsNat
  <2>8. QED BY <2>1, <2>2, <2>3, <2>4, <2>5, <2>6, <2>7
<1>12. QED
  <2> DEFINE n == mid * g
  <2>1. n \in Nat
    BY <1>9, <1>10, ProductIsNat
  <2>2. BidTarget(mid, half) = n \div FineBps
    BY DEF BidTarget
  <2>3. minPrice * FineBps <= n
    BY <1>11
  <2> HIDE DEF n
  <2>4. n \div FineBps >= minPrice
    BY <1>1, <2>1, <2>3, QuotientReaches
  <2>5. QED BY <2>2, <2>4 DEF mid

LEMMA ShapeKeeps ==
    ASSUME PlanOK, Shape
    PROVE  /\ ShapeOK' /\ Clears'
           /\ stage' \in {"shaped", "dropped"}
           /\ stage' = "shaped" => plan.rowBid > 0 /\ plan.rowAsk > 0 /\ shape'.bid > 0
<1>1. fair \in Nat \ {0} /\ fair <= PriceMax /\ fair' = fair
  <2>1. side.high \in 1 .. PriceMax /\ PriceMax \in Nat
    BY RowConstants DEF PlanOK, FlatBid
  <2>2. side' = side
    BY DEF Shape, searchVars
  <2>3. QED BY <2>1, <2>2 DEF fair
<1>2. PICK spread \in Spreads : \E extra \in Degraded, raw \in RawSkews, minPrice \in MinPrices :
          LET half == HalfSpread(spread, extra)
              skew == Applied(raw, FloorCap(half, minPrice))
              mid  == SkewedMid(skew)
          IN  shape' = [skew |-> skew, mid |-> mid, minPrice |-> minPrice,
                        bid |-> BidTarget(mid, half), ask |-> AskTarget(mid, half)]
  BY DEF Shape
<1>3. PICK extra \in Degraded : \E raw \in RawSkews, minPrice \in MinPrices :
          LET half == HalfSpread(spread, extra)
              skew == Applied(raw, FloorCap(half, minPrice))
              mid  == SkewedMid(skew)
          IN  shape' = [skew |-> skew, mid |-> mid, minPrice |-> minPrice,
                        bid |-> BidTarget(mid, half), ask |-> AskTarget(mid, half)]
  BY <1>2
<1>4. PICK raw \in RawSkews : \E minPrice \in MinPrices :
          LET half == HalfSpread(spread, extra)
              skew == Applied(raw, FloorCap(half, minPrice))
              mid  == SkewedMid(skew)
          IN  shape' = [skew |-> skew, mid |-> mid, minPrice |-> minPrice,
                        bid |-> BidTarget(mid, half), ask |-> AskTarget(mid, half)]
  BY <1>3
<1>5. PICK minPrice \in MinPrices :
          LET half == HalfSpread(spread, extra)
              skew == Applied(raw, FloorCap(half, minPrice))
              mid  == SkewedMid(skew)
          IN  shape' = [skew |-> skew, mid |-> mid, minPrice |-> minPrice,
                        bid |-> BidTarget(mid, half), ask |-> AskTarget(mid, half)]
  BY <1>4
<1> DEFINE half == HalfSpread(spread, extra)
           cap  == FloorCap(half, minPrice)
           skew == Applied(raw, cap)
           mid  == SkewedMid(skew)
           bid  == BidTarget(mid, half)
           ask  == AskTarget(mid, half)
<1>6. shape' = [skew |-> skew, mid |-> mid, minPrice |-> minPrice, bid |-> bid, ask |-> ask]
  BY <1>5
<1>7. half \in Nat /\ half <= FineBps - 1
  BY HalfInRange
<1>8. minPrice \in Nat /\ raw \in Int
  <2>1. minPrice \in 0 .. PriceMax /\ raw \in Int /\ PriceMax \in Nat
    BY RowConstants
  <2>2. QED BY <2>1
<1>9. SpreadsFit => half <= (Bps - 1) * Fine
  BY DEF SpreadsFit
<1> HIDE DEF half
<1>10. cap \in Nat
  BY <1>1, <1>7, <1>8, CapTypes
<1>11. skew \in Int /\ (skew > 0 => skew <= cap)
  <2> HIDE DEF cap
  <2> QED BY <1>8, <1>10, SkewTypes
<1>12. SpreadsFit /\ skew > 0 => bid >= minPrice
  <2> HIDE DEF skew
  <2> QED BY <1>1, <1>7, <1>8, <1>9, <1>11, CapClearsFloor
<1>13. mid \in Nat /\ 1 <= mid /\ mid <= PriceMax /\ (skew >= 0 => mid <= fair)
  <2> HIDE DEF skew
  <2> QED BY <1>1, <1>11, MidTypes
<1>14. bid \in Nat /\ bid <= mid /\ ask \in Nat /\ mid <= ask
  <2> HIDE DEF mid
  <2> QED BY <1>7, <1>13, TargetsAroundMid
<1> HIDE DEF skew, mid, bid, ask
<1>15. /\ shape'.skew = skew /\ shape'.mid = mid /\ shape'.minPrice = minPrice
       /\ shape'.bid = bid /\ shape'.ask = ask
  BY <1>6
<1>16. ShapeOK'
  BY <1>1, <1>8, <1>11, <1>13, <1>14, <1>15, RowConstants DEF ShapeOK
<1>17. Clears'
  BY <1>12, <1>15 DEF Clears, SpreadsFit
<1>18. QED BY <1>16, <1>17 DEF Shape

LEMMA SolveKeeps ==
    ASSUME PlanOK, ShapeOK, plan.rowBid > 0, plan.rowAsk > 0, shape.bid > 0, Solve
    PROVE  /\ stage' \in {"solved", "dropped"}
           /\ stage' = "solved" => InputsOK' /\ row'.ask = SolveAsk(row'.askIn)
<1>1. plan' = plan /\ shape' = shape
  BY DEF Solve
<1>2. PICK capture \in Captures : \E width \in Widths :
          \E bidIn \in {BidIn(capture, width)}, askIn \in {AskIn(capture, width)} :
             IF Solvable(bidIn) /\ Solvable(askIn)
             THEN /\ row' = [bid |-> SolveBid(bidIn), ask |-> SolveAsk(askIn),
                             bidIn |-> bidIn, askIn |-> askIn]
                  /\ stage' = "solved"
             ELSE stage' = "dropped" /\ row' = row
  BY DEF Solve
<1>3. PICK width \in Widths :
          \E bidIn \in {BidIn(capture, width)}, askIn \in {AskIn(capture, width)} :
             IF Solvable(bidIn) /\ Solvable(askIn)
             THEN /\ row' = [bid |-> SolveBid(bidIn), ask |-> SolveAsk(askIn),
                             bidIn |-> bidIn, askIn |-> askIn]
                  /\ stage' = "solved"
             ELSE stage' = "dropped" /\ row' = row
  BY <1>2
<1> DEFINE bi == BidIn(capture, width)
           ai == AskIn(capture, width)
<1>4. IF Solvable(bi) /\ Solvable(ai)
      THEN /\ row' = [bid |-> SolveBid(bi), ask |-> SolveAsk(ai), bidIn |-> bi, askIn |-> ai]
           /\ stage' = "solved"
      ELSE stage' = "dropped" /\ row' = row
  BY <1>3
<1>5. SUFFICES ASSUME Solvable(bi), Solvable(ai)
               PROVE  stage' = "solved" /\ InputsOK' /\ row'.ask = SolveAsk(row'.askIn)
  BY <1>4
<1>6. /\ capture \in Nat /\ width \in Nat /\ plan.rowBid \in Nat /\ plan.rowAsk \in Nat
      /\ shape.bid \in Nat /\ shape.ask \in Nat /\ shape.mid \in Nat /\ shape.minPrice \in Nat
      /\ PriceMax \in Nat /\ FineBps \in Nat \ {0}
  BY RowConstants DEF PlanOK, ShapeOK
<1>7. (shape.bid * width) \div FineBps \in Nat /\ (shape.ask * width) \div FineBps \in Nat
  <2>1. shape.bid * width \in Nat /\ shape.ask * width \in Nat
    BY <1>6, ProductIsNat
  <2>2. QED BY <1>6, <2>1, QuotientIsNat
<1>8. /\ bi.target = shape.bid /\ bi.capture = capture /\ bi.cap = plan.rowBid
      /\ bi.minPrice = shape.minPrice /\ bi.maxPrice = shape.mid
      /\ bi.wanted = (shape.bid * width) \div FineBps
  BY DEF BidIn
<1>9. /\ ai.target = shape.ask /\ ai.capture = capture /\ ai.cap = plan.rowAsk
      /\ ai.minPrice = Greatest(shape.minPrice, shape.mid) /\ ai.maxPrice = PriceMax
      /\ ai.wanted = (shape.ask * width) \div FineBps
  BY DEF AskIn
<1> HIDE DEF bi, ai
<1>10. SolverInput(bi)
  BY <1>5, <1>6, <1>7, <1>8 DEF SolverInput
<1>11. SolverInput(ai)
  BY <1>5, <1>6, <1>7, <1>9 DEF SolverInput, Greatest
<1>12. /\ row'.bid = SolveBid(bi) /\ row'.ask = SolveAsk(ai) /\ row'.bidIn = bi /\ row'.askIn = ai
       /\ stage' = "solved"
  <2> DEFINE b == SolveBid(bi)
             a == SolveAsk(ai)
  <2>1. row' = [bid |-> b, ask |-> a, bidIn |-> bi, askIn |-> ai] /\ stage' = "solved"
    BY <1>4, <1>5
  <2> HIDE DEF a, b
  <2>2. row'.bid = b /\ row'.ask = a /\ row'.bidIn = bi /\ row'.askIn = ai
    BY <2>1
  <2>3. QED BY <2>1, <2>2 DEF a, b
<1>13. row' = [bid |-> row'.bid, ask |-> row'.ask, bidIn |-> row'.bidIn, askIn |-> row'.askIn]
  BY <1>4, <1>5, <1>12
<1>14. InputsOK'
  BY <1>1, <1>8, <1>9, <1>10, <1>11, <1>12, <1>13 DEF InputsOK
<1>15. QED BY <1>12, <1>14

LEMMA BuildKeeps ==
    ASSUME InputsOK, row.ask = SolveAsk(row.askIn), Build
    PROVE  /\ stage' \in {"built", "dropped"}
           /\ InputsOK' /\ row'.ask = Lifted(row'.bid, SolveAsk(row'.askIn))
<1>1. /\ plan' = plan /\ shape' = shape /\ row' = [row EXCEPT !.ask = Lifted(row.bid, row.ask)]
      /\ stage' \in {"built", "dropped"}
  BY DEF Build
<1> DEFINE c == Lifted(row.bid, row.ask)
<1>2. row' = [bid |-> row.bid, ask |-> c, bidIn |-> row.bidIn, askIn |-> row.askIn]
  <2>1. row' = [row EXCEPT !.ask = c]
    BY <1>1
  <2>2. PICK b, a, bi, ai : /\ row = [bid |-> b, ask |-> a, bidIn |-> bi, askIn |-> ai]
                           /\ b = row.bid /\ bi = row.bidIn /\ ai = row.askIn
    BY DEF InputsOK
  <2> HIDE DEF c
  <2>3. QED BY <2>1, <2>2
<1> HIDE DEF c
<1>3. /\ row'.bid = row.bid /\ row'.bidIn = row.bidIn /\ row'.askIn = row.askIn /\ row'.ask = c
  BY <1>2
<1>4. row' = [bid |-> row'.bid, ask |-> row'.ask, bidIn |-> row'.bidIn, askIn |-> row'.askIn]
  BY <1>2, <1>3
<1>5. InputsOK'
  BY <1>1, <1>3, <1>4 DEF InputsOK
<1>6. QED BY <1>1, <1>3, <1>5 DEF c

LEMMA RowStarts ==
    ASSUME RInit
    PROVE  RowInv
<1>1. SearchInv
  BY SearchStarts DEF RInit
<1>2. QED BY <1>1 DEF RInit, RowInv

LEMMA RowKeeps ==
    ASSUME RowInv, [RNext]_allVars
    PROVE  RowInv'
<1>1. CASE Search
  <2>1. SearchInv' /\ UNCHANGED <<stage, plan, shape, row>>
    BY <1>1, SearchKeeps DEF Search, rowVars, RowInv
  <2>2. stage = "searching"
    <3>1. SearchNext
      BY <1>1 DEF Search
    <3>2. QED BY <3>1, SearchIsOver DEF RowInv, PlanOK
  <2>3. QED BY <2>1, <2>2 DEF RowInv
<1>2. CASE Plan
  <2>1. /\ UNCHANGED searchVars /\ UNCHANGED <<shape, row>>
        /\ stage = "searching" /\ stage' = "planned"
    BY <1>2 DEF Plan
  <2>2. SearchInv'
    BY <2>1, SearchStutters DEF RowInv
  <2>3. PlanOK'
    BY <1>2, PlanKeeps DEF RowInv
  <2>4. shape' = <<>>
    BY <2>1 DEF RowInv
  <2>5. QED BY <2>1, <2>2, <2>3, <2>4 DEF RowInv
<1>3. CASE Shape
  <2>1. UNCHANGED searchVars /\ UNCHANGED <<plan, row>> /\ stage = "planned"
    BY <1>3 DEF Shape
  <2>2. SearchInv'
    BY <2>1, SearchStutters DEF RowInv
  <2>3. PlanOK
    BY <2>1 DEF RowInv
  <2>4. PlanOK'
    BY <2>1, <2>3 DEF PlanOK, searchVars, FlatBid, Buys
  <2>5. /\ ShapeOK' /\ Clears' /\ stage' \in {"shaped", "dropped"}
        /\ stage' = "shaped" => plan'.rowBid > 0 /\ plan'.rowAsk > 0 /\ shape'.bid > 0
    BY <1>3, <2>1, <2>3, ShapeKeeps
  <2>6. QED BY <2>2, <2>4, <2>5 DEF RowInv
<1>4. CASE Solve
  <2>1. UNCHANGED searchVars /\ UNCHANGED <<plan, shape>> /\ stage = "shaped"
    BY <1>4 DEF Solve
  <2>2. SearchInv'
    BY <2>1, SearchStutters DEF RowInv
  <2>3. PlanOK /\ ShapeOK /\ Clears /\ plan.rowBid > 0 /\ plan.rowAsk > 0 /\ shape.bid > 0
    BY <2>1 DEF RowInv
  <2>4. PlanOK' /\ ShapeOK' /\ Clears'
    BY <2>1, <2>3 DEF PlanOK, searchVars, FlatBid, Buys, ShapeOK, Clears, SpreadsFit, fair
  <2>5. /\ stage' \in {"solved", "dropped"}
        /\ stage' = "solved" => InputsOK' /\ row'.ask = SolveAsk(row'.askIn)
    BY <1>4, <2>3, SolveKeeps
  <2>6. QED BY <2>1, <2>2, <2>3, <2>4, <2>5 DEF RowInv
<1>5. CASE Build
  <2>1. UNCHANGED searchVars /\ UNCHANGED <<plan, shape>> /\ stage = "solved"
    BY <1>5 DEF Build
  <2>2. SearchInv'
    BY <2>1, SearchStutters DEF RowInv
  <2>3. /\ PlanOK /\ ShapeOK /\ Clears /\ plan.rowBid > 0 /\ plan.rowAsk > 0 /\ shape.bid > 0
        /\ InputsOK /\ row.ask = SolveAsk(row.askIn)
    BY <2>1 DEF RowInv
  <2>4. PlanOK' /\ ShapeOK' /\ Clears'
    BY <2>1, <2>3 DEF PlanOK, searchVars, FlatBid, Buys, ShapeOK, Clears, SpreadsFit, fair
  <2>5. /\ stage' \in {"built", "dropped"}
        /\ InputsOK' /\ row'.ask = Lifted(row'.bid, SolveAsk(row'.askIn))
    BY <1>5, <2>3, BuildKeeps
  <2>6. QED BY <2>1, <2>2, <2>3, <2>4, <2>5 DEF RowInv
<1>6. CASE UNCHANGED allVars
  <2>1. UNCHANGED searchVars /\ UNCHANGED <<stage, plan, shape, row>>
    BY <1>6 DEF allVars, rowVars
  <2>2. SearchInv'
    BY <2>1, SearchStutters DEF RowInv
  <2>3. QED BY <2>1, <2>2 DEF RowInv, PlanOK, searchVars, FlatBid, Buys, ShapeOK, Clears, SpreadsFit,
              fair, InputsOK
<1>7. QED BY <1>1, <1>2, <1>3, <1>4, <1>5, <1>6 DEF RNext

-----------------------------------------------------------------------------
(* What the invariant says of a row solved, and of a row built.             *)

LEMMA SolvedIsTight ==
    ASSUME RowInv
    PROVE  SolverTight
<1>1. SUFFICES ASSUME stage = "solved" PROVE SolverTight
  BY DEF SolverTight
<1> DEFINE b  == row.bid
           a  == row.ask
           bi == row.bidIn
           ai == row.askIn
           c  == Lifted(b, a)
<1>2. /\ SolverInput(bi) /\ SolverInput(ai) /\ b = SolveBid(bi) /\ a = SolveAsk(ai)
      /\ bi.target = shape.bid /\ bi.cap = plan.rowBid /\ bi.minPrice = shape.minPrice
      /\ ai.target = shape.ask /\ ai.cap = plan.rowAsk
  BY <1>1 DEF RowInv, InputsOK
<1>3. shape.bid \in Nat /\ shape.ask \in Nat
  BY <1>1 DEF RowInv, ShapeOK
<1> HIDE DEF bi, ai, b, a
<1>4. /\ IsSide(b) /\ b.used = 0 /\ b.size \in Nat /\ b.size <= b.cap /\ b.cap = bi.cap
      /\ bi.minPrice <= b.low /\ b.high <= bi.maxPrice
      /\ (2 * b.cap) * (b.high - bi.target) <= Span(b) * b.size
      /\ \/ Span(b) = Least(bi.wanted, PriceMax)
         \/ ~Within((bi.target + Impact(Span(b) + 1, b.size, bi.cap)) - (Span(b) + 1),
                    bi.target + Impact(Span(b) + 1, b.size, bi.cap), bi)
  BY <1>2, BidSolved
<1>5. /\ ai.minPrice <= a.low /\ a.high <= ai.maxPrice
      /\ \/ Span(a) = Least(ai.wanted, PriceMax)
         \/ ~Within(ai.target - Impact(Span(a) + 1, a.size, ai.cap),
                    ai.target - Impact(Span(a) + 1, a.size, ai.cap) + (Span(a) + 1), ai)
  BY <1>2, AskSolved
<1>6. AskKeeps(c, ai.target) /\ b.high <= c.low /\ b.low < c.high
  BY <1>2, <1>4, LiftedClears
<1>7. AvgBid(b) <= shape.bid /\ AvgAsk(c) >= shape.ask
  <2>1. BidKeeps(b, shape.bid)
    BY <1>2, <1>4 DEF BidKeeps
  <2>2. AskKeeps(c, shape.ask)
    BY <1>2, <1>6
  <2>3. QED BY <1>3, <2>1, <2>2, BidAveragesBelow, AskAveragesAbove
<1> HIDE DEF c
<1>8. ValidLadder(RowOf(b, c), shape.minPrice)
  <2>1. /\ c.low \in Nat /\ c.high \in Nat /\ c.low <= c.high
        /\ b.low \in Nat /\ b.high \in Nat /\ b.low <= b.high
    BY <1>4, <1>6 DEF AskKeeps, IsSide
  <2>2. shape.minPrice \in Nat /\ shape.minPrice <= b.low
    BY <1>1, <1>2, <1>4 DEF RowInv, ShapeOK
  <2>3. QED BY <1>6, <2>1, <2>2 DEF ValidLadder, RowOf
<1>9. Within(b.low, b.high, bi) /\ Within(a.low, a.high, ai)
  BY <1>4, <1>5 DEF Within
<1>10. LET wider == Span(b) + 1
           high  == shape.bid + Impact(wider, b.size, plan.rowBid)
       IN  Span(b) = Least(bi.wanted, PriceMax) \/ ~Within(high - wider, high, bi)
  BY <1>2, <1>4
<1>11. LET wider == Span(a) + 1
           low   == shape.ask - Impact(wider, a.size, plan.rowAsk)
       IN  Span(a) = Least(ai.wanted, PriceMax) \/ ~Within(low, low + wider, ai)
  BY <1>2, <1>5
<1>12. QED BY <1>7, <1>8, <1>9, <1>10, <1>11 DEF SolverTight, a, b, c, ai, bi

LEMMA BuiltAtTarget ==
    ASSUME RowInv
    PROVE  CaptureAtTarget
<1>1. SUFFICES ASSUME stage = "built" PROVE CaptureAtTarget
  BY DEF CaptureAtTarget
<1> DEFINE b  == row.bid
           c  == row.ask
           bi == row.bidIn
           ai == row.askIn
<1>2. /\ SolverInput(bi) /\ SolverInput(ai) /\ b = SolveBid(bi) /\ c = Lifted(b, SolveAsk(ai))
      /\ bi.target = shape.bid /\ ai.target = shape.ask
  BY <1>1 DEF RowInv, InputsOK
<1>3. shape.bid \in Nat \ {0} /\ shape.ask \in Nat \ {0}
  BY <1>1 DEF RowInv, ShapeOK
<1>4. s \in Nat \ {0}
  BY SearchConstants DEF RowInv, SearchInv
<1> HIDE DEF bi, ai, b, c
<1>5. BidKeeps(b, shape.bid)
  BY <1>2, BidSolved DEF BidKeeps
<1>6. AskKeeps(c, shape.ask)
  <2>1. IsSide(b)
    BY <1>5 DEF BidKeeps
  <2>2. QED BY <1>2, <2>1, LiftedClears
<1>7. BidGross(b.size, b, s) <= (b.size * shape.bid) \div s
  BY <1>3, <1>4, <1>5, BidTakesTarget
<1>8. AskCost(c.size, c, s) >= CeilDiv(c.size * shape.ask, s)
  BY <1>3, <1>4, <1>6, AskGivesTarget
<1>9. QED BY <1>7, <1>8 DEF CaptureAtTarget, b, c

LEMMA BuiltIsPayable ==
    ASSUME RowInv
    PROVE  EpochIsPayable
<1>1. SUFFICES ASSUME stage = "built", shape.skew >= 0, plan.bid > 0
               PROVE  BidGross(plan.bid, [row.bid EXCEPT !.cap = plan.bid], s) <= target
  BY DEF EpochIsPayable, budget
<1> DEFINE b == [row.bid EXCEPT !.cap = plan.bid]
           q == plan.bid
           p == b.high
           r == fair
<1>2. /\ SearchTypeOK /\ IsSide(side) /\ s \in Nat \ {0} /\ target \in Nat
      /\ \A x \in Nat : x <= Room(side) => BidGross(x, side, s) \in Nat
  BY SearchConstants DEF RowInv, SearchInv
<1>3. /\ q \in Nat /\ 1 <= q /\ q <= MaxCapacity /\ ~Buys(q) /\ FlatBid
  BY <1>1 DEF RowInv, PlanOK
<1>4. /\ IsSide(b) /\ b.cap = q /\ b.used = 0 /\ p \in Nat /\ 1 <= p /\ p <= r
  <2>1. /\ SolverInput(row.bidIn) /\ row.bidIn.maxPrice = shape.mid /\ row.bidIn.target = shape.bid
        /\ row.bid = SolveBid(row.bidIn)
    BY <1>1 DEF RowInv, InputsOK
  <2> DEFINE d == SolveBid(row.bidIn)
  <2>7. IsSide(d) /\ d.used = 0 /\ d.high <= shape.mid /\ d.high - shape.bid \in Nat
    BY <2>1, BidSolved
  <2>8. {"low", "high", "cap", "used"} \subseteq DOMAIN d
    BY DEF SolveBid
  <2>9. row.bid = d
    BY <2>1
  <2> HIDE DEF d
  <2>10. b.cap = q /\ b.used = d.used /\ b.low = d.low /\ b.high = d.high
    BY <2>8, <2>9
  <2> HIDE DEF b
  <2>2. IsSide(b) /\ b.cap = q /\ b.used = 0 /\ b.high <= shape.mid /\ b.high - shape.bid \in Nat
    BY <1>3, <2>7, <2>10 DEF IsSide
  <2>3. shape.mid \in Nat /\ shape.bid \in Nat /\ shape.bid > 0 /\ shape.mid <= r
    BY <1>1 DEF RowInv, ShapeOK
  <2>4. b.high \in Nat
    BY <2>2 DEF IsSide
  <2>5. r \in Nat
    BY <1>2 DEF fair, IsSide
  <2> HIDE DEF r, q
  <2>6. QED BY <2>2, <2>3, <2>4, <2>5
<1>5. /\ r \in Nat \ {0} /\ side.low = r /\ side.high = r /\ Room(side) = MaxCapacity
      /\ MaxCapacity \in Nat \ {0}
  BY <1>2, <1>3, <1>4, RowConstants DEF FlatBid, fair, Room, IsSide
<1> DEFINE y == BidGross(q, b, s)
<1> HIDE DEF b, r, q
<1>6. q <= Room(b) /\ y \in Nat
  <2>1. q <= Room(b)
    BY <1>3, <1>4 DEF Room
  <2>2. QED BY <1>2, <1>3, <1>4, <2>1, BidPays
<1>7. y * s <= q * p
  <2>1. BidAverage(q, b) <= 2 * b.cap * p
    BY <1>3, <1>4, <1>6, Averages
  <2>2. BidGross(q, b, s) >= y
    BY <1>6
  <2> HIDE DEF y
  <2>3. CeilDiv(y * s, p) <= q
    BY <1>2, <1>3, <1>4, <1>6, <2>1, <2>2, BidNeeds
  <2>4. y * s \in Int
    BY <1>2, <1>6, ProductIsNat
  <2> HIDE DEF p
  <2>5. QED BY <1>3, <1>4, <2>3, <2>4, CeilReaches
<1> HIDE DEF y, p
<1>8. CeilDiv(y * s, r) <= q
  <2>1. q * p <= q * r
    BY <1>3, <1>4, <1>5, Scaling
  <2>2. y * s \in Nat /\ q * p \in Nat /\ q * r \in Nat
    BY <1>2, <1>3, <1>4, <1>5, <1>6, ProductIsNat
  <2>3. y * s <= q * r
    BY <1>7, <2>1, <2>2
  <2>4. QED BY <1>3, <1>5, <2>2, <2>3, CeilReaches
<1>9. BidGross(q, side, s) >= y
  <2>1. 2 * side.cap * r <= BidAverage(q, side)
    BY <1>2, <1>3, <1>5, Averages
  <2>2. QED BY <1>2, <1>3, <1>5, <1>6, <1>8, <2>1, BidSuffices
<1>10. BidGross(q, side, s) \in Nat /\ ~(BidGross(q, side, s) >= target)
  BY <1>2, <1>3, <1>5 DEF Buys
<1>11. y <= target
  BY <1>2, <1>6, <1>9, <1>10
<1>12. QED BY <1>11 DEF y, q, b

-----------------------------------------------------------------------------
LEMMA RowInvariant == RSpec => []RowInv
<1>1. RInit => RowInv
  BY RowStarts
<1>2. RowInv /\ [RNext]_allVars => RowInv'
  BY RowKeeps
<1>3. QED BY <1>1, <1>2, PTL DEF RSpec

(* The same of the search the planner makes: curve.rs 331-807.              *)
THEOREM ReturnsExpectedHolds == RSpec => []ReturnsExpected
<1>1. RowInv => ReturnsExpected
  BY BracketReturns DEF RowInv
<1>2. QED BY <1>1, RowInvariant, PTL

(* No wider ladder fits the bounds, and no solved row is dropped for its own *)
(* shape: inverse.rs 132-181, 325-365, for every input.                     *)
THEOREM SolverTightHolds == RSpec => []SolverTight
<1>1. RowInv => SolverTight
  BY SolvedIsTight
<1>2. QED BY <1>1, RowInvariant, PTL

(* A built row never trades its capture better than the target, at the       *)
(* pool's own amounts: updater ladder.rs 264-284, for every row.            *)
THEOREM CaptureAtTargetHolds == RSpec => []CaptureAtTarget
<1>1. RowInv => CaptureAtTarget
  BY BuiltAtTarget
<1>2. QED BY <1>1, RowInvariant, PTL

(* The planner's epoch can be bought whole with its budget: updater          *)
(* ladder.rs 360-410, for every reference, row and pool balance.            *)
THEOREM EpochIsPayableHolds == RSpec => []EpochIsPayable
<1>1. RowInv => EpochIsPayable
  BY BuiltIsPayable
<1>2. QED BY <1>1, RowInvariant, PTL

(* The cap on the skew saves the floor through its three roundings, where    *)
(* the spread leaves the last basis point free: skew.rs 452-491.            *)
THEOREM SkewLeavesTheFloorHolds ==
    ASSUME SpreadsFit
    PROVE  RSpec => []SkewLeavesTheFloor
<1>1. RowInv => SkewLeavesTheFloor
  BY SpreadsFit DEF RowInv, Clears, SkewLeavesTheFloor
<1>2. QED BY <1>1, RowInvariant, PTL

=============================================================================
