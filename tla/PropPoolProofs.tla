--------------------------- MODULE PropPoolProofs ---------------------------
(***************************************************************************)
(* What TLAPS proves of PropPool, for every set of tokens, pairs, ladders,  *)
(* capacities and amounts: types, that the pool holds what it accounts for, *)
(* that a stored ladder stays valid, that no sequence of fills takes value  *)
(* out of one pushed ladder, and that the two capacity words implement a    *)
(* budget.                                                                 *)
(***************************************************************************)
EXTENDS PropPool, NatSets

-----------------------------------------------------------------------------
(* The curve: rounding never gives a better price than the ladder's best.    *)

(* A bid never pays more than its best price. *)
LEMMA BidWithinHigh ==
    ASSUME NEW side, IsSide(side), NEW q \in Nat, NEW s \in Nat \ {0}
    PROVE  BidGross(q, side, s) \in Int /\ s * BidGross(q, side, s) <= q * side.high
<1> DEFINE c    == side.cap
           top  == 2 * side.high * c
           fall == Span(side) * (2 * side.used + q)
           den  == 2 * c * s
           g    == BidGross(q, side, s)
<1>1. /\ c \in Nat \ {0} /\ side.high \in Nat /\ side.used \in Nat
      /\ Span(side) \in Nat
  BY DEF IsSide, Span
<1>2. top \in Nat /\ fall \in Nat
  <2>1. 2 * side.high \in Nat /\ 2 * side.used + q \in Nat
    BY <1>1
  <2>2. QED BY <1>1, <2>1, ProductIsNat
<1>3. den \in Nat \ {0}
  BY <1>1, SMT
<1>4. q * (top - fall) <= q * top /\ q * (top - fall) \in Int
  <2> HIDE DEF top, fall
  <2>1. top - fall <= top /\ top - fall \in Int /\ top \in Int
    BY <1>2
  <2>2. q * (top - fall) \in Int
    BY <2>1, SMT
  <2>3. QED BY <2>1, <2>2, Scaling
<1>5. g \in Int /\ den * g <= q * (top - fall)
  <2>1. g = (q * (top - fall)) \div den
    BY DEF BidGross
  <2> HIDE DEF g, den, top, fall
  <2>2. QED BY <2>1, <1>3, <1>4, Quotient
<1>6. (2 * c) * (s * g) <= (2 * c) * (q * side.high)
  <2>1. den * g = (2 * c) * (s * g)
    <3> HIDE DEF g, c
    <3> QED BY <1>1, <1>5, SMT
  <2>2. q * top = (2 * c) * (q * side.high)
    <3> HIDE DEF g, c
    <3> QED BY <1>1, SMT
  <2>3. q * top \in Int /\ den * g \in Int
    <3> HIDE DEF g, den, top
    <3> QED BY <1>2, <1>3, <1>5, SMT
  <2> HIDE DEF g, den, top, fall
  <2>4. den * g <= q * top
    BY <1>4, <1>5, <2>3
  <2>5. QED BY <2>1, <2>2, <2>4
<1>7. s * g \in Int /\ q * side.high \in Int /\ 2 * c \in Nat \ {0}
  <2> HIDE DEF g, c
  <2> QED BY <1>1, <1>5, SMT
<1>8. QED
  <2> HIDE DEF c
  <2> QED BY <1>5, <1>6, <1>7, Cancelling

(* An ask never charges less than its best price. *)
LEMMA AskWithinLow ==
    ASSUME NEW side, IsSide(side), NEW q \in Nat, NEW s \in Nat \ {0}
    PROVE  AskCost(q, side, s) \in Int /\ q * side.low <= s * AskCost(q, side, s)
<1> DEFINE c    == side.cap
           base == 2 * side.low * c
           rise == Span(side) * (2 * side.used + q)
           den  == 2 * c * s
           num  == q * (base + rise)
           g    == AskCost(q, side, s)
<1>1. /\ c \in Nat \ {0} /\ side.low \in Nat /\ side.used \in Nat
      /\ Span(side) \in Nat
  BY DEF IsSide, Span
<1>2. base \in Nat /\ rise \in Nat
  <2>1. 2 * side.low \in Nat /\ 2 * side.used + q \in Nat
    BY <1>1
  <2>2. QED BY <1>1, <2>1, ProductIsNat
<1>3. den \in Nat \ {0}
  BY <1>1, SMT
<1>4. q * base <= num /\ num \in Int /\ q * base \in Int
  <2> HIDE DEF base, rise
  <2>1. base <= base + rise /\ base + rise \in Int /\ base \in Int
    BY <1>2
  <2>2. q * (base + rise) \in Int /\ q * base \in Int
    BY <2>1, SMT
  <2>3. QED BY <2>1, <2>2, Scaling
<1>5. g \in Int /\ num <= den * g
  <2>1. g = (num + den - 1) \div den
    BY DEF AskCost, CeilDiv
  <2> HIDE DEF g, den, num
  <2>2. num + den - 1 \in Int
    BY <1>3, <1>4
  <2>3. g \in Int /\ num + den - 1 < den * g + den
    BY <2>1, <2>2, <1>3, Quotient
  <2>4. den * g \in Int
    BY <2>3, <1>3, SMT
  <2>5. QED BY <2>3, <2>4, <1>3, <1>4
<1>6. (2 * c) * (q * side.low) <= (2 * c) * (s * g)
  <2>1. den * g = (2 * c) * (s * g)
    <3> HIDE DEF g, c
    <3> QED BY <1>1, <1>5, SMT
  <2>2. q * base = (2 * c) * (q * side.low)
    <3> HIDE DEF g, c
    <3> QED BY <1>1, SMT
  <2>3. den * g \in Int
    <3> HIDE DEF g, den
    <3> QED BY <1>3, <1>5, SMT
  <2> HIDE DEF g, den, base, rise, num
  <2>4. q * base <= den * g
    BY <1>4, <1>5, <2>3
  <2>5. QED BY <2>1, <2>2, <2>4
<1>7. s * g \in Int /\ q * side.low \in Int /\ 2 * c \in Nat \ {0}
  <2> HIDE DEF g, c
  <2> QED BY <1>1, <1>5, SMT
<1>8. QED
  <2> HIDE DEF c
  <2> QED BY <1>5, <1>6, <1>7, Cancelling

-----------------------------------------------------------------------------
(* The pool. *)

(* At most one swap is under way. *)
Single == call = <<>> \/ \E f \in Swaps : call = <<f>>

(* What the words must agree on for the next swap to be priced sanely.      *)
WordsOK ==
    /\ StoredLadderValid
    /\ \A p \in PairIds \ Listed : ladder[p] = NoLadder
    /\ \A p \in PairIds : used[p].gen <= cap[p].gen

(* What a priced swap may do: it fits the side's capacity next to what the   *)
(* side already took, at no better than the ladder's best price.            *)
Fill(p, bid, in, out) ==
    /\ p \in Listed /\ ladder[p] # NoLadder
    /\ in \in Nat \ {0} /\ out \in Nat \ {0}
    /\ bid => /\ Used(p, TRUE) + in <= cap[p].bid
              /\ Scale * out <= in * ladder[p].maxBid
    /\ ~bid => /\ Used(p, FALSE) + out <= cap[p].ask
               /\ out * ladder[p].minAsk <= Scale * in

(* The swap under way was priced from the words as they still stand. *)
FrameOK == \A f \in Swaps : call = <<f>> => Fill(f.pair, f.bid, f.in, f.out)

TInv == TypeOK /\ Single /\ WordsOK /\ FrameOK

LEMMA ListedIsPair ==
    ASSUME TypeOK
    PROVE  Listed \subseteq PairIds
BY PoolAssumption DEF TypeOK, Listed, PairIds, PoolAssumption

(* Decay never adds capacity. *)
LEMMA DecayedBounds ==
    ASSUME NEW c \in Nat, NEW a \in Nat, NEW w \in Nat
    PROVE  Decayed(c, a, w) \in 0 .. c
<1>1. CASE w = 0 \/ a >= w
  BY <1>1 DEF Decayed
<1>2. CASE w # 0 /\ a < w
  <2> DEFINE d == (c * (w - a)) \div w
  <2>1. w \in Nat \ {0} /\ w - a \in Nat /\ w - a <= w
    BY <1>2
  <2>2. c * (w - a) \in Nat /\ c * w \in Nat /\ c * (w - a) <= c * w
    BY <2>1, ProductIsNat, Scaling
  <2>3. d \in Int /\ w * d <= c * (w - a) /\ c * (w - a) < w * d + w
    BY <2>1, <2>2, Quotient
  <2>4. w * d \in Int /\ w * c = c * w
    <3> HIDE DEF d
    <3> QED BY <2>3, SMT
  <2>5. w * d <= w * c
    BY <2>2, <2>3, <2>4
  <2>6. d <= c
    <3> HIDE DEF d
    <3> QED BY <2>1, <2>3, <2>5, Cancelling
  <2>7. d >= 0
    <3>1. 0 <= w * d + w - 1
      BY <2>1, <2>2, <2>3, <2>4
    <3>2. w * (-1) < w * d + 1
      <4> HIDE DEF d
      <4> QED BY <3>1, <2>1, <2>4
    <3>3. SUFFICES ASSUME d <= -1 PROVE FALSE
      <4> HIDE DEF d
      <4> QED BY <2>3
    <3>4. w * d <= w * (-1)
      <4> HIDE DEF d
      <4> QED BY <2>1, <2>3, <3>3, Scaling
    <3> HIDE DEF d
    <3>5. QED BY <2>1, <2>4, <3>1, <3>4
  <2>8. QED BY <1>2, <2>3, <2>6, <2>7 DEF Decayed
<1>3. QED BY <1>1, <1>2

(* The words of a pair that is live. *)
Words(p) ==
    /\ cap[p].bid \in Nat /\ cap[p].ask \in Nat /\ cap[p].decay \in Nat
    /\ used[p].bid \in Nat /\ used[p].ask \in Nat /\ age[p] \in Nat
    /\ ladder[p].minBid \in Nat /\ ladder[p].maxBid \in Nat
    /\ ladder[p].minAsk \in Nat /\ ladder[p].maxAsk \in Nat
    /\ ladder[p].minBid <= ladder[p].maxBid /\ ladder[p].minAsk <= ladder[p].maxAsk

LEMMA WordTypes ==
    ASSUME TInv, NEW p, Live(p)
    PROVE  p \in PairIds /\ p \in Listed /\ ladder[p] # NoLadder /\ Words(p)
<1>1. p \in Listed /\ p \in PairIds /\ ladder[p] # NoLadder
  BY ListedIsPair DEF Live, TInv
<1>2. cap[p] \in CapWords /\ used[p] \in UsedWords /\ age[p] \in 0 .. MaxAge
  BY <1>1 DEF TInv, TypeOK
<1>3. ladder[p] \in [minBid : 0 .. MaxPrice, maxBid : 0 .. MaxPrice,
                     minAsk : 0 .. MaxPrice, maxAsk : 0 .. MaxPrice]
  BY <1>1, PoolAssumption DEF TInv, TypeOK, PoolAssumption
<1>4. ladder[p].maxBid >= ladder[p].minBid /\ ladder[p].maxAsk >= ladder[p].minAsk
  BY <1>1 DEF TInv, WordsOK, StoredLadderValid, ValidLadder
<1>5. MaxPrice \in Nat /\ MaxAge \in Nat
  BY PoolAssumption DEF PoolAssumption
<1>6. cap[p].bid \in Nat /\ cap[p].ask \in Nat /\ cap[p].decay \in Nat
  BY <1>2, <1>5 DEF CapWords
<1>7. used[p].bid \in Nat /\ used[p].ask \in Nat /\ age[p] \in Nat
  BY <1>2, <1>5 DEF UsedWords
<1>8. /\ ladder[p].minBid \in Nat /\ ladder[p].maxBid \in Nat
      /\ ladder[p].minAsk \in Nat /\ ladder[p].maxAsk \in Nat
  BY <1>3, <1>5
<1>9. QED BY <1>1, <1>4, <1>6, <1>7, <1>8 DEF Words

(* A side with something left is a side the curve lemmas speak of. *)
LEMMA LiveBid ==
    ASSUME TInv, NEW p, Live(p), Left(p, TRUE) > 0
    PROVE  LET side == SideOf(p, TRUE)
           IN  /\ IsSide(side) /\ Room(side) = cap[p].bid - Used(p, TRUE)
               /\ Left(p, TRUE) \in 1 .. Room(side)
               /\ side.high = ladder[p].maxBid
<1> DEFINE side == SideOf(p, TRUE)
           u    == Used(p, TRUE)
           v    == Available(p, TRUE)
           l    == Left(p, TRUE)
<1>1. p \in PairIds /\ Words(p)
  BY WordTypes
<1>2. u \in Nat /\ v \in 0 .. cap[p].bid
  BY <1>1, DecayedBounds DEF Used, Available, Words
<1>3. l = v - u /\ l > 0
  BY DEF Left
<1>4. side = [low |-> ladder[p].minBid, high |-> ladder[p].maxBid, cap |-> cap[p].bid, used |-> u]
  BY DEF SideOf
<1> HIDE DEF side, u, v, l
<1>5. l \in 1 .. (cap[p].bid - u) /\ cap[p].bid \in Nat \ {0}
  BY <1>1, <1>2, <1>3 DEF Words
<1>6. IsSide(side)
  BY <1>1, <1>2, <1>5, <1>4 DEF IsSide, Words
<1>7. side.cap = cap[p].bid /\ side.used = u /\ side.high = ladder[p].maxBid
  BY <1>4
<1>8. Room(side) = cap[p].bid - u
  BY <1>7 DEF Room
<1>9. IsSide(side) /\ l \in 1 .. Room(side)
  BY <1>6, <1>8, <1>5
<1>10. QED BY <1>7, <1>8, <1>9 DEF side, u, l

LEMMA LiveAsk ==
    ASSUME TInv, NEW p, Live(p), Left(p, FALSE) > 0
    PROVE  LET side == SideOf(p, FALSE)
           IN  /\ IsSide(side) /\ Room(side) = cap[p].ask - Used(p, FALSE)
               /\ Left(p, FALSE) \in 1 .. Room(side)
               /\ side.low = ladder[p].minAsk
<1> DEFINE side == SideOf(p, FALSE)
           u    == Used(p, FALSE)
           v    == Available(p, FALSE)
           l    == Left(p, FALSE)
<1>1. p \in PairIds /\ Words(p)
  BY WordTypes
<1>2. u \in Nat /\ v \in 0 .. cap[p].ask
  BY <1>1, DecayedBounds DEF Used, Available, Words
<1>3. l = v - u /\ l > 0
  BY DEF Left
<1>4. side = [low |-> ladder[p].minAsk, high |-> ladder[p].maxAsk, cap |-> cap[p].ask, used |-> u]
  BY DEF SideOf
<1> HIDE DEF side, u, v, l
<1>5. l \in 1 .. (cap[p].ask - u) /\ cap[p].ask \in Nat \ {0}
  BY <1>1, <1>2, <1>3 DEF Words
<1>6. IsSide(side)
  BY <1>1, <1>2, <1>5, <1>4 DEF IsSide, Words
<1>7. side.cap = cap[p].ask /\ side.used = u /\ side.low = ladder[p].minAsk
  BY <1>4
<1>8. Room(side) = cap[p].ask - u
  BY <1>7 DEF Room
<1>9. IsSide(side) /\ l \in 1 .. Room(side)
  BY <1>6, <1>8, <1>5
<1>10. QED BY <1>7, <1>8, <1>9 DEF side, u, l

(* Every price the pool settles at is a Fill, whichever end was given. *)
LEMMA BidExactIn ==
    ASSUME TInv, NEW p, NEW x \in Nat \ {0}, QuoteOut(p, TRUE, x) > 0
    PROVE  Fill(p, TRUE, x, QuoteOut(p, TRUE, x))
<1> DEFINE side == SideOf(p, TRUE)
           u    == Used(p, TRUE)
           l    == Left(p, TRUE)
           out  == BidGross(x, side, Scale)
<1>1. Live(p) /\ l > 0 /\ x <= l /\ QuoteOut(p, TRUE, x) = out
  <2> DEFINE ok == Live(p) /\ Left(p, TRUE) > 0 /\ x <= Left(p, TRUE) /\ ~Breaches(p, TRUE, out)
             q  == QuoteOut(p, TRUE, x)
  <2>1. q = IF ok THEN out ELSE 0
    BY DEF QuoteOut, MaxAmountIn, AmountOutBid
  <2>2. q > 0
    OBVIOUS
  <2> HIDE DEF ok, q, out
  <2>3. ok /\ q = out
    BY <2>1, <2>2
  <2>4. QED BY <2>3 DEF ok, q, l
<1>2. /\ IsSide(side) /\ Room(side) = cap[p].bid - u /\ l \in 1 .. Room(side)
      /\ side.high = ladder[p].maxBid
  BY <1>1, LiveBid
<1>3. p \in Listed /\ ladder[p] # NoLadder /\ cap[p].bid \in Nat /\ u \in Nat
  BY <1>1, WordTypes DEF Words, Used
<1>4. Scale \in Nat \ {0}
  BY PoolAssumption DEF PoolAssumption
<1>5. out \in Int /\ Scale * out <= x * side.high
  BY <1>2, <1>4, BidWithinHigh
<1>6. out > 0
  BY <1>1
<1> HIDE DEF side, u, l, out
<1>7. out \in Nat \ {0} /\ u + x <= cap[p].bid
  BY <1>1, <1>2, <1>3, <1>5, <1>6
<1>8. Scale * out <= x * ladder[p].maxBid
  BY <1>2, <1>5
<1>9. QED BY <1>1, <1>3, <1>7, <1>8 DEF Fill, u

LEMMA BidExactOut ==
    ASSUME TInv, NEW p, NEW y \in Nat \ {0}, QuoteIn(p, TRUE, y) > 0
    PROVE  Fill(p, TRUE, QuoteIn(p, TRUE, y), y)
<1> DEFINE side == SideOf(p, TRUE)
           u    == Used(p, TRUE)
           l    == Left(p, TRUE)
           in   == AmountInBid(y, side, Scale)
<1>1. Live(p) /\ l > 0 /\ y <= BidGross(l, side, Scale) /\ QuoteIn(p, TRUE, y) = in
  <2> DEFINE ok == /\ Live(p) /\ y > 0 /\ ~Breaches(p, TRUE, y) /\ Left(p, TRUE) > 0
                   /\ y <= BidGross(Left(p, TRUE), SideOf(p, TRUE), Scale)
             q  == QuoteIn(p, TRUE, y)
  <2>1. q = IF ok THEN in ELSE 0
    BY DEF QuoteIn, MaxOut
  <2>2. q > 0
    OBVIOUS
  <2> HIDE DEF ok, q, in
  <2>3. ok /\ q = in
    BY <2>1, <2>2
  <2>4. QED BY <2>3 DEF ok, q, l
<1>2. /\ IsSide(side) /\ Room(side) = cap[p].bid - u /\ l \in 1 .. Room(side)
      /\ side.high = ladder[p].maxBid
  BY <1>1, LiveBid
<1>3. p \in Listed /\ ladder[p] # NoLadder /\ cap[p].bid \in Nat /\ u \in Nat
  BY <1>1, WordTypes DEF Words, Used
<1>4. Scale \in Nat \ {0}
  BY PoolAssumption DEF PoolAssumption
<1>5. in \in 1 .. Room(side) /\ y <= BidGross(in, side, Scale)
  BY <1>1, <1>2, <1>4, AmountInBidIs
<1>6. in \in Nat \ {0} /\ u + in <= cap[p].bid
  <2> HIDE DEF side, u, l, in
  <2> QED BY <1>2, <1>3, <1>5
<1> DEFINE g == BidGross(in, side, Scale)
<1>7. g \in Int /\ Scale * g <= in * side.high
  BY <1>2, <1>4, <1>6, BidWithinHigh
<1>8. Scale * y <= in * ladder[p].maxBid
  <2>1. y <= g
    BY <1>5
  <2>2. side.high \in Nat
    BY <1>2 DEF IsSide
  <2> HIDE DEF g, in, side
  <2>3. Scale * y <= Scale * g
    BY <1>4, <1>7, <2>1, Scaling
  <2>4. Scale * y \in Int /\ Scale * g \in Int /\ in * side.high \in Int
    BY <1>4, <1>6, <1>7, <2>2, SMT
  <2>5. QED BY <1>2, <1>7, <2>3, <2>4
<1> HIDE DEF side, u, l, in
<1>9. QED BY <1>1, <1>3, <1>6, <1>8 DEF Fill, u

LEMMA AskExactIn ==
    ASSUME TInv, NEW p, NEW x \in Nat \ {0}, QuoteOut(p, FALSE, x) > 0
    PROVE  Fill(p, FALSE, x, QuoteOut(p, FALSE, x))
<1> DEFINE side == SideOf(p, FALSE)
           u    == Used(p, FALSE)
           l    == Left(p, FALSE)
           out  == AmountOutAsk(x, side, Scale)
<1>1. Live(p) /\ l > 0 /\ QuoteOut(p, FALSE, x) = out
  <2> DEFINE ok == /\ Live(p) /\ Left(p, FALSE) > 0
                   /\ x <= MaxAmountIn(p, FALSE) /\ ~Breaches(p, FALSE, out)
             q  == QuoteOut(p, FALSE, x)
  <2>1. q = IF ok THEN out ELSE 0
    BY DEF QuoteOut
  <2>2. q > 0
    OBVIOUS
  <2> HIDE DEF ok, q, out
  <2>3. ok /\ q = out
    BY <2>1, <2>2
  <2>4. QED BY <2>3 DEF ok, q, l
<1>2. /\ IsSide(side) /\ Room(side) = cap[p].ask - u /\ l \in 1 .. Room(side)
      /\ side.low = ladder[p].minAsk
  BY <1>1, LiveAsk
<1>3. p \in Listed /\ ladder[p] # NoLadder /\ cap[p].ask \in Nat /\ u \in Nat
  BY <1>1, WordTypes DEF Words, Used
<1>4. Scale \in Nat \ {0}
  BY PoolAssumption DEF PoolAssumption
<1>5. Room(side) >= 0
  <2> HIDE DEF side, u, l
  <2> QED BY <1>2, <1>3
<1>6. out \in 0 .. Room(side) /\ AskCost(out, side, Scale) <= x
  BY <1>2, <1>4, <1>5, AmountOutAskIs
<1>7. out > 0
  BY <1>1
<1>8. out \in Nat \ {0} /\ u + out <= cap[p].ask
  <2> HIDE DEF side, u, l, out
  <2> QED BY <1>2, <1>3, <1>6, <1>7
<1> DEFINE g == AskCost(out, side, Scale)
<1>9. g \in Int /\ out * side.low <= Scale * g
  BY <1>2, <1>4, <1>8, AskWithinLow
<1>10. out * ladder[p].minAsk <= Scale * x
  <2>1. g <= x
    BY <1>6
  <2>2. side.low \in Nat
    BY <1>2 DEF IsSide
  <2> HIDE DEF g, out, side
  <2>3. Scale * g <= Scale * x
    BY <1>4, <1>9, <2>1, Scaling
  <2>4. Scale * x \in Int /\ Scale * g \in Int /\ out * side.low \in Int
    BY <1>4, <1>8, <1>9, <2>2, SMT
  <2>5. QED BY <1>2, <1>9, <2>3, <2>4
<1> HIDE DEF side, u, l, out
<1>11. QED BY <1>1, <1>3, <1>8, <1>10 DEF Fill, u

LEMMA AskExactOut ==
    ASSUME TInv, NEW p, NEW y \in Nat \ {0}, QuoteIn(p, FALSE, y) > 0
    PROVE  Fill(p, FALSE, QuoteIn(p, FALSE, y), y)
<1> DEFINE side == SideOf(p, FALSE)
           u    == Used(p, FALSE)
           l    == Left(p, FALSE)
           in   == AskCost(y, side, Scale)
<1>1. Live(p) /\ l > 0 /\ y <= l /\ QuoteIn(p, FALSE, y) = in
  <2> DEFINE ok == /\ Live(p) /\ y > 0 /\ ~Breaches(p, FALSE, y)
                   /\ Left(p, FALSE) > 0 /\ y <= Left(p, FALSE)
             q  == QuoteIn(p, FALSE, y)
  <2>1. q = IF ok THEN in ELSE 0
    BY DEF QuoteIn, MaxOut, AmountInAsk
  <2>2. q > 0
    OBVIOUS
  <2> HIDE DEF ok, q, in
  <2>3. ok /\ q = in
    BY <2>1, <2>2
  <2>4. QED BY <2>3 DEF ok, q, l
<1>2. /\ IsSide(side) /\ Room(side) = cap[p].ask - u /\ l \in 1 .. Room(side)
      /\ side.low = ladder[p].minAsk
  BY <1>1, LiveAsk
<1>3. p \in Listed /\ ladder[p] # NoLadder /\ cap[p].ask \in Nat /\ u \in Nat
  BY <1>1, WordTypes DEF Words, Used
<1>4. Scale \in Nat \ {0}
  BY PoolAssumption DEF PoolAssumption
<1>5. in \in Int /\ y * side.low <= Scale * in
  BY <1>2, <1>4, AskWithinLow
<1>6. in > 0
  BY <1>1
<1> HIDE DEF side, u, l, in
<1>7. in \in Nat \ {0} /\ u + y <= cap[p].ask
  BY <1>1, <1>2, <1>3, <1>5, <1>6
<1>8. y * ladder[p].minAsk <= Scale * in
  BY <1>2, <1>5
<1>9. QED BY <1>1, <1>3, <1>7, <1>8 DEF Fill, u

-----------------------------------------------------------------------------
(* Types and words.                                                        *)

(* What every swap does before it settles, whichever end was given and      *)
(* wherever its input came from.                                           *)
Moved(p, bid, kept, in, out, moved) ==
    /\ call = <<>> /\ Fill(p, bid, in, out)
    /\ Move(p, bid, moved, out, kept) /\ Enter(p, bid, in, out)
    /\ \/ moved = in
       \/ moved = 0 /\ in = Unaccounted(TokenIn(p, bid))

Swap(p, bid, kept) ==
    \/ \E a \in Amounts : SwapExactIn(p, bid, a, kept) \/ SwapExactOut(p, bid, a, kept)
    \/ SwapPushed(p, bid, kept)

LEMMA SwapMoves ==
    ASSUME TInv, NEW p \in Listed, NEW bid \in BOOLEAN, NEW kept \in BOOLEAN, Swap(p, bid, kept)
    PROVE  \E in, out, moved : Moved(p, bid, kept, in, out, moved)
<1>1. ASSUME NEW a \in Amounts, SwapExactIn(p, bid, a, kept)
      PROVE  Moved(p, bid, kept, a, QuoteOut(p, bid, a), a)
  <2>1. a \in Nat \ {0}
    BY PoolAssumption DEF PoolAssumption
  <2>2. Fill(p, bid, a, QuoteOut(p, bid, a))
    <3>1. QuoteOut(p, bid, a) > 0
      BY <1>1 DEF SwapExactIn
    <3>2. CASE bid = TRUE
      BY <2>1, <3>1, <3>2, BidExactIn
    <3>3. CASE bid = FALSE
      BY <2>1, <3>1, <3>3, AskExactIn
    <3>4. QED BY <3>2, <3>3
  <2>3. QED BY <1>1, <2>2 DEF SwapExactIn, Moved, Unlocked
<1>2. ASSUME NEW a \in Amounts, SwapExactOut(p, bid, a, kept)
      PROVE  Moved(p, bid, kept, QuoteIn(p, bid, a), a, QuoteIn(p, bid, a))
  <2>1. a \in Nat \ {0}
    BY PoolAssumption DEF PoolAssumption
  <2>2. Fill(p, bid, QuoteIn(p, bid, a), a)
    <3>1. QuoteIn(p, bid, a) > 0
      BY <1>2 DEF SwapExactOut
    <3>2. CASE bid = TRUE
      BY <2>1, <3>1, <3>2, BidExactOut
    <3>3. CASE bid = FALSE
      BY <2>1, <3>1, <3>3, AskExactOut
    <3>4. QED BY <3>2, <3>3
  <2>3. QED BY <1>2, <2>2 DEF SwapExactOut, Moved, Unlocked
<1>3. ASSUME SwapPushed(p, bid, kept)
      PROVE  LET x == Unaccounted(TokenIn(p, bid))
             IN  Moved(p, bid, kept, x, QuoteOut(p, bid, x), 0)
  <2> DEFINE t == TokenIn(p, bid)
             x == Unaccounted(t)
  <2>1. x > 0 /\ QuoteOut(p, bid, x) > 0
    BY <1>3 DEF SwapPushed
  <2>2. p \in PairIds /\ config[p].base \in Tokens /\ config[p].quote \in Tokens
    BY ListedIsPair DEF TInv, TypeOK, ConfigOK
  <2>3. t \in Tokens
    BY <2>2 DEF TokenIn
  <2>4. balance[t] \in Nat /\ reserve[t] \in Nat
    BY <2>3 DEF TInv, TypeOK
  <2>5. x = balance[t] - reserve[t]
    BY DEF Unaccounted
  <2>6. x \in Nat \ {0}
    <3> HIDE DEF x
    <3> QED BY <2>1, <2>4, <2>5
  <2>7. Fill(p, bid, x, QuoteOut(p, bid, x))
    <3>1. CASE bid = TRUE
      BY <2>1, <2>6, <3>1, BidExactIn
    <3>2. CASE bid = FALSE
      BY <2>1, <2>6, <3>2, AskExactIn
    <3>3. QED BY <3>1, <3>2
  <2>8. QED BY <1>3, <2>7 DEF SwapPushed, Moved, Unlocked
<1>4. QED BY <1>1, <1>2, <1>3 DEF Swap

LEMMA SettingTypes ==
    ASSUME NEW c \in Settings
    PROVE  /\ c.maxStale \in Nat /\ c.minPrice \in Nat /\ c.minBase \in Nat /\ c.minQuote \in Nat
           /\ c.minPrice > 0
<1>1. c.maxStale \in 1 .. (MaxAge - 1) /\ MaxAge \in Nat
  BY PoolAssumption DEF PoolAssumption
<1>2. c.minPrice \in 1 .. MaxPrice /\ MaxPrice \in Nat
  BY PoolAssumption DEF PoolAssumption, IsPrice
<1>3. c.minBase \in Nat /\ c.minQuote \in Nat
  BY PoolAssumption DEF PoolAssumption
<1>4. QED BY <1>1, <1>2, <1>3

(* A refresh advances the generation by one: the word has room for more      *)
(* refreshes than the bound admits.                                        *)
LEMMA RenewedType ==
    ASSUME TypeOK, NEW p \in PairIds, NEW c \in Capacities, cap[p].gen < MaxGen
    PROVE  /\ Renewed(cap[p], c) \in CapWords
           /\ Renewed(cap[p], c).gen = cap[p].gen + 1
           /\ Renewed(cap[p], c).bid = c.bid /\ Renewed(cap[p], c).ask = c.ask
<1> DEFINE w == cap[p]
<1>1. w \in CapWords /\ c.bid \in Nat /\ c.ask \in Nat
  BY PoolAssumption DEF TypeOK, PoolAssumption
<1>2. MaxGen \in Nat /\ GenModulus \in Nat /\ MaxGen < GenModulus
  BY PoolAssumption DEF PoolAssumption
<1>3. w.gen \in 0 .. MaxGen /\ w.gen < MaxGen /\ w.paused \in BOOLEAN /\ w.decay \in 0 .. MaxAge
  BY <1>1 DEF CapWords
<1>4. (w.gen + 1) % GenModulus = w.gen + 1
  <2> DEFINE g == w.gen + 1
  <2>1. g \in Nat /\ g < GenModulus
    BY <1>2, <1>3
  <2> HIDE DEF g
  <2>2. g % GenModulus = g
    BY <1>2, <2>1, SMT
  <2>3. QED BY <2>2 DEF g
<1>5. Renewed(w, c) = [bid |-> c.bid, ask |-> c.ask, gen |-> w.gen + 1, paused |-> w.paused, decay |-> w.decay]
  BY <1>4 DEF Renewed
<1>6. w.gen + 1 \in 0 .. MaxGen
  BY <1>2, <1>3
<1> HIDE DEF w
<1>7. Renewed(w, c) \in CapWords
  BY <1>1, <1>3, <1>5, <1>6 DEF CapWords
<1>8. Renewed(w, c).gen = w.gen + 1 /\ Renewed(w, c).bid = c.bid /\ Renewed(w, c).ask = c.ask
  BY <1>5
<1>9. QED BY <1>7, <1>8 DEF w

LEMMA BatchTypes ==
    ASSUME TypeOK, NEW S, NEW rows \in Batches(S)
    PROVE  /\ DOMAIN rows \subseteq Listed /\ DOMAIN rows \subseteq PairIds
           /\ \A p \in DOMAIN rows : rows[p] \in S
BY ListedIsPair DEF Batches

(* TypeOK without the policy and the history, in parts. *)
PolicyOK == /\ pairCount \in 0 .. MaxPairs /\ allPaused \in BOOLEAN /\ pyth \in Pyths \cup {NoPyth}
            /\ ConfigOK /\ oracle \in [PairIds -> Deviations \cup {NoOracle}]
WordTypesOK == /\ ladder \in [PairIds -> Ladders \cup {NoLadder}]
               /\ age \in [PairIds -> 0 .. MaxAge]
               /\ cap \in [PairIds -> CapWords] /\ used \in [PairIds -> UsedWords]
FundsOK == reserve \in [Tokens -> Nat] /\ balance \in [Tokens -> Nat]
CallOK  == call \in Seq(Swaps) /\ Single
NetOK   == net \in [PairIds -> [base : Int, quote : Int]]

(* The steps, by what they write. *)
PolicyStep ==
    \/ \E l \in Listings, c \in Settings : AddPair(l, c)
    \/ \E p \in Listed, c \in Settings : SetPairConfig(p, c)
    \/ \E a \in Pyths : SetPyth(a)
    \/ \E p \in Listed, d \in Deviations \cup {NoOracle} : SetPairOracle(p, d)
    \/ \E b \in Pauses : PauseAll(b)
WordStep ==
    \/ \E p \in Listed, w \in DecayWindows : SetPairDecay(p, w)
    \/ \E rows \in Batches(Ladders), ref \in References \cup {Unreadable} : UpdateQuote(rows, ref)
    \/ \E rows \in Batches(Capacities) : RefreshCapacity(rows)
    \/ \E p \in Listed, b \in Pauses : Pause(p, b)
    \/ Tick
FundsStep ==
    \/ \E t \in Tokens, a \in Transfers : Deposit(t, a) \/ Withdraw(t, a)
    \/ \E t \in Tokens, a \in Gifts : Donate(t, a)
    \/ \E t \in Tokens : Sync(t)
SwapStep == \E p \in Listed, bid, kept \in BOOLEAN : Swap(p, bid, kept)

LEMMA NextSteps ==
    ASSUME Next
    PROVE  PolicyStep \/ WordStep \/ FundsStep \/ SwapStep \/ Settle
BY Zenon DEF Next, PolicyStep, WordStep, FundsStep, SwapStep, Swap

LEMMA TypeParts ==
    TypeOK /\ Single <=> PolicyOK /\ WordTypesOK /\ FundsOK /\ CallOK /\ NetOK
BY DEF TypeOK, PolicyOK, WordTypesOK, FundsOK, CallOK, NetOK

LEMMA TypeInit == Init => TInv
<1> SUFFICES ASSUME Init PROVE TInv
  OBVIOUS
<1>1. MaxPairs \in Nat /\ MaxAge \in Nat /\ MaxGen \in Nat
  BY PoolAssumption DEF PoolAssumption
<1>2. PolicyOK
  <2>1. pairCount = 0 /\ 0 \in 0 .. MaxPairs /\ Listed = {}
    BY <1>1 DEF Init, Listed
  <2>2. ConfigOK
    BY <2>1 DEF ConfigOK, Init
  <2>3. QED BY <2>1, <2>2 DEF PolicyOK, Init
<1>3. WordTypesOK
  <2>1. cap \in [PairIds -> CapWords]
    BY <1>1 DEF Init, CapWords
  <2>2. used \in [PairIds -> UsedWords]
    BY <1>1 DEF Init, UsedWords
  <2>3. QED BY <1>1, <2>1, <2>2 DEF Init, WordTypesOK
<1>4. FundsOK /\ CallOK /\ NetOK
  BY DEF Init, FundsOK, CallOK, NetOK, Single, Nothing
<1>5. WordsOK
  <2>1. Listed = {}
    BY DEF Init, Listed
  <2>2. \A p \in PairIds : used[p].gen <= cap[p].gen /\ ladder[p] = NoLadder
    BY DEF Init
  <2>3. QED BY <2>1, <2>2 DEF WordsOK, StoredLadderValid
<1>6. FrameOK
  BY DEF Init, FrameOK
<1>7. QED BY <1>2, <1>3, <1>4, <1>5, <1>6, TypeParts DEF TInv

(* The owner's, the manager's and the guardian's calls keep the types. *)
LEMMA PolicyType ==
    ASSUME TInv, PolicyStep
    PROVE  PolicyOK' /\ UNCHANGED <<ladder, age, cap, used, funds, call, net>>
<1> USE TypeParts DEF TInv
<1>1. ASSUME NEW l \in Listings, NEW c \in Settings, AddPair(l, c)
      PROVE  PolicyOK'
  <2>1. pairCount \in 0 .. MaxPairs /\ pairCount < MaxPairs /\ MaxPairs \in Nat
    BY <1>1, PoolAssumption DEF AddPair, PolicyOK, PoolAssumption
  <2>2. pairCount' \in 0 .. MaxPairs
    BY <1>1, <2>1 DEF AddPair
  <2>3. Listed' = Listed \cup {pairCount + 1} /\ pairCount + 1 \in PairIds
    BY <1>1, <2>1 DEF AddPair, Listed, PairIds
  <2>4. l.base \in Tokens /\ l.quote \in Tokens \ {l.base}
    BY <1>1, PoolAssumption DEF AddPair, PoolAssumption
  <2>5. ConfigOK'
    BY <1>1, <2>3, <2>4, SettingTypes DEF AddPair, ConfigOK, PolicyOK
  <2>6. QED BY <1>1, <2>2, <2>5 DEF AddPair, PolicyOK
<1>2. ASSUME NEW p \in Listed, NEW c \in Settings, SetPairConfig(p, c)
      PROVE  PolicyOK'
  <2>1. p \in PairIds
    BY ListedIsPair
  <2>2. ConfigOK'
    BY <1>2, <2>1, SettingTypes DEF SetPairConfig, ConfigOK, PolicyOK, Listed
  <2>3. QED BY <1>2, <2>2 DEF SetPairConfig, PolicyOK
<1>3. ASSUME NEW a \in Pyths, SetPyth(a)
      PROVE  PolicyOK'
  BY <1>3 DEF SetPyth, PolicyOK, ConfigOK, Listed
<1>4. ASSUME NEW p \in Listed, NEW d \in Deviations \cup {NoOracle}, SetPairOracle(p, d)
      PROVE  PolicyOK'
  BY <1>4 DEF SetPairOracle, PolicyOK, ConfigOK, Listed
<1>5. ASSUME NEW b \in Pauses, PauseAll(b)
      PROVE  PolicyOK'
  BY <1>5, PoolAssumption DEF PauseAll, PolicyOK, ConfigOK, Listed, PoolAssumption
<1>6. UNCHANGED <<ladder, age, cap, used, funds, call, net>>
  BY DEF PolicyStep, AddPair, SetPairConfig, SetPyth, SetPairOracle, PauseAll
<1>7. QED BY <1>1, <1>2, <1>3, <1>4, <1>5, <1>6 DEF PolicyStep

(* The words the updater, the guardian and time write keep their types. *)
LEMMA WordType ==
    ASSUME TInv, WordStep
    PROVE  WordTypesOK' /\ NetOK' /\ UNCHANGED <<policy, funds, call>>
<1> USE TypeParts DEF TInv
<1>1. ASSUME NEW p \in Listed, NEW w \in DecayWindows, SetPairDecay(p, w)
      PROVE  WordTypesOK' /\ NetOK'
  <2>1. p \in PairIds /\ w \in 0 .. MaxAge
    BY ListedIsPair, PoolAssumption DEF PoolAssumption
  <2>2. cap' \in [PairIds -> CapWords]
    BY <1>1, <2>1 DEF SetPairDecay, WordTypesOK, CapWords
  <2>3. QED BY <1>1, <2>2 DEF SetPairDecay, WordTypesOK, NetOK
<1>2. ASSUME NEW rows \in Batches(Ladders), NEW ref, UpdateQuote(rows, ref)
      PROVE  WordTypesOK' /\ NetOK'
  <2>1. \A p \in DOMAIN rows : p \in PairIds /\ rows[p] \in Ladders
    BY BatchTypes
  <2>2. ladder' \in [PairIds -> Ladders \cup {NoLadder}]
    BY <1>2, <2>1 DEF UpdateQuote, WordTypesOK
  <2>3. age' \in [PairIds -> 0 .. MaxAge]
    BY <1>2, PoolAssumption DEF UpdateQuote, WordTypesOK, PoolAssumption
  <2>4. net' \in [PairIds -> [base : Int, quote : Int]]
    BY <1>2 DEF UpdateQuote, NetOK, Nothing
  <2>5. QED BY <1>2, <2>2, <2>3, <2>4 DEF UpdateQuote, WordTypesOK, NetOK
<1>3. ASSUME NEW rows \in Batches(Capacities), RefreshCapacity(rows)
      PROVE  WordTypesOK' /\ NetOK'
  <2>1. \A p \in DOMAIN rows : p \in PairIds /\ rows[p] \in Capacities
    BY BatchTypes
  <2>2. \A p \in DOMAIN rows : Renewed(cap[p], rows[p]) \in CapWords
    BY <1>3, <2>1, RenewedType DEF RefreshCapacity
  <2>3. cap' \in [PairIds -> CapWords]
    BY <1>3, <2>1, <2>2 DEF RefreshCapacity, WordTypesOK
  <2>4. QED BY <1>3, <2>3 DEF RefreshCapacity, WordTypesOK, NetOK
<1>4. ASSUME NEW p \in Listed, NEW b \in Pauses, Pause(p, b)
      PROVE  WordTypesOK' /\ NetOK'
  <2>1. p \in PairIds /\ b \in BOOLEAN
    BY ListedIsPair, PoolAssumption DEF PoolAssumption
  <2>2. cap' \in [PairIds -> CapWords]
    BY <1>4, <2>1 DEF Pause, WordTypesOK, CapWords
  <2>3. QED BY <1>4, <2>2 DEF Pause, WordTypesOK, NetOK
<1>5. ASSUME Tick
      PROVE  WordTypesOK' /\ NetOK'
  <2>1. age' \in [PairIds -> 0 .. MaxAge]
    BY <1>5, PoolAssumption DEF Tick, WordTypesOK, PoolAssumption
  <2>2. QED BY <1>5, <2>1 DEF Tick, WordTypesOK, NetOK
<1>6. UNCHANGED <<policy, funds, call>>
  BY DEF WordStep, SetPairDecay, UpdateQuote, RefreshCapacity, Pause, Tick
<1>7. QED BY <1>1, <1>2, <1>3, <1>4, <1>5, <1>6 DEF WordStep

(* Transfers in and out of the pool keep the types. *)
LEMMA FundsType ==
    ASSUME TInv, FundsStep
    PROVE  FundsOK' /\ UNCHANGED <<policy, ladder, age, cap, used, call, net>>
<1>1. reserve \in [Tokens -> Nat] /\ balance \in [Tokens -> Nat]
  BY DEF TInv, TypeOK
<1>2. \A a \in Transfers \cup Gifts : a \in Nat
  BY PoolAssumption DEF PoolAssumption
<1>3. ASSUME NEW t \in Tokens, NEW a \in Transfers, Deposit(t, a)
      PROVE  FundsOK'
  BY <1>1, <1>2, <1>3 DEF Deposit, FundsOK
<1>4. ASSUME NEW t \in Tokens, NEW a \in Transfers, Withdraw(t, a)
      PROVE  FundsOK'
  BY <1>1, <1>2, <1>4 DEF Withdraw, FundsOK
<1>5. ASSUME NEW t \in Tokens, NEW a \in Gifts, Donate(t, a)
      PROVE  FundsOK'
  BY <1>1, <1>2, <1>5 DEF Donate, FundsOK
<1>6. ASSUME NEW t \in Tokens, Sync(t)
      PROVE  FundsOK'
  BY <1>1, <1>6 DEF Sync, FundsOK
<1>7. UNCHANGED <<policy, ladder, age, cap, used, call, net>>
  BY DEF FundsStep, Deposit, Withdraw, Donate, Sync
<1>8. QED BY <1>3, <1>4, <1>5, <1>6, <1>7 DEF FundsStep

(* The frame a swap leaves, and the tokens it moves. *)
Frame(p, bid, in, out) == [pair |-> p, bid |-> bid, in |-> in, out |-> out]

LEMMA MovedFacts ==
    ASSUME TInv, NEW p \in Listed, NEW bid \in BOOLEAN, NEW kept \in BOOLEAN,
           NEW in, NEW out, NEW moved, Moved(p, bid, kept, in, out, moved)
    PROVE  /\ call = <<>> /\ call' = <<Frame(p, bid, in, out)>>
           /\ Frame(p, bid, in, out) \in Swaps
           /\ TokenIn(p, bid) \in Tokens /\ TokenOut(p, bid) \in Tokens
           /\ TokenIn(p, bid) # TokenOut(p, bid)
           /\ in \in Nat \ {0} /\ out \in Nat \ {0} /\ moved \in Nat
           /\ out <= balance[TokenOut(p, bid)]
<1>1. p \in PairIds /\ in \in Nat \ {0} /\ out \in Nat \ {0} /\ moved \in Nat
  BY ListedIsPair DEF TInv, Moved, Fill
<1>2. Frame(p, bid, in, out) \in Swaps
  BY <1>1 DEF Frame, Swaps
<1>3. call = <<>> /\ call' = <<Frame(p, bid, in, out)>>
  BY <1>2 DEF Moved, Enter, Frame
<1>4. config[p].base \in Tokens /\ config[p].quote \in Tokens \ {config[p].base}
  BY DEF TInv, TypeOK, ConfigOK
<1>5. /\ TokenIn(p, bid) \in Tokens /\ TokenOut(p, bid) \in Tokens
      /\ TokenIn(p, bid) # TokenOut(p, bid)
  BY <1>4 DEF TokenIn, TokenOut
<1>6. out <= balance[TokenOut(p, bid)]
  BY DEF Moved, Move
<1>7. QED BY <1>1, <1>2, <1>3, <1>5, <1>6

LEMMA SwapType ==
    ASSUME TInv, NEW p \in Listed, NEW bid \in BOOLEAN, NEW kept \in BOOLEAN, Swap(p, bid, kept)
    PROVE  FundsOK' /\ CallOK' /\ UNCHANGED <<policy, ladder, age, cap, used, reserve, net>>
<1>1. PICK in, out, moved : Moved(p, bid, kept, in, out, moved)
  BY SwapMoves
<1> DEFINE a == TokenIn(p, bid)
           b == TokenOut(p, bid)
           f == Frame(p, bid, in, out)
<1>2. /\ call' = <<f>> /\ f \in Swaps /\ a \in Tokens /\ b \in Tokens
      /\ out \in Nat /\ moved \in Nat /\ out <= balance[b] /\ a # b
  BY <1>1, MovedFacts
<1>3. reserve \in [Tokens -> Nat] /\ balance \in [Tokens -> Nat]
  BY DEF TInv, TypeOK
<1>4. balance' = [balance EXCEPT ![a] = @ + moved, ![b] = IF kept THEN @ ELSE @ - out]
  BY <1>1 DEF Moved, Move
<1>5. UNCHANGED <<policy, ladder, age, cap, used, reserve, net>>
  BY <1>1 DEF Moved, Enter
<1> HIDE DEF a, b, f
<1>6. balance' \in [Tokens -> Nat]
  BY <1>2, <1>3, <1>4
<1>7. CallOK'
  BY <1>2 DEF CallOK, Single
<1>8. QED BY <1>3, <1>5, <1>6, <1>7 DEF FundsOK

(* The swap that settles is the only one under way. *)
LEMMA SettleFrame ==
    ASSUME TInv, Settle
    PROVE  \E f \in Swaps : call = <<f>> /\ Last(call) = f /\ call' = <<>>
<1>1. PICK f \in Swaps : call = <<f>>
  BY DEF TInv, Single, Settle
<1>2. Last(call) = f
  BY <1>1 DEF Last
<1>3. call' = <<>>
  BY <1>1 DEF Settle, Front
<1>4. QED BY <1>1, <1>2, <1>3

(* Its two tokens are the pair's. *)
LEMMA FrameFacts ==
    ASSUME TInv, NEW f \in Swaps, call = <<f>>
    PROVE  /\ Fill(f.pair, f.bid, f.in, f.out) /\ f.pair \in Listed
           /\ TokenIn(f.pair, f.bid) \in Tokens /\ TokenOut(f.pair, f.bid) \in Tokens
           /\ TokenIn(f.pair, f.bid) # TokenOut(f.pair, f.bid)
<1>1. Fill(f.pair, f.bid, f.in, f.out) /\ f.pair \in Listed /\ f.bid \in BOOLEAN
  BY DEF TInv, FrameOK, Fill, Swaps
<1> DEFINE p == f.pair
<1>2. config[p].base \in Tokens /\ config[p].quote \in Tokens \ {config[p].base}
  BY <1>1 DEF TInv, TypeOK, ConfigOK
<1>3. QED BY <1>1, <1>2 DEF TokenIn, TokenOut

LEMMA SettleType ==
    ASSUME TInv, Settle
    PROVE  /\ WordTypesOK' /\ FundsOK' /\ CallOK' /\ NetOK'
           /\ UNCHANGED <<policy, ladder, age, cap, balance>>
<1>1. PICK f \in Swaps : call = <<f>> /\ Last(call) = f /\ call' = <<>>
  BY SettleFrame
<1> DEFINE p == f.pair
<1>2. p \in PairIds /\ f.bid \in BOOLEAN /\ f.in \in Nat \ {0} /\ f.out \in Nat \ {0}
  BY DEF Swaps
<1>3. cap[p] \in CapWords /\ used[p] \in UsedWords
  BY <1>2 DEF TInv, TypeOK
<1>4. Used(p, TRUE) \in Nat /\ Used(p, FALSE) \in Nat /\ cap[p].gen \in 0 .. MaxGen
  BY <1>3 DEF CapWords, UsedWords, Used
<1>5. used' \in [PairIds -> UsedWords]
  <2> DEFINE w == [bid |-> Used(p, TRUE) + (IF f.bid THEN f.in ELSE 0),
                   ask |-> Used(p, FALSE) + (IF f.bid THEN 0 ELSE f.out),
                   gen |-> cap[p].gen]
  <2>1. used' = [used EXCEPT ![p] = w]
    BY <1>1 DEF Settle
  <2>2. w \in UsedWords
    <3> DEFINE x == IF f.bid THEN f.in ELSE 0
               y == IF f.bid THEN 0 ELSE f.out
               u == Used(p, TRUE)
               v == Used(p, FALSE)
               g == cap[p].gen
    <3>1. x \in Nat /\ y \in Nat
      BY <1>2
    <3>2. w = [bid |-> u + x, ask |-> v + y, gen |-> g]
      OBVIOUS
    <3>3. u \in Nat /\ v \in Nat /\ g \in 0 .. MaxGen
      BY <1>4
    <3> HIDE DEF x, y, u, v, g, w
    <3>4. u + x \in Nat /\ v + y \in Nat
      BY <3>1, <3>3
    <3>5. QED BY <3>2, <3>3, <3>4 DEF UsedWords
  <2> HIDE DEF w
  <2>3. QED BY <2>1, <2>2 DEF TInv, TypeOK
<1>6. reserve' \in [Tokens -> Nat]
  <2> DEFINE a == TokenIn(p, f.bid)
             b == TokenOut(p, f.bid)
  <2>1. /\ f.out <= reserve[b]
        /\ reserve' = [reserve EXCEPT ![a] = @ + f.in, ![b] = @ - f.out]
    BY <1>1 DEF Settle
  <2>2. reserve \in [Tokens -> Nat]
    BY DEF TInv, TypeOK
  <2>3. a \in Tokens /\ b \in Tokens /\ a # b
    BY <1>1, FrameFacts
  <2> HIDE DEF a, b
  <2>4. f.in \in Nat /\ f.out \in Nat
    BY <1>2
  <2>5. QED BY <2>1, <2>2, <2>3, <2>4
<1>7. net' \in [PairIds -> [base : Int, quote : Int]]
  <2>1. net \in [PairIds -> [base : Int, quote : Int]]
    BY DEF TInv, TypeOK
  <2>2. net[p].base \in Int /\ net[p].quote \in Int
    BY <1>2, <2>1
  <2> DEFINE n == IF f.bid THEN [base |-> net[p].base + f.in, quote |-> net[p].quote - f.out]
                           ELSE [base |-> net[p].base - f.out, quote |-> net[p].quote + f.in]
  <2>3. net' = [net EXCEPT ![p] = n]
    BY <1>1 DEF Settle
  <2>4. n \in [base : Int, quote : Int]
    BY <1>2, <2>2
  <2> HIDE DEF n
  <2>5. QED BY <2>1, <2>3, <2>4
<1>8. UNCHANGED <<policy, ladder, age, cap, balance>>
  BY DEF Settle
<1>9. QED
  <2>1. WordTypesOK'
    BY <1>5, <1>8 DEF TInv, TypeOK, WordTypesOK
  <2>2. FundsOK' /\ CallOK' /\ NetOK'
    BY <1>1, <1>6, <1>7, <1>8 DEF TInv, TypeOK, FundsOK, CallOK, NetOK, Single
  <2>3. QED BY <1>8, <2>1, <2>2

LEMMA TypeStep == TInv /\ [Next]_vars => (TypeOK /\ Single)'
<1> SUFFICES ASSUME TInv, [Next]_vars PROVE (TypeOK /\ Single)'
  OBVIOUS
<1>1. PolicyOK /\ WordTypesOK /\ FundsOK /\ CallOK /\ NetOK
  BY TypeParts DEF TInv
<1>2. UNCHANGED policy => PolicyOK'
  BY <1>1 DEF policy, PolicyOK, ConfigOK, Listed
<1>3. UNCHANGED <<ladder, age, cap, used>> => WordTypesOK'
  BY <1>1 DEF WordTypesOK
<1>4. /\ UNCHANGED funds => FundsOK'
      /\ UNCHANGED call => CallOK'
      /\ UNCHANGED net => NetOK'
  BY <1>1 DEF funds, FundsOK, CallOK, Single, NetOK
<1>5. PolicyOK' /\ WordTypesOK' /\ FundsOK' /\ CallOK' /\ NetOK'
  <2>1. CASE PolicyStep
    BY <1>3, <1>4, <2>1, PolicyType
  <2>2. CASE WordStep
    BY <1>2, <1>4, <2>2, WordType
  <2>3. CASE FundsStep
    BY <1>2, <1>3, <1>4, <2>3, FundsType
  <2>4. CASE SwapStep
    BY <1>2, <1>3, <1>4, <2>4, SwapType DEF SwapStep
  <2>5. CASE Settle
    BY <1>2, <2>5, SettleType
  <2>6. CASE UNCHANGED vars
    BY <1>2, <1>3, <1>4, <2>6 DEF vars
  <2>7. CASE Next
    <3>1. PolicyStep \/ WordStep \/ FundsStep \/ SwapStep \/ Settle
      BY <2>7, NextSteps
    <3>2. QED BY <3>1, <2>1, <2>2, <2>3, <2>4, <2>5
  <2>8. QED BY <2>6, <2>7
<1>6. QED BY <1>5 DEF TypeOK, PolicyOK, WordTypesOK, FundsOK, CallOK, NetOK

-----------------------------------------------------------------------------
(* The words and the frame. *)

(* Who changes a setting, a ladder or a capacity leaves the words agreeing. *)
LEMMA PolicyWords ==
    ASSUME TInv, PolicyStep
    PROVE  WordsOK'
<1>1. UNCHANGED <<ladder, cap, used>> /\ pairCount \in Nat
  <2>1. UNCHANGED <<ladder, cap, used>>
    BY PolicyType
  <2>2. pairCount \in Nat
    BY PoolAssumption DEF TInv, TypeOK, PoolAssumption
  <2>3. QED BY <2>1, <2>2
<1>2. /\ StoredLadderValid /\ \A p \in PairIds \ Listed : ladder[p] = NoLadder
      /\ \A p \in PairIds : used[p].gen <= cap[p].gen
  BY DEF TInv, WordsOK
<1>3. CASE UNCHANGED <<pairCount, config>>
  BY <1>1, <1>2, <1>3 DEF WordsOK, StoredLadderValid, Listed
<1>4. ASSUME NEW l \in Listings, NEW c \in Settings, AddPair(l, c)
      PROVE  WordsOK'
  <2>1. /\ Listed' = Listed \cup {pairCount + 1} /\ pairCount + 1 \in PairIds
        /\ pairCount + 1 \notin Listed
    BY <1>1, <1>4, PoolAssumption DEF AddPair, Listed, PairIds, PoolAssumption
  <2>2. ladder[pairCount + 1] = NoLadder
    BY <1>2, <2>1
  <2>3. \A p \in Listed : config'[p] = config[p]
    <3>1. config \in [PairIds -> [base : Tokens \cup {NoToken}, quote : Tokens \cup {NoToken},
                                  maxStale : Nat, minPrice : Nat, minBase : Nat, minQuote : Nat]]
      BY DEF TInv, TypeOK, ConfigOK
    <3>2. \A p \in Listed : p \in PairIds /\ p # pairCount + 1
      BY <2>1, ListedIsPair DEF TInv
    <3>3. QED BY <1>4, <3>1, <3>2 DEF AddPair
  <2>4. StoredLadderValid'
    BY <1>1, <1>2, <2>1, <2>2, <2>3 DEF StoredLadderValid
  <2>5. QED BY <1>1, <1>2, <2>1, <2>4 DEF WordsOK
<1>5. ASSUME NEW p \in Listed, NEW c \in Settings, SetPairConfig(p, c)
      PROVE  WordsOK'
  <2>1. p \in PairIds /\ Listed' = Listed
    BY <1>5, ListedIsPair DEF TInv, SetPairConfig, Listed
  <2>2. config'[p].minPrice = c.minPrice /\ \A q \in Listed \ {p} : config'[q] = config[q]
    <3>1. config \in [PairIds -> [base : Tokens \cup {NoToken}, quote : Tokens \cup {NoToken},
                                  maxStale : Nat, minPrice : Nat, minBase : Nat, minQuote : Nat]]
      BY DEF TInv, TypeOK, ConfigOK
    <3>2. Listed \subseteq PairIds
      BY ListedIsPair DEF TInv
    <3>3. QED BY <1>5, <2>1, <3>1, <3>2 DEF SetPairConfig
  <2>3. ladder[p] # NoLadder => ladder[p].minBid >= c.minPrice
    <3>1. ladder[p] \in Ladders \cup {NoLadder}
      BY <2>1 DEF TInv, TypeOK
    <3>2. ladder[p] # NoLadder => ladder[p].minBid \in Nat
      BY <3>1, PoolAssumption DEF PoolAssumption
    <3>3. QED BY <1>5, <3>2, SettingTypes DEF SetPairConfig, Strands
  <2>4. \A q \in Listed : ladder[q] # NoLadder => ValidLadder(ladder[q], config'[q].minPrice)
    BY <1>2, <2>2, <2>3 DEF StoredLadderValid, ValidLadder
  <2>5. StoredLadderValid'
    BY <1>1, <2>1, <2>4 DEF StoredLadderValid
  <2>6. QED BY <1>1, <1>2, <2>1, <2>5 DEF WordsOK
<1>6. ASSUME NEW a \in Pyths, SetPyth(a) PROVE WordsOK'
  BY <1>3, <1>6 DEF SetPyth
<1>7. ASSUME NEW p \in Listed, NEW d, SetPairOracle(p, d) PROVE WordsOK'
  BY <1>3, <1>7 DEF SetPairOracle
<1>8. ASSUME NEW b \in Pauses, PauseAll(b) PROVE WordsOK'
  BY <1>3, <1>8 DEF PauseAll
<1>9. QED BY <1>4, <1>5, <1>6, <1>7, <1>8 DEF PolicyStep

LEMMA WordWords ==
    ASSUME TInv, WordStep
    PROVE  WordsOK'
<1>1. UNCHANGED <<pairCount, config, used>> /\ Listed' = Listed
  BY DEF WordStep, SetPairDecay, UpdateQuote, RefreshCapacity, Pause, Tick, policy, Listed
<1>2. /\ StoredLadderValid /\ \A p \in PairIds \ Listed : ladder[p] = NoLadder
      /\ \A p \in PairIds : used[p].gen <= cap[p].gen
      /\ Listed \subseteq PairIds
  BY ListedIsPair DEF TInv, WordsOK
<1>3. cap \in [PairIds -> CapWords] /\ used \in [PairIds -> UsedWords]
  BY DEF TInv, TypeOK
<1>4. ASSUME UNCHANGED ladder, \A p \in PairIds : cap'[p].gen = cap[p].gen PROVE WordsOK'
  BY <1>1, <1>2, <1>4 DEF WordsOK, StoredLadderValid
<1>5. ASSUME NEW p \in Listed, NEW w, SetPairDecay(p, w) PROVE WordsOK'
  <2>1. \A q \in PairIds : cap'[q].gen = cap[q].gen
    BY <1>3, <1>5 DEF SetPairDecay, CapWords
  <2>2. QED BY <1>4, <1>5, <2>1 DEF SetPairDecay
<1>6. ASSUME NEW p \in Listed, NEW b, Pause(p, b) PROVE WordsOK'
  <2>1. \A q \in PairIds : cap'[q].gen = cap[q].gen
    BY <1>3, <1>6 DEF Pause, CapWords
  <2>2. QED BY <1>4, <1>6, <2>1 DEF Pause
<1>7. ASSUME Tick PROVE WordsOK'
  BY <1>4, <1>7 DEF Tick
<1>8. ASSUME NEW rows \in Batches(Ladders), NEW ref, UpdateQuote(rows, ref) PROVE WordsOK'
  <2>1. DOMAIN rows \subseteq Listed
    BY BatchTypes DEF TInv
  <2>2. /\ ladder' = [p \in PairIds |-> IF p \in DOMAIN rows THEN rows[p] ELSE ladder[p]]
        /\ \A p \in DOMAIN rows : ValidLadder(rows[p], config[p].minPrice)
        /\ cap' = cap
    BY <1>8 DEF UpdateQuote, Acceptable
  <2>3. \A p \in Listed : ladder'[p] # NoLadder => ValidLadder(ladder'[p], config[p].minPrice)
    BY <1>2, <2>1, <2>2 DEF StoredLadderValid
  <2>4. \A p \in PairIds \ Listed : ladder'[p] = NoLadder
    BY <1>2, <2>1, <2>2
  <2>5. StoredLadderValid'
    BY <1>1, <2>3 DEF StoredLadderValid
  <2>6. QED BY <1>1, <1>2, <2>2, <2>4, <2>5 DEF WordsOK
<1>9. ASSUME NEW rows \in Batches(Capacities), RefreshCapacity(rows) PROVE WordsOK'
  <2>1. \A p \in DOMAIN rows : p \in PairIds /\ rows[p] \in Capacities
    BY BatchTypes DEF TInv
  <2>2. /\ cap' = [p \in PairIds |-> IF p \in DOMAIN rows THEN Renewed(cap[p], rows[p]) ELSE cap[p]]
        /\ ladder' = ladder
        /\ \A p \in DOMAIN rows : cap[p].gen < MaxGen
    BY <1>9 DEF RefreshCapacity
  <2>3. ASSUME NEW p \in PairIds PROVE used[p].gen <= cap'[p].gen
    <3>1. cap[p].gen \in Nat /\ used[p].gen \in Nat /\ used[p].gen <= cap[p].gen
      BY <1>2, <1>3 DEF CapWords, UsedWords
    <3>2. CASE p \in DOMAIN rows
      <4>1. cap'[p].gen = cap[p].gen + 1
        BY <2>1, <2>2, <3>2, RenewedType DEF TInv
      <4>2. QED BY <3>1, <4>1
    <3>3. CASE p \notin DOMAIN rows
      BY <2>2, <3>1, <3>3
    <3>4. QED BY <3>2, <3>3
  <2>4. StoredLadderValid'
    BY <1>1, <1>2, <2>2 DEF StoredLadderValid
  <2>5. QED BY <1>1, <1>2, <2>2, <2>3, <2>4 DEF WordsOK
<1>10. QED BY <1>5, <1>6, <1>7, <1>8, <1>9 DEF WordStep

LEMMA WordsStep == TInv /\ [Next]_vars => WordsOK'
<1> SUFFICES ASSUME TInv, [Next]_vars PROVE WordsOK'
  OBVIOUS
<1>1. UNCHANGED <<policy, ladder, cap, used>> => WordsOK'
  BY DEF TInv, WordsOK, StoredLadderValid, policy, Listed
<1>2. CASE FundsStep
  BY <1>1, <1>2, FundsType
<1>3. CASE SwapStep
  BY <1>1, <1>3, SwapType DEF SwapStep
<1>4. CASE Settle
  <2>1. UNCHANGED <<policy, ladder, cap>>
    BY <1>4, SettleType
  <2>2. PICK f \in Swaps : call = <<f>> /\ Last(call) = f
    BY <1>4, SettleFrame
  <2>3. used' = [used EXCEPT ![f.pair] =
                 [bid |-> Used(f.pair, TRUE) + (IF f.bid THEN f.in ELSE 0),
                  ask |-> Used(f.pair, FALSE) + (IF f.bid THEN 0 ELSE f.out),
                  gen |-> cap[f.pair].gen]]
    BY <1>4, <2>2 DEF Settle
  <2>4. used \in [PairIds -> UsedWords] /\ cap \in [PairIds -> CapWords]
    BY DEF TInv, TypeOK
  <2>5. \A p \in PairIds : used'[p].gen = used[p].gen \/ used'[p].gen = cap[p].gen
    BY <2>3, <2>4
  <2>6. \A p \in PairIds : cap[p].gen \in Nat
    BY <2>4 DEF CapWords
  <2>7. \A p \in PairIds : used'[p].gen <= cap[p].gen
    BY <2>5, <2>6 DEF TInv, WordsOK
  <2>8. StoredLadderValid' /\ Listed' = Listed
    BY <2>1 DEF TInv, WordsOK, StoredLadderValid, policy, Listed
  <2>9. QED BY <2>1, <2>7, <2>8 DEF TInv, WordsOK
<1>5. CASE UNCHANGED vars
  BY <1>1, <1>5 DEF vars
<1>6. CASE Next
  BY <1>2, <1>3, <1>4, <1>6, NextSteps, PolicyWords, WordWords
<1>7. QED BY <1>5, <1>6

(* The swap's words change only when it settles: every other call that writes *)
(* one is made by a role in a transaction of its own.                       *)
LEMMA FrameStep == TInv /\ [Next]_vars => FrameOK'
<1> SUFFICES ASSUME TInv, [Next]_vars, NEW f \in Swaps, call' = <<f>>
             PROVE  Fill(f.pair, f.bid, f.in, f.out)'
  BY DEF FrameOK
<1>1. ASSUME UNCHANGED <<policy, ladder, cap, used>>, Fill(f.pair, f.bid, f.in, f.out)
      PROVE  Fill(f.pair, f.bid, f.in, f.out)'
  BY <1>1 DEF Fill, Used, policy, Listed
<1>2. ASSUME UNCHANGED <<policy, ladder, cap, used, call>>
      PROVE  Fill(f.pair, f.bid, f.in, f.out)'
  BY <1>1, <1>2 DEF TInv, FrameOK
<1>3. CASE PolicyStep \/ WordStep
  <2>1. call = <<>>
    BY <1>3 DEF PolicyStep, AddPair, SetPairConfig, SetPyth, SetPairOracle, PauseAll,
                WordStep, SetPairDecay, UpdateQuote, RefreshCapacity, Pause, Tick, OwnTransaction
  <2>2. call' = call
    BY <1>3, PolicyType, WordType
  <2>3. QED BY <2>1, <2>2
<1>4. CASE FundsStep
  BY <1>2, <1>4, FundsType
<1>5. CASE SwapStep
  <2>1. PICK p \in Listed, bid \in BOOLEAN, kept \in BOOLEAN : Swap(p, bid, kept)
    BY <1>5 DEF SwapStep
  <2>2. PICK in, out, moved : Moved(p, bid, kept, in, out, moved)
    BY <2>1, SwapMoves
  <2>3. call' = <<Frame(p, bid, in, out)>> /\ Fill(p, bid, in, out)
    BY <2>2, MovedFacts DEF Moved
  <2>4. f = Frame(p, bid, in, out)
    BY <2>3
  <2>5. f.pair = p /\ f.bid = bid /\ f.in = in /\ f.out = out
    BY <2>4 DEF Frame
  <2>6. UNCHANGED <<policy, ladder, cap, used>>
    BY <2>1, SwapType
  <2>7. QED BY <1>1, <2>3, <2>5, <2>6
<1>6. CASE Settle
  BY <1>6, SettleFrame
<1>7. CASE UNCHANGED vars
  BY <1>2, <1>7 DEF vars
<1>8. CASE Next
  BY <1>3, <1>4, <1>5, <1>6, <1>8, NextSteps
<1>9. QED BY <1>7, <1>8

LEMMA TInvAlways == Spec => []TInv
<1>1. TInv /\ [Next]_vars => TInv'
  BY TypeStep, WordsStep, FrameStep DEF TInv
<1>2. QED BY <1>1, TypeInit, PTL DEF Spec

(* Every word a pair keeps stays within its type, and no reserve is ever     *)
(* negative: withdrawals and fills meet checked subtraction.               *)
THEOREM TypeCorrect == Spec => []TypeOK
<1>1. TInv => TypeOK
  BY DEF TInv
<1>2. QED BY <1>1, TInvAlways, PTL

(* A stored ladder is ordered and meets the minimum price in force, in       *)
(* whichever order updater and manager act (PropPool.sol 288-290, 363).     *)
THEOREM LadderStaysValid == Spec => []StoredLadderValid
<1>1. TInv => StoredLadderValid
  BY DEF TInv, WordsOK
<1>2. QED BY <1>1, TInvAlways, PTL

-----------------------------------------------------------------------------
(* The pool's tokens. *)

(* What it holds covers what it accounts for, the move of the swap under way *)
(* taken into account: its input is not accounted for yet, and its output   *)
(* still is.                                                               *)
MoneyOK ==
    /\ call = <<>> => \A t \in Tokens : reserve[t] <= balance[t]
    /\ \A f \in Swaps : call = <<f>> => \A t \in Tokens :
          reserve[t] + (IF t = TokenIn(f.pair, f.bid) THEN f.in ELSE 0)
              <= balance[t] + (IF t = TokenOut(f.pair, f.bid) THEN f.out ELSE 0)

LEMMA MoneyFunds ==
    ASSUME TInv, MoneyOK, FundsStep
    PROVE  MoneyOK'
<1>1. reserve \in [Tokens -> Nat] /\ balance \in [Tokens -> Nat]
  BY DEF TInv, TypeOK
<1>2. \A a \in Transfers \cup Gifts : a \in Nat
  BY PoolAssumption DEF PoolAssumption
<1>3. UNCHANGED <<call, config>>
  BY FundsType DEF policy
<1>4. ASSUME call = <<>>, \A t \in Tokens : reserve'[t] <= balance'[t]
      PROVE  MoneyOK'
  BY <1>3, <1>4 DEF MoneyOK
<1>5. ASSUME NEW t \in Tokens, NEW a \in Transfers, Deposit(t, a) PROVE MoneyOK'
  BY <1>1, <1>2, <1>4, <1>5 DEF Deposit, OwnTransaction, MoneyOK
<1>6. ASSUME NEW t \in Tokens, NEW a \in Transfers, Withdraw(t, a) PROVE MoneyOK'
  BY <1>1, <1>2, <1>4, <1>6 DEF Withdraw, OwnTransaction, MoneyOK
<1>7. ASSUME NEW t \in Tokens, Sync(t) PROVE MoneyOK'
  BY <1>1, <1>4, <1>7 DEF Sync, OwnTransaction, MoneyOK
<1>8. ASSUME NEW t \in Tokens, NEW a \in Gifts, Donate(t, a) PROVE MoneyOK'
  <2>1. reserve' = reserve /\ balance' \in [Tokens -> Nat]
        /\ \A s \in Tokens : balance[s] <= balance'[s]
    BY <1>1, <1>2, <1>8 DEF Donate
  <2>2. call' = <<>> => \A s \in Tokens : reserve'[s] <= balance'[s]
    BY <1>1, <1>3, <2>1 DEF MoneyOK
  <2>3. ASSUME NEW f \in Swaps, call' = <<f>>, NEW s \in Tokens
        PROVE  reserve'[s] + (IF s = TokenIn(f.pair, f.bid)' THEN f.in ELSE 0)
                   <= balance'[s] + (IF s = TokenOut(f.pair, f.bid)' THEN f.out ELSE 0)
    <3> DEFINE i == IF s = TokenIn(f.pair, f.bid) THEN f.in ELSE 0
               o == IF s = TokenOut(f.pair, f.bid) THEN f.out ELSE 0
    <3>1. reserve[s] + i <= balance[s] + o
      BY <1>3, <2>3 DEF MoneyOK
    <3>2. i \in Nat /\ o \in Nat
      BY DEF Swaps
    <3>3. TokenIn(f.pair, f.bid)' = TokenIn(f.pair, f.bid) /\ TokenOut(f.pair, f.bid)' = TokenOut(f.pair, f.bid)
      BY <1>3 DEF TokenIn, TokenOut
    <3> HIDE DEF i, o
    <3>4. reserve[s] + i <= balance'[s] + o
      BY <1>1, <2>1, <3>1, <3>2
    <3>5. QED BY <2>1, <3>3, <3>4 DEF i, o
  <2>4. QED BY <2>2, <2>3 DEF MoneyOK
<1>9. QED BY <1>5, <1>6, <1>7, <1>8 DEF FundsStep

LEMMA MoneySwap ==
    ASSUME TInv, MoneyOK, SwapStep
    PROVE  MoneyOK'
<1>1. PICK p \in Listed, bid \in BOOLEAN, kept \in BOOLEAN : Swap(p, bid, kept)
  BY DEF SwapStep
<1>2. PICK in, out, moved : Moved(p, bid, kept, in, out, moved)
  BY <1>1, SwapMoves
<1> DEFINE a == TokenIn(p, bid)
           b == TokenOut(p, bid)
<1>3. /\ call = <<>> /\ call' = <<Frame(p, bid, in, out)>>
      /\ a \in Tokens /\ b \in Tokens /\ a # b
      /\ in \in Nat /\ out \in Nat /\ moved \in Nat
  BY <1>2, MovedFacts
<1>4. /\ balance' = [balance EXCEPT ![a] = @ + moved, ![b] = IF kept THEN @ ELSE @ - out]
      /\ reserve' = reserve /\ config' = config
      /\ moved = in \/ (moved = 0 /\ in = balance[a] - reserve[a])
  BY <1>2 DEF Moved, Move, Enter, policy, Unaccounted
<1>5. reserve \in [Tokens -> Nat] /\ balance \in [Tokens -> Nat]
      /\ \A t \in Tokens : reserve[t] <= balance[t]
  BY <1>3 DEF TInv, TypeOK, MoneyOK
<1>6. a' = a /\ b' = b
  BY <1>4 DEF TokenIn, TokenOut
<1> HIDE DEF a, b
<1>7. ASSUME NEW t \in Tokens
      PROVE  reserve[t] + (IF t = a THEN in ELSE 0) <= balance'[t] + (IF t = b THEN out ELSE 0)
  <2>1. CASE t = a
    <3>1. balance'[t] = balance[t] + moved
      BY <1>3, <1>4, <1>5, <2>1
    <3>2. reserve[t] + in <= balance[t] + moved
      BY <1>3, <1>4, <1>5, <2>1
    <3>3. QED BY <1>3, <1>5, <2>1, <3>1, <3>2
  <2>2. CASE t = b
    <3>1. balance'[t] = balance[t] \/ balance'[t] = balance[t] - out
      BY <1>3, <1>4, <1>5, <2>2
    <3>2. reserve[t] <= balance'[t] + out
      BY <1>3, <1>5, <3>1
    <3>3. QED BY <1>3, <1>5, <2>2, <3>2
  <2>3. CASE t # a /\ t # b
    BY <1>3, <1>4, <1>5, <2>3
  <2>4. QED BY <2>1, <2>2, <2>3
<1>8. ASSUME NEW f \in Swaps, call' = <<f>>
      PROVE  TokenIn(f.pair, f.bid)' = a /\ TokenOut(f.pair, f.bid)' = b /\ f.in = in /\ f.out = out
  <2>1. f = Frame(p, bid, in, out)
    BY <1>3, <1>8
  <2>2. f.pair = p /\ f.bid = bid /\ f.in = in /\ f.out = out
    BY <2>1 DEF Frame
  <2>3. QED BY <1>6, <2>2 DEF a, b
<1>9. call' # <<>>
  BY <1>3
<1>10. QED BY <1>4, <1>7, <1>8, <1>9 DEF MoneyOK

LEMMA MoneySettle ==
    ASSUME TInv, MoneyOK, Settle
    PROVE  MoneyOK'
<1>1. PICK f \in Swaps : call = <<f>> /\ Last(call) = f /\ call' = <<>>
  BY SettleFrame
<1> DEFINE a == TokenIn(f.pair, f.bid)
           b == TokenOut(f.pair, f.bid)
<1>2. a \in Tokens /\ b \in Tokens /\ a # b /\ f.in \in Nat /\ f.out \in Nat
  BY <1>1, FrameFacts DEF Swaps
<1>3. reserve' = [reserve EXCEPT ![a] = @ + f.in, ![b] = @ - f.out] /\ balance' = balance
  BY <1>1 DEF Settle
<1>4. reserve \in [Tokens -> Nat] /\ balance \in [Tokens -> Nat]
  BY DEF TInv, TypeOK
<1>5. \A t \in Tokens : reserve[t] + (IF t = a THEN f.in ELSE 0) <= balance[t] + (IF t = b THEN f.out ELSE 0)
  BY <1>1 DEF MoneyOK
<1> HIDE DEF a, b
<1>6. \A t \in Tokens : reserve'[t] <= balance'[t]
  BY <1>2, <1>3, <1>4, <1>5
<1>7. QED BY <1>1, <1>6 DEF MoneyOK

LEMMA MoneyStep == TInv /\ MoneyOK /\ [Next]_vars => MoneyOK'
<1> SUFFICES ASSUME TInv, MoneyOK, [Next]_vars PROVE MoneyOK'
  OBVIOUS
<1>1. UNCHANGED <<config, funds, call>> => MoneyOK'
  BY DEF MoneyOK, funds, TokenIn, TokenOut
<1>2. CASE PolicyStep
  <2>1. call = <<>>
    BY <1>2 DEF PolicyStep, AddPair, SetPairConfig, SetPyth, SetPairOracle, PauseAll, OwnTransaction
  <2>2. UNCHANGED <<funds, call>>
    BY <1>2, PolicyType
  <2>3. QED BY <2>1, <2>2 DEF MoneyOK, funds
<1>3. CASE WordStep
  BY <1>1, <1>3, WordType DEF policy
<1>4. CASE UNCHANGED vars
  BY <1>1, <1>4 DEF vars, policy
<1>5. CASE Next
  BY <1>2, <1>3, <1>5, NextSteps, MoneyFunds, MoneySwap, MoneySettle
<1>6. QED BY <1>4, <1>5

(* The pool never accounts for tokens it does not hold (PropPool.sol 435-453, *)
(* 597-621, 791-811): no donation, push or reentrant transfer can make it.   *)
THEOREM PoolBacked == Spec => []Backed
<1>1. Init => MoneyOK
  BY DEF Init, MoneyOK
<1>2. MoneyOK => Backed
  BY DEF MoneyOK, Backed
<1>3. QED BY <1>1, <1>2, MoneyStep, TInvAlways, PTL DEF Spec

-----------------------------------------------------------------------------
(* What the fills of one ladder bring in. *)

(* Buying v at a price no worse than w is no loss at any price from w on, and *)
(* selling likewise.                                                       *)
LEMMA BidBrings ==
    ASSUME NEW s \in Nat, NEW v \in Nat, NEW w \in Nat, NEW b \in Int, NEW q \in Int,
           NEW in \in Nat, NEW out \in Nat,
           v <= w, s * out <= in * v, s * q + w * b >= 0
    PROVE  s * (q - out) + w * (b + in) >= 0
<1>1. in * v <= in * w
  BY Scaling
<1>2. s * out <= w * in
  <2>1. in * w = w * in /\ s * out \in Int /\ in * v \in Int /\ w * in \in Int
    BY SMT
  <2>2. QED BY <1>1, <2>1
<1>3. s * (q - out) = s * q - s * out /\ w * (b + in) = w * b + w * in
  BY SMT
<1>4. s * q \in Int /\ s * out \in Int /\ w * b \in Int /\ w * in \in Int
  BY SMT
<1>5. QED BY <1>2, <1>3, <1>4

LEMMA AskBrings ==
    ASSUME NEW s \in Nat, NEW v \in Nat, NEW w \in Nat, NEW b \in Int, NEW q \in Int,
           NEW in \in Nat, NEW out \in Nat,
           w <= v, out * v <= s * in, s * q + w * b >= 0
    PROVE  s * (q + in) + w * (b - out) >= 0
<1>1. out * w <= out * v
  BY Scaling
<1>2. w * out <= s * in
  <2>1. out * w = w * out /\ s * in \in Int /\ out * v \in Int /\ w * out \in Int
    BY SMT
  <2>2. QED BY <1>1, <2>1
<1>3. s * (q + in) = s * q + s * in /\ w * (b - out) = w * b - w * out
  BY SMT
<1>4. s * q \in Int /\ s * in \in Int /\ w * b \in Int /\ w * out \in Int
  BY SMT
<1>5. QED BY <1>2, <1>3, <1>4

LEMMA WorthSettle ==
    ASSUME TInv, RoundTripNeverPays, Settle
    PROVE  RoundTripNeverPays'
<1>1. PICK f \in Swaps : call = <<f>> /\ Last(call) = f /\ call' = <<>>
  BY SettleFrame
<1> DEFINE p == f.pair
           b == net[p].base
           q == net[p].quote
           u == ladder[p].maxBid
           v == ladder[p].minAsk
<1>2. Fill(p, f.bid, f.in, f.out) /\ p \in Listed /\ p \in PairIds
  BY <1>1, FrameFacts DEF Swaps
<1>3. ladder[p] # NoLadder /\ u \in Nat /\ v \in Nat /\ u <= v
  <2>1. ladder[p] # NoLadder
    BY <1>2 DEF Fill
  <2>2. u <= v
    <3>1. ladder[p].minAsk >= ladder[p].maxBid
      BY <1>2, <2>1 DEF TInv, WordsOK, StoredLadderValid, ValidLadder
    <3>2. u \in Nat /\ v \in Nat
      BY <1>2, <2>1, PoolAssumption DEF TInv, TypeOK, PoolAssumption
    <3>3. QED BY <3>1, <3>2
  <2>3. u \in Nat /\ v \in Nat
    BY <1>2, <2>1, PoolAssumption DEF TInv, TypeOK, PoolAssumption
  <2>4. QED BY <2>1, <2>2, <2>3
<1>4. b \in Int /\ q \in Int /\ f.in \in Nat /\ f.out \in Nat /\ f.bid \in BOOLEAN
  BY <1>2 DEF TInv, TypeOK, Swaps
<1>5. Scale * q + u * b >= 0 /\ Scale * q + v * b >= 0
  BY <1>2, <1>3 DEF RoundTripNeverPays, WorthAt
<1>6. Scale \in Nat
  BY PoolAssumption DEF PoolAssumption
<1>7. ladder' = ladder /\ Listed' = Listed
  BY SettleType DEF policy, Listed
<1>8. net \in [PairIds -> [base : Int, quote : Int]]
  BY DEF TInv, TypeOK
<1>9. \A r \in Listed \ {p} : net'[r] = net[r]
  BY <1>1, <1>8, ListedIsPair DEF Settle, TInv
<1>10. /\ Scale * net'[p].quote + u * net'[p].base >= 0
       /\ Scale * net'[p].quote + v * net'[p].base >= 0
  <2>1. CASE f.bid = TRUE
    <3>1. net'[p].base = b + f.in /\ net'[p].quote = q - f.out
      BY <1>1, <1>2, <1>8, <2>1 DEF Settle
    <3>2. Scale * f.out <= f.in * u
      BY <1>2, <2>1 DEF Fill
    <3> HIDE DEF b, q, u, v
    <3>3. Scale * (q - f.out) + u * (b + f.in) >= 0 /\ Scale * (q - f.out) + v * (b + f.in) >= 0
      BY <1>3, <1>4, <1>5, <1>6, <3>2, BidBrings
    <3>4. QED BY <3>1, <3>3
  <2>2. CASE f.bid = FALSE
    <3>1. net'[p].base = b - f.out /\ net'[p].quote = q + f.in
      BY <1>1, <1>2, <1>8, <2>2 DEF Settle
    <3>2. f.out * v <= Scale * f.in
      BY <1>2, <2>2 DEF Fill
    <3> HIDE DEF b, q, u, v
    <3>3. Scale * (q + f.in) + u * (b - f.out) >= 0 /\ Scale * (q + f.in) + v * (b - f.out) >= 0
      BY <1>3, <1>4, <1>5, <1>6, <3>2, AskBrings
    <3>4. QED BY <3>1, <3>3
  <2>3. QED BY <1>4, <2>1, <2>2
<1>11. ASSUME NEW r \in Listed, ladder[r] # NoLadder
       PROVE  /\ Scale * net'[r].quote + ladder[r].maxBid * net'[r].base >= 0
              /\ Scale * net'[r].quote + ladder[r].minAsk * net'[r].base >= 0
  <2>1. CASE r = p
    BY <1>10, <2>1
  <2>2. CASE r # p
    <3>1. net'[r] = net[r]
      BY <1>9, <2>2
    <3>2. QED BY <1>11, <3>1 DEF RoundTripNeverPays, WorthAt
  <2>3. QED BY <2>1, <2>2
<1>12. QED BY <1>7, <1>11 DEF RoundTripNeverPays, WorthAt

LEMMA WorthStep == TInv /\ RoundTripNeverPays /\ [Next]_vars => RoundTripNeverPays'
<1> SUFFICES ASSUME TInv, RoundTripNeverPays, [Next]_vars PROVE RoundTripNeverPays'
  OBVIOUS
<1>1. UNCHANGED <<pairCount, ladder, net>> => RoundTripNeverPays'
  BY DEF RoundTripNeverPays, WorthAt, Listed
<1>2. CASE PolicyStep
  <2>1. UNCHANGED <<ladder, net>>
    BY <1>2, PolicyType
  <2>2. CASE pairCount' = pairCount
    BY <1>1, <2>1, <2>2
  <2>3. CASE pairCount' # pairCount
    <3>1. pairCount' = pairCount + 1 /\ pairCount < MaxPairs
      BY <1>2, <2>3 DEF PolicyStep, AddPair, SetPairConfig, SetPyth, SetPairOracle, PauseAll
    <3>2. Listed' = Listed \cup {pairCount + 1} /\ pairCount + 1 \in PairIds \ Listed
      BY <3>1, PoolAssumption DEF TInv, TypeOK, Listed, PairIds, PoolAssumption
    <3>3. ladder[pairCount + 1] = NoLadder
      BY <3>2 DEF TInv, WordsOK
    <3>4. QED BY <2>1, <3>2, <3>3 DEF RoundTripNeverPays, WorthAt
  <2>4. QED BY <2>2, <2>3
<1>3. CASE WordStep
  <2>1. pairCount' = pairCount
    BY <1>3, WordType DEF policy
  <2>2. ASSUME NEW rows \in Batches(Ladders), NEW ref, UpdateQuote(rows, ref)
        PROVE  RoundTripNeverPays'
    <3>1. /\ ladder' = [p \in PairIds |-> IF p \in DOMAIN rows THEN rows[p] ELSE ladder[p]]
          /\ net' = [p \in PairIds |-> IF p \in DOMAIN rows THEN Nothing ELSE net[p]]
      BY <2>2 DEF UpdateQuote
    <3>2. Listed' = Listed /\ Listed \subseteq PairIds
      BY <2>1, ListedIsPair DEF TInv, Listed
    <3>3. ASSUME NEW p \in Listed, ladder'[p] # NoLadder
          PROVE  /\ Scale * net'[p].quote + ladder'[p].maxBid * net'[p].base >= 0
                 /\ Scale * net'[p].quote + ladder'[p].minAsk * net'[p].base >= 0
      <4>1. CASE p \in DOMAIN rows
        <5>1. net'[p].quote = 0 /\ net'[p].base = 0 /\ ladder'[p] = rows[p] /\ rows[p] \in Ladders
          BY <3>1, <3>2, <4>1, BatchTypes DEF Nothing, TInv
        <5>2. ladder'[p].maxBid \in Nat /\ ladder'[p].minAsk \in Nat /\ Scale \in Nat
          BY <5>1, PoolAssumption DEF PoolAssumption
        <5>3. QED BY <5>1, <5>2
      <4>2. CASE p \notin DOMAIN rows
        <5>1. net'[p] = net[p] /\ ladder'[p] = ladder[p]
          BY <3>1, <3>2, <4>2
        <5>2. QED BY <3>3, <5>1 DEF RoundTripNeverPays, WorthAt
      <4>3. QED BY <4>1, <4>2
    <3>4. QED BY <3>2, <3>3 DEF RoundTripNeverPays, WorthAt
  <2>3. CASE UNCHANGED <<ladder, net>>
    BY <1>1, <2>1, <2>3
  <2>4. QED BY <1>3, <2>2, <2>3 DEF WordStep, SetPairDecay, RefreshCapacity, Pause, Tick
<1>4. CASE FundsStep
  BY <1>1, <1>4, FundsType DEF policy
<1>5. CASE SwapStep
  BY <1>1, <1>5, SwapType DEF SwapStep, policy
<1>6. CASE UNCHANGED vars
  BY <1>1, <1>6 DEF vars, policy
<1>7. CASE Next
  BY <1>2, <1>3, <1>4, <1>5, <1>7, NextSteps, WorthSettle
<1>8. QED BY <1>6, <1>7

(* At any price between the best bid and the best ask of a ladder, what was   *)
(* filled against it is worth no less than nothing to the pool, for any      *)
(* sizes, directions, refreshes and decay windows: rounding never adds up    *)
(* in the taker's favour (PropCurve.sol 200-218, PropPool.sol 771-789).      *)
THEOREM TradingNeverLoses == Spec => []RoundTripNeverPays
<1>1. Init => RoundTripNeverPays
  BY ListedIsPair, TypeInit DEF Init, RoundTripNeverPays, TInv
<1>2. QED BY <1>1, WorthStep, TInvAlways, PTL DEF Spec

-----------------------------------------------------------------------------
(* The capacity and the used word implement a budget.                       *)

LEMMA BookTypes ==
    ASSUME TInv
    PROVE  /\ \A k \in Books : k[1] \in PairIds /\ Total[k] \in Nat /\ Spent[k] \in Nat
           /\ Total \in [Books -> Nat] /\ Spent \in [Books -> Nat]
<1>1. ASSUME NEW k \in Books
      PROVE  k[1] \in PairIds /\ Total[k] \in Nat /\ Spent[k] \in Nat
  <2> DEFINE p == k[1]
  <2>1. p \in PairIds
    BY DEF Books
  <2>2. cap[p] \in CapWords /\ used[p] \in UsedWords
    BY <2>1 DEF TInv, TypeOK
  <2>3. Used(p, TRUE) \in Nat /\ Used(p, FALSE) \in Nat /\ cap[p].bid \in Nat /\ cap[p].ask \in Nat
    BY <2>2 DEF Used, CapWords, UsedWords
  <2>4. Total[k] \in Nat
    BY <2>3 DEF Total
  <2>5. Spent[k] = Used(p, IsBid(k))
    BY DEF Spent
  <2>6. Used(p, IsBid(k)) \in Nat
    BY <2>2 DEF Used, UsedWords
  <2>7. QED BY <2>1, <2>4, <2>5, <2>6
<1>2. QED BY <1>1 DEF Total, Spent

(* A step that leaves every pair's capacities, generation and used word as    *)
(* they are is invisible to the budget.                                    *)
LEMMA BooksUnmoved ==
    ASSUME \A p \in PairIds : /\ cap'[p].bid = cap[p].bid /\ cap'[p].ask = cap[p].ask
                              /\ cap'[p].gen = cap[p].gen /\ used'[p] = used[p]
    PROVE  UNCHANGED <<Total, Spent>>
<1>1. \A k \in Books : k[1] \in PairIds
  BY DEF Books
<1>2. Total' = Total
  BY <1>1 DEF Total
<1>3. ASSUME NEW k \in Books PROVE Used(k[1], IsBid(k))' = Used(k[1], IsBid(k))
  BY <1>1, <1>3 DEF Used, IsBid
<1>4. Spent' = Spent
  BY <1>3 DEF Spent
<1>5. QED BY <1>2, <1>4

LEMMA BudgetRefresh ==
    ASSUME TInv, NEW rows \in Batches(Capacities), RefreshCapacity(rows)
    PROVE  Budget!Refresh({k \in Books : k[1] \in DOMAIN rows})
<1> DEFINE R == {k \in Books : k[1] \in DOMAIN rows}
<1>1. /\ cap' = [p \in PairIds |-> IF p \in DOMAIN rows THEN Renewed(cap[p], rows[p]) ELSE cap[p]]
      /\ used' = used
      /\ \A p \in DOMAIN rows : cap[p].gen < MaxGen
  BY DEF RefreshCapacity
<1>2. \A p \in DOMAIN rows : p \in PairIds /\ rows[p] \in Capacities
  BY BatchTypes DEF TInv
<1>3. ASSUME NEW k \in R PROVE Spent'[k] = 0
  <2> DEFINE p == k[1]
  <2>1. p \in PairIds /\ p \in DOMAIN rows /\ k \in Books
    BY DEF Books
  <2>2. cap'[p].gen = cap[p].gen + 1
    BY <1>1, <1>2, <2>1, RenewedType DEF TInv
  <2>3. used[p].gen <= cap[p].gen /\ used[p].gen \in Nat /\ cap[p].gen \in Nat
    BY <2>1 DEF TInv, WordsOK, TypeOK, CapWords, UsedWords
  <2>4. used'[p].gen # cap'[p].gen
    BY <1>1, <2>2, <2>3
  <2>5. Spent'[k] = Used(p, IsBid(k))'
    BY <2>1 DEF Spent
  <2>6. Used(p, IsBid(k))' = 0
    BY <2>4 DEF Used
  <2>7. QED BY <2>5, <2>6
<1>4. ASSUME NEW k \in Books \ R PROVE Total'[k] = Total[k] /\ Spent'[k] = Spent[k]
  <2> DEFINE p == k[1]
  <2>1. p \in PairIds /\ p \notin DOMAIN rows
    BY DEF Books
  <2>2. cap'[p] = cap[p] /\ used'[p] = used[p]
    BY <1>1, <2>1
  <2>3. Total'[k] = Total[k]
    BY <2>2 DEF Total
  <2>4. Used(p, IsBid(k))' = Used(p, IsBid(k))
    BY <2>2 DEF Used, IsBid
  <2>5. Spent'[k] = Spent[k]
    BY <2>4 DEF Spent
  <2>6. QED BY <2>3, <2>5
<1>5. QED BY <1>3, <1>4 DEF Budget!Refresh

LEMMA BudgetSettle ==
    ASSUME TInv, Settle
    PROVE  \E k \in Books : Budget!Spend(k)
<1>1. PICK f \in Swaps : call = <<f>> /\ Last(call) = f /\ call' = <<>>
  BY SettleFrame
<1> DEFINE p == f.pair
           u == Used(p, TRUE)
           v == Used(p, FALSE)
           w == [bid |-> u + (IF f.bid THEN f.in ELSE 0),
                 ask |-> v + (IF f.bid THEN 0 ELSE f.out), gen |-> cap[p].gen]
           b == <<p, "bid">>
           a == <<p, "ask">>
<1>2. Fill(p, f.bid, f.in, f.out) /\ p \in PairIds /\ f.bid \in BOOLEAN
      /\ f.in \in Nat \ {0} /\ f.out \in Nat \ {0}
  BY <1>1, FrameFacts DEF Swaps
<1>3. used' = [used EXCEPT ![p] = w] /\ cap' = cap
  BY <1>1 DEF Settle
<1>4. used'[p] = w /\ \A q \in PairIds \ {p} : used'[q] = used[q]
  BY <1>2, <1>3 DEF TInv, TypeOK
<1>5. b \in Books /\ a \in Books /\ b[1] = p /\ a[1] = p /\ IsBid(b) /\ ~IsBid(a)
  BY <1>2 DEF Books, IsBid
<1>6. u \in Nat /\ v \in Nat /\ Total[b] = cap[p].bid /\ Total[a] = cap[p].ask
      /\ Spent[b] = u /\ Spent[a] = v
  <2>1. cap[p] \in CapWords /\ used[p] \in UsedWords
    BY <1>2 DEF TInv, TypeOK
  <2>2. u \in Nat /\ v \in Nat
    BY <2>1 DEF Used, UsedWords
  <2>3. Total[b] = cap[p].bid /\ Total[a] = cap[p].ask
    BY <1>5 DEF Total
  <2>4. Spent[b] = Used(p, IsBid(b)) /\ Spent[a] = Used(p, IsBid(a))
    BY <1>5 DEF Spent
  <2>5. Used(p, IsBid(b)) = u /\ Used(p, IsBid(a)) = v
    BY <1>5 DEF Used
  <2>6. QED BY <2>2, <2>3, <2>4, <2>5
<1>7. Spent'[b] = w.bid /\ Spent'[a] = w.ask
  <2>1. Spent'[b] = Used(p, IsBid(b))' /\ Spent'[a] = Used(p, IsBid(a))'
    BY <1>5 DEF Spent
  <2>2. used'[p].gen = cap'[p].gen
    BY <1>3, <1>4
  <2>3. Used(p, IsBid(b))' = used'[p].bid /\ Used(p, IsBid(a))' = used'[p].ask
    BY <1>5, <2>2 DEF Used, IsBid
  <2>4. QED BY <1>4, <2>1, <2>3
<1>8. Total' = Total
  BY <1>3 DEF Total
<1>9. ASSUME NEW k \in Books \ {a, b} PROVE Spent'[k] = Spent[k]
  <2>1. k[1] \in PairIds \ {p}
    BY DEF Books
  <2>2. used'[k[1]] = used[k[1]] /\ cap'[k[1]] = cap[k[1]]
    BY <1>3, <1>4, <2>1
  <2>3. Used(k[1], IsBid(k))' = Used(k[1], IsBid(k))
    BY <2>2 DEF Used, IsBid
  <2>4. QED BY <2>3 DEF Spent
<1>10. CASE f.bid = TRUE
  <2>1. w.bid = u + f.in /\ w.ask = v + 0 /\ u + f.in <= cap[p].bid
    BY <1>2, <1>10 DEF Fill
  <2> HIDE DEF a, b, u, v, w
  <2>2. Spent[b] < Spent'[b] /\ Spent'[b] <= Total[b] /\ Spent'[a] = Spent[a]
    BY <1>2, <1>6, <1>7, <2>1
  <2>3. QED BY <1>5, <1>8, <1>9, <2>2 DEF Budget!Spend
<1>11. CASE f.bid = FALSE
  <2>1. w.bid = u + 0 /\ w.ask = v + f.out /\ v + f.out <= cap[p].ask
    BY <1>2, <1>11 DEF Fill
  <2> HIDE DEF a, b, u, v, w
  <2>2. Spent[a] < Spent'[a] /\ Spent'[a] <= Total[a] /\ Spent'[b] = Spent[b]
    BY <1>2, <1>6, <1>7, <2>1
  <2>3. QED BY <1>5, <1>8, <1>9, <2>2 DEF Budget!Spend
<1>12. QED BY <1>2, <1>10, <1>11

LEMMA BudgetStep == TInv /\ [Next]_vars => [Budget!Next]_<<Total, Spent>>
<1> SUFFICES ASSUME TInv, [Next]_vars PROVE [Budget!Next]_<<Total, Spent>>
  OBVIOUS
<1>1. ASSUME UNCHANGED <<cap, used>> PROVE UNCHANGED <<Total, Spent>>
  BY <1>1, BooksUnmoved
<1>2. ASSUME NEW p \in Listed,
             \/ \E w \in DecayWindows : SetPairDecay(p, w)
             \/ \E b \in Pauses : Pause(p, b)
      PROVE  UNCHANGED <<Total, Spent>>
  <2>1. cap \in [PairIds -> CapWords]
    BY DEF TInv, TypeOK
  <2>2. \A q \in PairIds : /\ cap'[q].bid = cap[q].bid /\ cap'[q].ask = cap[q].ask
                           /\ cap'[q].gen = cap[q].gen /\ used'[q] = used[q]
    BY <1>2, <2>1 DEF SetPairDecay, Pause, CapWords
  <2>3. QED BY <2>2, BooksUnmoved
<1>3. CASE WordStep
  <2>1. ASSUME NEW rows \in Batches(Capacities), RefreshCapacity(rows)
        PROVE  Budget!Next
    <3>1. Budget!Refresh({k \in Books : k[1] \in DOMAIN rows})
      BY <2>1, BudgetRefresh
    <3>2. QED BY <3>1 DEF Budget!Next
  <2>2. ASSUME NEW rows, NEW ref, UpdateQuote(rows, ref) PROVE UNCHANGED <<cap, used>>
    BY <2>2 DEF UpdateQuote
  <2>3. ASSUME Tick PROVE UNCHANGED <<cap, used>>
    BY <2>3 DEF Tick
  <2>4. QED BY <1>1, <1>2, <1>3, <2>1, <2>2, <2>3 DEF WordStep
<1>4. CASE PolicyStep
  BY <1>1, <1>4, PolicyType
<1>5. CASE FundsStep
  BY <1>1, <1>5, FundsType
<1>6. CASE SwapStep
  BY <1>1, <1>6, SwapType DEF SwapStep
<1>7. CASE Settle
  <2>1. Budget!Next
    BY <1>7, BudgetSettle DEF Budget!Next
  <2>2. QED BY <2>1
<1>8. CASE UNCHANGED vars
  BY <1>1, <1>8 DEF vars
<1>9. CASE Next
  BY <1>3, <1>4, <1>5, <1>6, <1>7, <1>9, NextSteps
<1>10. QED BY <1>8, <1>9

(* The two words of a pair implement a budget per side: a refresh, which      *)
(* writes only the capacity word, gives it back whole, a fill never spends  *)
(* more than is left, and nothing else changes what was spent (PropPool.sol *)
(* 396-406, 653-671, 795-805).                                             *)
THEOREM WordsKeepBudget == Spec => BudgetKept
<1>1. Init => Budget!Init
  <2> SUFFICES ASSUME Init PROVE Budget!Init
    OBVIOUS
  <2>1. \A k \in Books : k[1] \in PairIds
    BY DEF Books
  <2>2. Total = [k \in Books |-> 0]
    BY <2>1 DEF Init, Total
  <2>3. \A k \in Books : Used(k[1], IsBid(k)) = 0
    BY <2>1 DEF Init, Used
  <2>4. Spent = [k \in Books |-> 0]
    BY <2>3 DEF Spent
  <2>5. QED BY <2>2, <2>4 DEF Budget!Init
<1>2. QED BY <1>1, BudgetStep, TInvAlways, PTL DEF Spec, BudgetKept, Budget!Spec, Budget!vars

-----------------------------------------------------------------------------
(* The reserve floor.                                                      *)

(* What the swap under way pays still leaves its token's floor in place: it   *)
(* was checked before the tokens moved, and nothing that happens until the  *)
(* settlement touches a reserve or a floor.                                *)
FloorOK == \A f \in Swaps : call = <<f>> => ~Breaches(f.pair, f.bid, f.out)

LEMMA QuotedAboveFloor ==
    ASSUME NEW p, NEW bid, NEW x
    PROVE  /\ QuoteOut(p, bid, x) > 0 => ~Breaches(p, bid, QuoteOut(p, bid, x))
           /\ QuoteIn(p, bid, x) > 0 => ~Breaches(p, bid, x)
<1>1. ASSUME QuoteOut(p, bid, x) > 0 PROVE ~Breaches(p, bid, QuoteOut(p, bid, x))
  <2> DEFINE out == IF bid THEN AmountOutBid(x, SideOf(p, bid), Scale)
                           ELSE AmountOutAsk(x, SideOf(p, bid), Scale)
             ok  == Live(p) /\ Left(p, bid) > 0 /\ x <= MaxAmountIn(p, bid) /\ ~Breaches(p, bid, out)
             q   == QuoteOut(p, bid, x)
  <2>1. q = IF ok THEN out ELSE 0
    BY DEF QuoteOut
  <2>2. ok => ~Breaches(p, bid, out)
    OBVIOUS
  <2> HIDE DEF ok, q, out
  <2>3. ok /\ q = out
    BY <1>1, <2>1 DEF q
  <2>4. QED BY <2>2, <2>3 DEF q
<1>2. ASSUME QuoteIn(p, bid, x) > 0 PROVE ~Breaches(p, bid, x)
  <2> DEFINE in == IF bid THEN AmountInBid(x, SideOf(p, bid), Scale)
                          ELSE AmountInAsk(x, SideOf(p, bid), Scale)
             ok == Live(p) /\ x > 0 /\ ~Breaches(p, bid, x) /\ Left(p, bid) > 0 /\ x <= MaxOut(p, bid)
             q  == QuoteIn(p, bid, x)
  <2>1. q = IF ok THEN in ELSE 0
    BY DEF QuoteIn
  <2>2. ok => ~Breaches(p, bid, x)
    OBVIOUS
  <2> HIDE DEF ok, q, in
  <2>3. QED BY <1>2, <2>1, <2>2 DEF q
<1>3. QED BY <1>1, <1>2

LEMMA FloorSwap ==
    ASSUME NEW p, NEW bid, NEW kept, Swap(p, bid, kept)
    PROVE  FloorOK'
<1>1. \E in, out : Unlocked /\ Enter(p, bid, in, out) /\ ~Breaches(p, bid, out)
  BY QuotedAboveFloor, Zenon DEF Swap, SwapExactIn, SwapExactOut, SwapPushed
<1>2. PICK in, out : Unlocked /\ Enter(p, bid, in, out) /\ ~Breaches(p, bid, out)
  BY <1>1
<1>3. call' = <<[pair |-> p, bid |-> bid, in |-> in, out |-> out]>>
  BY <1>2 DEF Enter, Unlocked
<1>4. Breaches(p, bid, out)' = Breaches(p, bid, out)
  BY <1>2 DEF Enter, policy, Breaches, Floor, TokenOut
<1>5. ASSUME NEW f \in Swaps, call' = <<f>> PROVE f.pair = p /\ f.bid = bid /\ f.out = out
  BY <1>3, <1>5
<1>6. QED BY <1>2, <1>4, <1>5 DEF FloorOK

LEMMA FloorStep == TInv /\ FloorOK /\ [Next]_vars => FloorOK'
<1> SUFFICES ASSUME TInv, FloorOK, [Next]_vars PROVE FloorOK'
  OBVIOUS
<1>1. CASE SwapStep
  BY <1>1, FloorSwap DEF SwapStep
<1>2. CASE call' = <<>>
  BY <1>2 DEF FloorOK
<1>3. CASE UNCHANGED <<config, reserve, call>>
  BY <1>3 DEF FloorOK, Breaches, Floor, TokenOut
<1>4. CASE Settle
  BY <1>2, <1>4, SettleFrame
<1>5. CASE PolicyStep
  BY <1>2, <1>5
  DEF PolicyStep, AddPair, SetPairConfig, SetPyth, SetPairOracle, PauseAll, OwnTransaction
<1>6. CASE WordStep
  BY <1>2, <1>6
  DEF WordStep, SetPairDecay, UpdateQuote, RefreshCapacity, Pause, Tick, OwnTransaction
<1>7. CASE FundsStep
  BY <1>2, <1>3, <1>7 DEF FundsStep, Deposit, Withdraw, Donate, Sync, OwnTransaction, policy
<1>8. CASE UNCHANGED vars
  BY <1>3, <1>8 DEF vars, policy, funds
<1>9. CASE Next
  BY <1>1, <1>4, <1>5, <1>6, <1>7, <1>9, NextSteps
<1>10. QED BY <1>8, <1>9

(* A fill never takes its output token's reserve below the pair's floor,      *)
(* although the floor is checked before the tokens move and the reserve is  *)
(* written after, with the tokens' callbacks in between (PropPool.sol       *)
(* 639-651, 771-810).                                                      *)
THEOREM FillsLeaveTheFloor == Spec => FloorHeld
<1>1. ASSUME TInv, FloorOK, [Next]_vars, call # <<>>,
             reserve'[TokenOut(Last(call).pair, Last(call).bid)]
               < reserve[TokenOut(Last(call).pair, Last(call).bid)]
      PROVE  reserve'[TokenOut(Last(call).pair, Last(call).bid)]
               >= Floor(Last(call).pair, Last(call).bid)
  <2>1. PICK f \in Swaps : call = <<f>> /\ Last(call) = f
    BY <1>1 DEF TInv, Single, Last
  <2> DEFINE t == TokenOut(f.pair, f.bid)
             s == TokenIn(f.pair, f.bid)
             m == Floor(f.pair, f.bid)
  <2>2. t \in Tokens /\ s \in Tokens /\ s # t /\ f.out \in Nat
    BY <1>1, <2>1, FrameFacts DEF Swaps
  <2>3. reserve \in [Tokens -> Nat] /\ reserve[t] \in Nat
    BY <1>1, <2>2 DEF TInv, TypeOK
  <2>4. reserve' # reserve
    BY <1>1, <2>1, <2>3
  <2>5. Settle
    BY <1>1, <2>4, NextSteps
    DEF SwapStep, Swap, SwapExactIn, SwapExactOut, SwapPushed, Unlocked, PolicyStep, AddPair,
        SetPairConfig, SetPyth, SetPairOracle, PauseAll, OwnTransaction, WordStep, SetPairDecay,
        UpdateQuote, RefreshCapacity, Pause, Tick, FundsStep, Deposit, Withdraw, Donate, Sync,
        vars, funds
  <2>6. reserve'[t] = reserve[t] - f.out
    BY <2>1, <2>2, <2>3, <2>5 DEF Settle
  <2>7. m \in Nat
    <3>1. f.pair \in PairIds
      BY <2>1 DEF Swaps
    <3>2. config[f.pair].minBase \in Nat /\ config[f.pair].minQuote \in Nat
      BY <1>1, <3>1 DEF TInv, TypeOK, ConfigOK
    <3>3. QED BY <3>2 DEF Floor
  <2>8. ~Breaches(f.pair, f.bid, f.out)
    BY <1>1, <2>1 DEF FloorOK
  <2>9. ~(f.out > reserve[t] - m)
    BY <2>8 DEF Breaches
  <2> HIDE DEF t, m
  <2>10. reserve'[t] >= m
    BY <2>2, <2>3, <2>6, <2>7, <2>9
  <2>11. QED BY <2>1, <2>10 DEF t, m
<1>2. Init => FloorOK
  BY DEF Init, FloorOK
<1>3. TInv /\ FloorOK /\ [Next]_vars =>
        [call # <<>> => LET f == Last(call)
                            t == TokenOut(f.pair, f.bid)
                        IN  reserve'[t] < reserve[t] => reserve'[t] >= Floor(f.pair, f.bid)]_vars
  BY <1>1
<1>4. QED BY <1>2, <1>3, FloorStep, TInvAlways, PTL DEF Spec, FloorHeld

-----------------------------------------------------------------------------
(* What is quoted can be asked for.                                        *)

(* The best price of a valid ladder's ask side is not all there is: some of  *)
(* it costs something.                                                     *)
LEMMA AskIsNotFree ==
    ASSUME NEW side, IsSide(side), side.high > 0, NEW s \in Nat \ {0},
           NEW y \in Nat \ {0}, y <= Room(side)
    PROVE  AskCost(y, side, s) > 0
<1> DEFINE c == 2 * side.cap
           r == Span(side) * (2 * side.used + y)
<1>1. /\ side.low \in Nat /\ side.high \in Nat /\ side.cap \in Nat \ {0} /\ side.used \in Nat
      /\ Span(side) \in Nat /\ side.high = side.low + Span(side)
  BY DEF IsSide, Span
<1>2. AskAverage(y, side) = 2 * side.low * side.cap + r
  BY DEF AskAverage
<1>3. r \in Nat /\ 2 * side.low * side.cap \in Nat /\ 2 * side.used + y \in Nat \ {0}
  <2>1. 2 * side.used + y \in Nat \ {0}
    BY <1>1
  <2>2. r \in Nat
    BY <1>1, <2>1, ProductIsNat
  <2>3. 2 * side.low * side.cap \in Nat
    BY <1>1, SMT
  <2>4. QED BY <2>1, <2>2, <2>3
<1>4. AskAverage(y, side) > 0
  <2>1. CASE Span(side) = 0
    <3>1. side.low \in Nat \ {0}
      BY <1>1, <2>1
    <3>2. 2 * side.low * side.cap > 0
      BY <1>1, <3>1, SMT
    <3> HIDE DEF r
    <3>3. QED BY <1>2, <1>3, <3>2
  <2>2. CASE Span(side) # 0
    <3>1. r > 0
      BY <1>1, <1>3, <2>2, SMT
    <3> HIDE DEF r
    <3>2. QED BY <1>2, <1>3, <3>1
  <2>3. QED BY <2>1, <2>2
<1>5. AskAverage(y, side) \in Nat \ {0}
  <2> HIDE DEF r
  <2> QED BY <1>2, <1>3, <1>4
<1>6. y * AskAverage(y, side) > 0
  BY <1>5, SMT
<1>7. AskCost(y, side, s) \in Nat
  BY AskCharges
<1>8. AskCost(y, side, s) <= 0 => y * AskAverage(y, side) <= 0 * (2 * side.cap * s)
  BY AskCharges
<1>9. 0 * (2 * side.cap * s) = 0
  <2>1. 2 * side.cap * s \in Int
    BY <1>1, SMT
  <2>2. QED BY <2>1
<1>10. QED
  <2>1. y * AskAverage(y, side) \in Nat
    BY <1>5, ProductIsNat
  <2>2. QED BY <1>6, <1>7, <1>8, <1>9, <2>1

(* The quotes, as what a caller may conclude from them. *)
LEMMA QuotedOut ==
    ASSUME NEW p, NEW bid, NEW x, QuoteOut(p, bid, x) > 0
    PROVE  /\ Live(p) /\ Left(p, bid) > 0 /\ x <= MaxAmountIn(p, bid)
           /\ QuoteOut(p, bid, x) = IF bid THEN AmountOutBid(x, SideOf(p, bid), Scale)
                                           ELSE AmountOutAsk(x, SideOf(p, bid), Scale)
           /\ ~Breaches(p, bid, QuoteOut(p, bid, x))
<1> DEFINE out == IF bid THEN AmountOutBid(x, SideOf(p, bid), Scale)
                         ELSE AmountOutAsk(x, SideOf(p, bid), Scale)
           ok  == Live(p) /\ Left(p, bid) > 0 /\ x <= MaxAmountIn(p, bid) /\ ~Breaches(p, bid, out)
           q   == QuoteOut(p, bid, x)
<1>1. q = IF ok THEN out ELSE 0
  BY DEF QuoteOut
<1>2. ok => Live(p) /\ Left(p, bid) > 0 /\ x <= MaxAmountIn(p, bid) /\ ~Breaches(p, bid, out)
  OBVIOUS
<1>3. q > 0
  OBVIOUS
<1> HIDE DEF ok, q, out
<1>4. ok /\ q = out
  BY <1>1, <1>3
<1>5. Live(p) /\ Left(p, bid) > 0 /\ x <= MaxAmountIn(p, bid) /\ ~Breaches(p, bid, q) /\ q = out
  BY <1>2, <1>4
<1>6. QED BY <1>5 DEF q, out

LEMMA QuoteOutIs ==
    ASSUME NEW p, NEW bid, NEW x, NEW y, Live(p), Left(p, bid) > 0, x <= MaxAmountIn(p, bid),
           y = IF bid THEN AmountOutBid(x, SideOf(p, bid), Scale)
                      ELSE AmountOutAsk(x, SideOf(p, bid), Scale),
           ~Breaches(p, bid, y)
    PROVE  QuoteOut(p, bid, x) = y
BY Zenon DEF QuoteOut

LEMMA QuoteInIs ==
    ASSUME NEW p, NEW bid, NEW y, Live(p), y > 0, ~Breaches(p, bid, y), Left(p, bid) > 0,
           y <= MaxOut(p, bid)
    PROVE  QuoteIn(p, bid, y) = IF bid THEN AmountInBid(y, SideOf(p, bid), Scale)
                                       ELSE AmountInAsk(y, SideOf(p, bid), Scale)
BY Zenon DEF QuoteIn

(* A bid: the least input that buys y is no more than the input that was      *)
(* quoted, so it is within what is taken, and buys no more than was quoted. *)
LEMMA BidReachable ==
    ASSUME TInv, NEW p, NEW x \in Nat \ {0}, QuoteOut(p, TRUE, x) > 0
    PROVE  LET y == QuoteOut(p, TRUE, x)
           IN  QuoteIn(p, TRUE, y) > 0 /\ QuoteOut(p, TRUE, QuoteIn(p, TRUE, y)) >= y
<1> DEFINE side == SideOf(p, TRUE)
           l    == Left(p, TRUE)
           y    == QuoteOut(p, TRUE, x)
           back == AmountInBid(y, side, Scale)
<1>1. Live(p) /\ l > 0 /\ x <= l /\ y = BidGross(x, side, Scale) /\ ~Breaches(p, TRUE, y)
  BY QuotedOut DEF MaxAmountIn, AmountOutBid
<1>2. IsSide(side) /\ l \in 1 .. Room(side)
  BY <1>1, LiveBid
<1>3. Scale \in Nat \ {0} /\ Room(side) \in Nat
  <2> HIDE DEF side, l
  <2>1. Room(side) \in Nat
    BY <1>2 DEF Room, IsSide
  <2>2. QED BY <2>1, PoolAssumption DEF PoolAssumption
<1>4. y > 0
  OBVIOUS
<1> HIDE DEF side, l
<1>5. x \in 1 .. Room(side) /\ l \in Nat /\ x <= Room(side) /\ l <= Room(side)
  BY <1>1, <1>2, <1>3
<1>6. y \in Nat /\ y <= BidGross(l, side, Scale)
  BY <1>1, <1>2, <1>3, <1>5, BidGrows
<1> HIDE DEF y
<1>7. QuoteIn(p, TRUE, y) = back
  BY <1>1, <1>4, <1>6, QuoteInIs DEF MaxOut, side, l
<1>8. back \in 1 .. Room(side) /\ y <= BidGross(back, side, Scale) /\ back <= x
  BY <1>1, <1>2, <1>3, <1>5, <1>6, AmountInBidIs
<1> HIDE DEF back
<1>9. back \in Nat /\ back > 0 /\ back <= l
  BY <1>1, <1>5, <1>8
<1>10. BidGross(back, side, Scale) \in Nat /\ BidGross(back, side, Scale) <= y
  BY <1>1, <1>2, <1>3, <1>5, <1>8, <1>9, BidGrows
<1>11. y = BidGross(back, side, Scale)
  BY <1>6, <1>8, <1>10
<1>12. QuoteOut(p, TRUE, back) = y
  BY <1>1, <1>9, <1>11, QuoteOutIs DEF MaxAmountIn, AmountOutBid, side, l
<1>13. QuoteIn(p, TRUE, y) > 0 /\ QuoteOut(p, TRUE, QuoteIn(p, TRUE, y)) >= y
  <2>1. QuoteOut(p, TRUE, QuoteIn(p, TRUE, y)) = y
    BY <1>7, <1>12, Zenon
  <2> DEFINE again == QuoteOut(p, TRUE, QuoteIn(p, TRUE, y))
             in    == QuoteIn(p, TRUE, y)
  <2>2. again = y /\ in = back /\ back > 0 /\ y \in Nat
    BY <1>6, <1>7, <1>9, <2>1
  <2> HIDE DEF again, in
  <2>3. in > 0 /\ again >= y
    BY <2>2
  <2>4. QED BY <2>3 DEF again, in
<1>14. QED BY <1>13 DEF y

(* An ask: what was quoted fits what is left, part of the epoch decayed or    *)
(* not; its cost is no more than what was offered and buys as much.         *)
LEMMA AskReachable ==
    ASSUME TInv, NEW p, NEW x \in Nat \ {0}, QuoteOut(p, FALSE, x) > 0
    PROVE  LET y == QuoteOut(p, FALSE, x)
           IN  QuoteIn(p, FALSE, y) > 0 /\ QuoteOut(p, FALSE, QuoteIn(p, FALSE, y)) >= y
<1> DEFINE side == SideOf(p, FALSE)
           l    == Left(p, FALSE)
           y    == QuoteOut(p, FALSE, x)
           back == AskCost(y, side, Scale)
           out  == AmountOutAsk(back, side, Scale)
<1>1. /\ Live(p) /\ l > 0 /\ x <= MaxAmountIn(p, FALSE)
      /\ y = AmountOutAsk(x, side, Scale) /\ ~Breaches(p, FALSE, y)
  BY QuotedOut
<1>2. /\ IsSide(side) /\ l \in 1 .. Room(side) /\ Room(side) = cap[p].ask - Used(p, FALSE)
  BY <1>1, LiveAsk
<1>3. Scale \in Nat \ {0} /\ Room(side) \in Nat
  <2> HIDE DEF side, l
  <2>1. Room(side) \in Nat
    BY <1>2 DEF Room, IsSide
  <2>2. QED BY <2>1, PoolAssumption DEF PoolAssumption
<1>4. y > 0
  OBVIOUS
<1>5. side.high > 0
  <2>1. p \in Listed /\ ladder[p] # NoLadder /\ Words(p)
    BY <1>1, WordTypes
  <2>2. ValidLadder(ladder[p], config[p].minPrice)
    BY <2>1 DEF TInv, WordsOK, StoredLadderValid
  <2>3. ladder[p].maxAsk > 0
    BY <2>1, <2>2 DEF ValidLadder, Words
  <2>4. side.high = ladder[p].maxAsk
    BY DEF SideOf
  <2>5. QED BY <2>3, <2>4
<1> HIDE DEF side, l
<1>6. y \in 0 .. Room(side) /\ back <= x
  BY <1>1, <1>2, <1>3, AmountOutAskIs
<1> HIDE DEF y
<1>7. y \in Nat \ {0} /\ y <= Room(side) /\ l \in Nat /\ l <= Room(side)
  <2> HIDE DEF back
  <2>1. y \in Nat /\ y <= Room(side)
    BY <1>3, <1>6
  <2>2. l \in 1 .. Room(side)
    BY <1>2
  <2>3. l \in Nat /\ l <= Room(side)
    BY <1>3, <2>2
  <2>4. QED BY <1>4, <2>1, <2>3
<1>8. back \in Nat /\ back > 0
  BY <1>2, <1>3, <1>5, <1>7, AskIsNotFree, AskCharges
<1>9. y <= l
  <2>1. CASE Available(p, FALSE) = cap[p].ask
    <3>1. l = Room(side)
      BY <1>2, <2>1 DEF Left, l
    <3>2. QED BY <1>7, <3>1
  <2>2. CASE Available(p, FALSE) # cap[p].ask
    <3>1. MaxAmountIn(p, FALSE) = AskCost(l + 1, side, Scale) - 1
      BY <2>2, Zenon DEF MaxAmountIn, l, side
    <3>2. SUFFICES ASSUME l + 1 <= y PROVE FALSE
      BY <1>7
    <3>3. l + 1 \in Nat
      BY <1>7
    <3>4. AskCost(l + 1, side, Scale) \in Nat /\ AskCost(l + 1, side, Scale) <= back
      BY <1>2, <1>3, <1>7, <3>2, <3>3, AskGrows
    <3> DEFINE m == MaxAmountIn(p, FALSE)
               c == AskCost(l + 1, side, Scale)
    <3>5. x <= m /\ m = c - 1 /\ c \in Nat /\ c <= back /\ back <= x /\ back \in Nat
      BY <1>1, <1>6, <1>8, <3>1, <3>4
    <3> HIDE DEF back, m, c
    <3>6. QED BY <3>5
  <2>3. QED BY <2>1, <2>2
<1>10. QuoteIn(p, FALSE, y) = back
  BY <1>1, <1>4, <1>9, QuoteInIs DEF MaxOut, AmountInAsk, side, l
<1>11. /\ out \in 0 .. Room(side) /\ AskCost(out, side, Scale) <= back
       /\ y <= out
  <2> HIDE DEF y
  <2>1. y \in 0 .. Room(side) /\ AskCost(y, side, Scale) <= back
    BY <1>6, <1>8
  <2>2. QED BY <1>2, <1>3, <1>8, <2>1, AmountOutAskIs
<1>12. AskCost(out, side, Scale) \in Nat
  <2>1. out \in Nat /\ out <= Room(side)
    <3> HIDE DEF out, back
    <3> QED BY <1>3, <1>11
  <2> HIDE DEF out
  <2>2. QED BY <1>2, <1>3, <2>1, AskCharges
<1>13. out <= y
  <2>1. AskCost(out, side, Scale) <= x
    <3> HIDE DEF back, out
    <3> QED BY <1>6, <1>8, <1>11, <1>12
  <2>2. out \in 0 .. Room(side)
    BY <1>11
  <2> HIDE DEF out
  <2>3. QED BY <1>1, <1>2, <1>3, <2>1, <2>2, AmountOutAskIs
<1>14. out = y
  <2> HIDE DEF out
  <2> QED BY <1>7, <1>11, <1>13
<1>15. back <= MaxAmountIn(p, FALSE)
  <2>1. MaxAmountIn(p, FALSE) \in Int
    <3>1. AskCost(l, side, Scale) \in Nat
      BY <1>2, <1>3, <1>7, AskCharges
    <3>2. CASE Available(p, FALSE) = cap[p].ask
      <4>1. MaxAmountIn(p, FALSE) = AskCost(l, side, Scale)
        BY <3>2, Zenon DEF MaxAmountIn, l, side
      <4> DEFINE c == AskCost(l, side, Scale)
                 m == MaxAmountIn(p, FALSE)
      <4>2. m = c /\ c \in Nat
        BY <3>1, <4>1
      <4> HIDE DEF c, m
      <4>3. m \in Int
        BY <4>2
      <4>4. QED BY <4>3 DEF m
    <3>3. CASE Available(p, FALSE) # cap[p].ask
      <4>1. MaxAmountIn(p, FALSE) = AskCost(l + 1, side, Scale) - 1
        BY <3>3, Zenon DEF MaxAmountIn, l, side
      <4>2. l + 1 \in Nat /\ l + 1 <= Room(side)
        <5>1. Available(p, FALSE) \in 0 .. cap[p].ask /\ cap[p].ask \in Nat /\ Used(p, FALSE) \in Nat
          BY <1>1, WordTypes, DecayedBounds DEF Available, Words, Used
        <5>2. l = Available(p, FALSE) - Used(p, FALSE)
          BY DEF l, Left
        <5> DEFINE v == Available(p, FALSE)
                   u == Used(p, FALSE)
        <5>3. /\ v \in 0 .. cap[p].ask /\ cap[p].ask \in Nat /\ u \in Nat /\ l = v - u
              /\ v # cap[p].ask /\ Room(side) = cap[p].ask - u
          BY <1>2, <3>3, <5>1, <5>2
        <5> HIDE DEF v, u
        <5>4. QED BY <1>7, <5>3
      <4>3. AskCost(l + 1, side, Scale) \in Nat
        BY <1>2, <1>3, <4>2, AskCharges
      <4> DEFINE c == AskCost(l + 1, side, Scale)
                 m == MaxAmountIn(p, FALSE)
      <4>4. m = c - 1 /\ c \in Nat
        BY <4>1, <4>3
      <4> HIDE DEF c, m
      <4>5. m \in Int
        BY <4>4
      <4>6. QED BY <4>5 DEF m
    <3>4. QED BY <3>2, <3>3
  <2> DEFINE m == MaxAmountIn(p, FALSE)
  <2>2. x <= m /\ back <= x /\ back \in Nat /\ m \in Int
    BY <1>1, <1>6, <1>8, <2>1
  <2> HIDE DEF back, m
  <2>3. back <= m
    BY <2>2
  <2>4. QED BY <2>3 DEF m
<1>16. QuoteOut(p, FALSE, back) = y
  BY <1>1, <1>14, <1>15, QuoteOutIs DEF side, l
<1>17. QuoteIn(p, FALSE, y) > 0 /\ QuoteOut(p, FALSE, QuoteIn(p, FALSE, y)) >= y
  <2>1. QuoteOut(p, FALSE, QuoteIn(p, FALSE, y)) = y
    BY <1>10, <1>16, Zenon
  <2> DEFINE again == QuoteOut(p, FALSE, QuoteIn(p, FALSE, y))
             in    == QuoteIn(p, FALSE, y)
  <2>2. again = y /\ in = back /\ back > 0 /\ y \in Nat
    BY <1>7, <1>10, <1>8, <2>1
  <2> HIDE DEF again, in
  <2>3. in > 0 /\ again >= y
    BY <2>2
  <2>4. QED BY <2>3 DEF again, in
<1>18. QED BY <1>17 DEF y

(* Whatever size a live pool quotes, the opposite quotation prices it, and the *)
(* input it names is quoted that very size again: no rounding of the two    *)
(* searches and no decay leaves a promised size out of reach                *)
(* (PropPool.t.sol 1132-1144).                                             *)
THEOREM QuotedIsReachable == Spec => []QuotedSizeReachable
<1>1. TInv => QuotedSizeReachable
  <2> SUFFICES ASSUME TInv,
                      NEW p \in Listed, NEW bid \in BOOLEAN, NEW x \in Amounts,
                      QuoteOut(p, bid, x) > 0
               PROVE  LET y == QuoteOut(p, bid, x)
                      IN  QuoteIn(p, bid, y) > 0 /\ QuoteOut(p, bid, QuoteIn(p, bid, y)) >= y
    BY DEF QuotedSizeReachable
  <2>1. x \in Nat \ {0}
    BY PoolAssumption DEF PoolAssumption
  <2>2. CASE bid = TRUE
    BY <2>1, <2>2, BidReachable
  <2>3. CASE bid = FALSE
    BY <2>1, <2>3, AskReachable
  <2>4. QED BY <2>2, <2>3
<1>2. QED BY <1>1, TInvAlways, PTL

=============================================================================
