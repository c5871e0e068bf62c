---------------------------- MODULE BesideProofs ----------------------------
(***************************************************************************)
(* What TLAPS proves of the tasks beside the quote loop: that the hedge     *)
(* leg's book is the exchange's and that it hedges a holding once, that the *)
(* notifier loses no event from its account, that the killswitches' marks   *)
(* charge nothing to a pool that nobody trades with, and that the scan of   *)
(* the pool's logs hands each swap to the markout once.                    *)
(***************************************************************************)
EXTENDS Hedge, FillWatch, Notify, NatSets, SequenceTheorems

-----------------------------------------------------------------------------
(* The hedge leg.                                                          *)

Sides     == {-1, 1}
DueOrders == [pair : Hedged, side : Sides, qty : Nat]
OutOrders == [pair : Live, side : Sides, qty : Nat, filled : Nat \cup {NoView}]

HedgeTypes ==
    /\ up \in BOOLEAN /\ passing \in BOOLEAN
    /\ pos \in [Hedged -> Int] /\ venue \in [Hedged -> Int]
    /\ due \subseteq DueOrders
    /\ order # NoOrder => /\ order \in OutOrders
                          /\ order.filled # NoView => order.filled <= order.qty

(* No holding the leg can have read is larger than the one there was to begin *)
(* with and what fills added.                                              *)
HoldingsBounded ==
    /\ fills \in Nat
    /\ base \in [Pairs -> Nat] /\ \A p \in Pairs : base[p] <= InitBase + fills
    /\ view # NoView => /\ view.base \in [Pairs -> Nat]
                        /\ \A p \in Pairs : view.base[p] <= InitBase + fills

(* Orders exist inside a pass, one per pair: due, or at the exchange. *)
OnePerPair ==
    /\ ~up => ~passing /\ published = NoView
    /\ order # NoOrder \/ due # {} => passing
    /\ \A o, d \in due : o.pair = d.pair => o = d
    /\ order # NoOrder => \A o \in due : o.pair # order.pair

(* What an order at the exchange may still do to its pair's position. *)
Out(p)   == order # NoOrder /\ order.pair = p
Executed == IF order.filled # NoView THEN order.filled ELSE 0
Rest(p)  == IF Out(p) THEN order.side * (order.qty - Executed) ELSE 0

BookTrue ==
    up => \A p \in Believed : /\ pos[p] = venue[p] + Rest(p)
                              /\ ~passing /\ published # NoView => published[p] = venue[p]

(* A position that offsets a holding there can have been. *)
Offsets(v) == v <= 0 /\ (v < 0 => v >= Width - InitBase - fills)

(* Wherever the orders decided on leave a position, it offsets. *)
OffsetsAll ==
    \A p \in Believed :
        /\ Offsets(venue[p]) /\ Offsets(venue[p] + Rest(p))
        /\ \A o \in due : o.pair = p => Offsets(venue[p] + o.side * o.qty)

HedgeInv == HedgeTypes /\ HoldingsBounded /\ OnePerPair /\ BookTrue /\ OffsetsAll

LEMMA HedgeConstants ==
    /\ Width \in Nat /\ InitBase \in Nat /\ OrderMax \in Nat /\ Lot \in Nat \ {0}
    /\ Live \subseteq Hedged /\ Hedged \subseteq Pairs /\ Live \cap Paper = {}
    /\ NoView \notin Nat /\ NoOrder \notin OutOrders
<1>1. Carry \in Nat /\ OrderMax \in Nat /\ Lot \in Nat \ {0} /\ InitBase \in Nat
  BY HedgeAssumption, MarksAssumption DEF HedgeAssumption, MarksAssumption
<1> DEFINE c == Carry * 1732
<1>2. c \in Nat
  BY <1>1
<1> HIDE DEF c
<1>3. c \div 1000 \in Nat
  BY <1>2
<1>4. Width \in Nat
  BY <1>3 DEF Width, c
<1>5. QED
  BY <1>1, <1>4, HedgeAssumption DEF HedgeAssumption, Hedged, OutOrders, Sides

(* A side is a sign. *)
LEMMA SideSigns ==
    ASSUME NEW s \in Sides, NEW x \in Int
    PROVE  s * x \in Int /\ (s = 1 => s * x = x) /\ (s = -1 => s * x = -x)
<1>1. CASE s = 1
  BY <1>1
<1>2. CASE s = -1
  BY <1>2
<1>3. QED BY <1>1, <1>2 DEF Sides

(* What executes of an order is whole lots, and no more than was asked for. *)
LEMMA LotsBounded ==
    ASSUME NEW q \in Nat, NEW k \in Fills(Lots(q))
    PROVE  k \in Nat /\ k <= q
<1> DEFINE d == q \div Lot
<1>1. Lot \in Nat \ {0}
  BY HedgeConstants
<1>2. d \in Int /\ Lot * d <= q
  BY <1>1, Quotient
<1> HIDE DEF d
<1>3. Lots(q) = Lot * d
  BY <1>1, <1>2 DEF Lots, d
<1>4. Lots(q) \in Int /\ Lots(q) <= q
  BY <1>1, <1>2, <1>3
<1>5. k \in 0 .. Lots(q)
  BY DEF Fills
<1>6. QED BY <1>4, <1>5

(* What lies between two offsetting positions offsets. *)
LEMMA OffsetsBetween ==
    ASSUME NEW a \in Int, NEW b \in Int, NEW c \in Int, fills \in Nat,
           Offsets(a), Offsets(b), (a <= c /\ c <= b) \/ (b <= c /\ c <= a)
    PROVE  Offsets(c)
BY HedgeConstants DEF Offsets

(* Part of an order leaves the position between where it was and where the    *)
(* whole order takes it.                                                   *)
LEMMA PartOffsets ==
    ASSUME NEW v \in Int, NEW s \in Sides, NEW q \in Nat, NEW k \in Nat, k <= q, fills \in Nat,
           Offsets(v), Offsets(v + s * q)
    PROVE  Offsets(v + s * k)
<1>1. CASE s = 1
  <2>1. s * q = q /\ s * k = k
    BY <1>1, SideSigns
  <2>2. QED BY <2>1, OffsetsBetween
<1>2. CASE s = -1
  <2>1. s * q = -q /\ s * k = -k
    BY <1>2, SideSigns
  <2>2. v + s * q <= v + s * k /\ v + s * k <= v
    BY <2>1
  <2>3. v + s * q \in Int /\ v + s * k \in Int
    BY <2>1
  <2> HIDE DEF Offsets
  <2>4. QED BY <2>2, <2>3, OffsetsBetween
<1>3. QED BY <1>1, <1>2 DEF Sides

(* An order that a pass decides on takes an offsetting position no further    *)
(* than flat, and no further than the band from the holding.                *)
LEMMA OrderOffsets ==
    ASSUME HedgeInv, NEW p \in Hedged, view # NoView, Crosses(p)
    PROVE  /\ OrderFor(p) \in DueOrders /\ OrderFor(p).pair = p
           /\ Offsets(pos[p]) => Offsets(pos[p] + OrderFor(p).side * OrderFor(p).qty)
<1> DEFINE d == Deviation(p)
           q == Clip(Past(p))
           s == IF d > 0 THEN -1 ELSE 1
<1>1. d \in Int /\ d = view.base[p] + pos[p] /\ view.base[p] \in Nat /\ pos[p] \in Int
      /\ view.base[p] <= InitBase + fills /\ fills \in Nat
  BY HedgeConstants DEF HedgeInv, HoldingsBounded, HedgeTypes, Deviation
<1> HIDE DEF d
<1>2. Exposure(p) = IF d >= -d THEN d ELSE -d
  BY <1>1, LargerOfTwo DEF Exposure, d
<1>3. Past(p) = IF 0 >= Exposure(p) - Width THEN 0 ELSE Exposure(p) - Width
  <2>1. Exposure(p) \in Int
    BY <1>1, <1>2
  <2>2. QED BY <2>1, HedgeConstants, LargerOfTwo DEF Past
<1>4. Past(p) > 0
  BY DEF Crosses
<1>5. Past(p) \in Nat /\ Past(p) = Exposure(p) - Width
  BY <1>1, <1>2, <1>3, <1>4, HedgeConstants
<1>6. q \in Nat /\ q <= Past(p)
  <2>1. CASE OrderMax > 0
    <3>1. Min({Past(p), OrderMax}) = IF Past(p) <= OrderMax THEN Past(p) ELSE OrderMax
      BY <1>5, HedgeConstants, SmallerOfTwo
    <3>2. QED BY <2>1, <3>1, <1>5, HedgeConstants DEF Clip
  <2>2. CASE ~(OrderMax > 0)
    BY <2>2, <1>5 DEF Clip
  <2>3. QED BY <2>1, <2>2
<1>7. OrderFor(p) = [pair |-> p, side |-> s, qty |-> q]
  BY DEF OrderFor, d
<1>8. s \in Sides
  BY DEF Sides
<1>9. Offsets(pos[p]) => Offsets(pos[p] + s * q)
  <2> HIDE DEF q
  <2>1. CASE d > 0
    <3>1. s * q = -q
      BY <2>1, <1>6
    <3>2. q <= d - Width
      BY <2>1, <1>1, <1>2, <1>5, <1>6, HedgeConstants
    <3> HIDE DEF s
    <3>3. QED BY <3>1, <3>2, <1>1, <1>6, HedgeConstants DEF Offsets
  <2>2. CASE ~(d > 0)
    <3>1. s * q = q
      BY <2>2, <1>6
    <3>2. q <= -d - Width
      BY <2>2, <1>1, <1>2, <1>5, <1>6, HedgeConstants
    <3> HIDE DEF s
    <3>3. QED BY <3>1, <3>2, <1>1, <1>6, HedgeConstants DEF Offsets
  <2>3. QED BY <2>1, <2>2
<1>10. QED BY <1>6, <1>7, <1>8, <1>9 DEF DueOrders

(* What an order leaves open is a whole number of units. *)
LEMMA RestTyped ==
    ASSUME HedgeTypes, NEW p \in Live
    PROVE  /\ pos[p] \in Int /\ venue[p] \in Int /\ Rest(p) \in Int
           /\ venue[p] + Rest(p) \in Int
           /\ ~Out(p) => Rest(p) = 0
           /\ Out(p) => Executed \in Nat /\ order.qty \in Nat /\ order.side \in Sides
<1>1. p \in Hedged
  BY HedgeConstants
<1>2. pos[p] \in Int /\ venue[p] \in Int
  BY <1>1 DEF HedgeTypes
<1>3. CASE ~Out(p)
  BY <1>2, <1>3 DEF Rest
<1>4. CASE Out(p)
  <2>1. order \in OutOrders
    BY <1>4 DEF Out, HedgeTypes
  <2>2. order.qty \in Nat /\ order.side \in Sides /\ Executed \in Nat
    BY <2>1 DEF OutOrders, Executed
  <2>3. order.side * (order.qty - Executed) \in Int
    BY <2>2, SideSigns
  <2>4. QED BY <1>2, <1>4, <2>2, <2>3 DEF Rest
<1>5. QED BY <1>3, <1>4

(* The pool is traded: holdings grow no faster than fills, and nothing of the *)
(* leg moves.                                                              *)
LEMMA TradedKeeps ==
    ASSUME HedgeInv, Traded
    PROVE  HedgeInv'
<1>1. UNCHANGED <<leg, up>> /\ (Read \/ \E p \in Pairs, d \in {-1, 1} : \E c : Fill(p, d, c))
  BY DEF Traded, Read, Fill, leg, task, world
<1> USE DEF HedgeInv
<1>2. HedgeTypes' /\ OnePerPair'
  <2>1. UNCHANGED <<pos, venue, due, order, passing, up, published>>
    BY <1>1 DEF leg, task
  <2>2. QED BY <2>1 DEF HedgeTypes, OnePerPair
<1>3. HoldingsBounded' /\ fills' \in Nat /\ fills <= fills'
  <2>1. CASE Read
    <3>1. UNCHANGED <<fills, base>> /\ view' = [quote |-> quote, base |-> base]
      BY <2>1 DEF Read, world
    <3>2. QED BY <3>1 DEF HoldingsBounded
  <2>2. ASSUME NEW p \in Pairs, NEW d \in {-1, 1}, NEW c, Fill(p, d, c)
        PROVE  HoldingsBounded' /\ fills' \in Nat /\ fills <= fills'
    <3>1. fills' = fills + 1 /\ UNCHANGED view
          /\ base[p] + d >= 0 /\ base' = [base EXCEPT ![p] = base[p] + d]
      BY <2>2 DEF Fill
    <3>2. base \in [Pairs -> Nat] /\ base[p] \in Nat /\ base[p] + d \in Nat
      BY <3>1 DEF HoldingsBounded
    <3>3. base' \in [Pairs -> Nat]
      BY <3>1, <3>2
    <3>4. \A r \in Pairs : base'[r] <= InitBase + fills'
      BY <3>1, <3>2, HedgeConstants DEF HoldingsBounded
    <3>5. view' # NoView => /\ view'.base \in [Pairs -> Nat]
                            /\ \A r \in Pairs : view'.base[r] <= InitBase + fills'
      BY <3>1, HedgeConstants DEF HoldingsBounded
    <3>6. QED BY <3>1, <3>3, <3>4, <3>5 DEF HoldingsBounded
  <2>3. QED BY <1>1, <2>1, <2>2
<1>4. UNCHANGED <<pos, venue, due, order, passing, up, published, misled>>
  BY <1>1 DEF leg, task
<1>5. BookTrue'
  <2>1. \A p : Rest(p)' = Rest(p)
    BY <1>4 DEF Rest, Out, Executed
  <2>2. Believed' = Believed
    BY <1>4 DEF Believed
  <2>3. QED BY <1>4, <2>1, <2>2 DEF BookTrue
<1>6. OffsetsAll'
  <2>1. \A p : Rest(p)' = Rest(p)
    BY <1>4 DEF Rest, Out, Executed
  <2>2. Believed' = Believed
    BY <1>4 DEF Believed
  <2>3. ASSUME NEW v \in Int, Offsets(v)
        PROVE  v <= 0 /\ (v < 0 => v >= Width - InitBase - fills')
    <3>1. fills \in Nat
      BY DEF HoldingsBounded
    <3>2. PICK n \in Nat : fills' = n /\ fills <= n
      BY <1>3
    <3>3. v <= 0 /\ (v < 0 => v >= Width - InitBase - n)
      BY <2>3, <3>1, <3>2, HedgeConstants DEF Offsets
    <3>4. QED BY <3>2, <3>3
  <2>4. SUFFICES ASSUME NEW p \in Believed
        PROVE  /\ Offsets(venue[p])' /\ Offsets(venue[p] + Rest(p))'
               /\ \A o \in due : o.pair = p => Offsets(venue[p] + o.side * o.qty)'
    BY <1>4, <2>2 DEF OffsetsAll
  <2>5. venue[p] \in Int /\ venue[p] + Rest(p) \in Int
    BY RestTyped DEF Believed
  <2>6. ASSUME NEW o \in due, o.pair = p
        PROVE  Offsets(venue[p] + o.side * o.qty)'
    <3>1. o.side * o.qty \in Int
      BY SideSigns DEF HedgeTypes, DueOrders
    <3>2. venue[p] + o.side * o.qty \in Int
      BY <2>5, <3>1
    <3>3. Offsets(venue[p] + o.side * o.qty)
      BY <2>6 DEF OffsetsAll
    <3>4. QED BY <2>3, <3>2, <3>3, <1>4 DEF Offsets
  <2>7. Offsets(venue[p]) /\ Offsets(venue[p] + Rest(p))
    BY DEF OffsetsAll
  <2>8. QED BY <2>1, <2>3, <2>5, <2>6, <2>7, <1>4 DEF Offsets
<1>7. QED BY <1>2, <1>3, <1>5, <1>6

(* What the leg does not touch of the holdings stays within bounds, and so do *)
(* the positions that offset them.                                         *)
LEMMA SameHoldings ==
    ASSUME HoldingsBounded, UNCHANGED <<base, fills, view>>
    PROVE  HoldingsBounded' /\ \A v : Offsets(v)' = Offsets(v)
BY DEF HoldingsBounded, Offsets

(* A cool-off or nothing: the invariant does not speak of it. *)
LEMMA IdleKeeps ==
    ASSUME HedgeInv, HedgeTick \/ UNCHANGED <<vars, leg>>
    PROVE  HedgeInv'
<1>1. UNCHANGED <<up, base, fills, view, pos, passing, due, order, published, venue, misled>>
  BY DEF HedgeTick, vars, world, leg, task
<1>2. \A p : Rest(p)' = Rest(p)
  BY <1>1 DEF Rest, Out, Executed
<1>3. HedgeTypes' /\ OnePerPair'
  BY <1>1 DEF HedgeInv, HedgeTypes, OnePerPair
<1>4. HoldingsBounded' /\ \A v : Offsets(v)' = Offsets(v)
  BY <1>1, SameHoldings DEF HedgeInv
<1>5. BookTrue'
  BY <1>1, <1>2 DEF HedgeInv, BookTrue, Believed
<1>6. OffsetsAll'
  BY <1>1, <1>2 DEF HedgeInv, OffsetsAll, Believed, Offsets
<1>7. QED BY <1>3, <1>4, <1>5, <1>6 DEF HedgeInv

(* Before a pass nothing is under way. *)
LEMMA Quiet ==
    ASSUME HedgeInv, ~passing
    PROVE  order = NoOrder /\ due = {} /\ \A p : Rest(p) = 0
<1>1. order = NoOrder /\ due = {}
  BY DEF HedgeInv, OnePerPair
<1>2. QED BY <1>1 DEF Rest, Out

(* A pass decides on at most one order per pair, and each offsets. *)
LEMMA PassKeeps ==
    ASSUME HedgeInv, Pass
    PROVE  HedgeInv'
<1>1. /\ up /\ view # NoView /\ ~passing /\ passing'
      /\ due' = {OrderFor(p) : p \in {q \in Hedged : Crosses(q)}}
      /\ UNCHANGED <<up, base, fills, view, pos, order, published, venue, misled>>
  BY DEF Pass, vars, world
<1>2. order = NoOrder /\ due = {} /\ \A p : Rest(p) = 0
  BY <1>1, Quiet
<1>3. \A p : Rest(p)' = 0
  BY <1>1, <1>2 DEF Rest, Out
<1>4. \A o \in due' : o \in DueOrders /\ o.pair \in Hedged
                      /\ Crosses(o.pair) /\ o = OrderFor(o.pair)
  BY <1>1, OrderOffsets
<1>5. HoldingsBounded' /\ \A v : Offsets(v)' = Offsets(v)
  BY <1>1, SameHoldings DEF HedgeInv
<1>6. HedgeTypes' /\ passing' \in BOOLEAN
  <2>1. passing' = TRUE
    BY DEF Pass
  <2>2. due' \subseteq DueOrders
    BY <1>4
  <2>3. QED BY <1>1, <1>2, <2>1, <2>2 DEF HedgeInv, HedgeTypes
<1>7. OnePerPair'
  <2>1. \A o, d \in due' : o.pair = d.pair => o = d
    BY <1>4
  <2>2. QED BY <1>1, <1>2, <2>1 DEF HedgeInv, OnePerPair
<1>8. BookTrue'
  BY <1>1, <1>2, <1>3 DEF HedgeInv, BookTrue, Believed
<1>9. OffsetsAll'
  <2>1. SUFFICES ASSUME NEW p \in Believed
        PROVE  /\ Offsets(venue[p]) /\ Offsets(venue[p] + 0)
               /\ \A o \in due' : o.pair = p => Offsets(venue[p] + o.side * o.qty)
    BY <1>1, <1>3 DEF OffsetsAll, Offsets, Believed
  <2>2. pos[p] = venue[p] /\ venue[p] \in Int
    BY <1>1, <1>2, RestTyped DEF HedgeInv, BookTrue, Believed
  <2>3. Offsets(venue[p]) /\ Offsets(venue[p] + 0)
    BY <1>2 DEF HedgeInv, OffsetsAll
  <2>4. ASSUME NEW o \in due', o.pair = p
        PROVE  Offsets(venue[p] + o.side * o.qty)
    BY <1>1, <1>4, <2>2, <2>3, <2>4, OrderOffsets
  <2>5. QED BY <2>3, <2>4
<1>10. QED BY <1>5, <1>6, <1>7, <1>8, <1>9 DEF HedgeInv

(* An order is dropped before it leaves. *)
LEMMA SkipKeeps ==
    ASSUME HedgeInv, NEW o \in due, Skip(o)
    PROVE  HedgeInv'
<1>1. /\ due' = due \ {o}
      /\ UNCHANGED <<up, base, fills, view, pos, order, published, venue, misled, passing>>
  BY DEF Skip, vars, world
<1>2. \A p : Rest(p)' = Rest(p)
  BY <1>1 DEF Rest, Out, Executed
<1>3. HedgeTypes' /\ OnePerPair'
  BY <1>1 DEF HedgeInv, HedgeTypes, OnePerPair
<1>4. HoldingsBounded' /\ \A v : Offsets(v)' = Offsets(v)
  BY <1>1, SameHoldings DEF HedgeInv
<1>5. BookTrue'
  BY <1>1, <1>2 DEF HedgeInv, BookTrue, Believed
<1>6. OffsetsAll'
  BY <1>1, <1>2 DEF HedgeInv, OffsetsAll, Believed, Offsets
<1>7. QED BY <1>3, <1>4, <1>5, <1>6 DEF HedgeInv

(* An order leaves: the position takes all of it, and its rest is all of it. *)
LEMMA SendKeeps ==
    ASSUME HedgeInv, NEW o \in due, Send(o)
    PROVE  HedgeInv'
<1>1. /\ up /\ order = NoOrder /\ o.pair \in Live
      /\ due' = due \ {o} /\ order' = Sent(o)
      /\ pos' = [pos EXCEPT ![o.pair] = pos[o.pair] + o.side * o.qty]
      /\ UNCHANGED <<up, base, fills, view, published, venue, misled, passing>>
  BY DEF Send, vars, world
<1>2. passing
  BY DEF HedgeInv, OnePerPair
<1>3. o \in DueOrders /\ o.qty \in Nat /\ o.side \in Sides /\ o.side * o.qty \in Int
      /\ o.pair \in Hedged
  <2>1. o \in DueOrders
    BY DEF HedgeInv, HedgeTypes
  <2>2. QED BY <2>1, SideSigns DEF DueOrders
<1>4. order' = [pair |-> o.pair, side |-> o.side, qty |-> o.qty, filled |-> NoView]
      /\ order' \in OutOrders /\ order' # NoOrder
  <2>1. order' = [pair |-> o.pair, side |-> o.side, qty |-> o.qty, filled |-> NoView]
    BY <1>1 DEF Sent
  <2>2. order' \in OutOrders
    BY <2>1, <1>1, <1>3 DEF OutOrders
  <2>3. QED BY <2>1, <2>2, HedgeConstants
<1>5. \A p \in Live : Rest(p) = 0 /\ Rest(p)' = IF p = o.pair THEN o.side * o.qty ELSE 0
  <2>1. \A p \in Live : Rest(p) = 0
    BY <1>1 DEF Rest, Out
  <2>2. ASSUME NEW p \in Live, p # o.pair
        PROVE  Rest(p)' = 0
    BY <1>4, <2>2 DEF Rest, Out
  <2>3. Rest(o.pair)' = o.side * (o.qty - 0)
    BY <1>4 DEF Rest, Out, Executed
  <2>4. o.side * (o.qty - 0) = o.side * o.qty
    BY <1>3
  <2>5. QED BY <2>1, <2>2, <2>3, <2>4
<1>6. HedgeTypes'
  <2>1. pos' \in [Hedged -> Int]
    BY <1>1, <1>3 DEF HedgeInv, HedgeTypes
  <2>2. order'.filled = NoView
    BY <1>4
  <2>3. QED BY <1>1, <1>4, <2>1, <2>2 DEF HedgeInv, HedgeTypes
<1>7. HoldingsBounded' /\ \A v : Offsets(v)' = Offsets(v)
  BY <1>1, SameHoldings DEF HedgeInv
<1>8. OnePerPair'
  BY <1>1, <1>2, <1>4 DEF HedgeInv, OnePerPair
<1>9. BookTrue'
  <2>1. SUFFICES ASSUME NEW p \in Believed
        PROVE  pos'[p] = venue[p] + Rest(p)'
    BY <1>1, <1>2 DEF BookTrue, Believed
  <2>2. p \in Live /\ p \in Hedged /\ pos[p] = venue[p] + 0 /\ venue[p] \in Int
    BY <1>1, <1>5, HedgeConstants, RestTyped DEF HedgeInv, BookTrue, Believed
  <2>3. pos'[p] = IF p = o.pair THEN pos[p] + o.side * o.qty ELSE pos[p]
    BY <1>1, <2>2 DEF HedgeInv, HedgeTypes
  <2>4. QED BY <1>3, <1>5, <2>2, <2>3
<1>10. OffsetsAll'
  <2>1. SUFFICES ASSUME NEW p \in Believed
        PROVE  /\ Offsets(venue[p]) /\ Offsets(venue[p] + Rest(p)')
               /\ \A x \in due' : x.pair = p => Offsets(venue[p] + x.side * x.qty)
    BY <1>1 DEF OffsetsAll, Offsets, Believed
  <2>2. p \in Live /\ Rest(p) = 0
    BY <1>5 DEF Believed
  <2>3. Offsets(venue[p]) /\ Offsets(venue[p] + 0)
    BY <2>2 DEF HedgeInv, OffsetsAll
  <2>4. p = o.pair => Offsets(venue[p] + o.side * o.qty)
    BY DEF HedgeInv, OffsetsAll
  <2>5. \A x \in due' : x.pair = p => Offsets(venue[p] + x.side * x.qty)
    BY <1>1 DEF HedgeInv, OffsetsAll
  <2>6. QED BY <1>5, <2>2, <2>3, <2>4, <2>5
<1>11. QED BY <1>6, <1>7, <1>8, <1>9, <1>10 DEF HedgeInv

(* The paper book is not the exchange's. *)
LEMMA WriteKeeps ==
    ASSUME HedgeInv, NEW o \in due, Write(o)
    PROVE  HedgeInv'
<1>1. /\ o.pair \in Paper /\ due' = due \ {o} /\ order = NoOrder
      /\ UNCHANGED <<up, base, fills, view, published, misled, passing, order>>
  BY DEF Write, vars, world
<1>2. o \in DueOrders /\ o.qty \in Nat /\ o.side \in Sides /\ o.pair \in Hedged
      /\ o.side * o.qty \in Int /\ o.side * Lots(o.qty) \in Int
  <2>1. o \in DueOrders
    BY DEF HedgeInv, HedgeTypes
  <2>2. Lots(o.qty) \in Int
    <3>1. o.qty \in Nat
      BY <2>1 DEF DueOrders
    <3> DEFINE d == o.qty \div Lot
    <3>2. d \in Int /\ Lot \in Nat
      BY <3>1, HedgeConstants, Quotient
    <3> HIDE DEF d
    <3>3. Lots(o.qty) = d * Lot
      BY DEF Lots, d
    <3>4. QED BY <3>2, <3>3
  <2>3. QED BY <2>1, <2>2, SideSigns DEF DueOrders
<1>3. pos' \in [Hedged -> Int] /\ venue' \in [Hedged -> Int]
      /\ \A p \in Live : pos'[p] = pos[p] /\ venue'[p] = venue[p]
  <2>1. CASE UNCHANGED <<pos, venue>>
    BY <2>1 DEF HedgeInv, HedgeTypes
  <2>2. CASE /\ pos' = [pos EXCEPT ![o.pair] = @ + o.side * o.qty]
             /\ venue' = [venue EXCEPT ![o.pair] = @ + o.side * Lots(o.qty)]
    <3>1. \A p \in Live : p # o.pair /\ p \in Hedged
      BY <1>1, HedgeConstants
    <3>2. QED BY <1>2, <2>2, <3>1 DEF HedgeInv, HedgeTypes
  <2>3. QED BY <2>1, <2>2 DEF Write
<1>4. \A p : Rest(p)' = Rest(p)
  BY <1>1 DEF Rest, Out, Executed
<1>5. HedgeTypes' /\ OnePerPair'
  BY <1>1, <1>3 DEF HedgeInv, HedgeTypes, OnePerPair
<1>6. HoldingsBounded' /\ \A v : Offsets(v)' = Offsets(v)
  BY <1>1, SameHoldings DEF HedgeInv
<1>7. BookTrue'
  BY <1>1, <1>3, <1>4 DEF HedgeInv, BookTrue, Believed
<1>8. OffsetsAll'
  BY <1>1, <1>3, <1>4 DEF HedgeInv, OffsetsAll, Believed, Offsets
<1>9. QED BY <1>5, <1>6, <1>7, <1>8 DEF HedgeInv

(* What the exchange executes moves from the order's rest to its position. *)
LEMMA ExecuteKeeps ==
    ASSUME HedgeInv, Execute
    PROVE  HedgeInv'
<1>1. PICK k \in Fills(Lots(order.qty)) :
        /\ order # NoOrder /\ order.filled = NoView
        /\ order' = [order EXCEPT !.filled = k]
        /\ venue' = [venue EXCEPT ![order.pair] = venue[order.pair] + order.side * k]
        /\ UNCHANGED <<up, base, fills, view, pos, published, misled, passing, due>>
  BY DEF Execute, vars, world
<1> DEFINE o == order
<1>2. o \in OutOrders /\ o.pair \in Live /\ o.pair \in Hedged /\ o.side \in Sides /\ o.qty \in Nat
  BY <1>1, HedgeConstants DEF HedgeInv, HedgeTypes, OutOrders
<1>3. k \in Nat /\ k <= o.qty
  BY <1>2, LotsBounded
<1>4. order' = [pair |-> o.pair, side |-> o.side, qty |-> o.qty, filled |-> k]
      /\ order' \in OutOrders /\ order' # NoOrder /\ order'.filled # NoView
  <2>1. order' = [pair |-> o.pair, side |-> o.side, qty |-> o.qty, filled |-> k]
    BY <1>1, <1>2 DEF OutOrders
  <2>2. order' \in OutOrders /\ k # NoView
    BY <2>1, <1>2, <1>3, HedgeConstants DEF OutOrders
  <2>3. QED BY <2>1, <2>2, HedgeConstants
<1>5. o.side * o.qty \in Int /\ o.side * k \in Int /\ o.side * (o.qty - k) \in Int
      /\ o.side * k + o.side * (o.qty - k) = o.side * o.qty
  <2> DEFINE q == o.qty
             s == o.side
  <2>1. q \in Nat /\ s \in Sides /\ k \in Nat
    BY <1>2, <1>3
  <2> HIDE DEF q, s
  <2>2. s * q \in Int /\ s * k \in Int /\ s * (q - k) \in Int /\ s * k + s * (q - k) = s * q
    BY <2>1, SideSigns DEF Sides
  <2>3. QED BY <2>2 DEF q, s
<1>6. \A p \in Live : /\ Rest(p) = IF p = o.pair THEN o.side * o.qty ELSE 0
                      /\ Rest(p)' = IF p = o.pair THEN o.side * (o.qty - k) ELSE 0
  <2>1. ASSUME NEW p \in Live
        PROVE  Rest(p)' = IF p = o.pair THEN o.side * (o.qty - k) ELSE 0
    BY <1>4 DEF Rest, Out, Executed
  <2>2. ASSUME NEW p \in Live
        PROVE  Rest(p) = IF p = o.pair THEN o.side * (o.qty - 0) ELSE 0
    BY <1>1, <1>2 DEF Rest, Out, Executed
  <2>3. o.qty - 0 = o.qty
    BY <1>2
  <2>4. QED BY <2>1, <2>2, <2>3
<1>7. HedgeTypes'
  <2>1. venue' \in [Hedged -> Int]
    BY <1>1, <1>2, <1>5 DEF HedgeInv, HedgeTypes
  <2>2. order'.filled <= order'.qty
    BY <1>3, <1>4
  <2>3. QED BY <1>1, <1>4, <2>1, <2>2 DEF HedgeInv, HedgeTypes
<1>8. HoldingsBounded' /\ \A v : Offsets(v)' = Offsets(v)
  BY <1>1, SameHoldings DEF HedgeInv
<1>9. OnePerPair'
  BY <1>1, <1>4 DEF HedgeInv, OnePerPair
<1>10. \A p \in Live : /\ venue[p] \in Int
                       /\ venue'[p] = IF p = o.pair THEN venue[p] + o.side * k ELSE venue[p]
                       /\ venue'[p] + Rest(p)' = venue[p] + Rest(p)
  <2>1. SUFFICES ASSUME NEW p \in Live
        PROVE  /\ venue[p] \in Int
               /\ venue'[p] = IF p = o.pair THEN venue[p] + o.side * k ELSE venue[p]
               /\ venue'[p] + Rest(p)' = venue[p] + Rest(p)
    OBVIOUS
  <2>2. venue[p] \in Int /\ p \in Hedged
    BY HedgeConstants, RestTyped DEF HedgeInv
  <2>3. venue'[p] = IF p = o.pair THEN venue[p] + o.side * k ELSE venue[p]
    BY <1>1, <2>2 DEF HedgeInv, HedgeTypes
  <2>4. venue'[p] + Rest(p)' = venue[p] + Rest(p)
    <3> HIDE DEF o
    <3>1. QED BY <1>5, <1>6, <2>2, <2>3
  <2>5. QED BY <2>2, <2>3, <2>4
<1>11. BookTrue'
  <2>1. passing
    BY <1>1 DEF HedgeInv, OnePerPair
  <2>2. QED BY <1>1, <1>10, <2>1 DEF HedgeInv, BookTrue, Believed
<1>12. OffsetsAll'
  <2>1. SUFFICES ASSUME NEW p \in Believed
        PROVE  /\ Offsets(venue'[p]) /\ Offsets(venue'[p] + Rest(p)')
               /\ \A x \in due' : x.pair = p => Offsets(venue'[p] + x.side * x.qty)
    BY <1>1 DEF OffsetsAll, Offsets, Believed
  <2>2. p \in Live
    BY DEF Believed
  <2>3. Offsets(venue[p]) /\ Offsets(venue[p] + Rest(p))
    BY DEF HedgeInv, OffsetsAll
  <2>4. Offsets(venue'[p])
    <3>1. CASE p = o.pair
      <4>1. Offsets(venue[p]) /\ Offsets(venue[p] + o.side * o.qty)
        BY <1>6, <2>2, <2>3, <3>1
      <4>2. venue[p] \in Int /\ fills \in Nat
        BY <1>10, <2>2 DEF HedgeInv, HoldingsBounded
      <4>3. Offsets(venue[p] + o.side * k)
        BY <1>2, <1>3, <4>1, <4>2, PartOffsets
      <4>4. QED BY <1>10, <2>2, <3>1, <4>3
    <3>2. CASE p # o.pair
      <4>1. venue'[p] = venue[p]
        BY <1>10, <2>2, <3>2
      <4>2. QED BY <2>3, <4>1
    <3>3. QED BY <3>1, <3>2
  <2>5. ASSUME NEW x \in due', x.pair = p
        PROVE  Offsets(venue'[p] + x.side * x.qty)
    <3>1. x \in due /\ p # o.pair
      BY <1>1, <2>5 DEF HedgeInv, OnePerPair
    <3>2. QED BY <1>10, <2>2, <2>5, <3>1 DEF HedgeInv, OffsetsAll
  <2>6. Offsets(venue'[p] + Rest(p)')
    BY <1>10, <2>2, <2>3
  <2>7. QED BY <2>4, <2>5, <2>6
<1>13. QED BY <1>7, <1>8, <1>9, <1>11, <1>12 DEF HedgeInv

(* The answer takes the rest off the position. *)
LEMMA AnsweredKeeps ==
    ASSUME HedgeInv, Answered
    PROVE  HedgeInv'
<1> DEFINE o == order
           c == o.side * (o.filled - o.qty)
<1>1. /\ up /\ order # NoOrder /\ order.filled # NoView
      /\ pos' = [pos EXCEPT ![o.pair] = pos[o.pair] + c]
      /\ order' = NoOrder
      /\ UNCHANGED <<up, base, fills, view, published, venue, misled, passing, due>>
  BY DEF Answered, Correction, vars, world
<1>2. o \in OutOrders /\ o.pair \in Live /\ o.pair \in Hedged /\ o.side \in Sides
      /\ o.qty \in Nat /\ o.filled \in Nat
  BY <1>1, HedgeConstants DEF HedgeInv, HedgeTypes, OutOrders
<1>3. c \in Int /\ c + o.side * (o.qty - o.filled) = 0
  <2> DEFINE q == o.qty
             s == o.side
             k == o.filled
  <2>1. q \in Nat /\ s \in Sides /\ k \in Nat
    BY <1>2
  <2> HIDE DEF q, s, k
  <2>2. s * (k - q) \in Int /\ s * (k - q) + s * (q - k) = 0
    BY <2>1, SideSigns DEF Sides
  <2>3. QED BY <2>2 DEF q, s, k
<1>4. \A p \in Live : /\ Rest(p) = IF p = o.pair THEN o.side * (o.qty - o.filled) ELSE 0
                      /\ Rest(p)' = 0
  BY <1>1 DEF Rest, Out, Executed
<1> HIDE DEF c
<1>5. HedgeTypes'
  BY <1>1, <1>2, <1>3 DEF HedgeInv, HedgeTypes
<1>6. HoldingsBounded' /\ \A v : Offsets(v)' = Offsets(v)
  BY <1>1, SameHoldings DEF HedgeInv
<1>7. OnePerPair'
  BY <1>1 DEF HedgeInv, OnePerPair
<1>8. passing
  BY <1>1 DEF HedgeInv, OnePerPair
<1>9. BookTrue'
  <2>1. SUFFICES ASSUME NEW p \in Believed
        PROVE  pos'[p] = venue[p] + 0
    BY <1>1, <1>4, <1>8 DEF BookTrue, Believed
  <2>2. p \in Live /\ p \in Hedged /\ venue[p] \in Int /\ Rest(p) \in Int
    BY HedgeConstants, RestTyped DEF HedgeInv, Believed
  <2>3. pos[p] = venue[p] + Rest(p)
    BY <1>1 DEF HedgeInv, BookTrue
  <2>4. CASE p = o.pair
    <3>1. pos'[p] = pos[p] + c
      BY <1>1, <2>2, <2>4 DEF HedgeInv, HedgeTypes
    <3>2. Rest(p) = o.side * (o.qty - o.filled)
      BY <1>4, <2>2, <2>4
    <3> HIDE DEF o
    <3>3. Rest(p) + c = 0
      <4>1. c + Rest(p) = 0
        BY <1>3, <3>2
      <4>2. QED BY <1>3, <2>2, <4>1
    <3>4. QED BY <1>3, <2>2, <2>3, <3>1, <3>3
  <2>5. CASE p # o.pair
    <3>1. pos'[p] = pos[p]
      BY <1>1, <2>2, <2>5 DEF HedgeInv, HedgeTypes
    <3>2. Rest(p) = 0
      BY <1>4, <2>2, <2>5
    <3>3. QED BY <2>2, <2>3, <3>1, <3>2
  <2>6. QED BY <2>4, <2>5
<1>10. OffsetsAll'
  <2>1. SUFFICES ASSUME NEW p \in Believed
        PROVE  Offsets(venue[p] + 0)
    BY <1>1, <1>4 DEF HedgeInv, OffsetsAll, Offsets, Believed
  <2>2. venue[p] \in Int /\ venue[p] + 0 = venue[p]
    BY RestTyped DEF HedgeInv, Believed
  <2>3. Offsets(venue[p])
    BY DEF HedgeInv, OffsetsAll
  <2>4. QED BY <2>2, <2>3
<1>11. QED BY <1>5, <1>6, <1>7, <1>9, <1>10 DEF HedgeInv

(* A failure takes the whole order off; when something was executed after all, *)
(* the pair is believed no longer.                                         *)
LEMMA FailedKeeps ==
    ASSUME HedgeInv, Failed
    PROVE  HedgeInv'
<1> DEFINE o == order
           c == o.side * o.qty
<1>1. /\ up /\ order # NoOrder
      /\ pos' = [pos EXCEPT ![o.pair] = pos[o.pair] - c]
      /\ misled' = IF o.filled \in {NoView, 0} THEN misled ELSE misled \cup {o.pair}
      /\ order' = NoOrder
      /\ UNCHANGED <<up, base, fills, view, published, venue, passing, due>>
  BY DEF Failed, vars, world
<1>2. o \in OutOrders /\ o.pair \in Live /\ o.pair \in Hedged /\ o.side \in Sides /\ o.qty \in Nat
  BY <1>1, HedgeConstants DEF HedgeInv, HedgeTypes, OutOrders
<1>3. c \in Int
  BY <1>2, SideSigns
<1>4. \A p \in Live : Rest(p)' = 0
  BY <1>1 DEF Rest, Out, Executed
<1>5. \A p \in Believed' : /\ p \in Believed
                           /\ p # o.pair => Rest(p) = 0
                           /\ p = o.pair => Rest(p) = c
  <2>1. SUFFICES ASSUME NEW p \in Believed'
        PROVE  /\ p \in Believed
               /\ p # o.pair => Rest(p) = 0
               /\ p = o.pair => Rest(p) = c
    OBVIOUS
  <2>2. p \in Believed
    BY <1>1 DEF Believed
  <2>3. p # o.pair => Rest(p) = 0
    BY DEF Rest, Out
  <2>4. ASSUME p = o.pair
        PROVE  Rest(p) = c
    <3>1. o.filled \in {NoView, 0}
      BY <1>1, <2>4 DEF Believed
    <3>2. Executed = 0
      BY <3>1 DEF Executed
    <3>3. Rest(p) = o.side * (o.qty - 0)
      BY <1>1, <2>4, <3>2 DEF Rest, Out
    <3>4. o.qty - 0 = o.qty
      BY <1>2
    <3>5. QED BY <3>3, <3>4
  <2>5. QED BY <2>2, <2>3, <2>4
<1> HIDE DEF c
<1>6. HedgeTypes'
  BY <1>1, <1>2, <1>3 DEF HedgeInv, HedgeTypes
<1>7. HoldingsBounded' /\ \A v : Offsets(v)' = Offsets(v)
  BY <1>1, SameHoldings DEF HedgeInv
<1>8. OnePerPair' /\ passing
  BY <1>1 DEF HedgeInv, OnePerPair
<1>9. BookTrue'
  <2>1. SUFFICES ASSUME NEW p \in Believed'
        PROVE  pos'[p] = venue[p] + 0
    BY <1>1, <1>4, <1>8 DEF BookTrue, Believed
  <2>2. p \in Live /\ p \in Hedged /\ venue[p] \in Int /\ pos[p] \in Int
    BY <1>5, HedgeConstants, RestTyped DEF HedgeInv, Believed
  <2>3. pos[p] = venue[p] + Rest(p)
    BY <1>1, <1>5 DEF HedgeInv, BookTrue
  <2>4. CASE p = o.pair
    <3>1. pos'[p] = pos[p] - c
      BY <1>1, <2>2, <2>4 DEF HedgeInv, HedgeTypes
    <3>2. Rest(p) = c
      BY <1>5, <2>4
    <3>3. QED BY <1>3, <2>2, <2>3, <3>1, <3>2
  <2>5. CASE p # o.pair
    <3>1. pos'[p] = pos[p]
      BY <1>1, <2>2, <2>5 DEF HedgeInv, HedgeTypes
    <3>2. Rest(p) = 0
      BY <1>5, <2>5
    <3>3. QED BY <2>2, <2>3, <3>1, <3>2
  <2>6. QED BY <2>4, <2>5
<1>10. OffsetsAll'
  <2>1. \A p \in Believed' : p \in Believed /\ p \in Live
    BY <1>5 DEF Believed
  <2>2. \A p \in Believed : Offsets(venue[p]) /\ venue[p] \in Int
    BY RestTyped DEF HedgeInv, OffsetsAll, Believed
  <2>3. SUFFICES ASSUME NEW p \in Believed'
        PROVE  /\ Offsets(venue[p]) /\ Offsets(venue[p] + 0)
               /\ \A x \in due : x.pair = p => Offsets(venue[p] + x.side * x.qty)
    BY <1>1, <1>4, <2>1 DEF OffsetsAll, Offsets
  <2>4. p \in Believed /\ Offsets(venue[p]) /\ venue[p] + 0 = venue[p]
    BY <2>1, <2>2
  <2>5. \A x \in due : x.pair = p => Offsets(venue[p] + x.side * x.qty)
    BY <2>4 DEF HedgeInv, OffsetsAll
  <2>6. QED BY <2>4, <2>5
<1>11. QED BY <1>6, <1>7, <1>8, <1>9, <1>10 DEF HedgeInv

(* What is published after a pass is the exchange's position. *)
LEMMA PublishKeeps ==
    ASSUME HedgeInv, Publish
    PROVE  HedgeInv'
<1>1. /\ up /\ due = {} /\ order = NoOrder /\ passing' = FALSE /\ published' = pos
      /\ UNCHANGED <<up, base, fills, view, pos, venue, misled, due, order>>
  BY DEF Publish, vars, world
<1>2. \A p : Rest(p) = 0 /\ Rest(p)' = 0
  BY <1>1 DEF Rest, Out
<1>3. HedgeTypes' /\ OnePerPair'
  BY <1>1 DEF HedgeInv, HedgeTypes, OnePerPair
<1>4. HoldingsBounded' /\ \A v : Offsets(v)' = Offsets(v)
  BY <1>1, SameHoldings DEF HedgeInv
<1>5. BookTrue'
  <2>1. \A p \in Believed : pos[p] = venue[p] + 0 /\ venue[p] \in Int
    BY <1>1, <1>2, RestTyped DEF HedgeInv, BookTrue, Believed
  <2>2. QED BY <1>1, <1>2, <2>1 DEF BookTrue, Believed
<1>6. OffsetsAll'
  BY <1>1, <1>2 DEF HedgeInv, OffsetsAll, Believed, Offsets
<1>7. QED BY <1>3, <1>4, <1>5, <1>6 DEF HedgeInv

(* An order that is out when the process ends may be executed yet, up to what *)
(* was asked for.                                                          *)
LEMMA StopKeeps ==
    ASSUME HedgeInv, HedgeStop
    PROVE  HedgeInv'
<1>1. /\ up' = FALSE /\ passing' = FALSE /\ due' = {} /\ order' = NoOrder /\ published' = NoView
      /\ UNCHANGED <<base, fills, view, pos, misled>>
  BY DEF HedgeStop, Stop, world
<1>2. PICK k \in IF order # NoOrder /\ order.filled = NoView THEN Fills(Lots(order.qty)) ELSE {0} :
        venue' = IF order = NoOrder THEN venue
                 ELSE [venue EXCEPT ![order.pair] = venue[order.pair] + order.side * k]
  BY DEF HedgeStop
<1>3. order # NoOrder => /\ order \in OutOrders /\ order.pair \in Live /\ order.pair \in Hedged
                         /\ order.side \in Sides /\ order.qty \in Nat
  BY HedgeConstants DEF HedgeInv, HedgeTypes, OutOrders
<1>4. order # NoOrder => k \in Nat /\ k <= order.qty /\ order.side * k \in Int
  <2>1. SUFFICES ASSUME order # NoOrder PROVE k \in Nat /\ k <= order.qty
    BY <1>3, SideSigns
  <2>2. CASE order.filled = NoView
    <3>1. k \in Fills(Lots(order.qty))
      BY <1>2, <2>1, <2>2
    <3>2. QED BY <1>3, <2>1, <3>1, LotsBounded
  <2>3. CASE order.filled # NoView
    BY <1>2, <1>3, <2>1, <2>3
  <2>4. QED BY <2>2, <2>3
<1>5. venue' \in [Hedged -> Int]
  BY <1>2, <1>3, <1>4 DEF HedgeInv, HedgeTypes
<1>6. \A p : Rest(p)' = 0
  BY <1>1 DEF Rest, Out
<1>7. HedgeTypes' /\ OnePerPair'
  BY <1>1, <1>5 DEF HedgeInv, HedgeTypes, OnePerPair
<1>8. HoldingsBounded' /\ \A v : Offsets(v)' = Offsets(v)
  BY <1>1, SameHoldings DEF HedgeInv
<1>9. BookTrue'
  BY <1>1 DEF BookTrue
<1>10. OffsetsAll'
  <2>1. SUFFICES ASSUME NEW p \in Believed
        PROVE  Offsets(venue'[p]) /\ Offsets(venue'[p] + 0)
    BY <1>1, <1>6 DEF OffsetsAll, Offsets, Believed
  <2>2. p \in Hedged /\ p \in Live /\ venue[p] \in Int /\ venue'[p] \in Int
    BY <1>5, HedgeConstants, RestTyped DEF HedgeInv, Believed
  <2>3. Offsets(venue[p]) /\ Offsets(venue[p] + Rest(p))
    BY DEF HedgeInv, OffsetsAll
  <2>4. Offsets(venue'[p])
    <3>1. CASE Out(p) /\ order.filled = NoView
      <4>1. Rest(p) = order.side * (order.qty - 0) /\ order.qty - 0 = order.qty
        BY <1>3, <3>1 DEF Rest, Executed, Out
      <4>2. fills \in Nat /\ Offsets(venue[p] + order.side * order.qty)
        BY <2>3, <4>1 DEF HedgeInv, HoldingsBounded
      <4>3. Offsets(venue[p] + order.side * k)
        BY <1>3, <1>4, <2>2, <2>3, <3>1, <4>2, PartOffsets DEF Out
      <4>4. venue'[p] = venue[p] + order.side * k
        BY <1>2, <2>2, <3>1 DEF HedgeInv, HedgeTypes, Out
      <4>5. QED BY <4>3, <4>4
    <3>2. CASE ~(Out(p) /\ order.filled = NoView)
      <4>1. venue'[p] = venue[p]
        <5>1. CASE ~Out(p)
          BY <1>2, <2>2, <5>1 DEF HedgeInv, HedgeTypes, Out
        <5>2. CASE Out(p)
          <6>1. k = 0
            BY <1>2, <3>2, <5>2 DEF Out
          <6>2. order.side * k = 0
            BY <1>3, <5>2, <6>1, SideSigns DEF Out, Sides
          <6>3. venue'[p] = venue[p] + order.side * k
            BY <1>2, <2>2, <5>2 DEF HedgeInv, HedgeTypes, Out
          <6>4. QED BY <2>2, <6>2, <6>3
        <5>3. QED BY <5>1, <5>2
      <4>2. QED BY <2>3, <4>1
    <3>3. QED BY <3>1, <3>2
  <2>5. venue'[p] + 0 = venue'[p]
    BY <2>2
  <2>6. QED BY <2>4, <2>5
<1>11. QED BY <1>7, <1>8, <1>9, <1>10 DEF HedgeInv

(* A start believes the exchange flat, and is believed of the pairs that are. *)
LEMMA StartKeeps ==
    ASSUME HedgeInv, HedgeStart
    PROVE  HedgeInv'
<1>1. /\ ~up /\ up' = TRUE /\ view' = NoView /\ pos' = Zero
      /\ venue' = [p \in Hedged |-> IF p \in Live THEN venue[p] ELSE 0]
      /\ misled' = misled \cup {p \in Live : venue[p] # 0}
      /\ UNCHANGED <<base, fills, passing, due, order, published>>
  BY DEF HedgeStart, Start, world
<1>2. ~passing /\ published = NoView /\ order = NoOrder /\ due = {} /\ \A p : Rest(p) = 0
  BY <1>1, Quiet DEF HedgeInv, OnePerPair
<1>3. \A p : Rest(p)' = 0
  BY <1>1, <1>2 DEF Rest, Out
<1>4. HedgeTypes'
  BY <1>1, <1>2 DEF HedgeInv, HedgeTypes, Zero
<1>5. HoldingsBounded' /\ \A v : Offsets(v)' = Offsets(v)
  BY <1>1 DEF HedgeInv, HoldingsBounded, Offsets
<1>6. OnePerPair'
  BY <1>1, <1>2 DEF OnePerPair
<1>7. \A p \in Believed' : p \in Believed /\ p \in Live /\ p \in Hedged
                           /\ venue[p] = 0 /\ venue'[p] = 0
  BY <1>1, HedgeConstants DEF Believed
<1>8. BookTrue'
  <2>1. \A p \in Believed' : pos'[p] = venue'[p] + 0
    BY <1>1, <1>7 DEF Zero
  <2>2. QED BY <1>1, <1>2, <1>3, <2>1 DEF BookTrue
<1>9. OffsetsAll'
  <2>1. \A p \in Believed' : venue'[p] = 0 /\ venue'[p] + 0 = 0
    BY <1>7
  <2>2. due' = {}
    BY <1>1, <1>2
  <2>3. QED BY <1>3, <2>1, <2>2 DEF OffsetsAll, Offsets
<1>10. QED BY <1>4, <1>5, <1>6, <1>8, <1>9 DEF HedgeInv

(* The invariant holds at the start and is kept by every step. *)
LEMMA HedgeInvariant == HedgeSpec => []HedgeInv
<1>1. HedgeInit => HedgeInv
  <2>1. SUFFICES ASSUME HedgeInit PROVE HedgeInv
    OBVIOUS
  <2>2. /\ up /\ up = TRUE /\ view = NoView /\ fills = 0 /\ base = [p \in Pairs |-> InitBase]
        /\ pos = Zero /\ venue = Zero /\ passing = FALSE /\ due = {} /\ order = NoOrder
        /\ published = NoView
    BY <2>1 DEF HedgeInit, Init
  <2>3. \A p : Rest(p) = 0
    BY <2>2 DEF Rest, Out
  <2>4. HedgeTypes /\ OnePerPair
    <3>1. Zero \in [Hedged -> Int]
      BY DEF Zero
    <3>2. HedgeTypes
      BY <2>2, <3>1 DEF HedgeTypes
    <3>3. QED BY <2>2, <3>2 DEF OnePerPair
  <2>5. HoldingsBounded
    BY <2>2, HedgeConstants DEF HoldingsBounded
  <2>6. \A p \in Believed : pos[p] = 0 /\ venue[p] = 0
    BY <2>2, HedgeConstants DEF Believed, Zero
  <2>7. BookTrue
    BY <2>2, <2>3, <2>6 DEF BookTrue
  <2>8. OffsetsAll
    BY <2>2, <2>3, <2>6 DEF OffsetsAll, Offsets
  <2>9. QED BY <2>4, <2>5, <2>7, <2>8 DEF HedgeInv
<1>2. HedgeInv /\ [HedgeNext]_<<vars, leg>> => HedgeInv'
  BY TradedKeeps, IdleKeeps, PassKeeps, SkipKeeps, SendKeeps, WriteKeeps, ExecuteKeeps,
     AnsweredKeeps, FailedKeeps, PublishKeeps, StopKeeps, StartKeeps DEF HedgeNext
<1>3. QED BY <1>1, <1>2, PTL DEF HedgeSpec

(* The leg's book is the exchange's, an order under way included, for every   *)
(* pair whose executions it was told of (main.rs 1546-1550, 1773-1775,      *)
(* 1899-1935).                                                             *)
THEOREM BookIsTheExchanges == HedgeSpec => []HedgeBookTrue
<1>1. HedgeInv => HedgeBookTrue
  <2>1. SUFFICES ASSUME HedgeInv, up, NEW p \in Believed
        PROVE  LET out == order # NoOrder /\ order.pair = p
                   executed == IF out /\ order.filled # NoView THEN order.filled ELSE 0
               IN /\ pos[p] = venue[p] + (IF out THEN order.side * (order.qty - executed) ELSE 0)
                  /\ ~passing /\ published # NoView => published[p] = venue[p]
    BY DEF HedgeBookTrue
  <2>2. /\ pos[p] = venue[p] + Rest(p)
        /\ ~passing /\ published # NoView => published[p] = venue[p]
    BY <2>1 DEF HedgeInv, BookTrue
  <2>3. CASE Out(p)
    BY <2>2, <2>3 DEF Rest, Out, Executed
  <2>4. CASE ~Out(p)
    BY <2>2, <2>4 DEF Rest, Out
  <2>5. QED BY <2>3, <2>4
<1>2. QED BY <1>1, HedgeInvariant, PTL

(* A holding is hedged once: whatever passes, partial fills and failures      *)
(* follow each other, the exchange is never long, and never short by more    *)
(* than the largest holding there can have been less the band               *)
(* (hedge/mod.rs 94-107).                                                  *)
THEOREM HedgesOnce == HedgeSpec => []HedgeOnlyOffsets
<1>1. HedgeInv => HedgeOnlyOffsets
  <2>1. SUFFICES ASSUME HedgeInv, NEW p \in Believed
        PROVE  -Max({0, InitBase + fills - Width}) <= venue[p] /\ venue[p] <= 0
    BY DEF HedgeOnlyOffsets
  <2>2. venue[p] \in Int /\ Offsets(venue[p]) /\ fills \in Nat
    BY <2>1, RestTyped DEF HedgeInv, OffsetsAll, HoldingsBounded, Believed
  <2> DEFINE x == InitBase + fills - Width
  <2>3. x \in Int /\ Max({0, x}) = IF 0 >= x THEN 0 ELSE x
    BY <2>2, HedgeConstants, LargerOfTwo
  <2>4. venue[p] <= 0 /\ (venue[p] < 0 => venue[p] >= -x)
    BY <2>2, HedgeConstants DEF Offsets
  <2> HIDE DEF x
  <2>5. -Max({0, x}) <= venue[p] /\ venue[p] <= 0
    BY <2>2, <2>3, <2>4
  <2>6. QED BY <2>5 DEF x
<1>2. QED BY <1>1, HedgeInvariant, PTL

-----------------------------------------------------------------------------
(* The notifier.                                                           *)

Fields == {"alerts", "moreAlerts", "fills", "moreFills", "errors"}

AlertTypes ==
    /\ inbox \in Seq(Events \cup {"flush"})
    /\ {dropped, overflow, given, told} \subseteq Nat
    /\ batch \in [Fields -> Nat]
    /\ IsFiniteSet(DOMAIN ledger) /\ ledger \in [DOMAIN ledger -> Nat]

AlertInv == AlertTypes /\ Accounted

(* The events of a queue. *)
Told(q) == {n \in DOMAIN q : q[n] # "flush"}

LEMMA Joining ==
    ASSUME NEW T, NEW q \in Seq(T), NEW e \in T
    PROVE  /\ Cardinality(Told(q)) \in Nat
           /\ Cardinality(Told(Append(q, e)))
                = Cardinality(Told(q)) + (IF e = "flush" THEN 0 ELSE 1)
<1> DEFINE n == Len(q)
           r == Append(q, e)
<1>1. n \in Nat /\ DOMAIN q = 1 .. n /\ DOMAIN r = 1 .. (n + 1)
      /\ (\A i \in 1 .. n : r[i] = q[i]) /\ r[n + 1] = e
  BY AppendProperties, LenProperties
<1>2. IsFiniteSet(Told(q))
  <2>1. IsFiniteSet(1 .. n)
    BY <1>1, FS_Interval
  <2>2. Told(q) \in SUBSET (1 .. n)
    BY <1>1 DEF Told
  <2>3. QED BY <2>1, <2>2, FS_Subset
<1>3. Told(r) = IF e = "flush" THEN Told(q) ELSE Told(q) \cup {n + 1}
  <2> HIDE DEF n, r
  <2>1. ASSUME NEW i
        PROVE  i \in Told(r) <=> (i \in Told(q) \/ (i = n + 1 /\ e # "flush"))
    <3>1. CASE i = n + 1
      <4>1. i \notin 1 .. n /\ i \in 1 .. (n + 1)
        BY <1>1, <3>1
      <4>2. QED BY <1>1, <3>1, <4>1 DEF Told
    <3>2. CASE i # n + 1
      <4>1. i \in 1 .. (n + 1) <=> i \in 1 .. n
        BY <1>1, <3>2
      <4>2. QED BY <1>1, <3>2, <4>1 DEF Told
    <3>3. QED BY <3>1, <3>2
  <2>2. QED BY <2>1
<1>4. n + 1 \notin Told(q)
  BY <1>1 DEF Told
<1>5. Cardinality(Told(q)) \in Nat
  BY <1>2, FS_CardinalityType
<1>6. CASE e = "flush"
  BY <1>3, <1>5, <1>6
<1>7. CASE e # "flush"
  <2>1. Cardinality(Told(q) \cup {n + 1}) = Cardinality(Told(q)) + 1
    BY <1>2, <1>4, FS_AddElement
  <2>2. QED BY <1>3, <1>5, <1>7, <2>1
<1>8. QED BY <1>6, <1>7

LEMMA Leaving ==
    ASSUME NEW T, NEW q \in Seq(T), q # <<>>
    PROVE  /\ Cardinality(Told(Tail(q))) \in Nat
           /\ Cardinality(Told(q))
                = Cardinality(Told(Tail(q))) + (IF Head(q) = "flush" THEN 0 ELSE 1)
<1> DEFINE n == Len(q)
           t == Tail(q)
           R == Told(q) \ {1}
<1>1. n \in Nat \ {0} /\ DOMAIN q = 1 .. n /\ DOMAIN t = 1 .. (n - 1)
      /\ (\A i \in 1 .. (n - 1) : t[i] = q[i + 1]) /\ q[1] = Head(q)
  <2>1. n \in Nat /\ DOMAIN q = 1 .. n /\ n # 0
    BY LenProperties, EmptySeq
  <2>2. t \in Seq(T) /\ Len(t) = n - 1 /\ \A i \in 1 .. Len(t) : t[i] = q[i + 1]
    BY HeadTailProperties
  <2>3. DOMAIN t = 1 .. (n - 1)
    BY <2>2, LenProperties
  <2>4. QED BY <2>1, <2>2, <2>3
<1> HIDE DEF n, t
<1>2. IsFiniteSet(Told(q)) /\ IsFiniteSet(Told(t))
  <2>1. IsFiniteSet(1 .. n) /\ IsFiniteSet(1 .. (n - 1))
    BY <1>1, FS_Interval
  <2>2. Told(q) \in SUBSET (1 .. n) /\ Told(t) \in SUBSET (1 .. (n - 1))
    BY <1>1 DEF Told
  <2>3. QED BY <2>1, <2>2, FS_Subset
<1>3. Cardinality(Told(t)) = Cardinality(R)
  <2> DEFINE f == [i \in Told(t) |-> i + 1]
  <2>1. \A i \in Told(t) : i \in 1 .. (n - 1) /\ i + 1 \in R
    <3>1. SUFFICES ASSUME NEW i \in Told(t) PROVE i \in 1 .. (n - 1) /\ i + 1 \in R
      OBVIOUS
    <3>2. i \in 1 .. (n - 1) /\ t[i] # "flush"
      BY <1>1 DEF Told
    <3>3. i + 1 \in 1 .. n /\ i + 1 # 1
      BY <1>1, <3>2
    <3>4. QED BY <1>1, <3>2, <3>3 DEF Told
  <2>2. f \in Injection(Told(t), R)
    <3>1. f \in [Told(t) -> R]
      BY <2>1
    <3>2. \A i, j \in Told(t) : f[i] = f[j] => i = j
      BY <2>1
    <3>3. QED BY <3>1, <3>2 DEF Injection, IsInjective
  <2>3. \A r \in R : \E i \in Told(t) : f[i] = r
    <3>1. SUFFICES ASSUME NEW r \in R PROVE \E i \in Told(t) : f[i] = r
      OBVIOUS
    <3>2. r \in 1 .. n /\ r # 1 /\ q[r] # "flush"
      BY <1>1 DEF Told
    <3>3. r - 1 \in 1 .. (n - 1) /\ (r - 1) + 1 = r
      BY <1>1, <3>2
    <3>4. r - 1 \in Told(t)
      BY <1>1, <3>2, <3>3 DEF Told
    <3>5. f[r - 1] = r
      BY <3>3, <3>4
    <3>6. QED BY <3>4, <3>5
  <2>4. f \in Bijection(Told(t), R)
    BY <2>2, <2>3 DEF Bijection, Surjection, Injection
  <2>5. QED BY <1>2, <2>4, FS_Bijection DEF ExistsBijection
<1>4. Cardinality(R) = IF Head(q) = "flush" THEN Cardinality(Told(q)) ELSE Cardinality(Told(q)) - 1
  <2>1. 1 \in Told(q) <=> Head(q) # "flush"
    BY <1>1 DEF Told
  <2>2. QED BY <1>2, <2>1, FS_RemoveElement
<1>5. Cardinality(Told(q)) \in Nat /\ Cardinality(Told(t)) \in Nat
  BY <1>2, FS_CardinalityType
<1>6. Cardinality(Told(q)) = Cardinality(Told(t)) + (IF Head(q) = "flush" THEN 0 ELSE 1)
  <2>1. CASE Head(q) = "flush"
    BY <1>3, <1>4, <1>5, <2>1
  <2>2. CASE Head(q) # "flush"
    BY <1>3, <1>4, <1>5, <2>2
  <2>3. QED BY <2>1, <2>2
<1>7. QED BY <1>5, <1>6 DEF t

LEMMA FieldsFinite == IsFiniteSet(Fields)
<1>1. IsFiniteSet({"alerts"})
  BY FS_Singleton
<1>2. IsFiniteSet({"alerts"} \cup {"moreAlerts"})
  BY <1>1, FS_AddElement
<1>3. IsFiniteSet(({"alerts"} \cup {"moreAlerts"}) \cup {"fills"})
  BY <1>2, FS_AddElement
<1>4. IsFiniteSet((({"alerts"} \cup {"moreAlerts"}) \cup {"fills"}) \cup {"moreFills"})
  BY <1>3, FS_AddElement
<1>5. IsFiniteSet(((({"alerts"} \cup {"moreAlerts"}) \cup {"fills"}) \cup {"moreFills"})
                    \cup {"errors"})
  BY <1>4, FS_AddElement
<1>6. Fields = ((({"alerts"} \cup {"moreAlerts"}) \cup {"fills"}) \cup {"moreFills"})
                 \cup {"errors"}
  BY DEF Fields
<1>7. QED BY <1>5, <1>6

(* One more of something in a batch is one more event in it. *)
LEMMA CountedMore ==
    ASSUME NEW b \in [Fields -> Nat], NEW f \in Fields, NEW n \in Nat
    PROVE  /\ [b EXCEPT ![f] = @ + n] \in [Fields -> Nat]
           /\ Counted([b EXCEPT ![f] = @ + n]) = Counted(b) + n
           /\ Counted(b) \in Nat
<1> DEFINE c == [b EXCEPT ![f] = @ + n]
<1>1. c \in [Fields -> Nat] /\ c[f] = b[f] + n /\ \A g \in Fields \ {f} : b[g] = c[g]
  OBVIOUS
<1>2. DOMAIN c = Fields /\ DOMAIN b = Fields
  OBVIOUS
<1>3. IsFiniteSet(Fields)
  BY FieldsFinite
<1> HIDE DEF c
<1>4. SumFunctionOnSet(c, Fields) = SumFunctionOnSet(b, Fields) + c[f] - b[f]
  <2>1. \A g \in Fields : b[g] \in Int /\ c[g] \in Int
    BY <1>1
  <2>2. QED BY <1>1, <1>3, <2>1, SumWithOne
<1>5. SumFunctionOnSet(b, Fields) \in Nat /\ b[f] \in Nat
  <2>1. \A g \in Fields : b[g] \in Nat
    OBVIOUS
  <2>2. QED BY <1>3, <2>1, SumIsNat
<1>6. Counted(c) = Counted(b) + n /\ Counted(b) \in Nat
  BY <1>1, <1>2, <1>4, <1>5 DEF Counted, SumFunction
<1>7. QED BY <1>1, <1>6 DEF c

LEMMA CountedNothing == EmptyBatch \in [Fields -> Nat] /\ Counted(EmptyBatch) = 0
<1>1. DOMAIN EmptyBatch = Fields /\ \A f \in Fields : EmptyBatch[f] = 0
  BY DEF EmptyBatch, Fields
<1>2. IsFiniteSet(Fields)
  BY FieldsFinite
<1>3. EmptyBatch = [f \in Fields |-> 0]
  BY DEF EmptyBatch, Fields
<1>4. Counted(EmptyBatch) = 0
  BY <1>1, <1>2, SumOfZeros DEF Counted, SumFunction
<1>5. EmptyBatch \in [Fields -> Nat]
  BY <1>3
<1>6. QED BY <1>4, <1>5

(* What the ledger holds is a number. *)
LEMMA LedgerCounts ==
    ASSUME NEW l, IsFiniteSet(DOMAIN l), l \in [DOMAIN l -> Nat]
    PROVE  SumFunction(l) \in Nat
BY SumIsNat DEF SumFunction

(* An event that is taken is counted once more: in the batch, behind its class, *)
(* or past the ledger's bound.                                             *)
LEMMA AbsorbCounts ==
    ASSUME AlertTypes, NEW e, Absorb(e)
    PROVE  /\ IsFiniteSet(DOMAIN ledger') /\ ledger' \in [DOMAIN ledger' -> Nat]
           /\ \E b \in [Fields -> Nat], s \in Nat, v \in Nat :
                /\ batch' = b /\ SumFunction(ledger') = s /\ overflow' = v
                /\ Counted(b) + s + v
                     = Counted(batch) + SumFunction(ledger) + overflow + 1
<1>1. batch \in [Fields -> Nat] /\ overflow \in Nat
      /\ IsFiniteSet(DOMAIN ledger) /\ ledger \in [DOMAIN ledger -> Nat]
  BY DEF AlertTypes
<1>2. SumFunction(ledger) \in Nat
  BY <1>1, LedgerCounts
<1>3. Counted(batch) \in Nat
  BY <1>1, CountedMore DEF Fields
<1>4. CASE e \notin Classes
  <2>1. UNCHANGED <<ledger, overflow>>
        /\ \E f \in Fields : batch' = [batch EXCEPT ![f] = @ + 1]
    BY <1>4 DEF Absorb, Capped, Fields
  <2>2. PICK f \in Fields : batch' = [batch EXCEPT ![f] = @ + 1]
    BY <2>1
  <2>3. /\ [batch EXCEPT ![f] = @ + 1] \in [Fields -> Nat]
        /\ Counted([batch EXCEPT ![f] = @ + 1]) = Counted(batch) + 1
    BY <1>1, CountedMore
  <2>4. PICK b \in [Fields -> Nat] : batch' = b /\ Counted(b) = Counted(batch) + 1
    BY <2>2, <2>3
  <2>5. Counted(b) + SumFunction(ledger) + overflow
          = Counted(batch) + SumFunction(ledger) + overflow + 1
    BY <1>1, <1>2, <1>3, <2>4
  <2>6. QED BY <1>1, <1>2, <2>1, <2>4, <2>5
<1>5. CASE e \in Classes
  <2>1. Record(e)
    BY <1>5 DEF Absorb
  <2>2. CASE e \notin DOMAIN ledger /\ Cardinality(DOMAIN ledger) >= ClassesMax
    <3>1. overflow' = overflow + 1 /\ UNCHANGED <<batch, ledger>>
      BY <2>1, <2>2 DEF Record
    <3>2. Counted(batch) + SumFunction(ledger) + (overflow + 1)
            = Counted(batch) + SumFunction(ledger) + overflow + 1
      BY <1>1, <1>2, <1>3
    <3>3. overflow + 1 \in Nat
      BY <1>1
    <3>4. QED BY <1>1, <1>2, <3>1, <3>2, <3>3
  <2>3. CASE ~(e \notin DOMAIN ledger /\ Cardinality(DOMAIN ledger) >= ClassesMax)
    <3> DEFINE D == DOMAIN ledger \cup {e}
               old == IF e \in DOMAIN ledger THEN ledger[e] ELSE 0
               waiting == IF e \in DOMAIN ledger THEN ledger[e] + 1 ELSE 1
               speaks == e \notin hushed
               stays == IF speaks THEN 0 ELSE waiting
               says == IF speaks THEN waiting ELSE 0
               l == [d \in D |-> IF d # e THEN ledger[d] ELSE stays]
               g == [d \in D |-> IF d # e THEN ledger[d] ELSE old]
    <3>1. /\ ledger' = l /\ UNCHANGED overflow
          /\ batch' = IF speaks THEN [batch EXCEPT !.errors = @ + waiting] ELSE batch
      BY <2>1, <2>3 DEF Record
    <3>2. old \in Nat /\ waiting \in Nat /\ waiting = old + 1
      BY <1>1
    <3> HIDE DEF old, waiting
    <3>3. stays \in Nat /\ says \in Nat /\ stays + says = old + 1
      BY <3>2
    <3> HIDE DEF stays
    <3>4. IsFiniteSet(D) /\ e \in D
      BY <1>1, FS_AddElement
    <3>5. \A d \in D : g[d] \in Nat /\ l[d] \in Nat
      BY <1>1, <3>2, <3>3
    <3>6. DOMAIN l = D /\ l \in [D -> Nat] /\ l[e] = stays /\ g[e] = old
          /\ \A d \in D \ {e} : g[d] = l[d]
      BY <3>5
    <3>7. SumFunctionOnSet(g, D) = SumFunction(ledger)
      <4>1. CASE e \in DOMAIN ledger
        <5>1. D = DOMAIN ledger
          BY <4>1
        <5>2. \A d \in D : g[d] = ledger[d]
          BY <4>1 DEF old
        <5>3. SumFunctionOnSet(g, D) = SumFunctionOnSet(ledger, D)
          BY <3>4, <5>2, SumOfEqual
        <5>4. QED BY <5>1, <5>3 DEF SumFunction
      <4>2. CASE e \notin DOMAIN ledger
        <5>1. g[e] = 0 /\ D \ {e} = DOMAIN ledger
          BY <4>2 DEF old
        <5>2. \A d \in DOMAIN ledger : g[d] = ledger[d]
          BY <4>2
        <5>3. \A d \in D : g[d] \in Int
          <6> HIDE DEF g, D
          <6>1. QED BY <3>5
        <5> HIDE DEF g, D
        <5>4. SumFunctionOnSet(g, D) = g[e] + SumFunctionOnSet(g, D \ {e})
          BY <3>4, <5>3, SumOfSome
        <5>5. SumFunctionOnSet(g, DOMAIN ledger) = SumFunctionOnSet(ledger, DOMAIN ledger)
          BY <1>1, <5>2, SumOfEqual
        <5>6. SumFunctionOnSet(g, D) = 0 + SumFunction(ledger)
          BY <5>1, <5>4, <5>5 DEF SumFunction
        <5>7. QED BY <1>2, <5>6
      <4>3. QED BY <4>1, <4>2
    <3> HIDE DEF g, l, D
    <3>8. SumFunction(l) = SumFunction(ledger) + stays - old
      <4>1. \A d \in D : g[d] \in Int /\ l[d] \in Int
        BY <3>5
      <4>2. SumFunctionOnSet(l, D) = SumFunctionOnSet(g, D) + l[e] - g[e]
        BY <3>4, <3>6, <4>1, SumWithOne
      <4>3. SumFunction(l) = SumFunctionOnSet(l, D)
        BY <3>6 DEF SumFunction
      <4>4. QED BY <3>6, <3>7, <4>2, <4>3
    <3>9. \E b \in [Fields -> Nat] : batch' = b /\ Counted(b) = Counted(batch) + says
      <4>1. CASE speaks
        <5>1. batch' = [batch EXCEPT !["errors"] = @ + waiting] /\ "errors" \in Fields
          BY <3>1, <4>1 DEF Fields
        <5>2. /\ [batch EXCEPT !["errors"] = @ + waiting] \in [Fields -> Nat]
              /\ Counted([batch EXCEPT !["errors"] = @ + waiting]) = Counted(batch) + waiting
          BY <1>1, <3>2, <5>1, CountedMore
        <5>3. QED BY <4>1, <5>1, <5>2
      <4>2. CASE ~speaks
        BY <1>1, <1>3, <3>1, <4>2
      <4>3. QED BY <4>1, <4>2
    <3>10. PICK b \in [Fields -> Nat] : batch' = b /\ Counted(b) = Counted(batch) + says
      BY <3>9
    <3> HIDE DEF says
    <3>11. Counted(b) + SumFunction(l) + overflow
             = Counted(batch) + SumFunction(ledger) + overflow + 1
      BY <1>1, <1>2, <1>3, <3>2, <3>3, <3>8, <3>10
    <3>12. IsFiniteSet(DOMAIN l) /\ l \in [DOMAIN l -> Nat]
      BY <3>4, <3>6
    <3>13. SumFunction(l) \in Nat
      BY <3>12, LedgerCounts
    <3>14. QED BY <1>1, <3>1, <3>10, <3>11, <3>12, <3>13
  <2>4. QED BY <2>2, <2>3
<1>6. QED BY <1>4, <1>5

(* What the ledger owes joins the batch, and the batch with the counter leaves *)
(* in a message, or all of it stays.                                       *)
LEMMA CloseCounts ==
    ASSUME AlertTypes, CloseWindow
    PROVE  /\ IsFiniteSet(DOMAIN ledger') /\ ledger' \in [DOMAIN ledger' -> Nat]
           /\ \E b \in [Fields -> Nat], s \in Nat, d \in Nat, t \in Nat :
                /\ batch' = b /\ SumFunction(ledger') = s /\ dropped' = d /\ told' = t
                /\ Counted(b) + s + d + t
                     = Counted(batch) + SumFunction(ledger) + dropped + told
<1> DEFINE D == DOMAIN ledger
           l == [c \in D |-> IF c \in Owing THEN 0 ELSE ledger[c]]
           full == [batch EXCEPT !.errors = @ + Owed]
<1>1. batch \in [Fields -> Nat] /\ dropped \in Nat /\ told \in Nat
      /\ IsFiniteSet(D) /\ ledger \in [D -> Nat]
  BY DEF AlertTypes
<1>2. ledger' = l /\ Deliver(full)
  BY DEF CloseWindow
<1>3. Owing \in SUBSET D /\ IsFiniteSet(Owing)
  BY <1>1, FS_Subset DEF Owing
<1>4. Owed = SumFunctionOnSet(ledger, Owing)
  BY DEF Owed, MapThenSumSet, SumFunctionOnSet, FoldFunctionOnSet
<1>5. Owed \in Nat
  BY <1>1, <1>3, <1>4, SumIsNat
<1>6. DOMAIN l = D /\ l \in [D -> Nat]
  BY <1>1
<1>7. SumFunction(l) = SumFunction(ledger) - Owed
  <2>1. \A c \in D : ledger[c] \in Int /\ l[c] = IF c \in Owing THEN 0 ELSE ledger[c]
    BY <1>1
  <2>2. SumFunctionOnSet(l, D) = SumFunctionOnSet(ledger, D) - SumFunctionOnSet(ledger, Owing)
    <3> HIDE DEF l, D
    <3>1. QED BY <1>1, <1>3, <2>1, SumLessSome
  <2>3. QED BY <1>4, <1>6, <2>2 DEF SumFunction
<1>8. full \in [Fields -> Nat] /\ Counted(full) = Counted(batch) + Owed /\ Counted(batch) \in Nat
  <2>1. full = [batch EXCEPT !["errors"] = @ + Owed] /\ "errors" \in Fields
    BY DEF Fields
  <2> HIDE DEF full
  <2>2. QED BY <1>1, <1>5, <2>1, CountedMore
<1>9. SumFunction(ledger) \in Nat
  BY <1>1, LedgerCounts
<1> HIDE DEF l, full
<1>13. SumFunction(l) \in Nat
  BY <1>1, <1>6, LedgerCounts
<1>10. CASE batch' = full /\ UNCHANGED <<dropped, told>>
  <2>1. Counted(full) + SumFunction(l) + dropped + told
          = Counted(batch) + SumFunction(ledger) + dropped + told
    BY <1>1, <1>5, <1>7, <1>8, <1>9
  <2>2. QED BY <1>1, <1>2, <1>6, <1>8, <1>10, <1>13, <2>1
<1>11. CASE /\ told' = told + Counted(full) + dropped
            /\ batch' = EmptyBatch /\ dropped' = 0
  <2>1. told + Counted(full) + dropped \in Nat
    BY <1>1, <1>5, <1>8
  <2>2. Counted(EmptyBatch) + SumFunction(l) + 0 + (told + Counted(full) + dropped)
          = Counted(batch) + SumFunction(ledger) + dropped + told
    BY <1>1, <1>5, <1>7, <1>8, <1>9, CountedNothing
  <2>3. QED BY <1>1, <1>2, <1>6, <1>11, <1>13, <2>1, <2>2, CountedNothing
<1>12. QED BY <1>2, <1>10, <1>11 DEF Deliver

(* The parts of the account are numbers. *)
LEMMA PartsCount ==
    ASSUME AlertTypes
    PROVE  /\ {Waiting, dropped, Counted(batch), SumFunction(ledger), overflow, told, given} \subseteq Nat
           /\ Waiting = Cardinality(Told(inbox))
<1>1. Waiting = Cardinality(Told(inbox))
  BY DEF Waiting, Told
<1>2. Cardinality(Told(inbox)) \in Nat
  <2>1. \E e : e \in Events \cup {"flush"}
    OBVIOUS
  <2>2. QED BY <2>1, Joining DEF AlertTypes
<1>3. SumFunction(ledger) \in Nat
  BY LedgerCounts DEF AlertTypes
<1>4. Counted(batch) \in Nat
  <2>1. "errors" \in Fields /\ 0 \in Nat
    BY DEF Fields
  <2>2. QED BY <2>1, CountedMore DEF AlertTypes
<1>5. QED BY <1>1, <1>2, <1>3, <1>4 DEF AlertTypes

(* Handing an event over, or a flush. *)
LEMMA QueueKeeps ==
    ASSUME AlertInv, (\E e \in Events : Give(e)) \/ Flush
    PROVE  AlertInv'
<1>1. UNCHANGED <<batch, ledger, overflow, told>>
  BY DEF Give, Flush, books
<1>2. AlertTypes /\ Accounted
  BY DEF AlertInv
<1>3. {Waiting, dropped, Counted(batch), SumFunction(ledger), overflow, told, given} \subseteq Nat
      /\ Waiting = Cardinality(Told(inbox))
  BY <1>2, PartsCount
<1>4. Waiting' = Cardinality(Told(inbox'))
  BY DEF Waiting, Told
<1>5. Counted(batch)' = Counted(batch) /\ SumFunction(ledger)' = SumFunction(ledger)
  BY <1>1
<1>6. CASE Flush
  <2>1. inbox' = Append(inbox, "flush") /\ UNCHANGED <<dropped, given>>
    BY <1>6 DEF Flush
  <2>2. inbox' \in Seq(Events \cup {"flush"}) /\ Waiting' = Waiting
    <3>1. Cardinality(Told(Append(inbox, "flush"))) = Cardinality(Told(inbox)) + 0
      BY <1>2, Joining DEF AlertTypes
    <3>2. QED BY <1>2, <1>3, <1>4, <2>1, <3>1, AppendProperties DEF AlertTypes
  <2>3. AlertTypes'
    BY <1>1, <1>2, <2>1, <2>2 DEF AlertTypes
  <2>4. Accounted'
    BY <1>1, <1>2, <1>5, <2>1, <2>2 DEF Accounted
  <2>5. QED BY <2>3, <2>4 DEF AlertInv
<1>7. ASSUME NEW e \in Events, Give(e)
      PROVE  AlertInv'
  <2>1. given' = given + 1 /\ e # "flush"
    BY <1>7, NotifyAssumption DEF Give, NotifyAssumption, Events
  <2>2. CASE Len(inbox) < QueueCap
    <3>1. inbox' = Append(inbox, e) /\ UNCHANGED dropped
      BY <1>7, <2>2 DEF Give
    <3>2. inbox' \in Seq(Events \cup {"flush"}) /\ Waiting' = Waiting + 1
      <4>1. Cardinality(Told(Append(inbox, e))) = Cardinality(Told(inbox)) + 1
        BY <1>2, <2>1, Joining DEF AlertTypes
      <4>2. QED BY <1>2, <1>3, <1>4, <3>1, <4>1, AppendProperties DEF AlertTypes
    <3>3. AlertTypes'
      <4>1. given + 1 \in Nat
        BY <1>3
      <4>2. QED BY <1>1, <1>2, <2>1, <3>1, <3>2, <4>1 DEF AlertTypes
    <3>4. given + 1 = (Waiting + 1) + dropped + Counted(batch) + SumFunction(ledger) + overflow + told
      BY <1>2, <1>3 DEF Accounted
    <3>5. Accounted'
      BY <1>1, <1>5, <2>1, <3>1, <3>2, <3>4 DEF Accounted
    <3>6. QED BY <3>3, <3>5 DEF AlertInv
  <2>3. CASE ~(Len(inbox) < QueueCap)
    <3>1. dropped' = dropped + 1 /\ UNCHANGED inbox
      BY <1>7, <2>3 DEF Give
    <3>2. Waiting' = Waiting
      BY <3>1 DEF Waiting
    <3>3. AlertTypes'
      <4>1. given + 1 \in Nat /\ dropped + 1 \in Nat
        BY <1>3
      <4>2. QED BY <1>1, <1>2, <2>1, <3>1, <4>1 DEF AlertTypes
    <3>4. given + 1 = Waiting + (dropped + 1) + Counted(batch) + SumFunction(ledger) + overflow + told
      BY <1>2, <1>3 DEF Accounted
    <3>5. Accounted'
      BY <1>1, <1>5, <2>1, <3>1, <3>2, <3>4 DEF Accounted
    <3>6. QED BY <3>3, <3>5 DEF AlertInv
  <2>4. QED BY <2>2, <2>3
<1>8. QED BY <1>6, <1>7

(* Taking an event off the queue into the books. *)
LEMMA TakeKeeps ==
    ASSUME AlertInv, Take
    PROVE  AlertInv'
<1>1. /\ inbox # <<>> /\ Head(inbox) # "flush" /\ Absorb(Head(inbox)) /\ inbox' = Tail(inbox)
      /\ UNCHANGED <<dropped, told, given>>
  BY DEF Take
<1>2. AlertTypes /\ Accounted
  BY DEF AlertInv
<1>3. {Waiting, dropped, Counted(batch), SumFunction(ledger), overflow, told, given} \subseteq Nat
      /\ Waiting = Cardinality(Told(inbox))
  BY <1>2, PartsCount
<1>4. PICK w \in Nat : Waiting' = w /\ Waiting = w + 1
  <2>1. Waiting' = Cardinality(Told(Tail(inbox)))
    BY <1>1 DEF Waiting, Told
  <2>2. Cardinality(Told(Tail(inbox))) \in Nat
        /\ Cardinality(Told(inbox)) = Cardinality(Told(Tail(inbox))) + 1
    BY <1>1, <1>2, Leaving DEF AlertTypes
  <2>3. QED BY <1>3, <2>1, <2>2
<1>5. PICK b \in [Fields -> Nat], s \in Nat, v \in Nat :
        /\ batch' = b /\ SumFunction(ledger') = s /\ overflow' = v
        /\ Counted(b) + s + v = Counted(batch) + SumFunction(ledger) + overflow + 1
  BY <1>1, <1>2, AbsorbCounts
<1>6. Counted(b) \in Nat
  <2>1. "errors" \in Fields /\ 0 \in Nat
    BY DEF Fields
  <2>2. QED BY <2>1, CountedMore
<1>7. given = w + dropped + Counted(b) + s + v + told
  BY <1>2, <1>3, <1>4, <1>5, <1>6 DEF Accounted
<1>8. Accounted'
  BY <1>1, <1>4, <1>5, <1>7 DEF Accounted
<1>9. AlertTypes'
  <2>1. inbox' \in Seq(Events \cup {"flush"})
    BY <1>1, <1>2, HeadTailProperties DEF AlertTypes
  <2>2. IsFiniteSet(DOMAIN ledger') /\ ledger' \in [DOMAIN ledger' -> Nat]
    BY <1>1, <1>2, AbsorbCounts
  <2>3. QED BY <1>1, <1>2, <1>5, <2>1, <2>2 DEF AlertTypes
<1>10. QED BY <1>8, <1>9 DEF AlertInv

(* Closing a window, with what is queued left alone but for a flush. *)
LEMMA CloseKeeps ==
    ASSUME AlertInv, Expire \/ Flushed \/ LastClose
    PROVE  AlertInv'
<1>1. CloseWindow /\ UNCHANGED <<overflow, given>>
  BY DEF Expire, Flushed, LastClose, CloseWindow
<1>2. AlertTypes /\ Accounted
  BY DEF AlertInv
<1>3. {Waiting, dropped, Counted(batch), SumFunction(ledger), overflow, told, given} \subseteq Nat
      /\ Waiting = Cardinality(Told(inbox))
  BY <1>2, PartsCount
<1>4. inbox' \in Seq(Events \cup {"flush"}) /\ Waiting' = Waiting
  <2>1. CASE UNCHANGED inbox
    BY <1>2, <2>1 DEF AlertTypes, Waiting
  <2>2. CASE Flushed
    <3>1. inbox # <<>> /\ Head(inbox) = "flush" /\ inbox' = Tail(inbox)
      BY <2>2 DEF Flushed
    <3>2. Waiting' = Cardinality(Told(Tail(inbox)))
      BY <3>1 DEF Waiting, Told
    <3>3. Cardinality(Told(Tail(inbox))) \in Nat
          /\ Cardinality(Told(inbox)) = Cardinality(Told(Tail(inbox))) + 0
      BY <1>2, <3>1, Leaving DEF AlertTypes
    <3>4. Tail(inbox) \in Seq(Events \cup {"flush"})
      BY <1>2, <3>1, HeadTailProperties DEF AlertTypes
    <3>5. QED BY <1>3, <3>1, <3>2, <3>3, <3>4
  <2>3. QED BY <2>1, <2>2 DEF Expire, LastClose
<1>5. PICK b \in [Fields -> Nat], s \in Nat, d \in Nat, t \in Nat :
        /\ batch' = b /\ SumFunction(ledger') = s /\ dropped' = d /\ told' = t
        /\ Counted(b) + s + d + t = Counted(batch) + SumFunction(ledger) + dropped + told
  BY <1>1, <1>2, CloseCounts
<1>6. Counted(b) \in Nat
  <2>1. "errors" \in Fields /\ 0 \in Nat
    BY DEF Fields
  <2>2. QED BY <2>1, CountedMore
<1>7. given = Waiting + d + Counted(b) + s + overflow + t
  BY <1>2, <1>3, <1>5, <1>6 DEF Accounted
<1>8. Accounted'
  BY <1>1, <1>4, <1>5, <1>7 DEF Accounted
<1>9. AlertTypes'
  <2>1. IsFiniteSet(DOMAIN ledger') /\ ledger' \in [DOMAIN ledger' -> Nat]
    BY <1>1, <1>2, CloseCounts
  <2>2. QED BY <1>1, <1>2, <1>4, <1>5, <2>1 DEF AlertTypes
<1>10. QED BY <1>8, <1>9 DEF AlertInv

(* The other steps move no event. *)
LEMMA RestKeeps ==
    ASSUME AlertInv, \/ Leave \/ Posted \/ Unlimit \/ (\E c \in Classes : Unhush(c))
                     \/ UNCHANGED alertVars
    PROVE  AlertInv'
<1>1. UNCHANGED <<inbox, dropped, batch, ledger, overflow, told, given>>
  BY DEF Leave, Posted, Unlimit, Unhush, alertVars, books
<1>2. AlertTypes'
  BY <1>1 DEF AlertInv, AlertTypes
<1>3. Accounted'
  BY <1>1 DEF AlertInv, Accounted, Waiting, Counted
<1>4. QED BY <1>2, <1>3 DEF AlertInv

(* An event handed to the notifier is in exactly one place: queued, counted   *)
(* as dropped, in the batch, behind its class, past the ledger's bound, or   *)
(* in a message (notify.rs 305-311, 514-518, 887-900).                     *)
THEOREM EveryEventAccounted == AlertSpec => []Accounted
<1>1. AlertInit => AlertInv
  <2>1. SUFFICES ASSUME AlertInit PROVE AlertInv
    OBVIOUS
  <2>2. /\ inbox = <<>> /\ dropped = 0 /\ batch = EmptyBatch /\ ledger = <<>>
        /\ overflow = 0 /\ given = 0 /\ told = 0
    BY <2>1 DEF AlertInit
  <2>3. DOMAIN ledger = {} /\ IsFiniteSet({}) /\ ledger \in [{} -> Nat]
    BY <2>2, FS_EmptySet
  <2>4. AlertTypes
    <3>1. inbox \in Seq(Events \cup {"flush"})
      BY <2>2
    <3>2. QED BY <2>2, <2>3, <3>1, CountedNothing DEF AlertTypes
  <2>5. Waiting = 0
    <3>1. Told(inbox) = {}
      BY <2>2 DEF Told
    <3>2. QED BY <2>4, <3>1, PartsCount, FS_EmptySet
  <2>6. SumFunction(ledger) = 0 /\ Counted(batch) = 0
    BY <2>2, <2>3, SumOfNone, CountedNothing DEF SumFunction
  <2>7. Accounted
    BY <2>2, <2>5, <2>6 DEF Accounted
  <2>8. QED BY <2>4, <2>7 DEF AlertInv
<1>2. AlertInv /\ [AlertNext]_alertVars => AlertInv'
  BY QueueKeeps, TakeKeeps, CloseKeeps, RestKeeps DEF AlertNext
<1>3. AlertInv => Accounted
  BY DEF AlertInv
<1>4. QED BY <1>1, <1>2, <1>3, PTL DEF AlertSpec

-----------------------------------------------------------------------------
(* The killswitches' marks.                                                *)

(* What a group is worth while nobody trades and no price moves. *)
IdleMark(g) == [share |-> Share(quote, g),
                base  |-> [p \in PairsOf[g] |-> base[p]],
                fair  |-> [p \in PairsOf[g] |-> InitFair]]

MarksTypes ==
    /\ up \in BOOLEAN /\ still \in BOOLEAN
    /\ quote \in Nat /\ base \in [Pairs -> Nat] /\ fair \in [Pairs -> Fairs \cup {NoFair}]
    /\ mem \in [Groups -> Latches]
    /\ window \in [Groups -> [0 .. BleedWindow -> Nat]]

(* While a process runs and nobody has traded, what it read is what the pool  *)
(* holds, and its last marks are of those balances.                        *)
OneBook ==
    up => /\ view # NoView => view = [quote |-> quote, base |-> base]
          /\ \A g \in Groups : prev[g] # NoView =>
                /\ prev[g].share = Share(quote, g)
                /\ prev[g].base = [p \in PairsOf[g] |-> base[p]]
                /\ prev[g].fair \in [PairsOf[g] -> Fairs]

(* While no price has moved either, every mark is the same. *)
OneMark ==
    /\ \A p \in Pairs : fair[p] \in {InitFair, NoFair}
    /\ \A g \in Groups : /\ ~mem[g].halted
                         /\ up => \A a \in 0 .. BleedWindow : window[g][a] \in {0, Nav(IdleMark(g))}

MarksInv ==
    live = {} => /\ MarksTypes /\ OneBook
                 /\ \A g \in Groups : mem[g].loss = 0
                 /\ still => OneMark

LEMMA MarksConstants ==
    /\ IsFiniteSet(Pairs) /\ Cardinality(Pairs) \in Nat \ {0}
    /\ Fairs \subseteq Nat /\ InitFair \in Fairs /\ NoFair \notin Fairs
    /\ Scale \in Nat \ {0} /\ InitQuote \in Nat /\ InitBase \in Nat /\ BleedWindow \in Nat
    /\ Costs \subseteq Nat /\ BleedLimit \in Nat \ {0} /\ LossBudget \in Nat \ {0}
    /\ \A g \in Groups : PairsOf[g] \subseteq Pairs /\ IsFiniteSet(PairsOf[g])
                         /\ Cardinality(PairsOf[g]) \in Nat
<1>1. /\ IsFiniteSet(Pairs) /\ Pairs # {}
      /\ Fairs \subseteq Nat /\ InitFair \in Fairs /\ NoFair \notin Fairs
      /\ Scale \in Nat \ {0} /\ InitQuote \in Nat /\ InitBase \in Nat /\ BleedWindow \in Nat
      /\ Costs \subseteq Nat /\ BleedLimit \in Nat \ {0} /\ LossBudget \in Nat \ {0}
  BY MarksAssumption, LimitsAssumption DEF MarksAssumption, LimitsAssumption
<1>2. Cardinality(Pairs) \in Nat \ {0}
  BY <1>1, FS_CardinalityType, FS_EmptySet
<1>3. ASSUME NEW g \in Groups
      PROVE  PairsOf[g] \subseteq Pairs /\ IsFiniteSet(PairsOf[g])
             /\ Cardinality(PairsOf[g]) \in Nat
  <2>1. PairsOf[g] \subseteq Pairs
    BY DEF Pairs
  <2>2. QED BY <1>1, <2>1, FS_Subset, FS_CardinalityType
<1>4. QED BY <1>1, <1>2, <1>3

LEMMA ValueIsNat ==
    ASSUME NEW b \in Nat, NEW f \in Nat
    PROVE  Value(b, f) \in Nat
<1> DEFINE x == b * f
<1>1. x \in Nat
  OBVIOUS
<1>2. Scale \in Nat \ {0}
  BY MarksConstants
<1> HIDE DEF x
<1>3. x \div Scale \in Nat
  BY <1>1, <1>2, SMT
<1>4. QED BY <1>3 DEF Value, x

LEMMA ShareIsNat ==
    ASSUME NEW q \in Nat, NEW g \in Groups
    PROVE  Share(q, g) \in Nat
<1> DEFINE n == Cardinality(Pairs)
           k == Cardinality(PairsOf[g])
<1>1. n \in Nat \ {0} /\ k \in Nat
  BY MarksConstants
<1> DEFINE d == q \div n
<1> HIDE DEF n, k
<1>2. d \in Nat
  BY <1>1, SMT
<1> HIDE DEF d
<1>3. d * k \in Nat
  BY <1>1, <1>2
<1>4. QED BY <1>3 DEF Share, d, n, k

(* The worth of a mark is its share and its summands. *)
Worth(m) == [p \in DOMAIN m.base |-> Value(m.base[p], m.fair[p])]

LEMMA NavSum ==
    ASSUME NEW m, IsFiniteSet(DOMAIN m.base)
    PROVE  Nav(m) = m.share + SumFunctionOnSet(Worth(m), DOMAIN m.base)
<1> DEFINE S == DOMAIN m.base
           g == Worth(m)
           ok(H) == H = [T \in SUBSET S |->
                            IF T = {} THEN 0
                            ELSE Value(m.base[AnyOf(T)], m.fair[AnyOf(T)]) + H[T \ {AnyOf(T)}]]
<1>1. Nav(m) = m.share + (CHOOSE H : ok(H))[S]
  BY DEF Nav, MapThenSumSet, MapThenFoldSet, AnyOf
<1>2. \A H : ok(H) <=> SumsUp(H, g, S)
  BY DEF SumsUp, AnyOf, Worth
<1>3. PICK G : SumsUp(G, g, S)
  BY SumsExist
<1> HIDE DEF ok, g
<1>4. ok(CHOOSE H : ok(H))
  BY <1>2, <1>3
<1>5. SumsUp(CHOOSE H : ok(H), g, S)
  BY <1>2, <1>4
<1>6. SumFunctionOnSet(g, S) = (CHOOSE H : ok(H))[S]
  BY <1>5, SumIsSums
<1>7. QED BY <1>1, <1>6 DEF g

(* Two marks of the same balances differ by their revaluation. *)
LEMMA NothingTraded ==
    ASSUME NEW S, IsFiniteSet(S), NEW a, NEW b, NEW q \in Nat,
           a.share = q, b.share = q, a.base \in [S -> Nat], b.base = a.base,
           a.fair \in [S -> Nat], b.fair \in [S -> Nat]
    PROVE  TradePnl(a, b) = 0 /\ Nav(a) \in Nat
<1> DEFINE d == [p \in S |-> Worth(b)[p] - Worth(a)[p]]
           ok(H) == H = [T \in SUBSET S |->
                            IF T = {} THEN 0
                            ELSE (LET p == AnyOf(T)
                                  IN Value(a.base[p], IF p \in DOMAIN b.fair THEN b.fair[p] ELSE a.fair[p])
                                     - Value(a.base[p], a.fair[p])) + H[T \ {AnyOf(T)}]]
<1>1. DOMAIN a.base = S /\ DOMAIN b.base = S /\ DOMAIN b.fair = S
  OBVIOUS
<1>2. \A p \in S : Worth(a)[p] = Value(a.base[p], a.fair[p]) /\ Worth(b)[p] = Value(a.base[p], b.fair[p])
                   /\ Worth(a)[p] \in Nat /\ Worth(b)[p] \in Nat
  BY <1>1, ValueIsNat DEF Worth
<1>3. Revaluation(a, b) = (CHOOSE H : ok(H))[S]
  BY <1>1 DEF Revaluation, MapThenSumSet, MapThenFoldSet, AnyOf
<1>4. \A H : ok(H) <=> SumsUp(H, d, S)
  <2>1. ASSUME NEW T \in SUBSET S, T # {}
        PROVE  LET p == AnyOf(T)
               IN d[p] = Value(a.base[p], IF p \in DOMAIN b.fair THEN b.fair[p] ELSE a.fair[p])
                         - Value(a.base[p], a.fair[p])
    <3>1. AnyOf(T) \in S
      BY <2>1 DEF AnyOf
    <3>2. QED BY <1>1, <1>2, <3>1
  <2> HIDE DEF d
  <2>2. QED BY <2>1 DEF SumsUp
<1>5. PICK G : SumsUp(G, d, S)
  BY SumsExist
<1> HIDE DEF ok
<1>6. ok(CHOOSE H : ok(H))
  BY <1>4, <1>5
<1>7. SumsUp(CHOOSE H : ok(H), d, S)
  BY <1>4, <1>6
<1>8. Revaluation(a, b) = SumFunctionOnSet(d, S)
  BY <1>3, <1>7, SumIsSums
<1>9. SumFunctionOnSet(d, S) = SumFunctionOnSet(Worth(b), S) - SumFunctionOnSet(Worth(a), S)
  <2>1. \A p \in S : Worth(b)[p] \in Int /\ Worth(a)[p] \in Int
                     /\ d[p] = Worth(b)[p] - Worth(a)[p]
    BY <1>2
  <2> HIDE DEF d
  <2>2. QED BY <2>1, SumOfDifferences
<1>10. SumFunctionOnSet(Worth(a), S) \in Nat /\ SumFunctionOnSet(Worth(b), S) \in Nat
  BY <1>2, SumIsNat
<1>11. Nav(a) = q + SumFunctionOnSet(Worth(a), S) /\ Nav(b) = q + SumFunctionOnSet(Worth(b), S)
  BY <1>1, NavSum
<1> HIDE DEF d
<1>12. TradePnl(a, b) = Nav(b) - Nav(a) - Revaluation(a, b)
  BY DEF TradePnl
<1>13. QED BY <1>8, <1>9, <1>10, <1>11, <1>12

(* What a cycle marks a group at while nobody has traded. *)
LEMMA MarkedIdle ==
    ASSUME MarksInv, live = {}, up, view # NoView, NEW g \in Groups, Markable(g)
    PROVE  /\ MarkOf(g).share = Share(quote, g)
           /\ MarkOf(g).base = [p \in PairsOf[g] |-> base[p]]
           /\ MarkOf(g).fair \in [PairsOf[g] -> Fairs]
           /\ Nav(MarkOf(g)) \in Nat
           /\ prev[g] # NoView => TradePnl(prev[g], MarkOf(g)) = 0
           /\ still => MarkOf(g) = IdleMark(g)
<1> DEFINE S == PairsOf[g]
<1>1. MarksTypes /\ OneBook /\ (still => OneMark)
  BY DEF MarksInv
<1>2. view = [quote |-> quote, base |-> base] /\ Marked(g) = S
  BY <1>1 DEF OneBook, Markable
<1>3. S \subseteq Pairs /\ IsFiniteSet(S) /\ Fairs \subseteq Nat
  BY MarksConstants
<1>4. \A p \in S : fair[p] \in Fairs /\ base[p] \in Nat
  <2>1. \A p \in S : fair[p] # NoFair
    BY <1>2 DEF Marked
  <2>2. QED BY <1>1, <1>3, <2>1 DEF MarksTypes
<1>5. MarkOf(g) = [share |-> Share(quote, g), base |-> [p \in S |-> base[p]],
                   fair |-> [p \in S |-> fair[p]]]
  BY <1>2 DEF MarkOf
<1>6. MarkOf(g).base \in [S -> Nat] /\ MarkOf(g).fair \in [S -> Fairs]
      /\ MarkOf(g).fair \in [S -> Nat]
  <2>1. [p \in S |-> base[p]] \in [S -> Nat]
    BY <1>4
  <2>2. [p \in S |-> fair[p]] \in [S -> Fairs] /\ [p \in S |-> fair[p]] \in [S -> Nat]
    BY <1>3, <1>4
  <2>3. MarkOf(g).base = [p \in S |-> base[p]] /\ MarkOf(g).fair = [p \in S |-> fair[p]]
    BY <1>5
  <2>4. QED BY <2>1, <2>2, <2>3
<1>7. Share(quote, g) \in Nat
  BY <1>1, ShareIsNat DEF MarksTypes
<1>8. Nav(MarkOf(g)) \in Nat
  BY <1>3, <1>5, <1>6, <1>7, NothingTraded
<1>9. ASSUME prev[g] # NoView
      PROVE  TradePnl(prev[g], MarkOf(g)) = 0
  <2>1. prev[g].share = Share(quote, g) /\ prev[g].base = [p \in S |-> base[p]]
        /\ prev[g].fair \in [S -> Fairs]
    BY <1>1, <1>9 DEF OneBook
  <2>2. prev[g].base \in [S -> Nat] /\ prev[g].fair \in [S -> Nat]
    BY <1>3, <1>4, <2>1
  <2>3. MarkOf(g).share = Share(quote, g) /\ MarkOf(g).base = prev[g].base
    BY <1>5, <2>1
  <2>4. QED BY <1>3, <1>6, <1>7, <2>1, <2>2, <2>3, NothingTraded
<1>10. ASSUME still
       PROVE  MarkOf(g) = IdleMark(g)
  <2>1. \A p \in S : fair[p] = InitFair
    BY <1>1, <1>3, <1>4, <1>10, MarksConstants DEF OneMark
  <2>2. [p \in S |-> fair[p]] = [p \in S |-> InitFair]
    BY <2>1
  <2>3. QED BY <1>5, <2>2 DEF IdleMark
<1>11. QED BY <1>5, <1>6, <1>8, <1>9, <1>10

(* A switch that has lost nothing and is told of no loss keeps its budget, and *)
(* trips only on a drawdown.                                               *)
LEMMA ObservedIdle ==
    ASSUME NEW s \in Latches, ~s.halted, s.loss = 0, NEW seeded, NEW drawdown
    PROVE  /\ Observed(s, seeded, 0, drawdown) \in Latches
           /\ Observed(s, seeded, 0, drawdown).loss = 0
           /\ drawdown = 0 => Observed(s, seeded, 0, drawdown) = s
<1>1. Accumulated(s, 0) = s
  BY DEF Accumulated
<1>2. Verdict(s, drawdown) = IF drawdown >= BleedLimit THEN "bleed" ELSE "none"
  BY MarksConstants DEF Verdict
<1>3. Halted(s, "bleed") \in Latches /\ Halted(s, "bleed").loss = 0
  <2>1. Halted(s, "bleed") = [halted |-> TRUE, cause |-> "bleed", loss |-> 0]
    BY DEF Halted, Latches
  <2>2. [halted |-> TRUE, cause |-> "bleed", loss |-> 0] \in Latches
    BY DEF Latches, Causes
  <2>3. [halted |-> TRUE, cause |-> "bleed", loss |-> 0].loss = 0
    OBVIOUS
  <2> DEFINE h == [halted |-> TRUE, cause |-> "bleed", loss |-> 0]
  <2>4. Halted(s, "bleed") = h /\ h \in Latches /\ h.loss = 0
    BY <2>1, <2>2, <2>3
  <2> HIDE DEF h
  <2>5. QED BY <2>4
<1>4. Observed(s, seeded, 0, drawdown) =
        IF Shadow \/ Verdict(s, drawdown) = "none" THEN s ELSE Halted(s, Verdict(s, drawdown))
  BY <1>1 DEF Observed
<1>5. drawdown = 0 => Verdict(s, drawdown) = "none"
  BY <1>2, MarksConstants
<1>6. QED BY <1>2, <1>3, <1>4, <1>5

(* A window of one mark and zeros draws nothing down. *)
LEMMA PushedIdle ==
    ASSUME NEW w \in [0 .. BleedWindow -> Nat], NEW nav \in Nat
    PROVE  /\ Pushed(w, nav) \in [0 .. BleedWindow -> Nat]
           /\ (\A a \in 0 .. BleedWindow : w[a] \in {0, nav})
                => /\ \A a \in 0 .. BleedWindow : Pushed(w, nav)[a] \in {0, nav}
                   /\ Drawdown(Pushed(w, nav), nav) = 0
<1>1. BleedWindow \in Nat /\ 0 \in 0 .. BleedWindow
  BY MarksConstants
<1>2. w[0] \in Nat
  BY <1>1
<1>3. Max({w[0], nav}) = IF w[0] >= nav THEN w[0] ELSE nav
  BY <1>2, LargerOfTwo
<1> DEFINE W == Pushed(w, nav)
<1>4. W = [w EXCEPT ![0] = Max({w[0], nav})]
  BY DEF Pushed
<1>5. W \in [0 .. BleedWindow -> Nat]
  BY <1>1, <1>2, <1>3, <1>4
<1>6. ASSUME \A a \in 0 .. BleedWindow : w[a] \in {0, nav}
      PROVE  /\ \A a \in 0 .. BleedWindow : W[a] \in {0, nav}
             /\ Drawdown(W, nav) = 0
  <2>1. w[0] \in {0, nav}
    BY <1>1, <1>6
  <2>2. Max({w[0], nav}) = nav
    BY <1>3, <2>1
  <2>3. W[0] = nav
    BY <1>1, <1>4, <2>2
  <2>4. \A a \in 0 .. BleedWindow : W[a] \in {0, nav}
    BY <1>4, <1>6, <2>2
  <2> DEFINE T == {W[a] : a \in DOMAIN W}
  <2>5. DOMAIN W = 0 .. BleedWindow
    BY <1>5
  <2> HIDE DEF W
  <2>6. nav \in T /\ \A y \in T : y \in {0, nav}
    BY <1>1, <2>3, <2>4, <2>5
  <2> HIDE DEF T
  <2>7. \A y \in T : nav >= y /\ y \in Nat
    BY <2>6
  <2>8. Max(T) = nav
    <3>1. \A x \in T : (\A y \in T : x >= y) => x = nav
      <4>1. SUFFICES ASSUME NEW x \in T, \A y \in T : x >= y PROVE x = nav
        OBVIOUS
      <4>2. x >= nav /\ nav >= x /\ x \in Nat
        BY <2>6, <2>7, <4>1
      <4>3. QED BY <4>2
    <3>2. QED BY <2>6, <2>7, <3>1 DEF Max
  <2>9. Drawdown(W, nav) = 0
    BY <2>8 DEF Drawdown, T
  <2>10. QED BY <2>4, <2>9
<1>7. QED BY <1>5, <1>6

(* Marking: no trade result, and no drawdown while the prices stand. *)
LEMMA MarkKeeps ==
    ASSUME MarksInv, Mark
    PROVE  MarksInv'
<1> DEFINE Takes(g) == Markable(g) /\ ~mem[g].halted
           New(g) == IF Takes(g) THEN Observe(g)
                     ELSE [mem |-> mem[g], prev |-> prev[g], window |-> window[g]]
<1>1. /\ up /\ view # NoView
      /\ mem' = [g \in Groups |-> New(g).mem]
      /\ prev' = [g \in Groups |-> New(g).prev]
      /\ window' = [g \in Groups |-> New(g).window]
      /\ UNCHANGED <<quote, base, fair, up, view, live, still>>
  BY DEF Mark, world
<1>2. SUFFICES ASSUME live = {}
      PROVE  /\ MarksTypes' /\ OneBook'
             /\ \A g \in Groups : mem'[g].loss = 0
             /\ still => OneMark'
  BY <1>1 DEF MarksInv
<1>3. /\ MarksTypes /\ OneBook /\ (still => OneMark)
      /\ \A g \in Groups : mem[g].loss = 0
  BY <1>2 DEF MarksInv
<1>4. ASSUME NEW g \in Groups
      PROVE  /\ New(g).mem \in Latches /\ New(g).mem.loss = 0
             /\ New(g).window \in [0 .. BleedWindow -> Nat]
             /\ New(g).prev # NoView =>
                  /\ New(g).prev.share = Share(quote, g)
                  /\ New(g).prev.base = [p \in PairsOf[g] |-> base[p]]
                  /\ New(g).prev.fair \in [PairsOf[g] -> Fairs]
             /\ still => /\ ~New(g).mem.halted
                         /\ \A a \in 0 .. BleedWindow : New(g).window[a] \in {0, Nav(IdleMark(g))}
  <2>1. mem[g] \in Latches /\ mem[g].loss = 0 /\ window[g] \in [0 .. BleedWindow -> Nat]
    BY <1>3 DEF MarksTypes
  <2>2. CASE ~Takes(g)
    <3>1. New(g).mem = mem[g] /\ New(g).prev = prev[g] /\ New(g).window = window[g]
      BY <2>2
    <3> HIDE DEF New, Takes
    <3>2. still => /\ ~mem[g].halted
                   /\ \A a \in 0 .. BleedWindow : window[g][a] \in {0, Nav(IdleMark(g))}
      BY <1>1, <1>3 DEF OneMark
    <3>3. prev[g] # NoView => /\ prev[g].share = Share(quote, g)
                              /\ prev[g].base = [p \in PairsOf[g] |-> base[p]]
                              /\ prev[g].fair \in [PairsOf[g] -> Fairs]
      BY <1>1, <1>3 DEF OneBook
    <3>4. QED BY <2>1, <3>1, <3>2, <3>3
  <2>3. CASE Takes(g)
    <3> DEFINE now == MarkOf(g)
               nav == Nav(now)
               w == Pushed(window[g], nav)
               m == Observed(mem[g], prev[g] = NoView, 0, Drawdown(w, nav))
    <3>1. /\ now.share = Share(quote, g)
          /\ now.base = [p \in PairsOf[g] |-> base[p]]
          /\ now.fair \in [PairsOf[g] -> Fairs]
          /\ nav \in Nat
          /\ prev[g] # NoView => TradePnl(prev[g], now) = 0
          /\ still => now = IdleMark(g)
      BY <1>1, <1>2, <2>3, MarkedIdle
    <3>2. New(g).mem = m /\ New(g).prev = now /\ New(g).window = w
      <4>1. (IF prev[g] = NoView THEN 0 ELSE TradePnl(prev[g], now)) = 0
        BY <3>1
      <4>2. Observe(g) = [mem |-> m, prev |-> now, window |-> w]
        BY <4>1 DEF Observe
      <4>3. QED BY <2>3, <4>2
    <3> HIDE DEF New, Takes
    <3>3. m \in Latches /\ m.loss = 0 /\ (Drawdown(w, nav) = 0 => m = mem[g])
      BY <2>1, <2>3, ObservedIdle DEF Takes
    <3>4. w \in [0 .. BleedWindow -> Nat]
      BY <2>1, <3>1, PushedIdle
    <3>5. ASSUME still
          PROVE  /\ ~m.halted
                 /\ \A a \in 0 .. BleedWindow : w[a] \in {0, Nav(IdleMark(g))}
      <4>1. nav = Nav(IdleMark(g))
        BY <3>1, <3>5
      <4>2. \A a \in 0 .. BleedWindow : window[g][a] \in {0, nav}
        BY <1>1, <1>3, <3>5, <4>1 DEF OneMark
      <4>3. (\A a \in 0 .. BleedWindow : w[a] \in {0, nav}) /\ Drawdown(w, nav) = 0
        BY <2>1, <3>1, <4>2, PushedIdle
      <4> HIDE DEF now, nav, w, m
      <4>4. m = mem[g]
        BY <3>3, <4>3
      <4>5. QED BY <2>3, <4>1, <4>3, <4>4 DEF Takes
    <3> HIDE DEF now, nav, w, m
    <3>6. New(g).prev.share = Share(quote, g)
          /\ New(g).prev.base = [p \in PairsOf[g] |-> base[p]]
          /\ New(g).prev.fair \in [PairsOf[g] -> Fairs]
      BY <3>1, <3>2
    <3>7. QED BY <3>2, <3>3, <3>4, <3>5, <3>6
  <2>4. QED BY <2>2, <2>3
<1> HIDE DEF New
<1>5. \A g \in Groups : mem'[g] = New(g).mem /\ prev'[g] = New(g).prev /\ window'[g] = New(g).window
  BY <1>1
<1>6. MarksTypes'
  <2>1. mem' \in [Groups -> Latches] /\ window' \in [Groups -> [0 .. BleedWindow -> Nat]]
    BY <1>1, <1>4
  <2>2. QED BY <1>1, <1>3, <2>1 DEF MarksTypes
<1>7. OneBook'
  <2>1. view = [quote |-> quote, base |-> base]
    BY <1>1, <1>3 DEF OneBook
  <2>2. \A g : Share(quote', g) = Share(quote, g)
    BY <1>1
  <2>3. SUFFICES ASSUME NEW g \in Groups, prev'[g] # NoView
        PROVE  /\ prev'[g].share = Share(quote', g)
               /\ prev'[g].base = [p \in PairsOf[g] |-> base'[p]]
               /\ prev'[g].fair \in [PairsOf[g] -> Fairs]
    BY <1>1, <2>1 DEF OneBook
  <2>4. New(g).prev # NoView /\ prev'[g] = New(g).prev
    BY <1>5, <2>3
  <2>5. QED BY <1>1, <1>4, <2>4
<1>8. ASSUME still PROVE OneMark'
  <2>1. \A g : IdleMark(g)' = IdleMark(g)
    BY <1>1 DEF IdleMark, Share
  <2>2. \A g \in Groups : Nav(IdleMark(g))' = Nav(IdleMark(g))
    BY <2>1
  <2>3. SUFFICES /\ \A p \in Pairs : fair[p] \in {InitFair, NoFair}
                 /\ \A g \in Groups : /\ ~mem'[g].halted
                       /\ \A a \in 0 .. BleedWindow : window'[g][a] \in {0, Nav(IdleMark(g))}
    BY <1>1, <2>2 DEF OneMark
  <2>4. QED BY <1>3, <1>4, <1>5, <1>8 DEF OneMark
<1>9. QED BY <1>4, <1>5, <1>6, <1>7, <1>8

(* A mark depends on the balances alone. *)
LEMMA SameShares ==
    ASSUME UNCHANGED <<quote, base>>
    PROVE  \A g : Share(quote, g)' = Share(quote, g) /\ Nav(IdleMark(g))' = Nav(IdleMark(g))
<1>1. \A g : IdleMark(g)' = IdleMark(g)
  BY DEF IdleMark, Share
<1>2. QED BY <1>1 DEF Share

(* A trade while a process runs ends the idleness; one that no process saw    *)
(* changes what the next one reads first.                                  *)
LEMMA FilledKeeps ==
    ASSUME MarksInv, NEW p \in Pairs, NEW d \in {-1, 1}, NEW c \in Costs, Fill(p, d, c)
    PROVE  MarksInv'
<1>1. /\ base[p] + d >= 0 /\ quote - d * c >= 0
      /\ base' = [base EXCEPT ![p] = base[p] + d] /\ quote' = quote - d * c
      /\ live' = IF up THEN live \cup {p} ELSE live
      /\ UNCHANGED <<fair, up, view, mem, prev, window, still>>
  BY DEF Fill, switch
<1>2. CASE up
  <2>1. live' # {}
    BY <1>1, <1>2
  <2>2. QED BY <2>1 DEF MarksInv
<1>3. CASE ~up
  <2>1. SUFFICES ASSUME live = {}
        PROVE  /\ MarksTypes' /\ OneBook'
               /\ \A g \in Groups : mem'[g].loss = 0
               /\ still => OneMark'
    BY <1>1, <1>3 DEF MarksInv
  <2>2. /\ MarksTypes /\ (still => OneMark) /\ \A g \in Groups : mem[g].loss = 0
    BY <2>1 DEF MarksInv
  <2>3. base[p] \in Nat /\ quote \in Nat /\ c \in Nat
    BY <2>2, MarksConstants DEF MarksTypes
  <2>4. base[p] + d \in Nat
    BY <1>1, <2>3
  <2>5. quote - d * c \in Nat
    <3>1. CASE d = 1
      BY <1>1, <2>3, <3>1
    <3>2. CASE d = -1
      BY <1>1, <2>3, <3>2
    <3>3. QED BY <3>1, <3>2
  <2>6. MarksTypes'
    <3>1. base' \in [Pairs -> Nat]
      BY <1>1, <2>2, <2>4 DEF MarksTypes
    <3>2. QED BY <1>1, <2>2, <2>5, <3>1 DEF MarksTypes
  <2>7. OneBook'
    BY <1>1, <1>3 DEF OneBook
  <2>8. still => OneMark'
    BY <1>1, <1>3, <2>2 DEF OneMark
  <2>9. QED BY <1>1, <2>2, <2>6, <2>7, <2>8
<1>4. QED BY <1>2, <1>3

(* A price moves. *)
LEMMA MovedKeeps ==
    ASSUME MarksInv, NEW p \in Pairs, NEW f \in Fairs \cup {NoFair}, Move(p, f)
    PROVE  MarksInv'
<1>1. /\ fair' = [fair EXCEPT ![p] = f] /\ still' = (still /\ f \in {InitFair, NoFair})
      /\ UNCHANGED <<quote, base, up, view, mem, prev, window, live>>
  BY DEF Move, switch
<1>2. SUFFICES ASSUME live = {}
      PROVE  /\ MarksTypes' /\ OneBook'
             /\ \A g \in Groups : mem'[g].loss = 0
             /\ still' => OneMark'
  BY <1>1 DEF MarksInv
<1>3. /\ MarksTypes /\ OneBook /\ (still => OneMark) /\ \A g \in Groups : mem[g].loss = 0
  BY <1>2 DEF MarksInv
<1>4. MarksTypes'
  <2>1. fair' \in [Pairs -> Fairs \cup {NoFair}]
    BY <1>1, <1>3 DEF MarksTypes
  <2>2. still' \in BOOLEAN
    BY <1>1
  <2>3. QED BY <1>1, <1>3, <2>1, <2>2 DEF MarksTypes
<1>5. OneBook'
  BY <1>1, <1>3, SameShares DEF OneBook
<1>6. ASSUME still' PROVE OneMark'
  <2>1. still /\ f \in {InitFair, NoFair} /\ OneMark
    BY <1>1, <1>3, <1>6
  <2>2. \A r \in Pairs : fair'[r] \in {InitFair, NoFair}
    BY <1>1, <1>3, <2>1 DEF OneMark, MarksTypes
  <2>3. QED BY <1>1, <2>1, <2>2, SameShares DEF OneMark
<1>7. QED BY <1>1, <1>3, <1>4, <1>5, <1>6

(* The reader publishes, the process stops, or nothing happens. *)
LEMMA WatchedKeeps ==
    ASSUME MarksInv, Read \/ Stop \/ UNCHANGED vars
    PROVE  MarksInv'
<1>1. /\ UNCHANGED <<quote, base, fair, mem, prev, window, live, still>>
      /\ (up' = up \/ up' = FALSE)
      /\ (view' = view \/ view' = [quote |-> quote, base |-> base])
  <2>1. CASE Read
    BY <2>1 DEF Read, world, switch
  <2>2. CASE Stop
    BY <2>2 DEF Stop, world, switch
  <2>3. CASE UNCHANGED vars
    BY <2>3 DEF vars, world, switch
  <2>4. QED BY <2>1, <2>2, <2>3
<1>2. SUFFICES ASSUME live = {}
      PROVE  /\ MarksTypes' /\ OneBook'
             /\ \A g \in Groups : mem'[g].loss = 0
             /\ still => OneMark'
  BY <1>1 DEF MarksInv
<1>3. /\ MarksTypes /\ OneBook /\ (still => OneMark) /\ \A g \in Groups : mem[g].loss = 0
  BY <1>2 DEF MarksInv
<1>4. MarksTypes'
  BY <1>1, <1>3 DEF MarksTypes
<1>5. OneBook'
  <2>1. ASSUME up'
        PROVE  /\ view' # NoView => view' = [quote |-> quote, base |-> base]
               /\ \A g \in Groups : prev[g] # NoView =>
                    /\ prev[g].share = Share(quote, g)
                    /\ prev[g].base = [p \in PairsOf[g] |-> base[p]]
                    /\ prev[g].fair \in [PairsOf[g] -> Fairs]
    BY <1>1, <1>3, <2>1 DEF OneBook
  <2>2. QED BY <1>1, <2>1, SameShares DEF OneBook
<1>6. still => OneMark'
  BY <1>1, <1>3, SameShares DEF OneMark
<1>7. QED BY <1>1, <1>3, <1>4, <1>5, <1>6

(* The window's marks age. *)
LEMMA AgedKeeps ==
    ASSUME MarksInv, Tick
    PROVE  MarksInv'
<1>1. /\ up /\ UNCHANGED <<quote, base, fair, up, view, mem, prev, live, still>>
      /\ window' = [g \in Groups |->
                      [a \in 0 .. BleedWindow |-> IF a = 0 THEN 0 ELSE window[g][a - 1]]]
  BY DEF Tick, world
<1>2. SUFFICES ASSUME live = {}
      PROVE  /\ MarksTypes' /\ OneBook'
             /\ \A g \in Groups : mem'[g].loss = 0
             /\ still => OneMark'
  BY <1>1 DEF MarksInv
<1>3. /\ MarksTypes /\ OneBook /\ (still => OneMark) /\ \A g \in Groups : mem[g].loss = 0
  BY <1>2 DEF MarksInv
<1>4. \A a \in 0 .. BleedWindow : a # 0 => a - 1 \in 0 .. BleedWindow
  BY MarksConstants
<1>5. MarksTypes'
  <2>1. window' \in [Groups -> [0 .. BleedWindow -> Nat]]
    <3>1. \A g \in Groups : window[g] \in [0 .. BleedWindow -> Nat]
      BY <1>3 DEF MarksTypes
    <3>2. \A g \in Groups, a \in 0 .. BleedWindow :
             (IF a = 0 THEN 0 ELSE window[g][a - 1]) \in Nat
      BY <1>4, <3>1
    <3>3. QED BY <1>1, <3>2
  <2>2. QED BY <1>1, <1>3, <2>1 DEF MarksTypes
<1>6. OneBook'
  BY <1>1, <1>3, SameShares DEF OneBook
<1>7. ASSUME still PROVE OneMark'
  <2>1. OneMark
    BY <1>3, <1>7
  <2>2. \A g \in Groups, a \in 0 .. BleedWindow : window'[g][a] \in {0, Nav(IdleMark(g))}
    BY <1>1, <1>4, <2>1 DEF OneMark
  <2>3. QED BY <1>1, <2>1, <2>2, SameShares DEF OneMark
<1>8. QED BY <1>1, <1>3, <1>5, <1>6, <1>7

(* A start forgets the last marks and the window. *)
LEMMA StartedKeeps ==
    ASSUME MarksInv, Start
    PROVE  MarksInv'
<1>1. /\ up' = TRUE /\ view' = NoView /\ UNCHANGED <<quote, base, fair, mem, live, still>>
      /\ prev' = [g \in Groups |-> NoView] /\ window' = [g \in Groups |-> EmptyWindow]
  BY DEF Start, world
<1>2. SUFFICES ASSUME live = {}
      PROVE  /\ MarksTypes' /\ OneBook'
             /\ \A g \in Groups : mem'[g].loss = 0
             /\ still => OneMark'
  BY <1>1 DEF MarksInv
<1>3. /\ MarksTypes /\ (still => OneMark) /\ \A g \in Groups : mem[g].loss = 0
  BY <1>2 DEF MarksInv
<1>4. EmptyWindow \in [0 .. BleedWindow -> Nat] /\ \A a \in 0 .. BleedWindow : EmptyWindow[a] = 0
  BY DEF EmptyWindow
<1>5. MarksTypes'
  BY <1>1, <1>3, <1>4 DEF MarksTypes
<1>6. OneBook'
  BY <1>1 DEF OneBook
<1>7. ASSUME still PROVE OneMark'
  <2>1. OneMark
    BY <1>3, <1>7
  <2>2. \A g \in Groups, a \in 0 .. BleedWindow : window'[g][a] = 0
    BY <1>1, <1>4
  <2>3. QED BY <1>1, <2>1, <2>2 DEF OneMark
<1>8. QED BY <1>1, <1>3, <1>5, <1>6, <1>7

(* Without trades the budget is untouched, and without price moves no group   *)
(* trips either, whatever prices are missing and however often the process   *)
(* starts (risk.rs 9-13, 23-26; main.rs 2919-2952).                        *)
THEOREM IdleIsFree == Spec => []IdleBookIsFree
<1>1. Init => MarksInv
  <2>1. SUFFICES ASSUME Init PROVE MarksInv
    OBVIOUS
  <2>2. /\ quote = InitQuote /\ base = [p \in Pairs |-> InitBase]
        /\ fair = [p \in Pairs |-> InitFair] /\ up = TRUE /\ view = NoView
        /\ mem = [g \in Groups |-> FreshLatch] /\ prev = [g \in Groups |-> NoView]
        /\ window = [g \in Groups |-> EmptyWindow] /\ still = TRUE
    BY <2>1 DEF Init
  <2>3. FreshLatch \in Latches /\ FreshLatch.loss = 0 /\ ~FreshLatch.halted
    BY DEF FreshLatch, Latches, Causes
  <2>4. EmptyWindow \in [0 .. BleedWindow -> Nat] /\ \A a \in 0 .. BleedWindow : EmptyWindow[a] = 0
    BY DEF EmptyWindow
  <2>5. MarksTypes
    BY <2>2, <2>3, <2>4, MarksConstants DEF MarksTypes
  <2>6. OneBook
    BY <2>2 DEF OneBook
  <2>7. OneMark
    <3>1. \A p \in Pairs : fair[p] = InitFair
      BY <2>2
    <3>2. \A g \in Groups : ~mem[g].halted /\ \A a \in 0 .. BleedWindow : window[g][a] = 0
      BY <2>2, <2>3, <2>4
    <3>3. QED BY <3>1, <3>2 DEF OneMark
  <2>8. \A g \in Groups : mem[g].loss = 0
    BY <2>2, <2>3
  <2>9. QED BY <2>5, <2>6, <2>7, <2>8 DEF MarksInv
<1>2. MarksInv /\ [Next]_vars => MarksInv'
  BY FilledKeeps, MovedKeeps, WatchedKeeps, MarkKeeps, AgedKeeps, StartedKeeps DEF Next
<1>3. MarksInv => IdleBookIsFree
  BY DEF MarksInv, OneMark, IdleBookIsFree
<1>4. QED BY <1>1, <1>2, <1>3, PTL DEF Spec

-----------------------------------------------------------------------------
(* The Swap scan and the markout it feeds.                                 *)

Swaps    == DOMAIN landed
AnyLog   == Nat \X {0, 1}
Landings == [block : Nat, index : {0, 1}, moved : BOOLEAN]
FillsOf  == [log : AnyLog, at : Nat]

FillTypes ==
    /\ sealed \in Nat
    /\ landed \in Seq(Landings) /\ Len(landed) <= MaxSwaps
    /\ heard # NoBlock => heard \in Nat /\ heard <= sealed
    /\ shown # NoBlock => shown \in Nat /\ shown <= sealed
    /\ cursor \in Int /\ cursor <= sealed
    /\ seen \in Seq(AnyLog) /\ pending \in Seq(FillsOf)

(* What a poll has read. *)
Handled == InMarkout \cup finished \cup lost

ScanInv == FillTypes /\ ToSet(seen) \subseteq Handled /\ NoneMissed

(* The logs there have been: a swap's first one is its block's log 0, and   *)
(* one swap moved.                                                         *)
Possible == ((1..MaxSwaps) \X {0}) \cup {Log(i) : i \in Swaps}

MovedOnce ==
    /\ \A i \in Swaps : landed[i].index # 0 => landed[i].moved
    /\ \A i, j \in Swaps : landed[i].moved /\ landed[j].moved => i = j

OnceInv ==
    /\ MovedOnce /\ ToSet(seen) \subseteq Possible /\ IsInjective(seen)
    /\ HandedOnce /\ Handled \subseteq ToSet(seen)

(* The ring remembers every log there can be: a swap has one, and the swap   *)
(* that moves has two. SEEN_CAPACITY is 4096 logs.                          *)
RingHolds == MaxSwaps + 1 <= SeenCap

LEMMA ScanConstants ==
    /\ Overlap \in Nat /\ Lookback \in Nat /\ Longest \in Nat /\ MaxBlock \in Nat
    /\ MaxSwaps \in Nat /\ Late \in Nat /\ Late <= Overlap
    /\ MaxRange \in Nat \ {0} /\ ChunksMax \in Nat \ {0} /\ SeenCap \in Nat \ {0}
BY ScanAssumption

(* Sets of swaps are finite sets of naturals. *)
LEMMA SwapsFinite ==
    ASSUME FillTypes, NEW S \in SUBSET Swaps
    PROVE  /\ IsFiniteSet(S) /\ Cardinality(S) \in Nat /\ S \subseteq Nat
           /\ \A i \in S : landed[i] \in Landings
<1>1. Swaps = 1..Len(landed) /\ Len(landed) \in Nat /\ \A i \in Swaps : landed[i] \in Landings
  BY LenProperties DEF FillTypes, Swaps
<1>2. IsFiniteSet(1..Len(landed))
  BY <1>1, FS_Interval
<1>3. IsFiniteSet(S)
  BY <1>1, <1>2, FS_Subset
<1>4. QED BY <1>1, <1>3, FS_CardinalityType

(* A log's place in InOrder is the number of those before it. *)
LEMMA Ranked ==
    ASSUME FillTypes, NEW S \in SUBSET Swaps
    PROVE  /\ InOrder(S) \in Seq(S) /\ Len(InOrder(S)) = Cardinality(S)
           /\ \A i \in S : \E n \in 1..Len(InOrder(S)) : InOrder(S)[n] = i
           /\ \A m, n \in 1..Len(InOrder(S)) : InOrder(S)[m] = InOrder(S)[n] => m = n
<1> DEFINE C == Cardinality(S)
           Below(i) == {j \in S : Before(j, i)}
           rank == [i \in S |-> Cardinality(Below(i))]
<1>1. /\ IsFiniteSet(S) /\ C \in Nat /\ S \subseteq Nat
      /\ \A i \in S : landed[i].block \in Nat
  BY SwapsFinite DEF Landings
<1>2. \A i, j \in S : /\ i # j => Before(i, j) \/ Before(j, i)
                      /\ ~(Before(i, j) /\ Before(j, i)) /\ ~Before(i, i)
  BY <1>1 DEF Before
<1>3. \A i, j, k \in S : Before(i, j) /\ Before(j, k) => Before(i, k)
  <2> TAKE i, j, k \in S
  <2>1. /\ i \in Nat /\ j \in Nat /\ k \in Nat
        /\ landed[i].block \in Nat /\ landed[j].block \in Nat /\ landed[k].block \in Nat
    BY <1>1
  <2>2. QED BY <2>1 DEF Before
<1>4. \A i \in S : IsFiniteSet(Below(i)) /\ Cardinality(Below(i)) \in Nat
  <2> TAKE i \in S
  <2>1. Below(i) \in SUBSET S
    OBVIOUS
  <2> HIDE DEF Below
  <2>2. QED BY <1>1, <2>1, FS_Subset, FS_CardinalityType
<1>5. \A i \in S : rank[i] \in 0..(C - 1)
  <2> TAKE i \in S
  <2>1. Below(i) \in SUBSET (S \ {i})
    BY <1>2
  <2>2. IsFiniteSet(S \ {i}) /\ Cardinality(S \ {i}) = C - 1
    BY <1>1, FS_RemoveElement
  <2>3. rank[i] = Cardinality(Below(i)) /\ Cardinality(Below(i)) \in Nat
    BY <1>4
  <2> HIDE DEF Below, C, rank
  <2>4. Cardinality(Below(i)) <= Cardinality(S \ {i})
    BY <2>1, <2>2, FS_Subset
  <2>5. QED BY <1>1, <2>2, <2>3, <2>4
<1>6. ASSUME NEW i \in S, NEW j \in S, Before(i, j) PROVE rank[i] < rank[j]
  <2>1. Below(i) \in SUBSET Below(j) /\ Below(i) # Below(j)
    BY <1>2, <1>3, <1>6
  <2>2. rank[i] = Cardinality(Below(i)) /\ rank[j] = Cardinality(Below(j))
    OBVIOUS
  <2>3. /\ IsFiniteSet(Below(i)) /\ Cardinality(Below(i)) \in Nat
        /\ IsFiniteSet(Below(j)) /\ Cardinality(Below(j)) \in Nat
    BY <1>4
  <2> HIDE DEF Below, rank
  <2>4. Cardinality(Below(i)) <= Cardinality(Below(j))
        /\ (Cardinality(Below(j)) = Cardinality(Below(i)) => Below(j) = Below(i))
    BY <2>1, <2>3, FS_Subset
  <2>5. QED BY <2>1, <2>2, <2>3, <2>4
<1>7. \A i, j \in S : rank[i] = rank[j] => i = j
  <2> SUFFICES ASSUME NEW i \in S, NEW j \in S, rank[i] = rank[j], i # j PROVE FALSE
    OBVIOUS
  <2>1. rank[i] \in Int /\ rank[j] \in Int
    BY <1>1, <1>5
  <2>2. Before(i, j) \/ Before(j, i)
    BY <1>2
  <2> HIDE DEF rank
  <2>3. rank[i] < rank[j] \/ rank[j] < rank[i]
    BY <1>6, <2>2
  <2>4. QED BY <2>1, <2>3
<1>8. \A k \in 0..(C - 1) : \E i \in S : rank[i] = k
  <2>1. rank \in [S -> 0..(C - 1)]
    BY <1>5
  <2>2. rank \in Injection(S, 0..(C - 1))
    BY <2>1, <1>7 DEF Injection, IsInjective
  <2>3. IsFiniteSet(0..(C - 1)) /\ Cardinality(0..(C - 1)) = C
    <3>1. 0 \in Int /\ C - 1 \in Int
      BY <1>1
    <3> HIDE DEF C
    <3>2. /\ IsFiniteSet(0..(C - 1))
          /\ Cardinality(0..(C - 1)) = IF 0 > C - 1 THEN 0 ELSE C - 1 - 0 + 1
      BY <3>1, FS_Interval
    <3>3. QED BY <1>1, <3>2
  <2> HIDE DEF rank
  <2>4. rank \in Surjection(S, 0..(C - 1))
    BY <2>2, <2>3, FS_Injection
  <2>5. QED BY <2>4 DEF Surjection
<1>9. \A n \in 1..C : InOrder(S)[n] \in S /\ rank[InOrder(S)[n]] = n - 1
  <2> TAKE n \in 1..C
  <2>1. n - 1 \in 0..(C - 1)
    BY <1>1
  <2>2. \E i \in S : Cardinality(Below(i)) = n - 1
    <3>1. PICK i \in S : rank[i] = n - 1
      BY <2>1, <1>8
    <3>2. rank[i] = Cardinality(Below(i))
      OBVIOUS
    <3>3. QED BY <3>1, <3>2
  <2>3. InOrder(S)[n] = CHOOSE i \in S : Cardinality(Below(i)) = n - 1
    BY DEF InOrder
  <2> HIDE DEF Below
  <2>4. InOrder(S)[n] \in S /\ Cardinality(Below(InOrder(S)[n])) = n - 1
    BY <2>2, <2>3
  <2>5. QED BY <2>4
<1> HIDE DEF rank
<1>10. InOrder(S) \in [1..C -> S]
  <2> DEFINE at(n) == CHOOSE i \in S : Cardinality({j \in S : Before(j, i)}) = n - 1
  <2>1. InOrder(S) = [n \in 1..C |-> at(n)]
    BY DEF InOrder
  <2> HIDE DEF at
  <2>2. \A n \in 1..C : at(n) \in S
    BY <2>1, <1>9
  <2>3. QED BY <2>1, <2>2
<1>11. InOrder(S) \in Seq(S) /\ Len(InOrder(S)) = C
  BY <1>1, <1>10
<1>12. \A i \in S : \E n \in 1..C : InOrder(S)[n] = i
  <2> TAKE i \in S
  <2>1. rank[i] + 1 \in 1..C /\ rank[i] \in Int
    BY <1>1, <1>5
  <2>2. InOrder(S)[rank[i] + 1] \in S /\ rank[InOrder(S)[rank[i] + 1]] = rank[i]
    <3>1. rank[InOrder(S)[rank[i] + 1]] = rank[i] + 1 - 1 /\ InOrder(S)[rank[i] + 1] \in S
      BY <2>1, <1>9
    <3>2. QED BY <2>1, <3>1
  <2>3. InOrder(S)[rank[i] + 1] = i
    BY <2>2, <1>7
  <2>4. QED BY <2>1, <2>3
<1>13. \A m, n \in 1..C : InOrder(S)[m] = InOrder(S)[n] => m = n
  <2> TAKE m, n \in 1..C
  <2>1. rank[InOrder(S)[m]] = m - 1 /\ rank[InOrder(S)[n]] = n - 1
    BY <1>9
  <2>2. m \in Int /\ n \in Int
    BY <1>1
  <2>3. QED BY <2>1, <2>2
<1>14. QED BY <1>11, <1>12, <1>13

(* What absorb does with one log, and a run of it over the first m of order. *)
AtFirst == [ring |-> seen, fresh |-> {}]

Taken(got, i) ==
    IF Contains(got.ring, Log(i)) THEN got
    ELSE [ring |-> Remembered(got.ring, Log(i)), fresh |-> got.fresh \cup {i}]

Runs(g, listed, m) ==
    g = [n \in 0..m |-> IF n = 0 THEN AtFirst ELSE Taken(g[n - 1], listed[n])]

(* absorb's result is where a run over the whole answer ends. *)
LEMMA AbsorbedRuns ==
    ASSUME NEW answer, NEW listed, listed = InOrder(answer)
    PROVE  Absorbed(answer) = (CHOOSE g : Runs(g, listed, Len(listed)))[Len(listed)]
BY Zenon DEF Absorbed, Runs, Taken, AtFirst

(* There is a run of every length: a least length without one would extend  *)
(* the run before it.                                                     *)
LEMMA RunExists ==
    ASSUME NEW listed, NEW k \in Nat
    PROVE  \E g : Runs(g, listed, k)
<1> DEFINE Bad == {m \in 0..k : ~\E g : Runs(g, listed, m)}
<1>1. SUFFICES ASSUME Bad # {} PROVE FALSE
  OBVIOUS
<1>2. Bad \in SUBSET Nat /\ IsFiniteSet(Bad)
  <2>1. Bad \in SUBSET (0..k) /\ 0..k \subseteq Nat
    OBVIOUS
  <2>2. IsFiniteSet(0..k)
    BY FS_Interval
  <2> HIDE DEF Bad
  <2>3. QED BY <2>1, <2>2, FS_Subset
<1> HIDE DEF Bad
<1>3. PICK m \in Bad : \A n \in Bad : m <= n
  BY <1>1, <1>2, GreatestAndLeast
<1>4. m \in 0..k /\ ~\E g : Runs(g, listed, m)
  BY DEF Bad
<1>5. CASE m = 0
  <2> DEFINE g == [n \in 0..0 |-> AtFirst]
  <2>1. g = [n \in 0..0 |-> IF n = 0 THEN AtFirst ELSE Taken(g[n - 1], listed[n])]
    <3>1. \A n \in 0..0 : n = 0
      OBVIOUS
    <3>2. QED BY <3>1
  <2>2. Runs(g, listed, m)
    BY <2>1, <1>5 DEF Runs
  <2>3. QED BY <2>2, <1>4
<1>6. CASE m # 0
  <2>1. m - 1 \in 0..k /\ m - 1 \notin Bad
    BY <1>2, <1>3, <1>4, <1>6
  <2>2. PICK f : Runs(f, listed, m - 1)
    BY <2>1 DEF Bad
  <2>3. \A n \in 0..(m - 1) : f[n] = IF n = 0 THEN AtFirst ELSE Taken(f[n - 1], listed[n])
    BY <2>2 DEF Runs
  <2> DEFINE g == [n \in 0..m |-> IF n = m THEN Taken(f[m - 1], listed[m]) ELSE f[n]]
  <2>4. m \in Nat \ {0}
    BY <1>4, <1>6
  <2>5. \A n \in 0..m : g[n] = IF n = 0 THEN AtFirst ELSE Taken(g[n - 1], listed[n])
    <3> TAKE n \in 0..m
    <3>1. CASE n = m
      <4>1. m - 1 \in 0..m /\ m - 1 # m /\ n # 0
        BY <2>4, <3>1
      <4>2. g[n] = Taken(f[m - 1], listed[m]) /\ g[m - 1] = f[m - 1]
        BY <4>1, <3>1
      <4> HIDE DEF g
      <4>3. QED BY <4>1, <4>2, <3>1
    <3>2. CASE n # m
      <4>1. n \in 0..(m - 1)
        BY <2>4, <3>2
      <4>2. g[n] = f[n]
        BY <3>2
      <4>3. n # 0 => n - 1 \in 0..m /\ n - 1 # m
        BY <2>4, <4>1
      <4>4. n # 0 => g[n - 1] = f[n - 1]
        BY <4>3
      <4> HIDE DEF g
      <4>5. QED BY <4>1, <4>2, <4>4, <2>3
    <3>3. QED BY <3>1, <3>2
  <2>6. g = [n \in 0..m |-> g[n]]
    OBVIOUS
  <2> HIDE DEF g
  <2>7. g = [n \in 0..m |-> IF n = 0 THEN AtFirst ELSE Taken(g[n - 1], listed[n])]
    BY <2>5, <2>6
  <2>8. QED BY <2>7, <1>4 DEF Runs
<1>7. QED BY <1>5, <1>6

(* absorb as steps of a run. *)
LEMMA Absorbing ==
    ASSUME NEW answer, NEW listed, listed = InOrder(answer), Len(listed) \in Nat
    PROVE  \E g : /\ g[0] = AtFirst /\ Absorbed(answer) = g[Len(listed)]
                  /\ \A n \in 1..Len(listed) : g[n] = Taken(g[n - 1], listed[n])
<1> DEFINE g == CHOOSE g : Runs(g, listed, Len(listed))
<1>1. Runs(g, listed, Len(listed))
  BY RunExists
<1>2. Absorbed(answer) = g[Len(listed)]
  BY AbsorbedRuns
<1> HIDE DEF g
<1>3. g[0] = AtFirst
  BY <1>1 DEF Runs
<1>4. \A n \in 1..Len(listed) : g[n] = Taken(g[n - 1], listed[n])
  BY <1>1 DEF Runs
<1>5. QED BY <1>2, <1>3, <1>4

LEMMA LogsTyped ==
    ASSUME FillTypes, NEW i \in Swaps
    PROVE  /\ i \in Nat /\ Log(i) \in AnyLog /\ Log(i)[1] = i
           /\ landed[i].block \in Nat /\ landed[i].index \in {0, 1}
<1>1. i \in Nat /\ landed[i] \in Landings
  <2>1. Swaps \subseteq Nat /\ \A j \in Swaps : landed[j] \in Landings
    BY SwapsFinite
  <2>2. QED BY <2>1
<1>2. QED BY <1>1 DEF Landings, AnyLog, Log

(* remember adds one log; while there is room it drops none. *)
LEMMA Remembers ==
    ASSUME NEW ring \in Seq(AnyLog), NEW log \in AnyLog
    PROVE  /\ Remembered(ring, log) \in Seq(AnyLog)
           /\ ToSet(Remembered(ring, log)) \subseteq ToSet(ring) \cup {log}
           /\ Len(ring) < SeenCap =>
                /\ ToSet(Remembered(ring, log)) = ToSet(ring) \cup {log}
                /\ log \notin ToSet(ring) /\ IsInjective(ring)
                     => IsInjective(Remembered(ring, log))
<1>1. SeenCap \in Nat \ {0}
  BY ScanConstants
<1>2. Len(ring) \in Nat /\ DOMAIN ring = 1..Len(ring) /\ \A n \in 1..Len(ring) : ring[n] \in AnyLog
  BY LenProperties
<1>3. CASE Len(ring) < SeenCap
  <2>1. Remembered(ring, log) = Append(ring, log)
    BY <1>3 DEF Remembered
  <2>2. /\ Append(ring, log) \in Seq(AnyLog)
        /\ DOMAIN Append(ring, log) = 1..(Len(ring) + 1)
        /\ Append(ring, log)[Len(ring) + 1] = log
        /\ \A n \in 1..Len(ring) : Append(ring, log)[n] = ring[n]
    BY <1>2
  <2>3. ToSet(Append(ring, log)) = ToSet(ring) \cup {log}
    <3>1. \A n \in 1..(Len(ring) + 1) : n \in 1..Len(ring) \/ n = Len(ring) + 1
      BY <1>2
    <3>2. Len(ring) + 1 \in 1..(Len(ring) + 1) /\ \A n \in 1..Len(ring) : n \in 1..(Len(ring) + 1)
      BY <1>2
    <3>3. QED BY <1>2, <2>2, <3>1, <3>2 DEF ToSet
  <2>4. log \notin ToSet(ring) /\ IsInjective(ring) => IsInjective(Append(ring, log))
    <3> SUFFICES ASSUME log \notin ToSet(ring), IsInjective(ring),
                        NEW m \in 1..(Len(ring) + 1), NEW n \in 1..(Len(ring) + 1),
                        Append(ring, log)[m] = Append(ring, log)[n]
                 PROVE  m = n
      BY <2>2 DEF IsInjective
    <3>1. \A k \in 1..Len(ring) : ring[k] # log
      BY <1>2 DEF ToSet
    <3>2. (m \in 1..Len(ring) \/ m = Len(ring) + 1) /\ (n \in 1..Len(ring) \/ n = Len(ring) + 1)
      BY <1>2
    <3>3. QED BY <1>2, <2>2, <3>1, <3>2 DEF IsInjective
  <2>5. QED BY <2>1, <2>2, <2>3, <2>4
<1>4. CASE ~(Len(ring) < SeenCap)
  <2>1. Remembered(ring, log) = Append(Tail(ring), log) /\ ring # <<>>
    BY <1>1, <1>2, <1>4 DEF Remembered
  <2>2. /\ Tail(ring) \in Seq(AnyLog) /\ Len(Tail(ring)) = Len(ring) - 1
        /\ \A n \in 1..Len(Tail(ring)) : Tail(ring)[n] = ring[n + 1]
    BY <2>1, HeadTailProperties
  <2> DEFINE tail == Tail(ring)
  <2>3. Len(tail) \in Nat
    BY <2>2, LenProperties
  <2>4. \A n \in 1..Len(tail) : tail[n] \in ToSet(ring)
    <3> TAKE n \in 1..Len(tail)
    <3>1. n + 1 \in DOMAIN ring
      BY <1>2, <2>2, <2>3
    <3>2. QED BY <2>2, <3>1 DEF ToSet
  <2>5. tail \in Seq(AnyLog)
    BY <2>2
  <2> HIDE DEF tail
  <2>6. /\ Append(tail, log) \in Seq(AnyLog)
        /\ DOMAIN Append(tail, log) = 1..(Len(tail) + 1)
        /\ Append(tail, log)[Len(tail) + 1] = log
        /\ \A n \in 1..Len(tail) : Append(tail, log)[n] = tail[n]
    BY <2>3, <2>5
  <2>7. \A n \in 1..(Len(tail) + 1) : n \in 1..Len(tail) \/ n = Len(tail) + 1
    BY <2>3
  <2>8. ToSet(Append(tail, log)) \subseteq ToSet(ring) \cup {log}
    <3>1. \A n \in DOMAIN Append(tail, log) : Append(tail, log)[n] \in ToSet(ring) \cup {log}
      BY <2>4, <2>6, <2>7
    <3>2. QED BY <3>1 DEF ToSet
  <2>9. QED BY <1>4, <2>1, <2>6, <2>8 DEF tail
<1>5. QED BY <1>3, <1>4

(* One log taken: what a run keeps at every step. *)
LEMMA TakesOne ==
    ASSUME FillTypes, NEW got, got.ring \in Seq(AnyLog), NEW i \in Swaps
    PROVE  /\ Taken(got, i).ring \in Seq(AnyLog)
           /\ got.fresh \subseteq Taken(got, i).fresh
           /\ Taken(got, i).fresh \subseteq got.fresh \cup {i}
           /\ \/ Log(i) \in ToSet(got.ring) /\ Taken(got, i) = got
              \/ /\ Log(i) \notin ToSet(got.ring)
                 /\ Taken(got, i).ring = Remembered(got.ring, Log(i))
                 /\ Taken(got, i).fresh = got.fresh \cup {i}
<1>1. Log(i) \in AnyLog
  BY LogsTyped
<1>2. Contains(got.ring, Log(i)) <=> Log(i) \in ToSet(got.ring)
  BY LenProperties DEF Contains, ToSet
<1>3. CASE Contains(got.ring, Log(i))
  BY <1>2, <1>3 DEF Taken
<1>4. CASE ~Contains(got.ring, Log(i))
  <2>1. Taken(got, i) = [ring |-> Remembered(got.ring, Log(i)), fresh |-> got.fresh \cup {i}]
    BY <1>4 DEF Taken
  <2>2. Remembered(got.ring, Log(i)) \in Seq(AnyLog)
    BY <1>1, Remembers
  <2>3. QED BY <1>2, <1>4, <2>1, <2>2
<1>5. QED BY <1>3, <1>4

LogsIn(swaps) == {Log(i) : i \in swaps}

(* The loop of absorb: the ring gains no log but the fresh ones, and every  *)
(* log of the answer is one it had seen or is fresh.                       *)
LEMMA Absorbs ==
    ASSUME FillTypes, NEW answer \in SUBSET Swaps
    PROVE  LET got == Absorbed(answer)
           IN  /\ got.ring \in Seq(AnyLog) /\ got.fresh \subseteq answer
               /\ ToSet(got.ring) \subseteq ToSet(seen) \cup LogsIn(got.fresh)
               /\ \A i \in answer : Log(i) \in ToSet(seen) \/ i \in got.fresh
<1> DEFINE listed == InOrder(answer)
           N == Len(listed)
<1>1. N \in Nat /\ \A n \in 1..N : listed[n] \in answer
  <2>1. listed \in Seq(answer)
    BY Ranked
  <2> HIDE DEF listed
  <2>2. QED BY <2>1, LenProperties
<1>2. \A i \in answer : \E n \in 1..N : listed[n] = i
  BY Ranked
<1> HIDE DEF listed
<1>3. PICK g : /\ g[0] = AtFirst /\ Absorbed(answer) = g[N]
               /\ \A n \in 1..N : g[n] = Taken(g[n - 1], listed[n])
  BY <1>1, Absorbing DEF listed
<1> DEFINE Good(n) == /\ g[n].ring \in Seq(AnyLog) /\ g[n].fresh \subseteq answer
                      /\ ToSet(g[n].ring) \subseteq ToSet(seen) \cup LogsIn(g[n].fresh)
                      /\ \A k \in 1..n : Log(listed[k]) \in ToSet(seen) \/ listed[k] \in g[n].fresh
           Bad == {n \in 0..N : ~Good(n)}
<1>4. ASSUME Bad # {} PROVE FALSE
  <2>1. Bad \in SUBSET Nat /\ IsFiniteSet(Bad)
    <3>1. Bad \in SUBSET (0..N) /\ 0..N \subseteq Nat /\ IsFiniteSet(0..N)
      BY <1>1, FS_Interval
    <3> HIDE DEF Bad
    <3>2. QED BY <3>1, FS_Subset
  <2> HIDE DEF Bad
  <2>2. PICK m \in Bad : \A n \in Bad : m <= n
    BY <1>4, <2>1, GreatestAndLeast
  <2>3. m \in 0..N /\ ~Good(m)
    BY DEF Bad
  <2>4. m # 0
    <3>1. Good(0)
      <4>1. g[0].ring = seen /\ g[0].fresh = {}
        BY <1>3 DEF AtFirst
      <4>2. QED BY <4>1 DEF FillTypes
    <3>2. QED BY <2>3, <3>1
  <2>5. m - 1 \in 0..N /\ m \in 1..N /\ m - 1 \notin Bad
    BY <1>1, <2>1, <2>2, <2>3, <2>4
  <2>6. Good(m - 1)
    BY <2>5 DEF Bad
  <2> DEFINE got == g[m - 1]
             i == listed[m]
  <2>7. g[m] = Taken(got, i) /\ i \in answer /\ i \in Swaps
    BY <1>1, <1>3, <2>5
  <2>8. /\ got.ring \in Seq(AnyLog) /\ got.fresh \subseteq answer
        /\ ToSet(got.ring) \subseteq ToSet(seen) \cup LogsIn(got.fresh)
        /\ \A k \in 1..(m - 1) : Log(listed[k]) \in ToSet(seen) \/ listed[k] \in got.fresh
    BY <2>6
  <2> HIDE DEF got, Good
  <2>9. \A k \in 1..m : k \in 1..(m - 1) \/ listed[k] = i
    BY <1>1, <2>3
  <2>10. CASE Log(i) \in ToSet(got.ring) /\ Taken(got, i) = got
    <3>1. Log(i) \in ToSet(seen) \/ i \in got.fresh
      <4>1. Log(i)[1] = i /\ \A j \in got.fresh : Log(j)[1] = j
        BY <2>7, <2>8, LogsTyped
      <4>2. Log(i) \in ToSet(seen) \/ \E j \in got.fresh : Log(i) = Log(j)
        BY <2>8, <2>10 DEF LogsIn
      <4> HIDE DEF i
      <4>3. QED BY <4>1, <4>2
    <3> HIDE DEF i
    <3>2. g[m] = got
      BY <2>7, <2>10
    <3>3. Good(m)
      BY <3>1, <3>2, <2>8, <2>9 DEF Good
    <3>4. QED BY <3>3, <2>3
  <2>11. CASE ~(Log(i) \in ToSet(got.ring) /\ Taken(got, i) = got)
    <3>1. /\ g[m].ring \in Seq(AnyLog)
          /\ g[m].ring = Remembered(got.ring, Log(i))
          /\ g[m].fresh = got.fresh \cup {i}
      BY <2>7, <2>8, <2>11, TakesOne
    <3>2. ToSet(g[m].ring) \subseteq ToSet(got.ring) \cup {Log(i)}
      BY <2>7, <2>8, <3>1, LogsTyped, Remembers
    <3> HIDE DEF i
    <3>3. ToSet(g[m].ring) \subseteq ToSet(seen) \cup LogsIn(g[m].fresh)
      BY <2>8, <3>1, <3>2 DEF LogsIn
    <3>4. \A k \in 1..m : Log(listed[k]) \in ToSet(seen) \/ listed[k] \in g[m].fresh
      BY <2>8, <2>9, <3>1
    <3>5. Good(m)
      BY <2>7, <2>8, <3>1, <3>3, <3>4 DEF Good
    <3>6. QED BY <3>5, <2>3
  <2>12. QED BY <2>10, <2>11
<1>5. Good(N)
  <2>1. N \in 0..N
    BY <1>1
  <2> HIDE DEF Good
  <2>2. QED BY <1>4, <2>1
<1>6. \A i \in answer : Log(i) \in ToSet(seen) \/ i \in g[N].fresh
  BY <1>2, <1>5
<1>7. QED BY <1>3, <1>5, <1>6

(* At most one log more than there may be swaps. *)
LEMMA PossibleFew ==
    ASSUME FillTypes, MovedOnce
    PROVE  IsFiniteSet(Possible) /\ Cardinality(Possible) \in Nat /\ Cardinality(Possible) <= MaxSwaps + 1
<1> DEFINE First == (1..MaxSwaps) \X {0}
           one == [log \in First |-> log[1]]
<1>1. MaxSwaps \in Nat
  BY ScanConstants
<1>2. IsFiniteSet(1..MaxSwaps) /\ Cardinality(1..MaxSwaps) = MaxSwaps
  <2>1. /\ IsFiniteSet(1..MaxSwaps)
        /\ Cardinality(1..MaxSwaps) = IF 1 > MaxSwaps THEN 0 ELSE MaxSwaps - 1 + 1
    BY <1>1, FS_Interval
  <2>2. QED BY <1>1, <2>1
<1>3. one \in Injection(First, 1..MaxSwaps)
  <2>1. one \in [First -> 1..MaxSwaps]
    OBVIOUS
  <2>2. \A x, y \in First : one[x] = one[y] => x = y
    <3>1. \A x \in First : \E k \in 1..MaxSwaps : x = <<k, 0>>
      OBVIOUS
    <3>2. QED BY <3>1
  <2> HIDE DEF one, First
  <2>3. QED BY <2>1, <2>2 DEF Injection, IsInjective
<1> HIDE DEF one, First
<1>4. IsFiniteSet(First) /\ Cardinality(First) <= MaxSwaps /\ Cardinality(First) \in Nat
  <2>1. IsFiniteSet(First) /\ Cardinality(First) <= MaxSwaps
    BY <1>2, <1>3, FS_Injection
  <2>2. QED BY <2>1, FS_CardinalityType
<1>5. \E log : Possible \subseteq First \cup {log}
  <2>1. Swaps \subseteq 1..MaxSwaps
    BY <1>1, LenProperties DEF FillTypes, Swaps
  <2>2. \A i \in Swaps : Log(i) \in First \/ landed[i].moved
    BY <2>1, LogsTyped DEF MovedOnce, Log, First
  <2>3. \A i, j \in Swaps : landed[i].moved /\ landed[j].moved => i = j
    BY DEF MovedOnce
  <2>4. CASE \E i \in Swaps : landed[i].moved
    <3>1. PICK i \in Swaps : landed[i].moved
      BY <2>4
    <3>2. \A j \in Swaps : Log(j) \in First \cup {Log(i)}
      BY <2>2, <2>3, <3>1
    <3>3. Possible \subseteq First \cup {Log(i)}
      BY <3>2 DEF Possible, First
    <3>4. QED BY <3>3
  <2>5. CASE ~\E i \in Swaps : landed[i].moved
    <3>1. Possible \subseteq First
      BY <2>2, <2>5 DEF Possible, First
    <3>2. QED BY <3>1
  <2>6. QED BY <2>4, <2>5
<1>6. PICK log : Possible \subseteq First \cup {log}
  BY <1>5
<1>7. /\ IsFiniteSet(First \cup {log})
      /\ Cardinality(First \cup {log}) = IF log \in First THEN Cardinality(First) ELSE Cardinality(First) + 1
  BY <1>4, FS_AddElement
<1>8. Possible \in SUBSET (First \cup {log})
  BY <1>6
<1>9. IsFiniteSet(Possible) /\ Cardinality(Possible) <= Cardinality(First \cup {log})
  BY <1>7, <1>8, FS_Subset
<1>10. Cardinality(Possible) \in Nat
  BY <1>9, FS_CardinalityType
<1>11. QED BY <1>1, <1>4, <1>7, <1>9, <1>10

(* A ring that lacks a log there has been has room for it. *)
LEMMA RingHasRoom ==
    ASSUME FillTypes, RingHolds, MovedOnce, NEW ring \in Seq(AnyLog), IsInjective(ring),
           ToSet(ring) \subseteq Possible, NEW log \in Possible, log \notin ToSet(ring)
    PROVE  Len(ring) < SeenCap
<1> DEFINE Others == Possible \ {log}
<1>1. IsFiniteSet(Possible) /\ Cardinality(Possible) \in Nat /\ Cardinality(Possible) <= MaxSwaps + 1
  BY PossibleFew
<1>2. IsFiniteSet(Others) /\ Cardinality(Others) = Cardinality(Possible) - 1
  BY <1>1, FS_RemoveElement
<1>3. DOMAIN ring = 1..Len(ring) /\ Len(ring) \in Nat
  BY LenProperties
<1>4. ring \in Injection(1..Len(ring), Others)
  <2>1. \A n \in 1..Len(ring) : ring[n] \in Others
    BY <1>3 DEF ToSet
  <2>2. ring \in [1..Len(ring) -> Others]
    <3>1. ring \in [1..Len(ring) -> AnyLog]
      BY LenProperties
    <3> HIDE DEF Others
    <3>2. QED BY <2>1, <3>1
  <2> HIDE DEF Others
  <2>3. QED BY <1>3, <2>2 DEF Injection, IsInjective
<1> HIDE DEF Others
<1>5. Cardinality(1..Len(ring)) <= Cardinality(Others)
  BY <1>2, <1>4, FS_Injection
<1>6. Cardinality(1..Len(ring)) = Len(ring)
  <2>1. Cardinality(1..Len(ring)) = IF 1 > Len(ring) THEN 0 ELSE Len(ring) - 1 + 1
    BY <1>3, FS_Interval
  <2>2. QED BY <1>3, <2>1
<1>7. QED BY <1>1, <1>2, <1>3, <1>5, <1>6, ScanConstants DEF RingHolds

(* While the ring holds them all, a fresh log is one never seen. *)
LEMMA AbsorbsOnce ==
    ASSUME FillTypes, RingHolds, MovedOnce, IsInjective(seen), ToSet(seen) \subseteq Possible,
           NEW answer \in SUBSET Swaps
    PROVE  LET got == Absorbed(answer)
           IN  /\ IsInjective(got.ring) /\ ToSet(got.ring) \subseteq Possible
               /\ ToSet(got.ring) = ToSet(seen) \cup LogsIn(got.fresh)
               /\ LogsIn(got.fresh) \cap ToSet(seen) = {}
<1> DEFINE listed == InOrder(answer)
           N == Len(listed)
<1>1. N \in Nat /\ \A n \in 1..N : listed[n] \in answer
  <2>1. listed \in Seq(answer)
    BY Ranked
  <2> HIDE DEF listed
  <2>2. QED BY <2>1, LenProperties
<1> HIDE DEF listed
<1>2. PICK g : /\ g[0] = AtFirst /\ Absorbed(answer) = g[N]
               /\ \A n \in 1..N : g[n] = Taken(g[n - 1], listed[n])
  BY <1>1, Absorbing DEF listed
<1> DEFINE Good(n) == /\ g[n].ring \in Seq(AnyLog)
                      /\ IsInjective(g[n].ring) /\ ToSet(g[n].ring) \subseteq Possible
                      /\ ToSet(g[n].ring) = ToSet(seen) \cup LogsIn(g[n].fresh)
                      /\ LogsIn(g[n].fresh) \cap ToSet(seen) = {}
           Bad == {n \in 0..N : ~Good(n)}
<1>3. ASSUME Bad # {} PROVE FALSE
  <2>1. Bad \in SUBSET Nat /\ IsFiniteSet(Bad)
    <3>1. Bad \in SUBSET (0..N) /\ 0..N \subseteq Nat /\ IsFiniteSet(0..N)
      BY <1>1, FS_Interval
    <3> HIDE DEF Bad
    <3>2. QED BY <3>1, FS_Subset
  <2> HIDE DEF Bad
  <2>2. PICK m \in Bad : \A n \in Bad : m <= n
    BY <1>3, <2>1, GreatestAndLeast
  <2>3. m \in 0..N /\ ~Good(m)
    BY DEF Bad
  <2>4. m # 0
    <3>1. Good(0)
      <4>1. g[0].ring = seen /\ g[0].fresh = {}
        BY <1>2 DEF AtFirst
      <4>2. LogsIn({}) = {}
        BY DEF LogsIn
      <4>3. QED BY <4>1, <4>2 DEF FillTypes
    <3>2. QED BY <2>3, <3>1
  <2>5. m - 1 \in 0..N /\ m \in 1..N /\ m - 1 \notin Bad
    BY <1>1, <2>1, <2>2, <2>3, <2>4
  <2>6. Good(m - 1)
    BY <2>5 DEF Bad
  <2> DEFINE got == g[m - 1]
             i == listed[m]
  <2>7. g[m] = Taken(got, i) /\ i \in Swaps
    BY <1>1, <1>2, <2>5
  <2>8. /\ got.ring \in Seq(AnyLog)
        /\ IsInjective(got.ring) /\ ToSet(got.ring) \subseteq Possible
        /\ ToSet(got.ring) = ToSet(seen) \cup LogsIn(got.fresh)
        /\ LogsIn(got.fresh) \cap ToSet(seen) = {}
    BY <2>6
  <2> HIDE DEF got, i, Good
  <2>9. CASE Log(i) \in ToSet(got.ring) /\ Taken(got, i) = got
    <3>1. g[m] = got
      BY <2>7, <2>9
    <3>2. Good(m)
      BY <2>8, <3>1 DEF Good
    <3>3. QED BY <3>2, <2>3
  <2>10. CASE ~(Log(i) \in ToSet(got.ring) /\ Taken(got, i) = got)
    <3>1. /\ g[m].ring = Remembered(got.ring, Log(i))
          /\ g[m].fresh = got.fresh \cup {i}
          /\ Log(i) \notin ToSet(got.ring)
      BY <2>7, <2>8, <2>10, TakesOne
    <3>2. Log(i) \in Possible /\ Log(i) \in AnyLog
      BY <2>7, LogsTyped DEF Possible
    <3>3. Len(got.ring) < SeenCap
      BY <2>8, <3>1, <3>2, RingHasRoom
    <3>4. /\ g[m].ring \in Seq(AnyLog) /\ IsInjective(g[m].ring)
          /\ ToSet(g[m].ring) = ToSet(got.ring) \cup {Log(i)}
      <4>1. LET more == Remembered(got.ring, Log(i))
            IN  /\ more \in Seq(AnyLog) /\ ToSet(more) = ToSet(got.ring) \cup {Log(i)}
                /\ IsInjective(more)
        BY <2>8, <3>1, <3>2, <3>3, Remembers
      <4>2. QED BY <3>1, <4>1
    <3>5. LogsIn(g[m].fresh) = LogsIn(got.fresh) \cup {Log(i)}
      BY <3>1 DEF LogsIn
    <3>6. Good(m)
      BY <2>8, <3>1, <3>2, <3>4, <3>5 DEF Good
    <3>7. QED BY <3>6, <2>3
  <2>11. QED BY <2>9, <2>10
<1>4. Good(N)
  <2>1. N \in 0..N
    BY <1>1
  <2> HIDE DEF Good
  <2>2. QED BY <1>3, <2>1
<1>5. QED BY <1>2, <1>4

LogsOf(entries) == {entries[n].log : n \in DOMAIN entries}
Once(entries)   == \A m, n \in DOMAIN entries : entries[m].log = entries[n].log => m = n

(* settle moves a prefix of the fills off the queue. *)
LEMMA Settling ==
    ASSUME NEW entries \in Seq(FillsOf), NEW time \in Int, NEW unmarked,
           Settles(time, entries, unmarked)
    PROVE  /\ pending' \in Seq(FillsOf)
           /\ Handled' = LogsOf(entries) \cup finished \cup unmarked \cup lost
           /\ /\ Once(entries) /\ LogsOf(entries) \cap (finished \cup unmarked \cup lost) = {}
              /\ (finished \cup unmarked) \cap lost = {}
              => HandedOnce'
<1> DEFINE L == Len(entries)
           Due == {k \in 0..L : \A j \in 1..k : time - entries[j].at >= Longest}
           n == Max(Due)
           left == SubSeq(entries, n + 1, L)
<1>1. L \in Nat /\ DOMAIN entries = 1..L /\ \A k \in 1..L : entries[k] \in FillsOf
  BY LenProperties
<1>2. n \in 0..L
  <2>1. 0 \in Due /\ Due \in SUBSET (0..L) /\ Due \in SUBSET Nat
    BY <1>1
  <2>2. IsFiniteSet(0..L)
    BY <1>1, FS_Interval
  <2> HIDE DEF Due
  <2>3. n \in Due
    BY <2>1, <2>2, FS_Subset, MaxInSet
  <2>4. QED BY <2>1, <2>3
<1>3. /\ pending' = left /\ finished' = finished \cup {entries[j].log : j \in 1..n} \cup unmarked
      /\ lost' = lost
  BY DEF Settles
<1> HIDE DEF n, L
<1>4. /\ left \in Seq(FillsOf)
      /\ Len(left) = L - n
      /\ \A k \in 1..(L - n) : left[k] = entries[n + k]
  <2>1. n + 1 \in Int /\ L \in Int /\ \A k \in (n + 1)..L : entries[k] \in FillsOf
    BY <1>1, <1>2
  <2>2. /\ left \in Seq(FillsOf)
        /\ Len(left) = IF n + 1 <= L THEN L - (n + 1) + 1 ELSE 0
        /\ \A k \in 1..(L - (n + 1) + 1) : left[k] = entries[n + 1 + k - 1]
    BY <2>1, SubSeqProperties
  <2>3. L - (n + 1) + 1 = L - n /\ \A k \in 1..(L - n) : n + 1 + k - 1 = n + k
    BY <1>1, <1>2
  <2>4. Len(left) = L - n
    BY <1>1, <1>2, <2>2
  <2>5. \A k \in 1..(L - n) : left[k] = entries[n + k]
    <3> TAKE k \in 1..(L - n)
    <3>1. left[k] = entries[n + 1 + k - 1]
      BY <2>2, <2>3
    <3>2. QED BY <2>3, <3>1
  <2>6. QED BY <2>2, <2>4, <2>5
<1>5. DOMAIN left = 1..(L - n)
  BY <1>4, LenProperties
<1> HIDE DEF left
<1>6. \A k \in 1..L : k \in 1..n \/ (k - n \in 1..(L - n) /\ n + (k - n) = k)
  BY <1>1, <1>2
<1>7. \A k \in 1..(L - n) : n + k \in 1..L /\ n + k \notin 1..n
  BY <1>1, <1>2
<1>8. 1..n \subseteq 1..L
  BY <1>1, <1>2
<1>9. LogsOf(entries) = LogsOf(left) \cup {entries[j].log : j \in 1..n}
  <2>1. \A k \in 1..L : entries[k].log \in LogsOf(left) \cup {entries[j].log : j \in 1..n}
    <3> TAKE k \in 1..L
    <3>1. CASE k \in 1..n
      BY <3>1
    <3>2. CASE k \notin 1..n
      <4>1. left[k - n] = entries[k] /\ k - n \in DOMAIN left
        BY <1>4, <1>5, <1>6, <3>2
      <4>2. entries[k].log \in LogsOf(left)
        BY <4>1 DEF LogsOf
      <4>3. QED BY <4>2
    <3>3. QED BY <3>1, <3>2
  <2>2. LogsOf(entries) \subseteq LogsOf(left) \cup {entries[j].log : j \in 1..n}
    BY <1>1, <2>1 DEF LogsOf
  <2>3. LogsOf(left) \subseteq LogsOf(entries)
    BY <1>1, <1>4, <1>5, <1>7 DEF LogsOf
  <2>4. {entries[j].log : j \in 1..n} \subseteq LogsOf(entries)
    BY <1>1, <1>8 DEF LogsOf
  <2>5. QED BY <2>2, <2>3, <2>4
<1>10. InMarkout' = LogsOf(left)
  BY <1>3 DEF InMarkout, LogsOf
<1>11. Handled' = LogsOf(entries) \cup finished \cup unmarked \cup lost
  BY <1>3, <1>9, <1>10 DEF Handled
<1>12. ASSUME Once(entries), LogsOf(entries) \cap (finished \cup unmarked \cup lost) = {},
              (finished \cup unmarked) \cap lost = {}
       PROVE  HandedOnce'
  <2>1. \A k, m \in DOMAIN left : left[k].log = left[m].log => k = m
    <3> TAKE k, m \in DOMAIN left
    <3>1. /\ left[k] = entries[n + k] /\ left[m] = entries[n + m]
          /\ n + k \in 1..L /\ n + m \in 1..L /\ k \in Int /\ m \in Int /\ n \in Int
      BY <1>1, <1>2, <1>4, <1>5, <1>7
    <3>2. left[k].log = left[m].log => n + k = n + m
      BY <1>1, <1>12, <3>1 DEF Once
    <3>3. QED BY <3>1, <3>2
  <2>2. LogsOf(left) \cap {entries[j].log : j \in 1..n} = {}
    <3> SUFFICES ASSUME NEW k \in DOMAIN left, NEW j \in 1..n, left[k].log = entries[j].log
                 PROVE  FALSE
      BY DEF LogsOf
    <3>1. left[k] = entries[n + k] /\ n + k \in 1..L /\ n + k \notin 1..n
      BY <1>4, <1>5, <1>7
    <3>2. n + k = j
      BY <1>1, <1>8, <1>12, <3>1 DEF Once
    <3>3. QED BY <3>1, <3>2
  <2>3. LogsOf(left) \cap finished' = {}
    BY <1>3, <1>9, <1>12, <2>2
  <2>4. LogsOf(left) \cap lost' = {}
    BY <1>3, <1>9, <1>12
  <2>5. finished' \cap lost' = {}
    BY <1>3, <1>9, <1>12
  <2>6. InMarkout' \cap (finished' \cup lost') = {}
    BY <1>10, <2>3, <2>4
  <2>7. QED BY <1>3, <2>1, <2>5, <2>6 DEF HandedOnce
<1>13. QED BY <1>3, <1>4, <1>11, <1>12

(* Fills of logs never handled before keep HandedOnce. *)
LEMMA Handing ==
    ASSUME FillTypes, NEW entries \in Seq(FillsOf), NEW unmarked, Hands(entries, unmarked)
    PROVE  /\ pending' \in Seq(FillsOf)
           /\ Handled' = Handled \cup LogsOf(entries) \cup unmarked
           /\ /\ HandedOnce /\ Once(entries)
              /\ LogsOf(entries) \cap (Handled \cup unmarked) = {}
              /\ unmarked \cap (InMarkout \cup lost) = {}
              => HandedOnce'
<1> DEFINE all == pending \o entries
           P == Len(pending)
           F == Len(entries)
<1>1. pending \in Seq(FillsOf)
  BY DEF FillTypes
<1>2. /\ P \in Nat /\ DOMAIN pending = 1..P
      /\ F \in Nat /\ DOMAIN entries = 1..F
  BY <1>1, LenProperties
<1>3. /\ all \in Seq(FillsOf) /\ Len(all) = P + F
      /\ \A k \in 1..(P + F) : all[k] = IF k <= P THEN pending[k] ELSE entries[k - P]
  BY <1>1, ConcatProperties
<1>4. DOMAIN all = 1..(P + F)
  BY <1>3, LenProperties
<1>5. Settles(Now, all, unmarked)
  BY DEF Hands
<1>6. Now \in Int
  BY DEF Now, FillTypes
<1> HIDE DEF all, P, F
<1>7. /\ pending' \in Seq(FillsOf)
      /\ Handled' = LogsOf(all) \cup finished \cup unmarked \cup lost
      /\ /\ Once(all) /\ LogsOf(all) \cap (finished \cup unmarked \cup lost) = {}
         /\ (finished \cup unmarked) \cap lost = {}
         => HandedOnce'
  BY <1>3, <1>5, <1>6, Settling
<1>8. /\ \A k \in 1..P : k \in DOMAIN all /\ all[k] = pending[k]
      /\ \A k \in 1..F : P + k \in DOMAIN all /\ all[P + k] = entries[k]
      /\ \A k \in DOMAIN all : k \in Int /\ (k \in 1..P \/ (k - P \in 1..F /\ all[k] = entries[k - P]))
  <2>1. \A k \in 1..P : k \in 1..(P + F) /\ k <= P
    BY <1>2
  <2>2. \A k \in 1..F : P + k \in 1..(P + F) /\ ~(P + k <= P) /\ P + k - P = k
    BY <1>2
  <2>3. \A k \in 1..(P + F) : k \in Int /\ (k \in 1..P \/ (k - P \in 1..F /\ ~(k <= P)))
    BY <1>2
  <2>4. \A k \in 1..P : k \in DOMAIN all /\ all[k] = pending[k]
    BY <1>3, <1>4, <2>1
  <2>5. \A k \in 1..F : P + k \in DOMAIN all /\ all[P + k] = entries[k]
    <3> TAKE k \in 1..F
    <3>1. P + k \in 1..(P + F) /\ ~(P + k <= P) /\ P + k - P = k
      BY <2>2
    <3>2. PICK x : x = P + k
      OBVIOUS
    <3>3. x \in 1..(P + F) /\ ~(x <= P) /\ x - P = k
      BY <1>2, <3>2
    <3>4. all[x] = entries[x - P]
      BY <1>3, <3>3
    <3>5. all[x] = entries[k]
      BY <3>3, <3>4
    <3>6. QED BY <1>4, <3>2, <3>3, <3>5
  <2>6. \A k \in DOMAIN all : k \in Int /\ (k \in 1..P \/ (k - P \in 1..F /\ all[k] = entries[k - P]))
    BY <1>3, <1>4, <2>3
  <2>7. QED BY <2>4, <2>5, <2>6
<1>9. LogsOf(all) = InMarkout \cup LogsOf(entries)
  <2>1. LogsOf(all) \subseteq InMarkout \cup LogsOf(entries)
    BY <1>2, <1>8 DEF LogsOf, InMarkout
  <2>2. InMarkout \subseteq LogsOf(all)
    BY <1>2, <1>8 DEF LogsOf, InMarkout
  <2>3. LogsOf(entries) \subseteq LogsOf(all)
    BY <1>2, <1>8 DEF LogsOf
  <2>4. QED BY <2>1, <2>2, <2>3
<1>10. Handled' = Handled \cup LogsOf(entries) \cup unmarked
  BY <1>7, <1>9 DEF Handled
<1>11. ASSUME HandedOnce, Once(entries), LogsOf(entries) \cap (Handled \cup unmarked) = {},
              unmarked \cap (InMarkout \cup lost) = {}
       PROVE  HandedOnce'
  <2>1. /\ LogsOf(all) \cap (finished \cup unmarked \cup lost) = {}
        /\ (finished \cup unmarked) \cap lost = {}
    BY <1>9, <1>11 DEF HandedOnce, Handled
  <2>2. Once(all)
    <3> SUFFICES ASSUME NEW j \in DOMAIN all, NEW k \in DOMAIN all, all[j].log = all[k].log
                 PROVE  j = k
      BY DEF Once
    <3>1. \A m \in 1..P : pending[m].log \in InMarkout
      BY <1>2 DEF InMarkout
    <3>2. \A m \in 1..F : entries[m].log \in LogsOf(entries)
      BY <1>2 DEF LogsOf
    <3>3. LogsOf(entries) \cap InMarkout = {}
      BY <1>11 DEF Handled
    <3>4. CASE j \in 1..P /\ k \in 1..P
      BY <1>2, <1>8, <1>11, <3>4 DEF HandedOnce
    <3>5. CASE j \notin 1..P /\ k \notin 1..P
      <4>1. j - P = k - P
        BY <1>2, <1>8, <1>11, <3>5 DEF Once
      <4>2. j \in Int /\ k \in Int
        BY <1>8, <3>5
      <4>3. QED BY <1>2, <4>1, <4>2
    <3>6. CASE j \in 1..P /\ k \notin 1..P
      BY <1>8, <3>1, <3>2, <3>3, <3>6
    <3>7. CASE j \notin 1..P /\ k \in 1..P
      BY <1>8, <3>1, <3>2, <3>3, <3>7
    <3>8. QED BY <3>4, <3>5, <3>6, <3>7
  <2>3. QED BY <1>7, <2>1, <2>2
<1>12. QED BY <1>7, <1>10, <1>11

(* The logs of these swaps are on the queue, or off it for good, after the  *)
(* step, each once when none was handled before it.                        *)
Accounts(swaps) ==
    /\ pending' \in Seq(FillsOf)
    /\ Handled' = Handled \cup LogsIn(swaps)
    /\ HandedOnce /\ LogsIn(swaps) \cap Handled = {} => HandedOnce'

(* The fills of a set of swaps: one per swap, each with its log. *)
LEMMA StampedFills ==
    ASSUME FillTypes, NEW swaps \in SUBSET Swaps,
           NEW entries \in {Stamped(InOrder(swaps)), Unstamped(InOrder(swaps))}
    PROVE  entries \in Seq(FillsOf) /\ LogsOf(entries) = LogsIn(swaps) /\ Once(entries)
<1> DEFINE listed == InOrder(swaps)
           N == Len(listed)
<1>1. /\ listed \in Seq(swaps)
      /\ \A i \in swaps : \E n \in 1..N : listed[n] = i
      /\ \A m, n \in 1..N : listed[m] = listed[n] => m = n
  BY Ranked
<1> HIDE DEF listed
<1>2. N \in Nat /\ DOMAIN listed = 1..N /\ \A n \in 1..N : listed[n] \in swaps
  BY <1>1, LenProperties
<1>3. DOMAIN entries = 1..N /\ \A n \in 1..N : entries[n] \in FillsOf /\ entries[n].log = Log(listed[n])
  <2>1. \A n \in 1..N : /\ Log(listed[n]) \in AnyLog /\ landed[listed[n]].block \in Nat
    BY <1>2, LogsTyped
  <2>2. CASE entries = Stamped(listed)
    BY <1>2, <2>1, <2>2 DEF Stamped, FillsOf
  <2>3. CASE entries = Unstamped(listed)
    BY <1>2, <2>1, <2>3 DEF Unstamped, FillsOf
  <2>4. QED BY <2>2, <2>3 DEF listed
<1>4. entries \in Seq(FillsOf)
  <2>1. entries = [n \in 1..N |-> entries[n]]
    <3>1. CASE entries = Stamped(listed)
      BY <1>2, <3>1 DEF Stamped
    <3>2. CASE entries = Unstamped(listed)
      BY <1>2, <3>2 DEF Unstamped
    <3>3. QED BY <3>1, <3>2 DEF listed
  <2>2. entries \in [1..N -> FillsOf]
    BY <1>3, <2>1
  <2>3. QED BY <1>2, <2>2
<1>5. LogsOf(entries) = LogsIn(swaps)
  <2>1. LogsOf(entries) \subseteq LogsIn(swaps)
    BY <1>2, <1>3 DEF LogsOf, LogsIn
  <2>2. LogsIn(swaps) \subseteq LogsOf(entries)
    <3> SUFFICES ASSUME NEW i \in swaps PROVE Log(i) \in LogsOf(entries)
      BY DEF LogsIn
    <3>1. PICK n \in 1..N : listed[n] = i
      BY <1>1
    <3>2. QED BY <1>3, <3>1 DEF LogsOf
  <2>3. QED BY <2>1, <2>2
<1>6. Once(entries)
  <2>1. \A n \in 1..N : entries[n].log[1] = listed[n]
    <3> TAKE n \in 1..N
    <3>1. listed[n] \in Swaps
      BY <1>2
    <3>2. Log(listed[n])[1] = listed[n]
      BY <3>1, LogsTyped
    <3>3. QED BY <1>3, <3>2
  <2>2. ASSUME NEW m \in 1..N, NEW n \in 1..N, entries[m].log = entries[n].log
        PROVE  m = n
    <3>1. listed[m] = listed[n]
      BY <2>1, <2>2
    <3>2. QED BY <1>1, <3>1
  <2>3. QED BY <1>3, <2>2 DEF Once
<1>7. QED BY <1>4, <1>5, <1>6

(* Whatever a poll hands over, without timestamps or with the fills of      *)
(* unknown blocks unmarked, accounts for all that was fresh.                 *)
LEMMA HandsOver ==
    ASSUME FillTypes, NEW fresh \in SUBSET Swaps, NEW unmarked \in SUBSET fresh,
           NEW entries \in {Stamped(InOrder(fresh \ unmarked)), Unstamped(InOrder(fresh \ unmarked))},
           Hands(entries, LogsIn(unmarked))
    PROVE  Accounts(fresh)
<1> DEFINE kept == fresh \ unmarked
           gone == LogsIn(unmarked)
<1>1. entries \in Seq(FillsOf) /\ LogsOf(entries) = LogsIn(kept) /\ Once(entries)
  <2>1. kept \in SUBSET Swaps /\ entries \in {Stamped(InOrder(kept)), Unstamped(InOrder(kept))}
    OBVIOUS
  <2> HIDE DEF kept
  <2>2. QED BY <2>1, StampedFills
<1>2. LogsIn(fresh) = LogsIn(kept) \cup gone
  BY DEF LogsIn
<1>3. LogsIn(kept) \cap gone = {}
  <2> SUFFICES ASSUME NEW i \in kept, NEW j \in unmarked, Log(i) = Log(j) PROVE FALSE
    BY DEF LogsIn
  <2>1. Log(i)[1] = i /\ Log(j)[1] = j
    BY LogsTyped
  <2>2. QED BY <2>1
<1> HIDE DEF kept
<1>4. Hands(entries, gone)
  OBVIOUS
<1> HIDE DEF gone
<1>5. /\ pending' \in Seq(FillsOf)
      /\ Handled' = Handled \cup LogsOf(entries) \cup gone
      /\ /\ HandedOnce /\ Once(entries)
         /\ LogsOf(entries) \cap (Handled \cup gone) = {} /\ gone \cap (InMarkout \cup lost) = {}
         => HandedOnce'
  BY <1>1, <1>4, Handing
<1>6. Handled' = Handled \cup LogsIn(fresh)
  BY <1>1, <1>2, <1>5
<1>7. ASSUME HandedOnce, LogsIn(fresh) \cap Handled = {}
      PROVE  HandedOnce'
  <2>1. LogsOf(entries) \cap (Handled \cup gone) = {}
    BY <1>1, <1>2, <1>3, <1>7
  <2>2. gone \cap (InMarkout \cup lost) = {}
    BY <1>2, <1>7 DEF Handled
  <2>3. QED BY <1>1, <1>5, <1>7, <2>1, <2>2
<1>8. QED BY <1>5, <1>6, <1>7 DEF Accounts

LEMMA HandsNothing ==
    ASSUME FillTypes, Hands(<<>>, {})
    PROVE  Accounts({})
<1>1. <<>> \in Seq(FillsOf) /\ LogsOf(<<>>) = {} /\ Once(<<>>)
  BY DEF LogsOf, Once
<1>2. /\ pending' \in Seq(FillsOf) /\ Handled' = Handled
      /\ HandedOnce => HandedOnce'
  BY <1>1, Handing
<1>3. LogsIn({}) = {}
  BY DEF LogsIn
<1>4. QED BY <1>2, <1>3 DEF Accounts

(* So does a poll that fails after absorbing: its fills are gone for good. *)
LEMMA FailsOver ==
    ASSUME FillTypes, NEW fresh \in SUBSET Swaps, Fails(fresh)
    PROVE  Accounts(fresh)
<1>1. pending' = pending /\ finished' = finished /\ lost' = lost \cup LogsIn(fresh)
  BY DEF Fails, LogsIn
<1>2. InMarkout' = InMarkout
  BY <1>1 DEF InMarkout
<1>3. Handled' = Handled \cup LogsIn(fresh)
  BY <1>1, <1>2 DEF Handled
<1>4. HandedOnce /\ LogsIn(fresh) \cap Handled = {} => HandedOnce'
  <2>1. (\A m, n \in DOMAIN pending : pending[m].log = pending[n].log => m = n)
        <=> (\A m, n \in DOMAIN pending' : pending'[m].log = pending'[n].log => m = n)
    BY <1>1
  <2>2. InMarkout \cap (finished \cup lost) = {} /\ finished \cap lost = {}
        /\ LogsIn(fresh) \cap Handled = {}
        => InMarkout' \cap (finished' \cup lost') = {} /\ finished' \cap lost' = {}
    BY <1>1, <1>2 DEF Handled
  <2>3. QED BY <2>1, <2>2 DEF HandedOnce
<1>5. QED BY <1>1, <1>3, <1>4 DEF Accounts, FillTypes

(* What a scan leaves: nothing read, or an answer absorbed that holds every *)
(* log the nodes are sure to show of the blocks up to the new cursor.       *)
Reads(answer, k) ==
    /\ seen' = Absorbed(answer).ring
    /\ cursor' = Reach(Confirmed, k)
    /\ holes' = holes \cup Skipped(Confirmed)
    /\ \A i \in Swaps :
          /\ landed[i].block \in PlanFirst(Confirmed)..cursor'
          /\ landed[i].block <= sealed - Late
          => i \in answer
    /\ Accounts(Absorbed(answer).fresh)

(* An answer holds swaps only, and the old ones of its range. *)
LEMMA AnswersHold ==
    ASSUME NEW a, NEW b, NEW answer \in Answers(a, b)
    PROVE  /\ answer \in SUBSET Swaps
           /\ \A i \in Swaps : landed[i].block \in a..b /\ landed[i].block <= sealed - Late
                               => i \in answer
BY DEF Answers, Swaps

(* What the plan of a poll is bounded by. *)
LEMMA ChunksTyped ==
    ASSUME NEW head \in Int, FillTypes
    PROVE  /\ PlanFirst(head) \in Int
           /\ PlanFirst(head) = IF cursor - Overlap >= head - Lookback
                                THEN cursor - Overlap ELSE head - Lookback
           /\ Chunks(head) \in Int
           /\ \A k \in Int : Reach(head, k) \in Int /\ Reach(head, k) <= head
<1>1. /\ cursor - Overlap \in Int /\ head - Lookback \in Int
      /\ MaxRange \in Nat \ {0} /\ ChunksMax \in Int
  BY ScanConstants DEF FillTypes
<1>2. PlanFirst(head) = IF cursor - Overlap >= head - Lookback
                        THEN cursor - Overlap ELSE head - Lookback
  BY <1>1, LargerOfTwo DEF PlanFirst
<1>3. PlanFirst(head) \in Int
  BY <1>1, <1>2
<1>4. Chunks(head) \in Int
  <2>1. (head - PlanFirst(head)) \div MaxRange \in Int
    BY <1>1, <1>3, Quotient
  <2>2. (head - PlanFirst(head)) \div MaxRange + 1 \in Int
    BY <2>1
  <2>3. QED BY <1>1, <2>2, SmallerOfTwo DEF Chunks
<1>5. ASSUME NEW k \in Int
      PROVE  Reach(head, k) \in Int /\ Reach(head, k) <= head
  <2>1. k * MaxRange \in Int
    BY <1>1
  <2>2. PlanFirst(head) + k * MaxRange - 1 \in Int
    BY <1>3, <2>1
  <2>3. QED BY <2>2, SmallerOfTwo DEF Reach
<1>6. QED BY <1>2, <1>3, <1>4, <1>5

LEMMA ConfirmedSealed ==
    ASSUME FillTypes, Confirmed # NoBlock
    PROVE  Confirmed \in Nat /\ Confirmed <= sealed
BY DEF Confirmed, FillTypes

(* Every way a scan can go either reads nothing or is one of Reads. *)
LEMMA ScanShape ==
    ASSUME FillTypes, ScanFills
    PROVE  /\ UNCHANGED <<chain, heads>>
           /\ \/ UNCHANGED scan /\ Accounts({})
              \/ \E answer \in SUBSET Swaps, k \in Int : Reads(answer, k)
<1> DEFINE head == Confirmed
<1>1. head \in Nat /\ head <= sealed /\ UNCHANGED <<chain, heads>>
  BY ConfirmedSealed DEF ScanFills
<1>2. head \in Int
  BY <1>1
<1>3. CASE Idle(head)
  BY <1>1, <1>3, HandsNothing DEF Idle
<1>4. CASE \E k \in 0..ChunksMax : Interrupted(head, k)
  <2>1. PICK k \in 0..ChunksMax : Interrupted(head, k)
    BY <1>4
  <2>2. CASE k = 0
    BY <1>1, <2>1, <2>2, HandsNothing DEF Interrupted
  <2>3. CASE k # 0
    <3>1. PICK answer \in Answers(PlanFirst(head), Reach(head, k)) :
            /\ seen' = Absorbed(answer).ring
            /\ cursor' = Reach(head, k)
            /\ holes' = holes \cup Skipped(head)
            /\ LET entries == InOrder(Absorbed(answer).fresh)
               IN Hands(Stamped(entries), {}) \/ Hands(Unstamped(entries), {})
      BY <2>1, <2>3 DEF Interrupted
    <3>2. /\ answer \in SUBSET Swaps
          /\ \A i \in Swaps : /\ landed[i].block \in PlanFirst(head)..Reach(head, k)
                              /\ landed[i].block <= sealed - Late
                              => i \in answer
      BY AnswersHold
    <3> DEFINE fresh == Absorbed(answer).fresh
    <3>3. fresh \in SUBSET Swaps
      BY <3>2, Absorbs
    <3>4. Hands(Stamped(InOrder(fresh)), {}) \/ Hands(Unstamped(InOrder(fresh)), {})
      BY <3>1
    <3> HIDE DEF fresh
    <3>5. fresh \ {} = fresh /\ LogsIn({}) = {}
      BY DEF LogsIn
    <3>6. Accounts(fresh)
      <4>1. CASE Hands(Stamped(InOrder(fresh)), {})
        BY <3>3, <3>5, <4>1, HandsOver
      <4>2. CASE Hands(Unstamped(InOrder(fresh)), {})
        BY <3>3, <3>5, <4>2, HandsOver
      <4>3. QED BY <3>4, <4>1, <4>2
    <3>7. Reads(answer, k)
      BY <3>1, <3>2, <3>6 DEF Reads, fresh
    <3>8. QED BY <1>1, <3>2, <3>7
  <2>4. QED BY <2>2, <2>3
<1>5. CASE ReadAll(head)
  <2> DEFINE k == Chunks(head)
  <2>1. k \in Int
    BY <1>2, ChunksTyped
  <2> HIDE DEF k
  <2>2. cursor' = Reach(head, k) /\ holes' = holes \cup Skipped(head)
    BY <1>5 DEF ReadAll, k
  <2>3. PICK answer \in Answers(PlanFirst(head), cursor') :
          \/ /\ seen' = Absorbed(answer).ring
             /\ Fails(Absorbed(answer).fresh)
          \/ \E ahead \in Answers(head + 1, sealed + 1) :
               LET got == Absorbed(answer \cup ahead)
               IN /\ seen' = got.ring
                  /\ \/ Fails(got.fresh)
                     \/ \E unmarked \in SUBSET got.fresh :
                          Hands(Stamped(InOrder(got.fresh \ unmarked)), {Log(i) : i \in unmarked})
    BY <1>5 DEF ReadAll
  <2>4. /\ answer \in SUBSET Swaps
        /\ \A i \in Swaps : /\ landed[i].block \in PlanFirst(head)..cursor'
                            /\ landed[i].block <= sealed - Late
                            => i \in answer
    BY AnswersHold
  <2>5. CASE /\ seen' = Absorbed(answer).ring
             /\ Fails(Absorbed(answer).fresh)
    <3>1. Absorbed(answer).fresh \in SUBSET Swaps
      BY <2>4, Absorbs
    <3>2. Accounts(Absorbed(answer).fresh)
      BY <2>5, <3>1, FailsOver
    <3>3. Reads(answer, k)
      BY <2>2, <2>4, <2>5, <3>2 DEF Reads
    <3>4. QED BY <1>1, <2>1, <2>4, <3>3
  <2>6. CASE \E ahead \in Answers(head + 1, sealed + 1) :
               LET got == Absorbed(answer \cup ahead)
               IN /\ seen' = got.ring
                  /\ \/ Fails(got.fresh)
                     \/ \E unmarked \in SUBSET got.fresh :
                          Hands(Stamped(InOrder(got.fresh \ unmarked)), {Log(i) : i \in unmarked})
    <3>1. PICK ahead \in Answers(head + 1, sealed + 1) :
               LET got == Absorbed(answer \cup ahead)
               IN /\ seen' = got.ring
                  /\ \/ Fails(got.fresh)
                     \/ \E unmarked \in SUBSET got.fresh :
                          Hands(Stamped(InOrder(got.fresh \ unmarked)), {Log(i) : i \in unmarked})
      BY <2>6
    <3> DEFINE both == answer \cup ahead
               fresh == Absorbed(both).fresh
    <3>2. /\ seen' = Absorbed(both).ring
          /\ \/ Fails(fresh)
             \/ \E unmarked \in SUBSET fresh :
                  Hands(Stamped(InOrder(fresh \ unmarked)), LogsIn(unmarked))
      BY <3>1 DEF LogsIn
    <3>3. ahead \in SUBSET Swaps
      BY AnswersHold
    <3>4. both \in SUBSET Swaps /\ answer \subseteq both
      BY <2>4, <3>3
    <3> HIDE DEF both
    <3>5. fresh \in SUBSET Swaps
      BY <3>4, Absorbs
    <3> HIDE DEF fresh
    <3>6. Accounts(fresh)
      <4>1. CASE Fails(fresh)
        BY <3>5, <4>1, FailsOver
      <4>2. CASE \E unmarked \in SUBSET fresh :
                   Hands(Stamped(InOrder(fresh \ unmarked)), LogsIn(unmarked))
        BY <3>5, <4>2, HandsOver
      <4>3. QED BY <3>2, <4>1, <4>2
    <3>7. Reads(both, k)
      <4>1. \A i \in Swaps : /\ landed[i].block \in PlanFirst(head)..cursor'
                             /\ landed[i].block <= sealed - Late
                             => i \in both
        BY <2>4, <3>4
      <4>2. QED BY <2>2, <3>2, <3>6, <4>1 DEF Reads, fresh
    <3>8. QED BY <1>1, <2>1, <3>4, <3>7
  <2>7. QED BY <2>3, <2>5, <2>6
<1>6. QED BY <1>3, <1>4, <1>5 DEF ScanFills

(* Steps that leave the queue alone. *)
LEMMA SameMarkout ==
    ASSUME UNCHANGED markout
    PROVE  InMarkout' = InMarkout /\ Handled' = Handled /\ (HandedOnce => HandedOnce')
<1>1. pending' = pending /\ finished' = finished /\ lost' = lost
  BY DEF markout
<1>2. InMarkout' = InMarkout
  BY <1>1 DEF InMarkout
<1>3. Handled' = Handled
  BY <1>1, <1>2 DEF Handled
<1>4. (\A m, n \in DOMAIN pending : pending[m].log = pending[n].log => m = n)
      => (\A m, n \in DOMAIN pending' : pending'[m].log = pending'[n].log => m = n)
  BY <1>1
<1>5. HandedOnce => HandedOnce'
  BY <1>1, <1>2, <1>4 DEF HandedOnce
<1>6. QED BY <1>2, <1>3, <1>5

(* A step that leaves the scan alone, and whose swaps stay out of what the  *)
(* cursor has passed, keeps what is accounted for.                         *)
LEMMA ChainKeeps ==
    ASSUME ScanInv, UNCHANGED <<scan, markout>>, FillTypes',
           \A i \in Swaps' : \/ i \in Swaps /\ landed'[i].block = landed[i].block
                             \/ landed'[i].block > sealed
    PROVE  ScanInv'
<1>1. InMarkout' = InMarkout /\ Handled' = Handled
  BY SameMarkout
<1>2. seen' = seen /\ cursor' = cursor /\ holes' = holes /\ finished' = finished /\ lost' = lost
  BY DEF scan, markout
<1>3. cursor \in Int /\ cursor <= sealed /\ sealed \in Nat /\ Late \in Nat
  BY ScanConstants DEF ScanInv, FillTypes
<1>4. ToSet(seen)' \subseteq Handled'
  BY <1>1, <1>2 DEF ScanInv, ToSet
<1>5. NoneMissed'
  <2> SUFFICES ASSUME NEW i \in Swaps', landed'[i].block \in 1..(cursor - Late) \ holes
               PROVE  \E log \in InMarkout \cup finished \cup lost : log[1] = i
    BY <1>1, <1>2 DEF NoneMissed, Scanned, Swaps
  <2>1. landed'[i].block \in Int /\ ~(landed'[i].block > sealed)
    BY <1>3
  <2>2. i \in Swaps /\ landed[i].block \in 1..(cursor - Late) \ holes
    BY <2>1
  <2>3. QED BY <2>2 DEF ScanInv, NoneMissed, Scanned, Swaps
<1>6. QED BY <1>4, <1>5 DEF ScanInv

(* A scan: a block the cursor newly passes is in what the poll planned, or  *)
(* in what a jump skipped, and its swaps are in the answer.                 *)
LEMMA ScanKeeps ==
    ASSUME ScanInv, ScanFills
    PROVE  ScanInv'
<1>1. FillTypes /\ ToSet(seen) \subseteq Handled /\ NoneMissed
  BY DEF ScanInv
<1>2. Confirmed \in Int /\ Confirmed <= sealed
  BY <1>1, ConfirmedSealed DEF ScanFills
<1>3. UNCHANGED <<chain, heads>>
  BY <1>1, ScanShape
<1>4. /\ sealed' = sealed /\ landed' = landed /\ heard' = heard /\ shown' = shown
      /\ Swaps' = Swaps
  BY <1>3 DEF chain, heads, Swaps
<1>5. CASE UNCHANGED scan /\ Accounts({})
  <2>1. seen' = seen /\ cursor' = cursor /\ holes' = holes
    BY <1>5 DEF scan
  <2>2. pending' \in Seq(FillsOf) /\ Handled' = Handled
    BY <1>5 DEF Accounts, LogsIn
  <2>3. FillTypes'
    BY <1>1, <1>4, <2>1, <2>2 DEF FillTypes
  <2>4. NoneMissed'
    BY <1>1, <1>4, <2>1, <2>2 DEF NoneMissed, Scanned, Handled
  <2>5. ToSet(seen)' \subseteq Handled'
    BY <1>1, <2>1, <2>2 DEF ToSet
  <2>6. QED BY <2>3, <2>4, <2>5 DEF ScanInv
<1>6. CASE \E answer \in SUBSET Swaps, k \in Int : Reads(answer, k)
  <2>1. PICK answer \in SUBSET Swaps, k \in Int : Reads(answer, k)
    BY <1>6
  <2> DEFINE got == Absorbed(answer)
             head == Confirmed
  <2>2. /\ got.ring \in Seq(AnyLog) /\ got.fresh \subseteq answer
        /\ ToSet(got.ring) \subseteq ToSet(seen) \cup LogsIn(got.fresh)
        /\ \A i \in answer : Log(i) \in ToSet(seen) \/ i \in got.fresh
    BY <1>1, Absorbs
  <2>3. /\ seen' = got.ring
        /\ cursor' = Reach(head, k)
        /\ holes' = holes \cup Skipped(head)
        /\ \A i \in Swaps : /\ landed[i].block \in PlanFirst(head)..cursor'
                            /\ landed[i].block <= sealed - Late
                            => i \in answer
        /\ pending' \in Seq(FillsOf) /\ Handled' = Handled \cup LogsIn(got.fresh)
    BY <2>1 DEF Reads, Accounts
  <2> HIDE DEF got, head
  <2>4. cursor' \in Int /\ cursor' <= sealed
    <3>1. head \in Int /\ head <= sealed /\ sealed \in Int
      BY <1>1, <1>2 DEF head, FillTypes
    <3>2. Reach(head, k) \in Int /\ Reach(head, k) <= head
      BY <1>1, <3>1, ChunksTyped
    <3>3. QED BY <2>3, <3>1, <3>2
  <2>5. FillTypes'
    BY <1>1, <1>4, <2>2, <2>3, <2>4 DEF FillTypes
  <2>6. ToSet(seen)' \subseteq Handled'
    <3>1. ToSet(seen)' = ToSet(got.ring)
      BY <2>3 DEF ToSet
    <3>2. QED BY <1>1, <2>2, <2>3, <3>1
  <2>7. ASSUME NEW i \in Swaps, landed[i].block \in 1..(cursor' - Late) \ holes'
        PROVE  \E log \in Handled' : log[1] = i
    <3> DEFINE b == landed[i].block
    <3>1. /\ b \in Nat /\ cursor \in Int /\ sealed \in Int
          /\ Late \in Nat /\ Overlap \in Nat /\ Lookback \in Nat /\ Late <= Overlap
      BY <1>1, LogsTyped, ScanConstants DEF FillTypes
    <3>2. /\ b >= 1 /\ b <= cursor' - Late /\ b \notin holes
          /\ b \notin (cursor - Overlap)..(head - Lookback - 1)
      BY <2>3, <2>4, <2>7, <3>1 DEF Skipped
    <3>3. PlanFirst(head) = IF cursor - Overlap >= head - Lookback
                            THEN cursor - Overlap ELSE head - Lookback
      BY <1>1, <1>2, ChunksTyped DEF head
    <3>4. head \in Int
      BY <1>2 DEF head
    <3> HIDE DEF b
    <3>5. CASE b <= cursor - Late
      <4>1. b \in 1..(cursor - Late) \ holes
        BY <3>1, <3>2, <3>5
      <4>2. PICK log \in InMarkout \cup finished \cup lost : log[1] = i
        BY <1>1, <4>1 DEF NoneMissed, Scanned, b, Swaps
      <4>3. QED BY <2>3, <4>2 DEF Handled
    <3>6. CASE ~(b <= cursor - Late)
      <4>1. b \in PlanFirst(head)..cursor' /\ b <= sealed - Late
        <5> DEFINE from == PlanFirst(head)
        <5>1. from = cursor - Overlap \/ (from = head - Lookback /\ ~(cursor - Overlap >= head - Lookback))
          BY <3>3
        <5> HIDE DEF from
        <5>2. b > cursor - Late /\ b >= cursor - Overlap /\ b <= cursor' /\ b <= sealed - Late
          <6>1. b <= cursor' - Late
            BY <3>2
          <6>2. cursor' \in Int /\ cursor' <= sealed
            BY <2>4
          <6>3. b \in Int /\ cursor \in Int /\ sealed \in Int
            BY <3>1
          <6>4. Late \in Int /\ Overlap \in Int /\ Late <= Overlap /\ 0 <= Late
            BY <3>1
          <6>5. ~(b <= cursor - Late)
            BY <3>6
          <6>6. b > cursor - Late
            BY <6>3, <6>4, <6>5
          <6>7. PICK top \in Int : top = cursor'
            BY <6>2
          <6>8. b <= top - Late /\ top <= sealed
            BY <6>1, <6>2, <6>7
          <6>9. b >= cursor - Overlap
            BY <6>3, <6>4, <6>6
          <6>10. b <= top /\ b <= sealed - Late
            BY <6>3, <6>4, <6>8
          <6>11. b <= cursor'
            BY <6>7, <6>10
          <6>12. QED BY <6>6, <6>9, <6>10, <6>11
        <5>3. b >= head - Lookback
          BY <3>1, <3>2, <3>4, <5>2
        <5>4. from \in Int /\ from <= b
          BY <3>1, <3>4, <5>1, <5>2, <5>3
        <5>5. b \in from..cursor'
          BY <2>4, <3>1, <5>2, <5>4
        <5>6. QED BY <5>2, <5>5 DEF from
      <4>2. i \in answer
        BY <2>3, <4>1 DEF b
      <4>3. Log(i) \in ToSet(seen) \cup LogsIn(got.fresh)
        BY <2>2, <4>2 DEF LogsIn
      <4>4. Log(i) \in Handled' /\ Log(i)[1] = i
        BY <1>1, <2>3, <4>3, LogsTyped
      <4>5. QED BY <4>4
    <3>7. QED BY <3>5, <3>6
  <2>8. NoneMissed'
    <3>1. \A i \in Swaps : landed[i].block \in 1..(cursor' - Late) \ holes'
                           => \E log \in Handled' : log[1] = i
      BY <2>7
    <3>2. Handled' = InMarkout' \cup finished' \cup lost'
      BY DEF Handled
    <3>3. QED BY <1>4, <3>1, <3>2 DEF NoneMissed, Scanned, Swaps
  <2>9. QED BY <2>5, <2>6, <2>8 DEF ScanInv
<1>7. QED BY <1>1, <1>5, <1>6, ScanShape

LEMMA ScanInvariant == ScanSpec => []ScanInv
<1>1. ScanInit => ScanInv
  <2> SUFFICES ASSUME ScanInit PROVE ScanInv
    OBVIOUS
  <2>1. FirstBlock \in Nat /\ <<>> \in Seq(Landings) /\ <<>> \in Seq(AnyLog) /\ <<>> \in Seq(FillsOf)
    BY ScanConstants DEF FirstBlock
  <2>2. Len(<<>>) = 0 /\ MaxSwaps \in Nat
    BY ScanConstants
  <2>3. FillTypes
    BY <2>1, <2>2 DEF ScanInit, FillTypes
  <2>4. ToSet(seen) = {} /\ NoneMissed
    BY DEF ScanInit, ToSet, NoneMissed, Scanned
  <2>5. QED BY <2>3, <2>4 DEF ScanInv
<1>2. ScanInv /\ [ScanNext]_scanVars => ScanInv'
  <2> SUFFICES ASSUME ScanInv, [ScanNext]_scanVars PROVE ScanInv'
    OBVIOUS
  <2>1. /\ FillTypes /\ sealed \in Nat /\ landed \in Seq(Landings) /\ Len(landed) <= MaxSwaps
        /\ Len(landed) \in Nat /\ MaxSwaps \in Nat /\ FirstBlock \in Nat /\ MaxBlock \in Nat
    BY LenProperties, ScanConstants DEF ScanInv, FillTypes, FirstBlock
  <2>2. CASE Swap
    <3> DEFINE new == [block |-> sealed + 1, index |-> 0, moved |-> FALSE]
    <3>1. /\ landed' = Append(landed, new) /\ Len(landed) < MaxSwaps
          /\ UNCHANGED <<sealed, heads, scan, markout>>
      BY <2>2 DEF Swap
    <3>2. new \in Landings /\ new.block = sealed + 1
      BY <2>1 DEF Landings
    <3> HIDE DEF new
    <3>3. /\ landed' \in Seq(Landings) /\ Len(landed') = Len(landed) + 1
          /\ DOMAIN landed' = 1..(Len(landed) + 1)
          /\ landed'[Len(landed) + 1] = new
          /\ \A i \in 1..Len(landed) : landed'[i] = landed[i]
      BY <2>1, <3>1, <3>2
    <3>4. FillTypes'
      BY <2>1, <3>1, <3>3 DEF FillTypes, heads, scan, markout
    <3>5. Swaps = 1..Len(landed) /\ Swaps' = 1..(Len(landed) + 1)
      BY <2>1, <3>3, LenProperties DEF Swaps
    <3>6. \A i \in Swaps' : \/ i \in Swaps /\ landed'[i].block = landed[i].block
                            \/ landed'[i].block > sealed
      <4> TAKE i \in Swaps'
      <4>1. i \in 1..Len(landed) \/ i = Len(landed) + 1
        BY <2>1, <3>5
      <4>2. sealed + 1 > sealed
        BY <2>1
      <4>3. QED BY <3>2, <3>3, <3>5, <4>1, <4>2
    <3>7. UNCHANGED <<scan, markout>>
      BY <3>1
    <3>8. QED BY <3>4, <3>6, <3>7, ChainKeeps
  <2>3. CASE Seal
    <3>1. landed' = landed /\ sealed' = sealed + 1 /\ UNCHANGED <<heads, scan, markout>>
      BY <2>3 DEF Seal
    <3>2. FillTypes'
      BY <2>1, <3>1 DEF FillTypes, heads, scan, markout
    <3>3. \A i \in Swaps' : i \in Swaps /\ landed'[i].block = landed[i].block
      BY <3>1 DEF Swaps
    <3>4. QED BY <3>1, <3>2, <3>3, ChainKeeps
  <2>4. CASE \E i \in DOMAIN landed : Reorg(i)
    <3>1. PICK i \in DOMAIN landed : Reorg(i)
      BY <2>4
    <3>2. PICK index \in {0, 1} :
            landed' = [landed EXCEPT ![i] = [block |-> sealed + 1, index |-> index, moved |-> TRUE]]
      BY <3>1 DEF Reorg
    <3> DEFINE new == [block |-> sealed + 1, index |-> index, moved |-> TRUE]
    <3>3. new \in Landings /\ new.block = sealed + 1
      BY <2>1 DEF Landings
    <3> HIDE DEF new
    <3>4. DOMAIN landed = 1..Len(landed) /\ landed' = [landed EXCEPT ![i] = new]
      BY <2>1, <3>2, LenProperties DEF new
    <3>5. /\ landed' \in Seq(Landings) /\ Len(landed') = Len(landed)
          /\ \A j \in 1..Len(landed) : landed'[j] = IF j = i THEN new ELSE landed[j]
      BY <2>1, <3>3, <3>4, ExceptSeq
    <3>6. DOMAIN landed' = DOMAIN landed
      BY <3>4
    <3>7. UNCHANGED <<sealed, heads, scan, markout>>
      BY <3>1 DEF Reorg
    <3>8. FillTypes'
      BY <2>1, <3>5, <3>7 DEF FillTypes, heads, scan, markout
    <3>9. \A j \in Swaps' : \/ j \in Swaps /\ landed'[j].block = landed[j].block
                            \/ landed'[j].block > sealed
      <4> TAKE j \in Swaps'
      <4>1. j \in 1..Len(landed) /\ sealed + 1 > sealed
        BY <2>1, <3>4, <3>6 DEF Swaps
      <4>2. QED BY <3>3, <3>4, <3>5, <4>1 DEF Swaps
    <3>10. QED BY <3>7, <3>8, <3>9, ChainKeeps
  <2>5. CASE Subscribe \/ Show \/ \E n \in FirstBlock..sealed : NewHead(n)
    <3>1. UNCHANGED <<chain, scan, markout>>
      BY <2>5 DEF Subscribe, Show, NewHead
    <3>2. landed' = landed /\ sealed' = sealed
      BY <3>1 DEF chain
    <3>3. /\ heard' # NoBlock => heard' \in Nat /\ heard' <= sealed
          /\ shown' # NoBlock => shown' \in Nat /\ shown' <= sealed
      <4>1. CASE Subscribe
        BY <2>1, <4>1 DEF Subscribe, FillTypes
      <4>2. CASE Show
        BY <2>1, <4>2 DEF Show, FillTypes
      <4>3. CASE \E n \in FirstBlock..sealed : NewHead(n)
        BY <2>1, <4>3 DEF NewHead, FillTypes
      <4>4. QED BY <2>5, <4>1, <4>2, <4>3
    <3>4. FillTypes'
      BY <2>1, <3>1, <3>2, <3>3 DEF FillTypes, scan, markout
    <3>5. \A i \in Swaps' : i \in Swaps /\ landed'[i].block = landed[i].block
      BY <3>2 DEF Swaps
    <3>6. QED BY <3>1, <3>4, <3>5, ChainKeeps
  <2>6. CASE ScanFills
    BY <2>6, ScanKeeps
  <2>7. CASE UNCHANGED scanVars
    <3>1. UNCHANGED <<scan, markout>> /\ landed' = landed /\ sealed' = sealed
          /\ heard' = heard /\ shown' = shown
      BY <2>7 DEF scanVars, chain, heads
    <3>2. FillTypes'
      BY <2>1, <3>1 DEF FillTypes, scan, markout
    <3>3. \A i \in Swaps' : i \in Swaps /\ landed'[i].block = landed[i].block
      BY <3>1 DEF Swaps
    <3>4. QED BY <3>1, <3>2, <3>3, ChainKeeps
  <2>8. QED BY <2>2, <2>3, <2>4, <2>5, <2>6, <2>7 DEF ScanNext
<1>3. QED BY <1>1, <1>2, PTL DEF ScanSpec

(* Once the cursor is as far past a swap as a node may be late, a log of it  *)
(* has been read by a poll: it is in the markout, settled, counted as       *)
(* unresolved, or lost by a poll that failed after reading it; only the     *)
(* blocks a jump gave up are never read. Nothing is asked of the ring here: *)
(* one that forgets leaves no swap unread (poll and plan_ranges in          *)
(* swaps.rs, scan_fills in main.rs). That a failed poll loses none does not *)
(* hold: run fills_found.                                                  *)
THEOREM EverySwapAccounted == ScanSpec => []NoneMissed
<1>1. ScanInv => NoneMissed
  BY DEF ScanInv
<1>2. QED BY <1>1, ScanInvariant, PTL

LEMMA OnceSame ==
    ASSUME OnceInv, UNCHANGED <<scan, markout>>, MovedOnce', Possible \subseteq Possible'
    PROVE  OnceInv'
<1>1. Handled' = Handled /\ HandedOnce'
  BY SameMarkout DEF OnceInv
<1>2. seen' = seen
  BY DEF scan
<1>3. ToSet(seen)' = ToSet(seen) /\ IsInjective(seen)'
  BY <1>2 DEF OnceInv, ToSet, IsInjective
<1>4. QED BY <1>1, <1>3 DEF OnceInv

(* A reorg gives its swap a second log only while every index is 0; a scan  *)
(* adds logs to the ring that it did not hold.                             *)
LEMMA OnceKeeps ==
    ASSUME RingHolds, ScanInv, OnceInv, [ScanNext]_scanVars
    PROVE  OnceInv'
<1>1. /\ FillTypes /\ sealed \in Nat /\ landed \in Seq(Landings) /\ Len(landed) <= MaxSwaps
      /\ Len(landed) \in Nat /\ MaxSwaps \in Nat /\ Swaps = 1..Len(landed)
  BY LenProperties, ScanConstants DEF ScanInv, FillTypes, Swaps
<1>2. MovedOnce /\ ToSet(seen) \subseteq Possible /\ IsInjective(seen)
      /\ HandedOnce /\ Handled \subseteq ToSet(seen)
  BY DEF OnceInv
<1>3. CASE Swap
  <2> DEFINE new == [block |-> sealed + 1, index |-> 0, moved |-> FALSE]
  <2>1. /\ landed' = Append(landed, new)
        /\ UNCHANGED <<scan, markout>>
    BY <1>3 DEF Swap
  <2>2. new \in Landings /\ new.index = 0 /\ ~new.moved
    BY <1>1 DEF Landings
  <2> HIDE DEF new
  <2>3. /\ DOMAIN landed' = 1..(Len(landed) + 1)
        /\ landed'[Len(landed) + 1] = new
        /\ \A i \in 1..Len(landed) : landed'[i] = landed[i]
    BY <1>1, <2>1, <2>2
  <2>4. \A i \in Swaps' : i \in 1..Len(landed) \/ i = Len(landed) + 1
    BY <1>1, <2>3 DEF Swaps
  <2>5. MovedOnce'
    <3>1. \A i \in Swaps' : landed'[i].index # 0 => landed'[i].moved
      BY <1>1, <1>2, <2>2, <2>3, <2>4 DEF MovedOnce
    <3>2. \A i \in Swaps' : landed'[i].moved => i \in Swaps /\ landed[i].moved
      BY <1>1, <2>2, <2>3, <2>4
    <3>3. QED BY <1>2, <3>1, <3>2 DEF MovedOnce
  <2>6. \A i \in Swaps : i \in Swaps' /\ landed'[i] = landed[i]
    BY <1>1, <2>3 DEF Swaps
  <2>7. Possible \subseteq Possible'
    BY <2>6 DEF Possible, Log
  <2>8. QED BY <2>1, <2>5, <2>7, OnceSame
<1>4. CASE \E i \in DOMAIN landed : Reorg(i)
  <2>1. PICK i \in DOMAIN landed : Reorg(i)
    BY <1>4
  <2>2. PICK index \in {0, 1} :
          landed' = [landed EXCEPT ![i] = [block |-> sealed + 1, index |-> index, moved |-> TRUE]]
    BY <2>1 DEF Reorg
  <2>3. (\A j \in Swaps : ~landed[j].moved) /\ UNCHANGED <<scan, markout>>
    BY <2>1 DEF Reorg, Swaps
  <2>4. Swaps' = Swaps /\ \A j \in Swaps : j # i => landed'[j] = landed[j]
    BY <2>2 DEF Swaps
  <2>5. landed'[i].moved
    BY <2>2
  <2>6. \A j \in Swaps : landed[j].index = 0
    BY <1>2, <2>3 DEF MovedOnce
  <2>7. MovedOnce'
    <3>1. \A j \in Swaps' : landed'[j].moved => j = i
      BY <2>3, <2>4
    <3>2. \A j \in Swaps' : landed'[j].index # 0 => j = i
      BY <2>4, <2>6
    <3>3. QED BY <2>5, <3>1, <3>2 DEF MovedOnce
  <2>8. Possible \subseteq Possible'
    <3>1. \A j \in Swaps : Log(j) = <<j, 0>> /\ j \in 1..MaxSwaps
      BY <1>1, <2>6 DEF Log
    <3>2. Possible \subseteq (1..MaxSwaps) \X {0}
      BY <3>1 DEF Possible
    <3>3. QED BY <3>2 DEF Possible
  <2>9. QED BY <2>3, <2>7, <2>8, OnceSame
<1>5. CASE \/ Seal \/ Subscribe \/ Show \/ UNCHANGED scanVars
           \/ \E n \in FirstBlock..sealed : NewHead(n)
  <2>1. landed' = landed /\ UNCHANGED <<scan, markout>>
    BY <1>5 DEF Seal, Subscribe, Show, NewHead, scanVars, chain
  <2>2. MovedOnce' /\ Possible' = Possible
    BY <1>2, <2>1 DEF MovedOnce, Possible, Swaps, Log
  <2>3. QED BY <2>1, <2>2, OnceSame
<1>6. CASE ScanFills
  <2>1. landed' = landed
    BY <1>1, <1>6, ScanShape DEF chain
  <2>2. MovedOnce' /\ Possible' = Possible
    BY <1>2, <2>1 DEF MovedOnce, Possible, Swaps, Log
  <2>3. CASE UNCHANGED scan /\ Accounts({})
    <3>1. seen' = seen /\ Handled' = Handled /\ HandedOnce'
      BY <1>2, <2>3 DEF scan, Accounts, LogsIn
    <3>2. ToSet(seen)' = ToSet(seen) /\ IsInjective(seen)'
      BY <1>2, <3>1 DEF ToSet, IsInjective
    <3>3. QED BY <1>2, <2>2, <3>1, <3>2 DEF OnceInv
  <2>4. CASE \E answer \in SUBSET Swaps, k \in Int : Reads(answer, k)
    <3>1. PICK answer \in SUBSET Swaps, k \in Int : Reads(answer, k)
      BY <2>4
    <3> DEFINE got == Absorbed(answer)
    <3>2. /\ IsInjective(got.ring) /\ ToSet(got.ring) \subseteq Possible
          /\ ToSet(got.ring) = ToSet(seen) \cup LogsIn(got.fresh)
          /\ LogsIn(got.fresh) \cap ToSet(seen) = {}
      BY <1>1, <1>2, AbsorbsOnce
    <3>3. /\ seen' = got.ring /\ Handled' = Handled \cup LogsIn(got.fresh)
          /\ HandedOnce /\ LogsIn(got.fresh) \cap Handled = {} => HandedOnce'
      BY <3>1 DEF Reads, Accounts
    <3> HIDE DEF got
    <3>4. ToSet(seen)' = ToSet(got.ring) /\ IsInjective(seen)'
      BY <3>2, <3>3 DEF ToSet, IsInjective
    <3>5. HandedOnce'
      BY <1>2, <3>2, <3>3
    <3>6. QED BY <1>2, <2>2, <3>2, <3>3, <3>4, <3>5 DEF OnceInv
  <2>5. QED BY <1>1, <1>6, <2>3, <2>4, ScanShape
<1>7. QED BY <1>3, <1>4, <1>5, <1>6 DEF ScanNext

(* With a ring that remembers every log there is, each log is handed to the *)
(* markout or lost by a failed poll, one of the two and once, however often *)
(* the overlap, the blocks past the head and a head that falls back have it *)
(* read again; and no swap is left unread (absorb and remember in swaps.rs, *)
(* settle in markout.rs).                                                  *)
THEOREM HandedAtMostOnce ==
    ASSUME RingHolds
    PROVE  ScanSpec => []EachSwapOnce
<1>1. ScanInit => OnceInv
  <2> SUFFICES ASSUME ScanInit PROVE OnceInv
    OBVIOUS
  <2>1. landed = <<>> /\ seen = <<>> /\ pending = <<>> /\ finished = {} /\ lost = {}
    BY DEF ScanInit
  <2>2. DOMAIN <<>> = {}
    OBVIOUS
  <2>3. MovedOnce /\ ToSet(seen) = {} /\ IsInjective(seen)
    BY <2>1, <2>2 DEF MovedOnce, ToSet, IsInjective, Swaps
  <2>4. InMarkout = {} /\ HandedOnce
    BY <2>1, <2>2 DEF InMarkout, HandedOnce
  <2>5. QED BY <2>1, <2>3, <2>4 DEF OnceInv, Handled
<1>2. ScanInv /\ OnceInv /\ [ScanNext]_scanVars => OnceInv'
  BY OnceKeeps
<1>3. ScanInv /\ OnceInv => EachSwapOnce
  BY DEF ScanInv, OnceInv, EachSwapOnce
<1>4. QED BY <1>1, <1>2, <1>3, ScanInvariant, PTL DEF ScanSpec

=============================================================================
