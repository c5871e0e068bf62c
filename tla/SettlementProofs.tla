---------------------------- MODULE SettlementProofs ---------------------------
(***************************************************************************)
(* What TLAPS proves of the way an order is settled.                        *)
(*                                                                         *)
(* Of the settlement contract (PmmSettle), for every set of orders,         *)
(* accounts, amounts and decay parameters: types, that an order is filled   *)
(* exactly as far as its maker was paid, that its price holds over any      *)
(* split, and that a cancelled nonce is dead.  Of the maker over it         *)
(* (RfqMaker), for every market, spread, time to live and lag of the        *)
(* published clock: that an order that can still be filled has its          *)
(* reservation in the book, and that no base is promised twice.             *)
(*                                                                         *)
(* Of the router (Router), for every set of tokens, venues, plans and       *)
(* requests, every pushed row and every balance to begin with: that it      *)
(* keeps nothing of a call, and that a route as it was quoted pays what it  *)
(* was quoted.                                                             *)
(***************************************************************************)
EXTENDS RfqMaker, Router, NatSets, SequenceTheorems

(* What filledTaker is ahead of the payments by, while a fill is under way. *)
Owed(o) == IF leg = "taker" /\ o = fill.order THEN fill.in ELSE 0

(* The books against the payments, also inside a fill and in its snapshot.  *)
PaidInv ==
    /\ \A o \in signed : filled[o] <= o.takerAmount /\ received[o] + Owed(o) = filled[o]
    /\ leg # "none" =>
           \A o \in signed :
               /\ before.filled[o] <= o.takerAmount /\ before.filled[o] <= filled[o]
               /\ before.received[o] = before.filled[o]

(* The fill under way keeps the order's price, and so does what was          *)
(* delivered without it.                                                    *)
Within(o, out, in) == out * o.takerAmount <= o.makerAmount * in

PriceInv ==
    /\ \A o \in signed : Within(o, delivered[o], received[o])
    /\ leg # "none" =>
           /\ \A o \in signed : Within(o, before.delivered[o], before.received[o])
           /\ Within(fill.order, fill.out, fill.in)
    /\ leg = "maker" =>
           /\ received[fill.order] >= fill.in
           /\ Within(fill.order, delivered[fill.order], received[fill.order] - fill.in)

(* What the cap on the decay leaves of a fill of x. *)
LeastOut(o, x) == (Quoted(o, x) * (Unit - o.decayCap)) \div Unit

(* The fill under way will deliver at least that, and has delivered nothing. *)
DecayInv ==
    leg # "none" => fill.out >= LeastOut(fill.order, fill.in) /\ before.delivered = delivered

SettleInv == TypeOK /\ PaidInv /\ PriceInv /\ DecayInv

-----------------------------------------------------------------------------
(* The pricing formulas. *)

(* The decay is between nothing and the order's cap. *)
LEMMA DecayInRange ==
    ASSUME NEW o \in OrderType, NEW t \in Nat
    PROVE  DecayPpmAt(o, t) \in 0 .. o.decayCap
<1>1. o.decayStart \in Nat /\ o.decayCap \in Nat /\ o.decayPerSec \in Nat
  BY DEF OrderType
<1>2. CASE o.decayStart = 0 \/ o.decayCap = 0 \/ t <= o.decayStart
  BY <1>1, <1>2 DEF DecayPpmAt
<1>3. CASE ~(o.decayStart = 0 \/ o.decayCap = 0 \/ t <= o.decayStart)
  <2> DEFINE accrued == (t - o.decayStart) * o.decayPerSec
  <2>1. t - o.decayStart \in Nat
    BY <1>1, <1>3
  <2>2. accrued \in Nat
    BY <1>1, <2>1, ProductIsNat
  <2>3. DecayPpmAt(o, t) = IF accrued > o.decayCap THEN o.decayCap ELSE accrued
    BY <1>3 DEF DecayPpmAt
  <2> HIDE DEF accrued
  <2>4. QED BY <1>1, <2>2, <2>3
<1>4. QED BY <1>2, <1>3

(* A quotient of naturals is a natural. *)
LEMMA QuotientIsNat ==
    ASSUME NEW a \in Nat, NEW d \in Nat \ {0}
    PROVE  a \div d \in Nat
BY SMT

(* Division is monotone. *)
LEMMA QuotientMonotone ==
    ASSUME NEW a \in Nat, NEW b \in Nat, a <= b, NEW d \in Nat \ {0}
    PROVE  a \div d <= b \div d
<1> DEFINE p == a \div d
           r == b \div d
<1>1. p \in Nat /\ r \in Nat /\ d * p <= a /\ b < d * r + d
  BY Quotient, QuotientIsNat
<1> HIDE DEF p, r
<1>2. SUFFICES ASSUME r + 1 <= p PROVE FALSE
  BY <1>1 DEF p, r
<1>3. d * (r + 1) <= d * p
  BY <1>1, <1>2, Scaling
<1>4. d * (r + 1) = d * r + d /\ d * p \in Nat /\ d * r \in Nat
  BY <1>1, SMT
<1>5. QED BY <1>1, <1>3, <1>4

(* A quote, and what is left of it after the decay, keep the order's price. *)
LEMMA RealisedKeepsPrice ==
    ASSUME NEW o \in OrderType, WellFormed(o), NEW x \in Nat, NEW t \in Nat
    PROVE  Realised(o, x, t) \in Nat /\ Within(o, Realised(o, x, t), x)
<1> DEFINE m == o.makerAmount
           k == o.takerAmount
           q == Quoted(o, x)
           d == Unit - DecayPpmAt(o, t)
           out == Realised(o, x, t)
<1>1. m \in Nat /\ k \in Nat \ {0} /\ o.decayCap \in Nat /\ o.decayCap <= MaxDecayCap
  BY DEF OrderType, WellFormed
<1>2. d \in 0 .. Unit /\ Unit \in Nat \ {0}
  BY <1>1, DecayInRange, PmmSettleAssumption
<1>3. q \in Nat /\ k * q <= m * x /\ m * x \in Nat
  <2>1. m * x \in Nat
    BY <1>1, ProductIsNat
  <2>2. q = (m * x) \div k
    BY DEF Quoted
  <2> HIDE DEF m, k, q
  <2>3. QED BY <1>1, <2>1, <2>2, Quotient, QuotientIsNat
<1>4. out \in Nat /\ out <= q
  <2>1. out = (q * d) \div Unit
    BY DEF Realised
  <2> HIDE DEF q, d, out
  <2>2. q * d \in Nat /\ q * Unit \in Nat /\ d \in Nat
    BY <1>2, <1>3, ProductIsNat
  <2>3. q * d <= q * Unit
    BY <1>2, <1>3, Scaling
  <2>4. out \in Nat /\ Unit * out <= q * d
    BY <1>2, <2>1, <2>2, Quotient, QuotientIsNat
  <2>5. q * Unit = Unit * q /\ Unit * out \in Int
    BY <1>2, <1>3, <2>4, SMT
  <2>6. Unit * out <= Unit * q
    BY <2>2, <2>3, <2>4, <2>5
  <2>7. QED BY <1>2, <1>3, <2>4, <2>6, Cancelling
<1>5. out * k <= m * x
  <2> HIDE DEF m, k, q, out
  <2>1. k * out <= k * q
    BY <1>1, <1>3, <1>4, Scaling
  <2>2. k * out = out * k /\ out * k \in Int /\ k * q \in Int
    BY <1>1, <1>3, <1>4, SMT
  <2>3. QED BY <1>3, <2>1, <2>2
<1>6. QED BY <1>4, <1>5 DEF Within

(* The decay takes no more than its cap. *)
LEMMA RealisedAboveCap ==
    ASSUME NEW o \in OrderType, WellFormed(o), NEW x \in Nat, NEW t \in Nat
    PROVE  Realised(o, x, t) >= LeastOut(o, x)
<1> DEFINE q == Quoted(o, x)
           d == Unit - DecayPpmAt(o, t)
           e == Unit - o.decayCap
           a == q * e
           b == q * d
<1>1. /\ o.makerAmount \in Nat /\ o.takerAmount \in Nat \ {0}
      /\ o.decayCap \in Nat /\ o.decayCap <= MaxDecayCap
  BY DEF OrderType, WellFormed
<1>2. d \in Nat /\ e \in Nat /\ e <= d /\ Unit \in Nat \ {0}
  BY <1>1, DecayInRange, PmmSettleAssumption
<1>3. q \in Nat
  <2>1. o.makerAmount * x \in Nat
    BY <1>1, ProductIsNat
  <2>2. QED BY <1>1, <2>1, QuotientIsNat DEF Quoted
<1> HIDE DEF q, d, e
<1>4. a \in Nat /\ b \in Nat /\ a <= b
  BY <1>2, <1>3, ProductIsNat, Scaling
<1> HIDE DEF a, b
<1>5. a \div Unit <= b \div Unit
  BY <1>2, <1>4, QuotientMonotone
<1>6. Realised(o, x, t) = b \div Unit /\ LeastOut(o, x) = a \div Unit
  BY DEF Realised, LeastOut, a, b, q, d, e
<1>7. a \div Unit \in Nat /\ b \div Unit \in Nat
  BY <1>2, <1>4, QuotientIsNat
<1>8. QED BY <1>5, <1>6, <1>7

(* Deliveries within the price add up to a delivery within the price. *)
LEMMA WithinAdds ==
    ASSUME NEW o \in OrderType, NEW a \in Nat, NEW b \in Nat, NEW x \in Nat, NEW y \in Nat,
           Within(o, a, x), Within(o, b, y)
    PROVE  Within(o, a + b, x + y)
<1>1. o.makerAmount \in Nat /\ o.takerAmount \in Nat
  BY DEF OrderType
<1> DEFINE m == o.makerAmount
           k == o.takerAmount
<1>2. a * k <= m * x /\ b * k <= m * y
  BY DEF Within
<1>3. SUFFICES (a + b) * k <= m * (x + y)
  BY DEF Within
<1> HIDE DEF m, k
<1>4. m \in Nat /\ k \in Nat
  BY <1>1 DEF m, k
<1>5. (a + b) * k = a * k + b * k /\ m * (x + y) = m * x + m * y
  BY <1>4, SMT
<1>6. a * k \in Nat /\ b * k \in Nat /\ m * x \in Nat /\ m * y \in Nat
  BY <1>4, ProductIsNat
<1>7. QED BY <1>2, <1>5, <1>6

(* Nothing delivered for nothing paid. *)
LEMMA WithinZero ==
    ASSUME NEW o \in OrderType
    PROVE  Within(o, 0, 0)
<1>1. o.makerAmount \in Nat /\ o.takerAmount \in Nat
  BY DEF OrderType
<1>2. QED BY <1>1, SMT DEF Within

-----------------------------------------------------------------------------
(* Types. *)

LEMMA BooksTyped ==
    ASSUME TypeOK
    PROVE  /\ filled \in [signed -> Nat] /\ received \in [signed -> Nat]
           /\ delivered \in [signed -> Nat]
           /\ cancelled \subseteq [maker : Accounts, nonce : Nat]
           /\ balance \in [Assets -> [Accounts -> Nat]]
           /\ signed \subseteq OrderType
BY DEF TypeOK, Books

LEMMA TransferTyped ==
    ASSUME TypeOK, NEW asset \in Assets, NEW a \in Accounts, NEW b \in Accounts,
           NEW x \in Nat, Transfer(asset, a, b, x)
    PROVE  balance' \in [Assets -> [Accounts -> Nat]]
<1> DEFINE row == [c \in Accounts |-> balance[asset][c]
                       - (IF c = a THEN x ELSE 0) + (IF c = b THEN x ELSE 0)]
<1>1. balance \in [Assets -> [Accounts -> Nat]]
  BY BooksTyped
<1>2. balance[asset] \in [Accounts -> Nat] /\ x <= balance[asset][a]
  BY <1>1 DEF Transfer
<1>3. row \in [Accounts -> Nat]
  BY <1>2
<1>4. balance' = [balance EXCEPT ![asset] = row]
  BY DEF Transfer
<1> HIDE DEF row
<1>5. QED BY <1>1, <1>3, <1>4

LEMMA WithZeroTyped ==
    ASSUME NEW f \in [signed -> Nat], NEW o
    PROVE  WithZero(f, o) \in [signed \cup {o} -> Nat]
BY DEF WithZero

(* A maker may sign any order, one that no run lists included. *)
LEMMA SignTyped ==
    ASSUME TypeOK, NEW o \in OrderType, Sign(o)
    PROVE  TypeOK'
<1> USE BooksTyped
<1>1. /\ filled' \in [signed' -> Nat] /\ received' \in [signed' -> Nat]
      /\ delivered' \in [signed' -> Nat]
  BY WithZeroTyped DEF Sign
<1>2. signed' \subseteq OrderType
  BY DEF Sign
<1>3. leg = "none" /\ UNCHANGED <<now, cancelled, balance, leg, fill, before>>
  BY DEF Sign
<1>4. QED BY <1>1, <1>2, <1>3 DEF TypeOK, Books

LEMMA InitTyped == Init => TypeOK
<1> SUFFICES ASSUME Init PROVE TypeOK
  OBVIOUS
<1>1. now \in 0 .. MaxTime /\ signed \subseteq OrderType
  BY PmmSettleAssumption DEF Init, PmmSettleAssumption
<1>2. filled \in [signed -> Nat] /\ received \in [signed -> Nat] /\ delivered \in [signed -> Nat]
  BY DEF Init
<1>3. balance \in [Assets -> [Accounts -> Nat]] /\ cancelled = {}
  BY PmmSettleAssumption DEF Init, PmmSettleAssumption
<1>4. leg = "none" /\ fill = NoFill /\ before = NoFill
  BY DEF Init
<1>5. QED BY <1>1, <1>2, <1>3, <1>4 DEF TypeOK, Books

(* The fill under way, named. *)
LEMMA FillTyped ==
    ASSUME TypeOK, leg # "none"
    PROVE  /\ fill.order \in signed /\ fill.order \in OrderType
           /\ fill.in \in Nat /\ fill.out \in Nat
           /\ fill.taker \in Accounts /\ fill.receiver \in Accounts
           /\ before \in Books
BY DEF TypeOK, FillType

LEMMA TypeStep == TypeOK /\ [Next]_settleVars => TypeOK'
<1> SUFFICES ASSUME TypeOK, [Next]_settleVars PROVE TypeOK'
  OBVIOUS
<1> USE BooksTyped
<1>1. ASSUME NEW o \in signed, NEW x \in Sizes, NEW limit \in Limits,
             NEW taker \in Accounts, NEW receiver \in Accounts,
             FillOrder(o, x, limit, taker, receiver)
      PROVE  TypeOK'
  <2>1. x \in Nat /\ o \in OrderType /\ now \in Nat
    BY PmmSettleAssumption DEF PmmSettleAssumption, TypeOK
  <2>2. Realised(o, x, now) \in Nat
    BY <1>1, <2>1, RealisedKeepsPrice DEF FillOrder
  <2>3. filled' \in [signed -> Nat]
    BY <1>1, <2>1 DEF FillOrder, Consume
  <2>4. fill' \in FillType /\ fill'.order = o
    BY <1>1, <2>1, <2>2 DEF FillOrder, FillType
  <2>5. before' \in Books
    BY <1>1 DEF FillOrder, Books
  <2>6. leg' = "taker" /\ UNCHANGED <<now, signed, cancelled, balance, received, delivered>>
    BY <1>1 DEF FillOrder
  <2>7. QED BY <2>3, <2>4, <2>5, <2>6 DEF TypeOK, Books
<1>2. CASE TakerLeg
  <2>1. leg = "taker" /\ leg' = "maker"
    BY <1>2 DEF TakerLeg
  <2>2. /\ fill.order \in signed /\ fill.order \in OrderType /\ fill.in \in Nat
        /\ fill.taker \in Accounts /\ before \in Books
    BY <2>1, FillTyped
  <2>3. balance' \in [Assets -> [Accounts -> Nat]]
    <3>1. fill.order.takerAsset \in Assets /\ fill.order.maker \in Accounts
      BY <2>2 DEF OrderType
    <3>2. QED BY <1>2, <2>2, <3>1, TransferTyped DEF TakerLeg
  <2>4. received' \in [signed -> Nat]
    BY <1>2, <2>2 DEF TakerLeg
  <2>5. UNCHANGED <<now, signed, filled, cancelled, fill, before, delivered>>
    BY <1>2 DEF TakerLeg
  <2>6. fill \in FillType
    BY <2>1 DEF TypeOK
  <2>7. QED BY <2>1, <2>2, <2>3, <2>4, <2>5, <2>6 DEF TypeOK, Books
<1>3. CASE MakerLeg
  <2>1. leg = "maker" /\ leg' = "none" /\ fill' = NoFill /\ before' = NoFill
    BY <1>3 DEF MakerLeg
  <2>2. /\ fill.order \in signed /\ fill.order \in OrderType /\ fill.out \in Nat
        /\ fill.receiver \in Accounts
    BY <2>1, FillTyped
  <2>3. balance' \in [Assets -> [Accounts -> Nat]]
    <3>1. fill.order.makerAsset \in Assets /\ fill.order.maker \in Accounts
      BY <2>2 DEF OrderType
    <3>2. QED BY <1>3, <2>2, <3>1, TransferTyped DEF MakerLeg
  <2>4. delivered' \in [signed -> Nat]
    BY <1>3, <2>2 DEF MakerLeg
  <2>5. UNCHANGED <<now, signed, filled, cancelled, received>>
    BY <1>3 DEF MakerLeg
  <2>6. QED BY <2>1, <2>3, <2>4, <2>5 DEF TypeOK, Books
<1>4. CASE Undo
  <2>1. before \in Books
    BY <1>4, FillTyped DEF Undo
  <2>2. QED BY <1>4, <2>1 DEF Undo, TypeOK, Books
<1>5. CASE Tick
  BY <1>5, PmmSettleAssumption DEF Tick, TypeOK, Books, book, PmmSettleAssumption
<1>6. ASSUME NEW o \in Orders, Sign(o) PROVE TypeOK'
  BY <1>6, SignTyped, PmmSettleAssumption DEF PmmSettleAssumption
<1>7. ASSUME NEW m \in Accounts, NEW ns \in Nonces, Cancel(m, ns) PROVE TypeOK'
  <2>1. cancelled' \subseteq [maker : Accounts, nonce : Nat]
    BY <1>7, PmmSettleAssumption DEF Cancel, PmmSettleAssumption
  <2>2. UNCHANGED <<now, signed, filled, balance, leg, fill, before, received, delivered>>
    BY <1>7 DEF Cancel
  <2>3. QED BY <2>1, <2>2 DEF TypeOK, Books
<1>8. ASSUME NEW asset \in Assets, NEW a \in Accounts, NEW b \in Accounts, NEW x \in Moves,
             Move(asset, a, b, x)
      PROVE  TypeOK'
  <2>1. balance' \in [Assets -> [Accounts -> Nat]]
    BY <1>8, TransferTyped, PmmSettleAssumption DEF Move, PmmSettleAssumption
  <2>2. UNCHANGED <<now, signed, filled, cancelled, leg, fill, before, received, delivered>>
    BY <1>8 DEF Move
  <2>3. QED BY <2>1, <2>2 DEF TypeOK, Books
<1>9. CASE UNCHANGED settleVars
  BY <1>9 DEF settleVars, book, TypeOK, Books
<1>10. QED BY <1>1, <1>2, <1>3, <1>4, <1>5, <1>6, <1>7, <1>8, <1>9 DEF Next, Settle

-----------------------------------------------------------------------------
(* Payments. *)

LEMMA PaidStep == TypeOK /\ PaidInv /\ [Next]_settleVars => PaidInv'
<1> SUFFICES ASSUME TypeOK, PaidInv, [Next]_settleVars PROVE PaidInv'
  OBVIOUS
<1> USE BooksTyped
<1>1. ASSUME NEW o \in signed, NEW x \in Sizes, NEW limit \in Limits,
             NEW taker \in Accounts, NEW receiver \in Accounts,
             FillOrder(o, x, limit, taker, receiver)
      PROVE  PaidInv'
  <2>1. x \in Nat /\ o.takerAmount \in Nat
    BY PmmSettleAssumption DEF PmmSettleAssumption, OrderType
  <2>2. leg = "none" /\ leg' = "taker" /\ fill'.order = o /\ fill'.in = x
    BY <1>1 DEF FillOrder
  <2>3. /\ filled' = [filled EXCEPT ![o] = filled[o] + x] /\ x <= o.takerAmount - filled[o]
        /\ UNCHANGED <<signed, received>>
        /\ before'.filled = filled /\ before'.received = received
    BY <1>1 DEF FillOrder, Consume
  <2>4. \A q \in signed : received[q] = filled[q] /\ filled[q] <= q.takerAmount
    BY <2>2 DEF PaidInv, Owed
  <2>5. ASSUME NEW q \in signed
        PROVE  filled'[q] <= q.takerAmount /\ received'[q] + Owed(q)' = filled'[q]
    <3>1. CASE q = o
      BY <2>1, <2>2, <2>3, <2>4, <3>1 DEF Owed
    <3>2. CASE q # o
      BY <2>2, <2>3, <2>4, <3>2 DEF Owed
    <3>3. QED BY <3>1, <3>2
  <2>6. \A q \in signed : filled[q] <= filled'[q]
    BY <2>1, <2>3
  <2>7. QED BY <2>2, <2>3, <2>4, <2>5, <2>6 DEF PaidInv
<1>2. CASE TakerLeg
  <2>1. /\ leg = "taker" /\ leg' = "maker" /\ UNCHANGED <<signed, filled, fill, before>>
        /\ received' = [received EXCEPT ![fill.order] = @ + fill.in]
    BY <1>2 DEF TakerLeg
  <2>2. fill.order \in signed /\ fill.in \in Nat
    BY <2>1, FillTyped
  <2>3. ASSUME NEW q \in signed
        PROVE  filled'[q] <= q.takerAmount /\ received'[q] + Owed(q)' = filled'[q]
    BY <2>1, <2>2 DEF PaidInv, Owed
  <2>4. QED BY <2>1, <2>3 DEF PaidInv
<1>3. CASE MakerLeg
  BY <1>3 DEF MakerLeg, PaidInv, Owed
<1>4. CASE Undo
  <2>1. before \in Books /\ leg # "none"
    BY <1>4, FillTyped DEF Undo
  <2>2. before.filled \in [signed -> Nat] /\ before.received \in [signed -> Nat]
    BY <2>1 DEF Books
  <2>3. leg' = "none" /\ filled' = before.filled /\ received' = before.received /\ signed' = signed
    BY <1>4 DEF Undo
  <2>4. QED BY <2>1, <2>2, <2>3 DEF PaidInv, Owed
<1>5. CASE Tick
  BY <1>5 DEF Tick, PaidInv, Owed, book
<1>6. ASSUME NEW o \in Orders, Sign(o) PROVE PaidInv'
  <2>1. leg = "none" /\ leg' = "none" /\ signed' = signed \cup {o}
    BY <1>6 DEF Sign
  <2>2. /\ DOMAIN filled = signed /\ DOMAIN received = signed
        /\ filled' = WithZero(filled, o) /\ received' = WithZero(received, o)
    BY <1>6 DEF Sign
  <2>3. o.takerAmount \in Nat
    BY PmmSettleAssumption DEF PmmSettleAssumption, OrderType
  <2>4. ASSUME NEW q \in signed'
        PROVE  filled'[q] <= q.takerAmount /\ received'[q] + Owed(q)' = filled'[q]
    <3>1. CASE q \in signed
      <4>1. filled'[q] = filled[q] /\ received'[q] = received[q]
        BY <2>1, <2>2, <3>1 DEF WithZero
      <4>2. QED BY <2>1, <3>1, <4>1 DEF PaidInv, Owed
    <3>2. CASE q \notin signed
      <4>1. filled'[q] = 0 /\ received'[q] = 0 /\ q = o
        BY <2>1, <2>2, <3>2 DEF WithZero
      <4>2. QED BY <2>1, <2>3, <4>1 DEF Owed
    <3>3. QED BY <3>1, <3>2
  <2>5. QED BY <2>1, <2>4 DEF PaidInv
<1>7. ASSUME NEW m \in Accounts, NEW ns \in Nonces, Cancel(m, ns) PROVE PaidInv'
  BY <1>7 DEF Cancel, PaidInv, Owed
<1>8. ASSUME NEW asset \in Assets, NEW a \in Accounts, NEW b \in Accounts, NEW x \in Moves,
             Move(asset, a, b, x)
      PROVE  PaidInv'
  BY <1>8 DEF Move, PaidInv, Owed
<1>9. CASE UNCHANGED settleVars
  BY <1>9 DEF settleVars, book, PaidInv, Owed
<1>10. QED BY <1>1, <1>2, <1>3, <1>4, <1>5, <1>6, <1>7, <1>8, <1>9 DEF Next, Settle

-----------------------------------------------------------------------------
(* Prices. *)

LEMMA PriceStep == SettleInv /\ [Next]_settleVars => PriceInv'
<1> SUFFICES ASSUME TypeOK, PaidInv, PriceInv, [Next]_settleVars PROVE PriceInv'
  BY DEF SettleInv
<1> USE BooksTyped
<1>1. ASSUME NEW o \in signed, NEW x \in Sizes, NEW limit \in Limits,
             NEW taker \in Accounts, NEW receiver \in Accounts,
             FillOrder(o, x, limit, taker, receiver)
      PROVE  PriceInv'
  <2>1. x \in Nat /\ o \in OrderType /\ now \in Nat
    BY PmmSettleAssumption DEF PmmSettleAssumption, TypeOK
  <2>2. Within(o, Realised(o, x, now), x)
    BY <1>1, <2>1, RealisedKeepsPrice DEF FillOrder
  <2>3. /\ leg' = "taker" /\ fill'.order = o /\ fill'.in = x /\ fill'.out = Realised(o, x, now)
        /\ UNCHANGED <<signed, received, delivered>>
        /\ before'.delivered = delivered /\ before'.received = received
    BY <1>1 DEF FillOrder
  <2>4. QED BY <2>2, <2>3 DEF PriceInv, Within
<1>2. CASE TakerLeg
  <2>1. /\ leg = "taker" /\ leg' = "maker" /\ UNCHANGED <<signed, fill, before, delivered>>
        /\ received' = [received EXCEPT ![fill.order] = @ + fill.in]
    BY <1>2 DEF TakerLeg
  <2> DEFINE o == fill.order
             y == fill.in
  <2>2. o \in signed /\ o \in OrderType /\ y \in Nat
    BY <2>1, FillTyped
  <2>3. received'[o] = received[o] + y /\ \A q \in signed : q # o => received'[q] = received[q]
    BY <2>1, <2>2
  <2>4. received[o] \in Nat /\ delivered[o] \in Nat
    BY <2>2
  <2>5. Within(o, delivered[o], received[o])
    BY <2>2 DEF PriceInv
  <2>6. Within(o, 0, y)
    <3>1. o.makerAmount \in Nat /\ o.takerAmount \in Nat
      BY <2>2 DEF OrderType
    <3>2. o.makerAmount * y \in Nat
      BY <2>2, <3>1, ProductIsNat
    <3>3. 0 * o.takerAmount = 0
      BY <3>1, SMT
    <3>4. QED BY <3>2, <3>3 DEF Within
  <2>7. Within(o, delivered[o] + 0, received[o] + y)
    BY <2>2, <2>4, <2>5, <2>6, WithinAdds
  <2>8. delivered[o] + 0 = delivered[o] /\ received'[o] - y = received[o] /\ received'[o] >= y
    BY <2>2, <2>3, <2>4
  <2>9. \A q \in signed : Within(q, delivered'[q], received'[q])
    <3>1. TAKE q \in signed
    <3>2. CASE q = o
      BY <2>1, <2>3, <2>7, <2>8, <3>2
    <3>3. CASE q # o
      BY <2>1, <2>3, <3>1, <3>3 DEF PriceInv
    <3>4. QED BY <3>2, <3>3
  <2>10. Within(fill'.order, delivered'[fill'.order], received'[fill'.order] - fill'.in)
    BY <2>1, <2>5, <2>8
  <2>11. fill' = fill /\ before' = before /\ signed' = signed /\ leg' = "maker" /\ leg = "taker"
    BY <2>1
  <2> HIDE DEF o, y
  <2>12. /\ \A q \in signed : Within(q, before.delivered[q], before.received[q])
         /\ Within(fill.order, fill.out, fill.in)
    BY <2>11 DEF PriceInv
  <2>13. QED BY <2>8, <2>9, <2>10, <2>11, <2>12 DEF PriceInv, Within, o, y
<1>3. CASE MakerLeg
  <2>1. /\ leg = "maker" /\ leg' = "none" /\ UNCHANGED <<signed, received>>
        /\ delivered' = [delivered EXCEPT ![fill.order] = @ + fill.out]
    BY <1>3 DEF MakerLeg
  <2>2. /\ fill.order \in signed /\ fill.order \in OrderType
        /\ fill.in \in Nat /\ fill.out \in Nat
    BY <2>1, FillTyped
  <2>3. /\ received[fill.order] \in Nat /\ delivered[fill.order] \in Nat
        /\ received[fill.order] >= fill.in /\ received[fill.order] - fill.in \in Nat
    BY <2>1, <2>2 DEF PriceInv
  <2>4. Within(fill.order, delivered[fill.order] + fill.out, (received[fill.order] - fill.in) + fill.in)
    <3>1. Within(fill.order, delivered[fill.order], received[fill.order] - fill.in)
      BY <2>1 DEF PriceInv
    <3>2. Within(fill.order, fill.out, fill.in)
      BY <2>1 DEF PriceInv
    <3>3. QED BY <2>2, <2>3, <3>1, <3>2, WithinAdds
  <2>5. (received[fill.order] - fill.in) + fill.in = received[fill.order]
    BY <2>2, <2>3
  <2>6. \A q \in signed : Within(q, delivered'[q], received'[q])
    <3>1. TAKE q \in signed
    <3>2. CASE q = fill.order
      BY <2>1, <2>2, <2>4, <2>5, <3>2
    <3>3. CASE q # fill.order
      BY <2>1, <2>2, <3>1, <3>3 DEF PriceInv
    <3>4. QED BY <3>2, <3>3
  <2>7. QED BY <2>1, <2>6 DEF PriceInv, Within
<1>4. CASE Undo
  <2>1. leg # "none" /\ leg' = "none" /\ signed' = signed
        /\ received' = before.received /\ delivered' = before.delivered
    BY <1>4 DEF Undo
  <2>2. QED BY <2>1 DEF PriceInv, Within
<1>5. CASE Tick
  BY <1>5 DEF Tick, PriceInv, Within, book
<1>6. ASSUME NEW o \in Orders, Sign(o) PROVE PriceInv'
  <2>1. leg = "none" /\ leg' = "none" /\ signed' = signed \cup {o}
    BY <1>6 DEF Sign
  <2>2. /\ DOMAIN delivered = signed /\ DOMAIN received = signed
        /\ delivered' = WithZero(delivered, o) /\ received' = WithZero(received, o)
    BY <1>6 DEF Sign
  <2>3. ASSUME NEW q \in signed'
        PROVE  Within(q, delivered'[q], received'[q])
    <3>1. CASE q \in signed
      <4>1. delivered'[q] = delivered[q] /\ received'[q] = received[q]
        BY <2>1, <2>2, <3>1 DEF WithZero
      <4>2. QED BY <3>1, <4>1 DEF PriceInv
    <3>2. CASE q \notin signed
      <4>1. delivered'[q] = 0 /\ received'[q] = 0 /\ q = o
        BY <2>1, <2>2, <3>2 DEF WithZero
      <4>2. QED BY <4>1, WithinZero, PmmSettleAssumption DEF PmmSettleAssumption
    <3>3. QED BY <3>1, <3>2
  <2>4. QED BY <2>1, <2>3 DEF PriceInv, Within
<1>7. ASSUME NEW m \in Accounts, NEW ns \in Nonces, Cancel(m, ns) PROVE PriceInv'
  BY <1>7 DEF Cancel, PriceInv, Within
<1>8. ASSUME NEW asset \in Assets, NEW a \in Accounts, NEW b \in Accounts, NEW x \in Moves,
             Move(asset, a, b, x)
      PROVE  PriceInv'
  BY <1>8 DEF Move, PriceInv, Within
<1>9. CASE UNCHANGED settleVars
  BY <1>9 DEF settleVars, book, PriceInv, Within
<1>10. QED BY <1>1, <1>2, <1>3, <1>4, <1>5, <1>6, <1>7, <1>8, <1>9 DEF Next, Settle

-----------------------------------------------------------------------------
(* Decay and cancellation. *)

LEMMA DecayStep == SettleInv /\ [Next]_settleVars => DecayInv'
<1> SUFFICES ASSUME TypeOK, DecayInv, [Next]_settleVars PROVE DecayInv'
  BY DEF SettleInv
<1>1. ASSUME NEW o \in signed, NEW x \in Sizes, NEW limit \in Limits,
             NEW taker \in Accounts, NEW receiver \in Accounts,
             FillOrder(o, x, limit, taker, receiver)
      PROVE  DecayInv'
  <2>1. x \in Nat /\ o \in OrderType /\ now \in Nat
    BY PmmSettleAssumption, BooksTyped DEF PmmSettleAssumption, TypeOK
  <2>2. Realised(o, x, now) >= LeastOut(o, x)
    BY <1>1, <2>1, RealisedAboveCap DEF FillOrder
  <2>3. /\ fill'.order = o /\ fill'.in = x /\ fill'.out = Realised(o, x, now)
        /\ before'.delivered = delivered /\ delivered' = delivered
    BY <1>1 DEF FillOrder
  <2>4. QED BY <2>2, <2>3 DEF DecayInv, LeastOut, Quoted
<1>2. CASE TakerLeg
  BY <1>2 DEF TakerLeg, DecayInv, LeastOut, Quoted
<1>3. CASE MakerLeg
  BY <1>3 DEF MakerLeg, DecayInv
<1>4. CASE Undo
  BY <1>4 DEF Undo, DecayInv
<1>5. CASE Tick
  BY <1>5 DEF Tick, DecayInv, LeastOut, Quoted
<1>6. ASSUME NEW o \in Orders, Sign(o) PROVE DecayInv'
  BY <1>6 DEF Sign, DecayInv, LeastOut, Quoted
<1>7. ASSUME NEW m \in Accounts, NEW ns \in Nonces, Cancel(m, ns) PROVE DecayInv'
  BY <1>7 DEF Cancel, DecayInv, LeastOut, Quoted
<1>8. ASSUME NEW asset \in Assets, NEW a \in Accounts, NEW b \in Accounts, NEW x \in Moves,
             Move(asset, a, b, x)
      PROVE  DecayInv'
  BY <1>8 DEF Move, DecayInv, LeastOut, Quoted
<1>9. CASE UNCHANGED settleVars
  BY <1>9 DEF settleVars, book, DecayInv, LeastOut, Quoted
<1>10. QED BY <1>1, <1>2, <1>3, <1>4, <1>5, <1>6, <1>7, <1>8, <1>9 DEF Next, Settle

(* Only MakerLeg delivers. *)
LEMMA DeliveryBounded ==
    ASSUME SettleInv, [Next]_settleVars, NEW o \in signed, delivered'[o] > delivered[o]
    PROVE  delivered'[o] - delivered[o] >= LeastOut(o, fill.in)
<1> USE DEF SettleInv
<1>1. delivered[o] \in Nat
  BY BooksTyped
<1>2. CASE MakerLeg
  <2>1. leg = "maker" /\ delivered' = [delivered EXCEPT ![fill.order] = @ + fill.out]
    BY <1>2 DEF MakerLeg
  <2>2. fill.order = o /\ fill.out \in Nat
    BY <1>1, <2>1, FillTyped
  <2>3. delivered'[o] = delivered[o] + fill.out
    BY <2>1, <2>2, BooksTyped
  <2>4. fill.out >= LeastOut(fill.order, fill.in)
    BY <2>1 DEF DecayInv
  <2> DEFINE least == LeastOut(o, fill.in)
  <2>5. fill.out >= least
    BY <2>2, <2>4
  <2> HIDE DEF least
  <2>6. delivered'[o] - delivered[o] >= least
    BY <1>1, <2>2, <2>3, <2>5
  <2>7. QED BY <2>6 DEF least
<1>3. CASE ~MakerLeg
  <2>1. delivered'[o] = delivered[o]
    <3>1. CASE Undo
      BY <3>1 DEF Undo, DecayInv
    <3>2. ASSUME NEW q \in Orders, Sign(q) PROVE delivered'[o] = delivered[o]
      BY <3>2, BooksTyped DEF Sign, WithZero
    <3>3. CASE TakerLeg
      BY <3>3 DEF TakerLeg
    <3>4. CASE Tick
      BY <3>4 DEF Tick, book
    <3>5. ASSUME NEW q \in signed, NEW x \in Sizes, NEW limit \in Limits,
                 NEW taker \in Accounts, NEW receiver \in Accounts,
                 FillOrder(q, x, limit, taker, receiver)
          PROVE  delivered'[o] = delivered[o]
      BY <3>5 DEF FillOrder
    <3>6. ASSUME NEW m \in Accounts, NEW ns \in Nonces, Cancel(m, ns)
          PROVE  delivered'[o] = delivered[o]
      BY <3>6 DEF Cancel
    <3>7. ASSUME NEW asset \in Assets, NEW a \in Accounts, NEW b \in Accounts,
                 NEW x \in Moves, Move(asset, a, b, x)
          PROVE  delivered'[o] = delivered[o]
      BY <3>7 DEF Move
    <3>8. CASE UNCHANGED settleVars
      BY <3>8 DEF settleVars, book
    <3>9. QED BY <1>3, <3>1, <3>2, <3>3, <3>4, <3>5, <3>6, <3>7, <3>8 DEF Next, Settle
  <2>2. QED BY <1>1, <2>1
<1>4. QED BY <1>2, <1>3

(* Cancelling adds bits; only the revert of the call that added them takes   *)
(* them away; and a fill looks at the bits before it consumes.              *)
LEMMA DeadStays ==
    ASSUME SettleInv, [Next]_settleVars, NEW o \in signed, Dead(o)
    PROVE  filled'[o] <= filled[o] /\ (leg = "none" => Dead(o)')
<1> USE DEF SettleInv
<1>1. filled[o] \in Nat
  BY BooksTyped
<1>2. ASSUME NEW q \in signed, NEW x \in Sizes, NEW limit \in Limits,
             NEW taker \in Accounts, NEW receiver \in Accounts,
             FillOrder(q, x, limit, taker, receiver)
      PROVE  filled'[o] <= filled[o] /\ Dead(o)'
  <2>1. ~Dead(q) /\ filled' = [filled EXCEPT ![q] = filled[q] + x] /\ cancelled' = cancelled
    BY <1>2 DEF FillOrder, Consume
  <2>2. filled'[o] = filled[o]
    BY <2>1, BooksTyped
  <2>3. QED BY <1>1, <2>1, <2>2 DEF Dead
<1>3. CASE Undo
  <2>1. leg # "none" /\ filled' = before.filled
    BY <1>3 DEF Undo
  <2>2. QED BY <2>1 DEF PaidInv
<1>4. ASSUME NEW q \in Orders, Sign(q) PROVE filled'[o] <= filled[o] /\ Dead(o)'
  <2>1. filled'[o] = filled[o]
    BY <1>4, BooksTyped DEF Sign, WithZero
  <2>2. QED BY <1>1, <1>4, <2>1 DEF Sign, Dead
<1>5. ASSUME NEW m \in Accounts, NEW ns \in Nonces, Cancel(m, ns)
      PROVE  filled'[o] <= filled[o] /\ Dead(o)'
  BY <1>1, <1>5 DEF Cancel, Dead
<1>6. CASE TakerLeg
  BY <1>1, <1>6 DEF TakerLeg, Dead
<1>7. CASE MakerLeg
  BY <1>1, <1>7 DEF MakerLeg, Dead
<1>8. CASE Tick
  BY <1>1, <1>8 DEF Tick, book, Dead
<1>9. ASSUME NEW asset \in Assets, NEW a \in Accounts, NEW b \in Accounts, NEW x \in Moves,
             Move(asset, a, b, x)
      PROVE  filled'[o] <= filled[o] /\ Dead(o)'
  BY <1>1, <1>9 DEF Move, Dead
<1>10. CASE UNCHANGED settleVars
  BY <1>1, <1>10 DEF settleVars, book, Dead
<1>11. QED BY <1>2, <1>3, <1>4, <1>5, <1>6, <1>7, <1>8, <1>9, <1>10 DEF Next, Settle

-----------------------------------------------------------------------------
(* The results. *)

LEMMA InvariantHolds == Spec => []SettleInv
<1>1. Init => SettleInv
  <2> SUFFICES ASSUME Init PROVE SettleInv
    OBVIOUS
  <2>1. TypeOK
    BY InitTyped
  <2>2. signed = {} /\ leg = "none"
    BY DEF Init
  <2>3. QED BY <2>1, <2>2 DEF SettleInv, PaidInv, PriceInv, DecayInv
<1>2. SettleInv /\ [Next]_settleVars => SettleInv'
  BY TypeStep, PaidStep, PriceStep, DecayStep DEF SettleInv
<1>3. QED BY <1>1, <1>2, PTL DEF Spec

(* Every variable of the settlement keeps its type: no balance and no fill   *)
(* goes below zero, and a call under way is a fill of a signed order.       *)
THEOREM TypeCorrect == Spec => []TypeOK
<1>1. SettleInv => TypeOK
  BY DEF SettleInv
<1>2. QED BY <1>1, InvariantHolds, PTL

(* filledTaker (PmmSettle.sol 204-214) never exceeds what the maker asked    *)
(* for and, between calls, is what the maker was paid.                      *)
THEOREM FilledIsPaid == Spec => []PaidAsFilled
<1>1. SettleInv => PaidAsFilled
  <2> SUFFICES ASSUME SettleInv PROVE PaidAsFilled
    OBVIOUS
  <2>1. TypeOK /\ PaidInv
    BY DEF SettleInv
  <2>2. QED BY <2>1, BooksTyped DEF PaidInv, PaidAsFilled, Owed
<1>2. QED BY <1>1, InvariantHolds, PTL

(* _price (PmmSettle.sol 216-235) over any split, decay and rounding: the    *)
(* maker never hands over more than the signed ratio of what it was paid.   *)
THEOREM SplitNeverBeatsPrice == Spec => []PriceKept
<1>1. SettleInv => PriceKept
  BY DEF SettleInv, PriceInv, PriceKept, Within
<1>2. QED BY <1>1, InvariantHolds, PTL

(* decayPpmAt (PmmSettle.sol 121-135) and _price: whatever the block's time, *)
(* a fill delivers at least its quote less the order's cap on the decay.    *)
THEOREM CapBoundsDecay == Spec => DecayBounded
<1>1. SettleInv /\ [Next]_settleVars =>
          [\A o \in signed : delivered'[o] > delivered[o] =>
               delivered'[o] - delivered[o]
                   >= (Quoted(o, fill.in) * (Unit - o.decayCap)) \div Unit]_settleVars
  BY DeliveryBounded DEF LeastOut
<1>2. QED BY <1>1, InvariantHolds, PTL DEF Spec, DecayBounded

(* _cancel (PmmSettle.sol 170-173): a nonce cancelled outside a fill is dead *)
(* for good, and a cancelled order is filled no further.                    *)
THEOREM CancelledForGood == Spec => CancelledStaysDead
<1>1. SettleInv /\ [Next]_settleVars =>
          [\A o \in signed : Dead(o) =>
               /\ filled'[o] <= filled[o]
               /\ leg = "none" => Dead(o)']_settleVars
  BY DeadStays
<1>2. QED BY <1>1, InvariantHolds, PTL DEF Spec, CancelledStaysDead

-----------------------------------------------------------------------------
(* The book of reservations. *)

(* The book sweeps by a clock that is not ahead of the chain's, and times    *)
(* are whole seconds.                                                      *)
BookInv ==
    /\ now \in Nat
    /\ \A o \in life : o.expiry \in Nat
    /\ LiveIsReserved

(* A sweep at a time that has come keeps what is still open. *)
LEMMA SweepKeeps ==
    ASSUME BookInv, NEW t \in Clocks, NEW o \in life, now < o.expiry
    PROVE  \E r \in Unexpired(t) : r.nonce = o.nonce /\ r.expires = o.expiry
<1>1. t \in Nat /\ t <= now /\ now \in Nat /\ o.expiry \in Nat
  BY DEF Clocks, BookInv
<1>2. PICK r \in open : r.nonce = o.nonce /\ r.expires = o.expiry
  BY DEF BookInv, LiveIsReserved, HasReservation
<1>3. r.expires > t
  BY <1>1, <1>2
<1>4. QED BY <1>2, <1>3 DEF Unexpired

(* A request refused after the sweep. *)
LEMMA RefuseKeeps ==
    ASSUME BookInv, NEW t \in Clocks, Refuse(t)
    PROVE  BookInv'
<1>1. open' = Unexpired(t) /\ life' = life /\ now' = now
  BY DEF Refuse, settleVars
<1>2. QED BY <1>1, SweepKeeps DEF BookInv, LiveIsReserved, HasReservation

(* An answer: the sweep, and a reservation for the new order. *)
LEMMA AnswerKeeps ==
    ASSUME BookInv, NEW t \in Clocks, NEW p \in Pairs, NEW sells \in BOOLEAN,
           NEW half \in Halves, NEW amount \in QuoteSizes, AnswerQuote(p, sells, half, amount, t)
    PROVE  BookInv'
<1> DEFINE m == market[p]
           o == OrderFor(p, sells, amount, MakerAmount(m, sells, half, amount), count, t + Ttl)
           r == [pair |-> p, sells |-> sells, base |-> BaseAmount(m, sells, half, amount),
                 expires |-> t + Ttl, nonce |-> count]
<1>1. open' = Unexpired(t) \cup {r} /\ life' = life \cup {o} /\ Sign(o)
  BY DEF AnswerQuote
<1>2. now' = now
  BY <1>1 DEF Sign
<1>3. t + Ttl \in Nat /\ o.expiry = t + Ttl /\ o.nonce = count /\ r.expires = t + Ttl /\ r.nonce = count
  BY RfqMakerAssumption DEF Clocks, OrderFor, BookInv
<1> HIDE DEF o, r
<1>4. ASSUME NEW q \in life', now' < q.expiry
      PROVE  \E s \in open' : s.nonce = q.nonce /\ s.expires = q.expiry
  <2>1. CASE q \in life
    BY <1>1, <1>2, <1>4, <2>1, SweepKeeps
  <2>2. CASE q = o
    BY <1>1, <1>3, <2>2
  <2>3. QED BY <1>1, <2>1, <2>2
<1>5. \A q \in life' : q.expiry \in Nat
  BY <1>1, <1>3 DEF BookInv
<1>6. QED BY <1>2, <1>4, <1>5 DEF BookInv, LiveIsReserved, HasReservation

(* Nothing else signs or sweeps; time only passes. *)
LEMMA StepKeeps ==
    ASSUME BookInv, [RfqNext]_allVars
    PROVE  BookInv'
<1>1. CASE UNCHANGED <<now, open, life>>
  BY <1>1 DEF BookInv, LiveIsReserved, HasReservation
<1>2. CASE Tick /\ UNCHANGED rfqVars
  <2>1. now' = now + 1 /\ open' = open /\ life' = life
    BY <1>2 DEF Tick, rfqVars
  <2>2. ASSUME NEW o \in life, now + 1 < o.expiry PROVE now < o.expiry
    BY <2>2 DEF BookInv
  <2>3. QED BY <2>1, <2>2 DEF BookInv, LiveIsReserved, HasReservation
<1>3. CASE Restart
  <2>1. life' = {} /\ now' = now
    BY <1>3 DEF Restart, settleVars
  <2>2. QED BY <2>1 DEF BookInv, LiveIsReserved
<1>4. CASE \E t \in Clocks : Refuse(t)
  BY <1>4, RefuseKeeps
<1>5. CASE \E p \in Pairs, sells \in BOOLEAN, half \in Halves, amount \in QuoteSizes, t \in Clocks :
               AnswerQuote(p, sells, half, amount, t)
  BY <1>5, AnswerKeeps
<1>6. CASE Settle /\ UNCHANGED rfqVars
  <2>1. now' = now
    BY <1>6 DEF Settle, FillOrder, TakerLeg, MakerLeg, Undo
  <2>2. QED BY <1>1, <1>6, <2>1 DEF rfqVars
<1>7. QED
  BY <1>1, <1>2, <1>3, <1>4, <1>5, <1>6
  DEF RfqNext, allVars, rfqVars, settleVars, ReadView, Publish, Retire

(* Every order of this life that can still be filled has its reservation,    *)
(* whichever requests swept the book and however far the published clock     *)
(* was behind (quoting.rs 241-279, serve.rs 137-149).                       *)
THEOREM LiveOrdersAreReserved == RfqSpec => []LiveIsReserved
<1>1. RfqInit => BookInv
  BY DEF RfqInit, Init, BookInv, LiveIsReserved
<1>2. BookInv /\ [RfqNext]_allVars => BookInv'
  BY StepKeeps
<1>3. BookInv => LiveIsReserved
  BY DEF BookInv
<1>4. QED BY <1>1, <1>2, <1>3, PTL DEF RfqSpec

-----------------------------------------------------------------------------
(* What the signed orders promise. *)

MarketTypes == [fair : Nat \ {0}, base : Nat, quote : Nat]

(* The base of a pair is the base of no other pair and no pair's quote: the   *)
(* shipped pairs are all quoted in one stablecoin, and the pool lists a pair *)
(* of tokens once.  The book keeps its reservations per pair.               *)
BaseIsOwn == \A p, q \in Pairs : Base[p] # Quote[q] /\ (Base[p] = Base[q] => p = q)

MakerTypes ==
    /\ TypeOK
    /\ view \in [Assets -> Nat] /\ market \in [Pairs -> MarketTypes \cup {NoMarket}]
    /\ count \in Nat
    /\ IsFiniteSet(open) /\ open \subseteq Reservations
    /\ IsFiniteSet(life) /\ life \subseteq OrderType

(* The nonces of one life tell its orders and its reservations apart. *)
NoncesTell ==
    /\ \A r \in open : r.nonce < count
    /\ \A o \in life : o.nonce < count
    /\ \A o, q \in life : o.nonce = q.nonce => o = q

(* An order that sells base holds all of what it promises. *)
Holds(r, o, p) ==
    r.nonce = o.nonce /\ r.expires = o.expiry /\ r.pair = p /\ r.sells /\ r.base = o.makerAmount

PromiseKept ==
    \A o \in life, p \in Pairs :
        o.makerAsset = Base[p] /\ now < o.expiry => \E r \in open : Holds(r, o, p)

MakerInv == MakerTypes /\ NoncesTell /\ PromiseKept

(* Reservations sum as the summation lemmas have it. *)
LEMMA BaseSum ==
    ASSUME NEW S, IsFiniteSet(S)
    PROVE  MapThenSumSet(LAMBDA r : r.base, S) = SumFunctionOnSet([r \in S |-> r.base], S)
<1> DEFINE g == [r \in S |-> r.base]
           ok(H) == H = [T \in SUBSET S |->
                            IF T = {} THEN 0 ELSE AnyOf(T).base + H[T \ {AnyOf(T)}]]
<1>1. MapThenSumSet(LAMBDA r : r.base, S) = (CHOOSE H : ok(H))[S]
  BY DEF MapThenSumSet, MapThenFoldSet, AnyOf
<1>2. \A H : ok(H) <=> SumsUp(H, g, S)
  BY DEF SumsUp, AnyOf
<1>3. PICK G : SumsUp(G, g, S)
  BY SumsExist
<1> HIDE DEF ok, g
<1>4. ok(CHOOSE H : ok(H))
  BY <1>2, <1>3
<1>5. SumsUp(CHOOSE H : ok(H), g, S)
  BY <1>2, <1>4
<1>6. SumFunctionOnSet(g, S) = (CHOOSE H : ok(H))[S]
  BY <1>5, SumIsSums
<1>7. QED BY <1>1, <1>6 DEF g

LEMMA AmountSum ==
    ASSUME NEW S, IsFiniteSet(S)
    PROVE  MapThenSumSet(LAMBDA o : o.makerAmount, S)
               = SumFunctionOnSet([o \in S |-> o.makerAmount], S)
<1> DEFINE g == [o \in S |-> o.makerAmount]
           ok(H) == H = [T \in SUBSET S |->
                            IF T = {} THEN 0 ELSE AnyOf(T).makerAmount + H[T \ {AnyOf(T)}]]
<1>1. MapThenSumSet(LAMBDA o : o.makerAmount, S) = (CHOOSE H : ok(H))[S]
  BY DEF MapThenSumSet, MapThenFoldSet, AnyOf
<1>2. \A H : ok(H) <=> SumsUp(H, g, S)
  BY DEF SumsUp, AnyOf
<1>3. PICK G : SumsUp(G, g, S)
  BY SumsExist
<1> HIDE DEF ok, g
<1>4. ok(CHOOSE H : ok(H))
  BY <1>2, <1>3
<1>5. SumsUp(CHOOSE H : ok(H), g, S)
  BY <1>2, <1>4
<1>6. SumFunctionOnSet(g, S) = (CHOOSE H : ok(H))[S]
  BY <1>5, SumIsSums
<1>7. QED BY <1>1, <1>6 DEF g

(* What the book quotes is a number of tokens. *)
LEMMA AmountsTyped ==
    ASSUME NEW m \in MarketTypes, NEW sells \in BOOLEAN, NEW half \in Halves, NEW amount \in Nat,
           InRange(m, sells, half, amount)
    PROVE  MakerAmount(m, sells, half, amount) \in Nat /\ BaseAmount(m, sells, half, amount) \in Nat
<1> DEFINE price == Price(m, sells, half)
           k == IF sells THEN SpreadUnit + half ELSE SpreadUnit - half
<1>1. k \in Nat /\ SpreadUnit \in Nat \ {0} /\ Scale \in Nat \ {0}
  BY RfqMakerAssumption DEF RfqMakerAssumption
<1>2. m.fair \in Nat
  BY DEF MarketTypes
<1>3. price = (m.fair * k) \div SpreadUnit
  BY DEF Price
<1> HIDE DEF k
<1>4. price \in Nat
  BY <1>1, <1>2, <1>3, ProductIsNat, QuotientIsNat
<1>5. CASE sells
  <2>1. price \in Nat \ {0}
    <3>1. price > 0
      BY <1>5 DEF InRange
    <3> HIDE DEF price
    <3>2. QED BY <1>4, <3>1
  <2>2. MakerAmount(m, sells, half, amount) = (amount * Scale) \div price
    BY <1>5 DEF MakerAmount
  <2> HIDE DEF price
  <2>3. (amount * Scale) \div price \in Nat
    BY <1>1, <2>1, ProductIsNat, QuotientIsNat
  <2>4. QED BY <1>5, <2>2, <2>3 DEF BaseAmount
<1>6. CASE ~sells
  <2>1. MakerAmount(m, sells, half, amount) = (amount * price) \div Scale
    BY <1>6 DEF MakerAmount
  <2> HIDE DEF price
  <2>2. (amount * price) \div Scale \in Nat
    BY <1>1, <1>4, ProductIsNat, QuotientIsNat
  <2>3. QED BY <1>6, <2>1, <2>2 DEF BaseAmount
<1>7. QED BY <1>5, <1>6

(* The answer to a request, named. *)
AnswerOrder(p, sells, half, amount, t) ==
    OrderFor(p, sells, amount, MakerAmount(market[p], sells, half, amount), count, t + Ttl)
AnswerReservation(p, sells, half, amount, t) ==
    [pair |-> p, sells |-> sells, base |-> BaseAmount(market[p], sells, half, amount),
     expires |-> t + Ttl, nonce |-> count]

LEMMA AnswerTyped ==
    ASSUME MakerInv, NEW p \in Pairs, NEW sells \in BOOLEAN, NEW half \in Halves,
           NEW amount \in QuoteSizes, NEW t \in Clocks, AnswerQuote(p, sells, half, amount, t)
    PROVE  LET o == AnswerOrder(p, sells, half, amount, t)
               r == AnswerReservation(p, sells, half, amount, t)
           IN  /\ o \in OrderType /\ r \in Reservations /\ market[p] \in MarketTypes
               /\ o.nonce = count /\ r.nonce = count /\ o.expiry = r.expires
               /\ r.pair = p /\ r.sells = sells
               /\ o.makerAsset = (IF sells THEN Base[p] ELSE Quote[p])
               /\ sells => r.base = o.makerAmount
               /\ open' = Unexpired(t) \cup {r} /\ life' = life \cup {o} /\ count' = count + 1
               /\ Sign(o) /\ UNCHANGED <<view, market>>
               /\ r.base <= RoomLeft(market[p], Unexpired(t), p, sells)
<1> DEFINE o == AnswerOrder(p, sells, half, amount, t)
           r == AnswerReservation(p, sells, half, amount, t)
           out == MakerAmount(market[p], sells, half, amount)
<1>1. market[p] \in MarketTypes
  BY DEF AnswerQuote, MakerInv, MakerTypes
<1>2. amount \in Nat /\ t + Ttl \in Nat /\ count \in Nat
  BY RfqMakerAssumption DEF RfqMakerAssumption, Clocks, MakerInv, MakerTypes
<1>3. out \in Nat /\ r.base \in Nat
  BY <1>1, <1>2, AmountsTyped DEF AnswerQuote, AnswerReservation
<1>4. r \in Reservations
  BY <1>2, <1>3 DEF Reservations, AnswerReservation
<1>5. o \in OrderType
  BY <1>2, <1>3, RfqMakerAssumption
  DEF AnswerOrder, OrderFor, OrderType, RfqMakerAssumption
<1>6. o.nonce = count /\ r.nonce = count /\ o.expiry = r.expires /\ r.pair = p /\ r.sells = sells
      /\ o.makerAsset = (IF sells THEN Base[p] ELSE Quote[p])
  BY DEF AnswerOrder, AnswerReservation, OrderFor
<1>7. sells => r.base = o.makerAmount
  BY DEF AnswerOrder, AnswerReservation, OrderFor, BaseAmount
<1>8. /\ open' = Unexpired(t) \cup {r} /\ life' = life \cup {o} /\ count' = count + 1
      /\ Sign(o) /\ UNCHANGED <<view, market>>
      /\ r.base <= RoomLeft(market[p], Unexpired(t), p, sells)
  BY DEF AnswerQuote, AnswerOrder, AnswerReservation
<1>9. QED BY <1>1, <1>4, <1>5, <1>6, <1>7, <1>8

LEMMA AnswerKeepsPromise ==
    ASSUME BaseIsOwn, MakerInv, NEW p \in Pairs, NEW sells \in BOOLEAN, NEW half \in Halves,
           NEW amount \in QuoteSizes, NEW t \in Clocks, AnswerQuote(p, sells, half, amount, t)
    PROVE  MakerInv'
<1> DEFINE o == AnswerOrder(p, sells, half, amount, t)
           r == AnswerReservation(p, sells, half, amount, t)
<1>1. /\ o \in OrderType /\ r \in Reservations
      /\ o.nonce = count /\ r.nonce = count /\ o.expiry = r.expires
      /\ r.pair = p /\ r.sells = sells
      /\ o.makerAsset = (IF sells THEN Base[p] ELSE Quote[p])
      /\ sells => r.base = o.makerAmount
      /\ open' = Unexpired(t) \cup {r} /\ life' = life \cup {o} /\ count' = count + 1
      /\ Sign(o) /\ UNCHANGED <<view, market>>
  BY AnswerTyped
<1> HIDE DEF o, r
<1>2. now' = now /\ now \in Nat /\ t \in Nat /\ t <= now /\ count \in Nat
  BY <1>1 DEF Sign, Clocks, MakerInv, MakerTypes, TypeOK
<1>3. Unexpired(t) \subseteq open
  BY DEF Unexpired
<1>4. MakerTypes'
  <2>1. TypeOK'
    BY <1>1, SignTyped DEF MakerInv, MakerTypes
  <2>2. IsFiniteSet(open') /\ IsFiniteSet(life')
    <3>1. IsFiniteSet(Unexpired(t))
      BY <1>3, FS_Subset DEF MakerInv, MakerTypes
    <3>2. QED BY <1>1, <3>1, FS_AddElement DEF MakerInv, MakerTypes
  <2>3. open' \subseteq Reservations /\ life' \subseteq OrderType /\ count' \in Nat
    BY <1>1, <1>2, <1>3 DEF MakerInv, MakerTypes
  <2>4. QED BY <1>1, <2>1, <2>2, <2>3 DEF MakerInv, MakerTypes
<1>5. NoncesTell'
  <2>1. \A s \in open : s.nonce \in Nat
    BY DEF MakerInv, MakerTypes, Reservations
  <2>2. \A q \in life : q.nonce \in Nat
    BY DEF MakerInv, MakerTypes, OrderType
  <2>3. \A s \in open : s.nonce < count
    BY DEF MakerInv, NoncesTell
  <2>4. \A q \in life : q.nonce < count
    BY DEF MakerInv, NoncesTell
  <2>5. \A s \in open' : s.nonce < count'
    BY <1>1, <1>2, <1>3, <2>1, <2>3
  <2>6. \A q \in life' : q.nonce < count'
    BY <1>1, <1>2, <2>2, <2>4
  <2>7. \A q, u \in life' : q.nonce = u.nonce => q = u
    BY <1>1, <1>2, <2>2, <2>4 DEF MakerInv, NoncesTell
  <2>8. QED BY <2>5, <2>6, <2>7 DEF NoncesTell
<1>6. ASSUME NEW q \in life', NEW b \in Pairs, q.makerAsset = Base[b], now < q.expiry
      PROVE  \E s \in open' : Holds(s, q, b)
  <2>1. CASE q = o
    <3>1. sells /\ b = p
      BY <1>1, <1>6, <2>1 DEF BaseIsOwn
    <3>2. Holds(r, q, b)
      BY <1>1, <2>1, <3>1 DEF Holds
    <3>3. QED BY <1>1, <3>2
  <2>2. CASE q \in life
    <3>1. PICK s \in open : Holds(s, q, b)
      BY <1>6, <2>2 DEF MakerInv, PromiseKept
    <3>2. q.expiry \in Nat
      BY <2>2 DEF MakerInv, MakerTypes, OrderType
    <3>3. s \in Unexpired(t)
      BY <1>2, <1>6, <3>1, <3>2 DEF Unexpired, Holds
    <3>4. QED BY <1>1, <3>1, <3>3
  <2>3. QED BY <1>1, <1>6, <2>1, <2>2
<1>7. PromiseKept'
  BY <1>2, <1>6 DEF PromiseKept, Holds
<1>8. QED BY <1>4, <1>5, <1>7 DEF MakerInv

(* The other steps sweep what has expired, or forget the whole life. *)
LEMMA MakerStep ==
    ASSUME BaseIsOwn, MakerInv, [RfqNext]_allVars
    PROVE  MakerInv'
<1>1. /\ now \in Nat /\ balance \in [Assets -> [Accounts -> Nat]] /\ Held \in [Assets -> Nat]
      /\ market \in [Pairs -> MarketTypes \cup {NoMarket}] /\ view \in [Assets -> Nat]
  BY BooksTyped, RfqMakerAssumption DEF MakerInv, MakerTypes, Held, RfqMakerAssumption, TypeOK
<1>2. ASSUME TypeOK', UNCHANGED <<view, market, open, count, life>>, now' \in Nat, now' >= now
      PROVE  MakerInv'
  <2>1. \A o \in life : o.expiry \in Nat
    BY DEF MakerInv, MakerTypes, OrderType
  <2>2. \A o \in life : now' < o.expiry => now < o.expiry
    BY <1>1, <1>2, <2>1
  <2>3. QED BY <1>2, <2>2 DEF MakerInv, MakerTypes, NoncesTell, PromiseKept
<1>3. ASSUME UNCHANGED settleVars PROVE TypeOK' /\ now' = now
  <2>1. TypeOK'
    BY <1>3, TypeStep DEF MakerInv, MakerTypes
  <2>2. QED BY <1>3, <2>1 DEF settleVars
<1>4. ASSUME UNCHANGED <<settleVars, open, count, life>>,
             view' \in [Assets -> Nat], market' \in [Pairs -> MarketTypes \cup {NoMarket}]
      PROVE  MakerInv'
  BY <1>3, <1>4 DEF MakerInv, MakerTypes, NoncesTell, PromiseKept
<1>5. CASE (Settle \/ Tick) /\ UNCHANGED rfqVars
  <2>1. TypeOK'
    BY <1>5, TypeStep DEF Next, MakerInv, MakerTypes
  <2>2. now' = now \/ now' = now + 1
    BY <1>5 DEF Settle, FillOrder, TakerLeg, MakerLeg, Undo, Tick
  <2>3. QED BY <1>1, <1>2, <1>5, <2>1, <2>2 DEF rfqVars
<1>6. CASE ReadView
  BY <1>1, <1>4, <1>6 DEF ReadView
<1>7. ASSUME NEW p \in Pairs, NEW fair \in Fairs, Publish(p, fair) PROVE MakerInv'
  <2>1. [fair |-> fair, base |-> view[Base[p]], quote |-> view[Quote[p]]] \in MarketTypes
    BY <1>1, RfqMakerAssumption DEF MarketTypes, RfqMakerAssumption
  <2>2. market' \in [Pairs -> MarketTypes \cup {NoMarket}]
    BY <1>1, <1>7, <2>1 DEF Publish
  <2>3. QED BY <1>1, <1>4, <1>7, <2>2 DEF Publish
<1>8. ASSUME NEW p \in Pairs, Retire(p) PROVE MakerInv'
  BY <1>1, <1>4, <1>8 DEF Retire
<1>9. ASSUME NEW t \in Clocks, Refuse(t) PROVE MakerInv'
  <2>1. open' = Unexpired(t) /\ UNCHANGED <<settleVars, view, market, count, life>>
    BY <1>9 DEF Refuse
  <2>2. Unexpired(t) \subseteq open /\ IsFiniteSet(Unexpired(t))
    BY FS_Subset DEF Unexpired, MakerInv, MakerTypes
  <2>3. t \in Nat /\ t <= now
    BY <1>1 DEF Clocks
  <2>4. ASSUME NEW o \in life, NEW p \in Pairs, o.makerAsset = Base[p], now < o.expiry
        PROVE  \E r \in Unexpired(t) : Holds(r, o, p)
    <3>1. PICK r \in open : Holds(r, o, p)
      BY <2>4 DEF MakerInv, PromiseKept
    <3>2. o.expiry \in Nat
      BY DEF MakerInv, MakerTypes, OrderType
    <3>3. r \in Unexpired(t)
      BY <1>1, <2>3, <2>4, <3>1, <3>2 DEF Unexpired, Holds
    <3>4. QED BY <3>1, <3>3
  <2>5. PromiseKept'
    BY <1>3, <2>1, <2>4 DEF PromiseKept
  <2>6. QED BY <1>3, <2>1, <2>2, <2>5 DEF MakerInv, MakerTypes, NoncesTell
<1>10. CASE Restart
  <2>1. /\ UNCHANGED settleVars /\ open' = {} /\ life' = {} /\ count' = 0 /\ view' = Held
        /\ market' = [p \in Pairs |-> NoMarket]
    BY <1>10 DEF Restart
  <2>2. IsFiniteSet({})
    BY FS_EmptySet
  <2>3. MakerTypes'
    BY <1>1, <1>3, <2>1, <2>2 DEF MakerTypes
  <2>4. QED BY <2>1, <2>3 DEF MakerInv, NoncesTell, PromiseKept
<1>11. CASE UNCHANGED allVars
  BY <1>1, <1>2, <1>3, <1>11 DEF allVars, rfqVars
<1>12. QED
  BY <1>5, <1>6, <1>7, <1>8, <1>9, <1>10, <1>11, AnswerKeepsPromise DEF RfqNext

(* No signature promises base a second time, as long as a token is the base   *)
(* of one pair and the quote of none: together with the new order, what the *)
(* unexpired orders of this life promise of it is within the balance the    *)
(* order was sized by (quoting.rs 436-466).                                *)
THEOREM BaseNotPromisedTwice ==
    ASSUME BaseIsOwn
    PROVE  RfqSpec => BaseWithinView
<1>1. RfqInit => MakerInv
  <2> SUFFICES ASSUME RfqInit PROVE MakerInv
    OBVIOUS
  <2>1. TypeOK
    BY InitTyped DEF RfqInit
  <2>2. IsFiniteSet({})
    BY FS_EmptySet
  <2>3. view \in [Assets -> Nat]
    BY RfqMakerAssumption, PmmSettleAssumption DEF RfqInit, RfqMakerAssumption, PmmSettleAssumption
  <2>4. QED
    BY <2>1, <2>2, <2>3 DEF RfqInit, MakerInv, MakerTypes, NoncesTell, PromiseKept
<1>2. ASSUME MakerInv, [RfqNext]_allVars, NEW o \in life' \ life, NEW b \in Pairs,
             o.makerAsset = Base[b]
      PROVE  Promised(life', Base[b]) <= market[b].base
  <2>1. PICK p \in Pairs, sells \in BOOLEAN, half \in Halves, amount \in QuoteSizes, t \in Clocks :
            AnswerQuote(p, sells, half, amount, t)
    BY <1>2 DEF RfqNext, allVars, rfqVars, ReadView, Publish, Retire, Refuse, Restart
  <2> DEFINE d == AnswerReservation(p, sells, half, amount, t)
  <2>2. /\ AnswerOrder(p, sells, half, amount, t) \in OrderType
        /\ life' = life \cup {AnswerOrder(p, sells, half, amount, t)}
        /\ o = AnswerOrder(p, sells, half, amount, t)
    BY <1>2, <2>1, AnswerTyped
  <2>3. /\ d \in Reservations /\ market[p] \in MarketTypes
        /\ o.nonce = count /\ d.nonce = count /\ o.expiry = d.expires
        /\ d.pair = p /\ d.sells = sells
        /\ o.makerAsset = (IF sells THEN Base[p] ELSE Quote[p])
        /\ sells => d.base = o.makerAmount
        /\ open' = Unexpired(t) \cup {d} /\ life' = life \cup {o} /\ o \in OrderType
        /\ d.base <= RoomLeft(market[p], Unexpired(t), p, sells)
    BY <1>2, <2>1, <2>2, AnswerTyped
  <2>4. sells = TRUE /\ b = p
    BY <1>2, <2>3 DEF BaseIsOwn
  <2> HIDE DEF d
  <2> DEFINE old == {r \in Unexpired(t) : r.pair = p /\ r.sells = sells}
             R   == old \cup {d}
             S   == {q \in life' : q.makerAsset = Base[p] /\ now < q.expiry}
             g   == [q \in S |-> q.makerAmount]
             h   == [r \in R |-> r.base]
             by  == [q \in S |-> CHOOSE r \in R : r.nonce = q.nonce /\ r.base = q.makerAmount]
  <2>5. IsFiniteSet(R) /\ IsFiniteSet(old) /\ IsFiniteSet(S) /\ IsFiniteSet(R \ {d})
    <3>1. MakerTypes' /\ MakerTypes
      BY <1>2, MakerStep DEF MakerInv
    <3>2. R \subseteq open' /\ S \subseteq life' /\ old \subseteq open /\ R \ {d} \subseteq open'
      BY <2>3 DEF Unexpired
    <3> HIDE DEF R, S, old
    <3>3. QED BY <3>1, <3>2, FS_Subset DEF MakerTypes
  <2>6. \A r \in R : r \in Reservations /\ r.base \in Nat
    BY <1>2, <2>3 DEF MakerInv, MakerTypes, Unexpired, Reservations
  <2>7. \A q \in S : q \in OrderType /\ q.makerAmount \in Nat /\ q.nonce \in Nat
    BY <1>2, <2>3 DEF MakerInv, MakerTypes, OrderType
  <2>8. ASSUME NEW q \in S
        PROVE  \E r \in R : r.nonce = q.nonce /\ r.base = q.makerAmount
    <3>1. MakerInv'
      BY <1>2, MakerStep
    <3>2. now' = now
      BY <2>1 DEF AnswerQuote, Sign
    <3>3. PICK r \in open' : Holds(r, q, p)
      BY <3>1, <3>2 DEF MakerInv, PromiseKept, Holds
    <3>4. r \in R
      BY <2>3, <2>4, <3>3 DEF Holds
    <3>5. QED BY <3>3, <3>4 DEF Holds
  <2>9. ASSUME NEW q \in S
        PROVE  by[q] \in R /\ by[q].nonce = q.nonce /\ by[q].base = q.makerAmount
    <3> HIDE DEF R, S
    <3>1. QED BY <2>8
  <2>10. \A q, u \in S : by[q] = by[u] => q = u
    <3>1. \A q, u \in S : q.nonce = u.nonce => q = u
      BY <1>2, MakerStep DEF MakerInv, NoncesTell
    <3> HIDE DEF S, by
    <3>2. QED BY <2>9, <3>1
  <2>11. SumFunctionOnSet(g, S) <= SumFunctionOnSet(h, R)
    <3>1. \A q \in S : by[q] \in R /\ g[q] <= h[by[q]] /\ g[q] \in Nat
      <4> HIDE DEF R, S, by
      <4>1. QED BY <2>7, <2>9
    <3>2. \A r \in R : h[r] \in Nat
      BY <2>6
    <3> HIDE DEF S, R, g, h, by
    <3>3. QED BY <2>5, <2>10, <3>1, <3>2, SumEmbedded
  <2>12. Promised(life', Base[b]) = SumFunctionOnSet(g, S)
    BY <2>4, <2>5, AmountSum DEF Promised
  <2>13. d \notin old
    <3>1. \A r \in old : r.nonce < count /\ r.nonce \in Nat
      BY <1>2 DEF MakerInv, MakerTypes, NoncesTell, Reservations, Unexpired
    <3>2. count \in Nat /\ d.nonce = count
      BY <1>2, <2>3 DEF MakerInv, MakerTypes
    <3> HIDE DEF old
    <3>3. QED BY <3>1, <3>2
  <2>14. SumFunctionOnSet(h, R) = d.base + SumFunctionOnSet(h, old)
    <3>1. R \ {d} = old /\ d \in R /\ h[d] = d.base
      BY <2>13
    <3>2. \A r \in R : h[r] \in Int
      BY <2>6
    <3> HIDE DEF R, old, h
    <3>3. QED BY <2>5, <3>1, <3>2, SumOfSome
  <2>15. SumFunctionOnSet(h, old) = Reserved(Unexpired(t), p, sells)
    <3>1. \A r \in old : h[r] = [s \in old |-> s.base][r]
      OBVIOUS
    <3>2. Reserved(Unexpired(t), p, sells) = SumFunctionOnSet([s \in old |-> s.base], old)
      BY <2>5, BaseSum DEF Reserved
    <3> HIDE DEF old, h
    <3>3. QED BY <2>5, <3>1, <3>2, SumOfEqual
  <2>16. SumFunctionOnSet(h, old) \in Nat /\ d.base \in Nat /\ market[p].base \in Nat
    <3>1. \A r \in old : h[r] \in Nat
      BY <2>6
    <3>2. d.base \in Nat /\ market[p].base \in Nat
      BY <2>3, <2>6 DEF MarketTypes
    <3> HIDE DEF old, h
    <3>3. QED BY <2>5, <3>1, <3>2, SumIsNat
  <2>17. d.base <= market[p].base - Reserved(Unexpired(t), p, sells)
    BY <2>3, <2>4 DEF RoomLeft
  <2>18. SumFunctionOnSet(g, S) \in Nat
    <3>1. \A q \in S : g[q] \in Nat
      BY <2>7
    <3> HIDE DEF S, g
    <3>2. QED BY <2>5, <3>1, SumIsNat
  <2> HIDE DEF g, h, S, R, old
  <2>19. SumFunctionOnSet(g, S) <= market[p].base
    BY <2>11, <2>14, <2>15, <2>16, <2>17, <2>18
  <2>20. QED BY <2>4, <2>12, <2>19
<1>3. MakerInv /\ [RfqNext]_allVars =>
        [\A o \in life' \ life, p \in Pairs : o.makerAsset = Base[p] =>
            Promised(life', Base[p]) <= market[p].base]_allVars
  BY <1>2
<1>4. MakerInv /\ [RfqNext]_allVars => MakerInv'
  BY MakerStep
<1>5. QED BY <1>1, <1>3, <1>4, PTL DEF RfqSpec, BaseWithinView

-----------------------------------------------------------------------------
(* The proprietary curve and the pair, asked for more: they answer no less. *)

(* More buys no less. *)
LEMMA AskBuysMore ==
    ASSUME NEW side, IsSide(side), NEW x \in Nat, NEW z \in Nat, x <= z
    PROVE  /\ AmountOutAsk(x, side, 1) \in 0 .. Room(side)
           /\ AmountOutAsk(x, side, 1) <= AmountOutAsk(z, side, 1)
<1> DEFINE q == AmountOutAsk(x, side, 1)
<1>1. q \in 0 .. Room(side) /\ AskCost(q, side, 1) <= x
  BY AmountOutAskIs
<1>2. q \in Nat /\ q <= Room(side)
  BY <1>1 DEF Room, IsSide
<1> HIDE DEF q
<1>3. AskCost(q, side, 1) \in Nat
  BY <1>2, AskCharges
<1>4. AskCost(q, side, 1) <= z
  BY <1>1, <1>3
<1>5. q <= AmountOutAsk(z, side, 1)
  BY <1>1, <1>4, AmountOutAskIs
<1>6. QED BY <1>1, <1>5 DEF q

-----------------------------------------------------------------------------
(* What the pools answer. *)

(* What is used of the row.                                                 *)
Words == [bid : 0 .. Ladder.bidCap, ask : 0 .. Ladder.askCap]

(* The sides of the pushed row, whatever is used of them.                   *)
LEMMA SideIs ==
    ASSUME NEW u \in Words, NEW bid
    PROVE  IsSide(Side(bid, u))
BY RouterAssumption DEF RouterAssumption, Words, Side, IsSide

(* The pool takes no more than its side has room for, and more of the input  *)
(* pays no less.                                                           *)
LEMMA PropOutIs ==
    ASSUME NEW u \in Words, NEW bid \in BOOLEAN, NEW z \in Nat, PropOut(z, bid, u) > 0
    PROVE  /\ PropOut(z, bid, u) \in Int
           /\ bid => z <= Room(Side(bid, u))
           /\ ~bid => PropOut(z, bid, u) \in 0 .. Room(Side(bid, u))
           /\ \A x \in Nat : x <= z => PropOut(x, bid, u) <= PropOut(z, bid, u)
<1> DEFINE side == Side(bid, u)
<1>1. IsSide(side)
  BY SideIs
<1>2. \A x \in Nat : PropOut(x, bid, u) =
         IF bid THEN IF x <= Room(side) THEN AmountOutBid(x, side, 1) ELSE 0
         ELSE IF AskCost(Room(side), side, 1) < x THEN 0 ELSE AmountOutAsk(x, side, 1)
  BY DEF PropOut
<1> HIDE DEF side
<1>3. Room(side) \in Nat
  BY <1>1 DEF IsSide, Room
<1>4. CASE bid
  <2>0. PropOut(z, bid, u) = IF z <= Room(side) THEN AmountOutBid(z, side, 1) ELSE 0
    BY <1>2, <1>4
  <2>1. z <= Room(side)
    BY <2>0
  <2>2. ASSUME NEW x \in Nat, x <= z
        PROVE  PropOut(x, bid, u) <= PropOut(z, bid, u)
    <3>1. x <= Room(side)
      BY <1>3, <2>1, <2>2
    <3>2. PropOut(x, bid, u) = BidGross(x, side, 1) /\ PropOut(z, bid, u) = BidGross(z, side, 1)
      BY <1>2, <1>4, <2>1, <3>1 DEF AmountOutBid
    <3>3. QED BY <1>1, <2>1, <2>2, <3>2, BidGrows
  <2>3. PropOut(z, bid, u) \in Int
    BY <1>1, <1>3, <2>0, <2>1, BidGrows DEF AmountOutBid
  <2>4. QED BY <1>4, <2>1, <2>2, <2>3 DEF side
<1>5. CASE ~bid
  <2>1. PropOut(z, bid, u) = AmountOutAsk(z, side, 1)
    BY <1>2, <1>5
  <2>2. AmountOutAsk(z, side, 1) \in 0 .. Room(side)
    BY <1>1, AskBuysMore
  <2>3. ASSUME NEW x \in Nat, x <= z
        PROVE  PropOut(x, bid, u) <= PropOut(z, bid, u)
    <3>1. PropOut(x, bid, u) = 0 \/ PropOut(x, bid, u) = AmountOutAsk(x, side, 1)
      BY <1>2, <1>5
    <3>2. AmountOutAsk(x, side, 1) <= AmountOutAsk(z, side, 1)
      BY <1>1, <2>3, AskBuysMore
    <3>3. QED BY <2>1, <2>2, <3>1, <3>2
  <2>4. QED BY <1>3, <1>5, <2>1, <2>2, <2>3 DEF side
<1>6. QED BY <1>4, <1>5

(* A UniswapV2 pair pays no less for more. *)
LEMMA UniGrows ==
    ASSUME NEW x \in Nat, NEW z \in Nat, x <= z, x > 0, NEW rin \in Nat, NEW rout \in Nat
    PROVE  /\ UniOut(x, rin, rout) \in Int /\ UniOut(z, rin, rout) \in Int
           /\ UniOut(x, rin, rout) <= UniOut(z, rin, rout)
<1> DEFINE a == x * 997
           c == z * 997
           m == rin * 1000
           p == a * rout
           q == c * rout
<1>1. a \in Nat \ {0} /\ c \in Nat \ {0} /\ m \in Nat /\ a <= c
  OBVIOUS
<1>2. UniOut(x, rin, rout) = p \div (m + a) /\ UniOut(z, rin, rout) = q \div (m + c)
  BY DEF UniOut
<1> HIDE DEF a, c, m
<1>3. p \in Nat /\ q \in Nat
  BY <1>1, ProductIsNat
<1> DEFINE y == p \div (m + a)
           d == c - a
<1>4. /\ y \in Int /\ (m + a) * y <= p /\ p < (m + a) * y + (m + a)
      /\ q \div (m + c) \in Int /\ q < (m + c) * (q \div (m + c)) + (m + c)
  <2> HIDE DEF p, q
  <2>1. m + a \in Nat \ {0} /\ m + c \in Nat \ {0} /\ p \in Int /\ q \in Int
    BY <1>1, <1>3
  <2>2. QED BY <2>1, Quotient
<1>5. y <= rout /\ y \in Nat
  <2>1. (m + a) * rout \in Int /\ a * rout <= (m + a) * rout
    <3>1. (m + a) * rout = m * rout + a * rout
      BY <1>1, SMT
    <3>2. m * rout \in Nat /\ a * rout \in Nat
      BY <1>1, ProductIsNat
    <3>3. QED BY <3>1, <3>2
  <2>2. y * (m + a) \in Int /\ y * (m + a) = (m + a) * y
    BY <1>1, <1>4, SMT
  <2>3. (m + a) * y <= (m + a) * rout
    <3> HIDE DEF y
    <3> QED BY <1>3, <1>4, <2>1, <2>2
  <2>4. y <= rout
    <3> HIDE DEF y
    <3> QED BY <1>1, <1>4, <2>3, Cancelling
  <2>5. y >= 0
    <3>1. 0 <= p
      BY <1>3
    <3>2. p < (m + a) * y + (m + a)
      BY <1>4
    <3>3. (m + a) * 0 <= (m + a) * (y + 1) - 1
      <4> HIDE DEF y, p
      <4>1. (m + a) * (y + 1) = (m + a) * y + (m + a) /\ (m + a) * 0 = 0 /\ (m + a) * y \in Int
        BY <1>1, <1>4, SMT
      <4>2. QED BY <1>1, <1>3, <3>1, <3>2, <4>1
    <3>4. (m + a) * (y + 1) \in Int
      BY <1>1, <1>4, SMT
    <3>5. ~(y + 1 <= 0)
      <4> SUFFICES ASSUME y + 1 <= 0 PROVE FALSE
        OBVIOUS
      <4> HIDE DEF y
      <4>1. (m + a) * (y + 1) <= (m + a) * 0
        BY <1>1, <1>4, Scaling
      <4>2. QED BY <1>1, <3>3, <3>4, <4>1
    <3>6. QED BY <1>4, <3>5
  <2>6. QED BY <1>4, <2>4, <2>5
<1>6. (m + c) * y <= q
  <2> HIDE DEF y
  <2>1. d \in Nat /\ c = a + d
    BY <1>1
  <2>2. q = p + d * rout /\ (m + c) * y = (m + a) * y + d * y
    <3> HIDE DEF d, p, q
    <3>1. q = c * rout /\ p = a * rout
      BY DEF p, q
    <3>2. (a + d) * rout = a * rout + d * rout /\ (m + (a + d)) * y = (m + a) * y + d * y
      BY <1>1, <1>5, <2>1, SMT
    <3>3. QED BY <2>1, <3>1, <3>2
  <2> HIDE DEF d, p, q
  <2>3. d * y <= d * rout
    BY <1>5, <2>1, Scaling
  <2>4. d * y \in Nat /\ d * rout \in Nat /\ (m + a) * y \in Nat
    BY <1>1, <1>5, <2>1, ProductIsNat
  <2>5. QED BY <1>3, <1>4, <2>2, <2>3, <2>4
<1>7. y <= q \div (m + c)
  <2> DEFINE g == q \div (m + c)
  <2>1. g \in Int /\ q < (m + c) * g + (m + c)
    BY <1>4
  <2> HIDE DEF y, g, q
  <2>2. ~(g + 1 <= y)
    <3> SUFFICES ASSUME g + 1 <= y PROVE FALSE
      OBVIOUS
    <3>1. (m + c) * (g + 1) <= (m + c) * y
      BY <1>1, <1>5, <2>1, Scaling
    <3>2. (m + c) * (g + 1) = (m + c) * g + (m + c) /\ (m + c) * g \in Int /\ (m + c) * y \in Int
      BY <1>1, <1>5, <2>1, SMT
    <3>3. QED BY <1>1, <1>3, <1>6, <2>1, <3>1, <3>2
  <2>3. QED BY <1>5, <2>1, <2>2 DEF g
<1>8. QED BY <1>2, <1>4, <1>7

(* What a pool answers for an input it does not refuse is at least what it   *)
(* answers for a smaller one.                                              *)
LEMMA AnswerGrows ==
    ASSUME NEW v \in DOMAIN Venues, NEW reverse, NEW u \in Words,
           NEW res \in [DOMAIN Venues -> [Tokens -> Nat]],
           NEW x \in Nat \ {0}, NEW z \in Nat, x <= z, AnswerAt(v, reverse, z, res, u) > 0
    PROVE  AnswerAt(v, reverse, x, res, u) <= AnswerAt(v, reverse, z, res, u)
<1> DEFINE tin  == TokenIn(v, reverse)
           tout == TokenOut(v, reverse)
<1>1. tin \in Tokens /\ tout \in Tokens
  BY RouterAssumption DEF RouterAssumption, TokenIn, TokenOut
<1>2. res[v][tin] \in Nat /\ res[v][tout] \in Nat
  BY <1>1
<1>3. \A k : AnswerAt(v, reverse, k, res, u) =
         IF Venues[v].kind = "prop"
         THEN IF PropOut(k, ~reverse, u) > res[v][tout] THEN 0 ELSE PropOut(k, ~reverse, u)
         ELSE UniOut(k, res[v][tin], res[v][tout])
  BY DEF AnswerAt
<1> HIDE DEF tin, tout
<1>4. CASE Venues[v].kind = "prop"
  <2>1. PropOut(z, ~reverse, u) > 0 /\ AnswerAt(v, reverse, z, res, u) = PropOut(z, ~reverse, u)
    BY <1>3, <1>4
  <2>2. PropOut(x, ~reverse, u) <= PropOut(z, ~reverse, u) /\ PropOut(z, ~reverse, u) \in Int
    <3> DEFINE bid == ~reverse
    <3>1. bid \in BOOLEAN
      OBVIOUS
    <3> HIDE DEF bid
    <3>2. PropOut(z, bid, u) > 0
      BY <2>1 DEF bid
    <3>3. PropOut(x, bid, u) <= PropOut(z, bid, u) /\ PropOut(z, bid, u) \in Int
      BY <3>1, <3>2, PropOutIs
    <3>4. QED BY <3>3 DEF bid
  <2>3. QED BY <1>2, <1>3, <1>4, <2>1, <2>2
<1>5. CASE Venues[v].kind # "prop"
  BY <1>2, <1>3, <1>5, UniGrows
<1>6. QED BY <1>4, <1>5

-----------------------------------------------------------------------------
(* The router keeps nothing of a call.                                      *)

(* The books of the tokens and of the pools, and an order.                  *)
Holdings == [Tokens -> [Holders -> Nat]]
Pools == [DOMAIN Venues -> [Tokens -> Nat]]
Terms == [takerAsset : Tokens, makerAsset : Tokens, takerAmount : Nat \ {0}, makerAmount : Nat, filled : Nat]

\* Where a call is.
Places == [batch : Nat, hop : Nat, step : Nat, received : Int, granted : Int,
           available : Int, allocated : Int, before : Int]

(* A pool has what it accounts for. *)
Covered(b, r) == \A v \in DOMAIN Venues, t \in Tokens : r[v][t] <= b[t][v]

(* Books a call can find.                                                   *)
Booked(b, r, u, o) ==
    b \in Holdings /\ r \in Pools /\ u \in Words /\ Covered(b, r) /\ (o # NoOrder => o \in Terms)

(* An order and how it was found: only what is filled of it differs.        *)
SameTerms(o, p) ==
    /\ o \in Terms /\ p \in Terms /\ o.takerAsset = p.takerAsset /\ o.makerAsset = p.makerAsset
    /\ o.takerAmount = p.takerAmount /\ o.makerAmount = p.makerAmount

(* Types, with every pool covered.                                          *)
RouteTypes ==
    /\ Booked(bal, reserve, used, order)
    /\ pc \in {"idle", "running", "settling", "paid"}
    /\ gifts \in [Tokens -> Nat]
    /\ quote # NoCall => quote.plan \in PlanType

(* What the call was given, and what it can go back to. *)
CallInv ==
    /\ pc # "idle" =>
           /\ call.plan \in PlanType /\ call.plan.tokenIn # call.plan.tokenOut
           /\ Booked(call.bal, call.reserve, call.used, call.order)
    /\ pc \in {"running", "settling"} /\ order # NoOrder => SameTerms(order, call.order) /\ call.order # NoOrder

(* The loop indices are within the plan. *)
AtInv ==
    pc = "running" =>
        /\ at \in Places /\ at.batch \in DOMAIN Batches /\ at.hop \in DOMAIN Hops
        /\ at.step = 1 \/ at.step \in DOMAIN Hop.steps
        /\ at.hop = 1 => Hop.tokenIn = call.plan.tokenIn

(* What the router has of a token beyond what the call found: what the hop  *)
(* under way still has to spend of it, what it gained for the next hop, and *)
(* gifts.                                                                  *)
Excess(t)  == bal[t]["router"] - call.bal[t]["router"]
Unspent(t) == IF at.hop > 1 /\ Hop.tokenIn = t THEN at.available - at.allocated ELSE 0
Awaited(t) == at.hop < Len(Hops) /\ Hops[at.hop + 1].tokenIn = t
Kept(t)    == (IF Awaited(t) THEN at.before - call.bal[t]["router"] ELSE Excess(t)) - Unspent(t)

(* Nothing but gifts stays in the router of a token the call only passes    *)
(* through.                                                                 *)
FlowInv ==
    pc \in {"running", "settling"} /\ PassesAll(call.plan) =>
        \A t \in Tokens \ {call.plan.tokenIn, call.plan.tokenOut} :
            /\ pc = "running" => Kept(t) \in 0 .. gifts[t] /\ (Awaited(t) => at.before <= bal[t]["router"])
            /\ pc = "settling" => Excess(t) \in 0 .. gifts[t]

(* The inductive invariant of what the router keeps.                        *)
RouteInv == RouteTypes /\ CallInv /\ AtInv /\ FlowInv /\ RouterKeepsNothing

-----------------------------------------------------------------------------
(* Moving tokens. *)

(* A transfer moves what it says, and nothing else.                         *)
LEMMA MovedIs ==
    ASSUME NEW b \in Holdings, NEW t \in Tokens, NEW from \in Holders, NEW to \in Holders, from # to,
           NEW x \in Nat, x <= b[t][from]
    PROVE  LET m == Moved(b, t, from, to, x)
           IN  /\ m \in Holdings
               /\ m[t][from] = b[t][from] - x /\ m[t][to] = b[t][to] + x
               /\ \A h \in Holders \ {from, to} : m[t][h] = b[t][h]
               /\ \A s \in Tokens \ {t} : m[s] = b[s]
<1> DEFINE m   == Moved(b, t, from, to, x)
           row == [h \in Holders |-> b[t][h] - (IF h = from THEN x ELSE 0) + (IF h = to THEN x ELSE 0)]
<1>1. m = [b EXCEPT ![t] = row]
  BY DEF Moved
<1>2. \A h \in Holders : b[t][h] \in Nat
  BY DEF Holdings
<1>3. /\ row[from] = b[t][from] - x /\ row[to] = b[t][to] + x
      /\ \A h \in Holders \ {from, to} : row[h] = b[t][h]
  BY <1>2
<1>4. row \in [Holders -> Nat]
  <2>1. \A h \in Holders : row[h] \in Nat
    BY <1>2
  <2>2. QED BY <2>1
<1> HIDE DEF row, m
<1>5. m[t] = row /\ (\A s \in Tokens \ {t} : m[s] = b[s]) /\ m \in Holdings
  BY <1>1, <1>4 DEF Holdings
<1>6. QED BY <1>3, <1>5 DEF m

(* Who holds tokens.                                                        *)
LEMMA PartiesHold ==
    /\ Parties \subseteq Holders /\ DOMAIN Venues \subseteq Holders
    /\ \A v \in DOMAIN Venues : v \notin Parties
    /\ {"user", "receiver", "router", "pmmAdapter", "ammAdapter", "maker"} = Parties
BY RouterAssumption DEF RouterAssumption, Holders, Parties

(* What no pool loses leaves it covered. *)
LEMMA StillCovered ==
    ASSUME NEW b \in Holdings, NEW r \in Pools, Covered(b, r),
           NEW t \in Tokens, NEW from \in Parties, NEW to \in Holders, from # to,
           NEW x \in Nat, x <= b[t][from]
    PROVE  /\ Moved(b, t, from, to, x) \in Holdings
           /\ Covered(Moved(b, t, from, to, x), r)
<1> DEFINE m == Moved(b, t, from, to, x)
<1>1. /\ m \in Holdings
      /\ m[t][from] = b[t][from] - x /\ m[t][to] = b[t][to] + x
      /\ \A h \in Holders \ {from, to} : m[t][h] = b[t][h]
      /\ \A s \in Tokens \ {t} : m[s] = b[s]
  BY PartiesHold, MovedIs
<1> HIDE DEF m
<1>2. ASSUME NEW v \in DOMAIN Venues, NEW s \in Tokens
      PROVE  r[v][s] <= m[s][v]
  <2>1. r[v][s] <= b[s][v] /\ r[v][s] \in Nat /\ b[s][v] \in Nat /\ v # from /\ v \in Holders
    BY PartiesHold DEF Covered, Pools, Holdings
  <2>2. CASE s # t
    BY <1>1, <2>1, <2>2
  <2>3. CASE s = t /\ v # to
    BY <1>1, <2>1, <2>3
  <2>4. CASE s = t /\ v = to
    BY <1>1, <2>1, <2>4
  <2>5. QED BY <2>2, <2>3, <2>4
<1>3. QED BY <1>1, <1>2 DEF Covered, m

-----------------------------------------------------------------------------
(* The legs. *)

(* A venue trades two different tokens.                                     *)
LEMMA TokensOfVenue ==
    ASSUME NEW v \in DOMAIN Venues, NEW reverse
    PROVE  /\ TokenIn(v, reverse) \in Tokens /\ TokenOut(v, reverse) \in Tokens
           /\ TokenIn(v, reverse) # TokenOut(v, reverse)
BY RouterAssumption DEF RouterAssumption, TokenIn, TokenOut

(* A pool is paid what was sent to it beyond what it accounts for, and pays *)
(* the router what it answers to that.                                      *)
LEMMA PoolLegIs ==
    ASSUME NEW b \in Holdings, reserve \in Pools, used \in Words, Covered(b, reserve),
           NEW v \in DOMAIN Venues, NEW reverse, PoolLeg(b, v, reverse)
    PROVE  LET tin == TokenIn(v, reverse) tout == TokenOut(v, reverse)
           IN  /\ bal' \in Holdings /\ reserve' \in Pools /\ used' \in Words
               /\ Covered(bal', reserve') /\ order' = order
               /\ \A w \in DOMAIN Venues \ {v} : reserve'[w] = reserve[w]
               /\ \A t \in Tokens : bal'[t]["receiver"] = b[t]["receiver"]
               /\ \A t \in Tokens \ {tout} : bal'[t]["router"] = b[t]["router"]
               /\ \E x, y \in Nat \ {0} :
                     /\ x = b[tin][v] - reserve[v][tin] /\ y = Answer(v, reverse, x)
                     /\ bal'[tout]["router"] = b[tout]["router"] + y
<1> DEFINE tin  == TokenIn(v, reverse)
           tout == TokenOut(v, reverse)
           x    == b[tin][v] - reserve[v][tin]
           y    == Answer(v, reverse, x)
<1>1. tin \in Tokens /\ tout \in Tokens /\ tin # tout
  BY TokensOfVenue
<1>2. x > 0 /\ y \in 1 .. reserve[v][tout]
  BY DEF PoolLeg
<1>3. bal' = Moved(b, tout, v, "router", y)
  BY DEF PoolLeg
<1>4. reserve' = [reserve EXCEPT ![v][tin] = b[tin][v], ![v][tout] = b[tout][v] - y]
  BY DEF PoolLeg
<1>5. /\ order' = order
      /\ used' = IF Venues[v].kind # "prop" THEN used
                 ELSE IF reverse THEN [used EXCEPT !.ask = @ + y]
                 ELSE [used EXCEPT !.bid = @ + x]
  BY DEF PoolLeg
<1> HIDE DEF y
<1>6. v \in Holders /\ "router" \in Holders /\ v # "router"
  BY PartiesHold DEF Parties
<1>7. /\ b[tin][v] \in Nat /\ b[tout][v] \in Nat /\ reserve[v][tin] \in Nat /\ reserve[v][tout] \in Nat
      /\ reserve[v][tout] <= b[tout][v]
  BY <1>1, <1>6 DEF Holdings, Pools, Covered
<1>8. x \in Nat /\ y \in Nat \ {0} /\ y <= b[tout][v]
  BY <1>2, <1>7
<1> HIDE DEF x, tin, tout
<1>9. /\ bal' \in Holdings
      /\ bal'[tout][v] = b[tout][v] - y /\ bal'[tout]["router"] = b[tout]["router"] + y
      /\ \A h \in Holders \ {v, "router"} : bal'[tout][h] = b[tout][h]
      /\ \A s \in Tokens \ {tout} : bal'[s] = b[s]
  BY <1>1, <1>3, <1>6, <1>8, MovedIs
<1>10. reserve' \in Pools
       /\ reserve'[v][tin] = b[tin][v] /\ reserve'[v][tout] = b[tout][v] - y
       /\ (\A t \in Tokens \ {tin, tout} : reserve'[v][t] = reserve[v][t])
       /\ (\A w \in DOMAIN Venues \ {v} : reserve'[w] = reserve[w])
  <2>1. b[tout][v] - y \in Nat
    BY <1>7, <1>8
  <2>2. QED BY <1>1, <1>4, <1>7, <2>1 DEF Pools
<1>11. used' \in Words
  <2>1. CASE Venues[v].kind # "prop"
    BY <1>5, <2>1
  <2>2. CASE Venues[v].kind = "prop"
    <3>1. y = PropOut(x, ~reverse, used)
      BY <1>8, <2>2 DEF y, Answer, AnswerAt
    <3>2. /\ ~reverse => x <= Room(Side(TRUE, used))
          /\ reverse => y \in 0 .. Room(Side(FALSE, used))
      <4> DEFINE bid == ~reverse
      <4>1. bid \in BOOLEAN /\ PropOut(x, bid, used) > 0
        BY <1>8, <3>1
      <4> HIDE DEF bid
      <4>2. /\ bid => x <= Room(Side(bid, used))
            /\ ~bid => PropOut(x, bid, used) \in 0 .. Room(Side(bid, used))
        BY <1>8, <4>1, PropOutIs
      <4>3. QED BY <3>1, <4>1, <4>2 DEF bid
    <3>3. /\ Ladder.bidCap \in Nat /\ Ladder.askCap \in Nat
          /\ used.bid \in 0 .. Ladder.bidCap /\ used.ask \in 0 .. Ladder.askCap
      BY RouterAssumption DEF RouterAssumption, Words
    <3>4. /\ Room(Side(TRUE, used)) = Ladder.bidCap - used.bid
          /\ Room(Side(FALSE, used)) = Ladder.askCap - used.ask
      BY DEF Room, Side
    <3>5. CASE reverse
      <4>1. used' = [used EXCEPT !.ask = @ + y]
        BY <1>5, <2>2, <3>5
      <4>2. y <= Ladder.askCap - used.ask
        <5>1. y \in 0 .. Ladder.askCap - used.ask
          BY <3>2, <3>4, <3>5
        <5> HIDE DEF x
        <5> DEFINE free == Ladder.askCap - used.ask
        <5>2. free \in Int
          BY <3>3
        <5>3. y \in 0 .. free
          BY <5>1
        <5> HIDE DEF free
        <5>4. y <= free
          BY <5>2, <5>3
        <5>5. QED BY <5>4 DEF free
      <4>3. used.ask + y \in 0 .. Ladder.askCap
        BY <1>8, <3>3, <4>2
      <4>4. QED BY <4>1, <4>3 DEF Words
    <3>6. CASE ~reverse
      <4>1. used' = [used EXCEPT !.bid = @ + x]
        BY <1>5, <2>2, <3>6
      <4>2. x <= Ladder.bidCap - used.bid
        BY <1>8, <3>2, <3>3, <3>4, <3>6
      <4>3. used.bid + x \in 0 .. Ladder.bidCap
        BY <1>8, <3>3, <4>2
      <4>4. QED BY <4>1, <4>3 DEF Words
    <3>7. QED BY <3>5, <3>6
  <2>3. QED BY <2>1, <2>2
<1>12. ASSUME NEW w \in DOMAIN Venues, NEW t \in Tokens
       PROVE  reserve'[w][t] <= bal'[t][w]
  <2>1. reserve[w][t] <= b[t][w] /\ reserve[w][t] \in Nat /\ b[t][w] \in Nat /\ w \in Holders /\ w # "router"
    BY PartiesHold DEF Covered, Pools, Holdings, Parties
  <2>2. CASE w # v
    <3>1. reserve'[w] = reserve[w]
      BY <1>10, <2>2
    <3>2. bal'[t][w] = b[t][w]
      BY <1>9, <2>1, <2>2
    <3>3. QED BY <2>1, <3>1, <3>2
  <2>3. CASE w = v /\ t = tin
    BY <1>1, <1>7, <1>9, <1>10, <2>3
  <2>4. CASE w = v /\ t = tout
    BY <1>7, <1>8, <1>9, <1>10, <2>4
  <2>5. CASE w = v /\ t # tin /\ t # tout
    BY <1>9, <1>10, <2>1, <2>5
  <2>6. QED BY <2>2, <2>3, <2>4, <2>5
<1>13. \A t \in Tokens : bal'[t]["receiver"] = b[t]["receiver"]
  <2>1. "receiver" \in Holders \ {v, "router"}
    BY PartiesHold DEF Parties
  <2>2. QED BY <1>9, <2>1
<1>14. x \in Nat \ {0} /\ y = Answer(v, reverse, x)
  BY <1>2, <1>8 DEF x, y
<1>15. QED BY <1>1, <1>5, <1>8, <1>9, <1>10, <1>11, <1>12, <1>13, <1>14 DEF Covered, tin, tout, x

(* Dividing undoes multiplying.                                             *)
LEMMA Undone ==
    ASSUME NEW m \in Nat, NEW k \in Nat \ {0}
    PROVE  (m * k) \div k = m
<1> DEFINE p == m * k
           y == p \div k
<1>1. p \in Nat /\ p = k * m
  BY ProductIsNat
<1>2. y \in Int /\ k * y <= p /\ p < k * y + k
  <2> HIDE DEF p
  <2> QED BY <1>1, Quotient
<1> HIDE DEF p, y
<1>3. y <= m
  BY <1>1, <1>2, Cancelling
<1>4. ~(y + 1 <= m)
  <2> SUFFICES ASSUME y + 1 <= m PROVE FALSE
    OBVIOUS
  <2>1. k * (y + 1) <= k * m
    BY <1>2, Scaling
  <2>2. k * (y + 1) = k * y + k /\ k * y \in Int
    BY <1>2, SMT
  <2>3. QED BY <1>1, <1>2, <2>1, <2>2
<1>5. QED BY <1>2, <1>3, <1>4 DEF p, y

(* The maker is paid at most what the adapter was sent, the rest comes      *)
(* back, and an untouched order sent its whole amount pays its whole price. *)
LEMMA PmmLegIs ==
    ASSUME NEW b \in Holdings, reserve \in Pools, Covered(b, reserve), order \in Terms, PmmLeg(b)
    PROVE  LET ta == order.takerAsset ma == order.makerAsset
           IN  /\ bal' \in Holdings /\ UNCHANGED <<reserve, used>>
               /\ Covered(bal', reserve') /\ SameTerms(order', order)
               /\ \A t \in Tokens : bal'[t]["receiver"] = b[t]["receiver"]
               /\ \A t \in Tokens \ {ta, ma} : bal'[t]["router"] = b[t]["router"]
               /\ ma # ta => \E y \in Nat \ {0} :
                     /\ bal'[ma]["router"] = b[ma]["router"] + y
                     /\ order.filled = 0 /\ order.takerAmount <= b[ta]["pmmAdapter"] => y = order.makerAmount
<1> DEFINE ta   == order.takerAsset
           ma   == order.makerAsset
           held == b[ta]["pmmAdapter"]
           x    == IF held < Remaining THEN held ELSE Remaining
           y    == (order.makerAmount * x) \div order.takerAmount
           paid == Moved(b, ta, "pmmAdapter", "maker", x)
           got  == Moved(paid, ma, "maker", "router", y)
<1>1. /\ x > 0 /\ y > 0 /\ y <= b[ma]["maker"]
      /\ order' = [order EXCEPT !.filled = @ + x]
      /\ bal' = Moved(got, ta, "pmmAdapter", "router", held - x)
      /\ UNCHANGED <<reserve, used>>
  BY DEF PmmLeg
<1>2. /\ ta \in Tokens /\ ma \in Tokens /\ order.takerAmount \in Nat \ {0} /\ order.makerAmount \in Nat
      /\ order.filled \in Nat
  BY DEF Terms
<1>3. /\ {"pmmAdapter", "maker", "router"} \subseteq Holders /\ {"pmmAdapter", "maker", "router"} \subseteq Parties
      /\ "receiver" \in Holders \ {"pmmAdapter", "maker", "router"}
  BY PartiesHold DEF Parties
<1>4. held \in Nat /\ b[ma]["maker"] \in Nat /\ Remaining \in Int
  BY <1>2, <1>3 DEF Holdings, Remaining
<1> HIDE DEF held
<1>5. x \in Nat /\ x <= held
  BY <1>1, <1>4
<1>6. order.filled = 0 /\ order.takerAmount <= b[ta]["pmmAdapter"] => x = order.takerAmount
  BY <1>2, <1>4 DEF Remaining, held
<1> HIDE DEF x
<1>7. y \in Nat
  <2>1. order.makerAmount * x \in Int
    BY <1>2, <1>5, ProductIsNat
  <2>2. y \in Int
    BY <1>2, <2>1, Quotient
  <2> HIDE DEF y
  <2>3. QED BY <1>1, <2>2
<1>8. order.filled = 0 /\ order.takerAmount <= b[ta]["pmmAdapter"] => y = order.makerAmount
  <2> SUFFICES ASSUME x = order.takerAmount PROVE y = order.makerAmount
    BY <1>6
  <2>1. \A m \in Nat, k \in Nat \ {0} : (m * k) \div k = m
    BY Undone
  <2>2. QED BY <1>2, <2>1
<1> HIDE DEF y, ta, ma
<1>9. /\ paid \in Holdings /\ Covered(paid, reserve)
      /\ paid[ta]["pmmAdapter"] = held - x /\ paid[ta]["maker"] = b[ta]["maker"] + x
      /\ \A h \in Holders \ {"pmmAdapter", "maker"} : paid[ta][h] = b[ta][h]
      /\ \A s \in Tokens \ {ta} : paid[s] = b[s]
  BY <1>2, <1>3, <1>5, MovedIs, StillCovered DEF held
<1> HIDE DEF paid
<1>10. y <= paid[ma]["maker"]
  <2>1. CASE ma = ta
    <3>1. paid[ma]["maker"] = b[ma]["maker"] + x
      BY <1>9, <2>1
    <3>2. QED BY <1>1, <1>4, <1>5, <1>7, <3>1
  <2>2. CASE ma # ta
    BY <1>1, <1>2, <1>9, <2>2
  <2>3. QED BY <2>1, <2>2
<1>11. /\ got \in Holdings /\ Covered(got, reserve)
      /\ got[ma]["router"] = paid[ma]["router"] + y
      /\ got[ma]["pmmAdapter"] = paid[ma]["pmmAdapter"]
      /\ got[ma]["receiver"] = paid[ma]["receiver"]
      /\ \A s \in Tokens \ {ma} : got[s] = paid[s]
  BY <1>2, <1>3, <1>7, <1>9, <1>10, MovedIs, StillCovered
<1> HIDE DEF got
<1>12. got[ta]["pmmAdapter"] = held - x /\ held - x \in Nat
  BY <1>2, <1>4, <1>5, <1>9, <1>11
<1>13. /\ bal' \in Holdings /\ Covered(bal', reserve)
       /\ bal'[ta]["receiver"] = got[ta]["receiver"]
       /\ \A s \in Tokens \ {ta} : bal'[s] = got[s]
  BY <1>1, <1>2, <1>3, <1>11, <1>12, MovedIs, StillCovered
<1>14. SameTerms(order', order)
  <2>1. order.filled + x \in Nat
    BY <1>2, <1>5
  <2>2. QED BY <1>1, <2>1 DEF SameTerms, Terms
<1>15. \A t \in Tokens \ {ta, ma} : bal'[t]["router"] = b[t]["router"]
  BY <1>9, <1>11, <1>13
<1>16. ma # ta => bal'[ma]["router"] = b[ma]["router"] + y
  BY <1>2, <1>9, <1>11, <1>13
<1>17. y \in Nat \ {0}
  BY <1>1, <1>7
<1>18. \A t \in Tokens : bal'[t]["receiver"] = b[t]["receiver"]
  <2>1. ASSUME NEW t \in Tokens PROVE paid[t]["receiver"] = b[t]["receiver"]
    BY <1>3, <1>9
  <2>2. ASSUME NEW t \in Tokens PROVE got[t]["receiver"] = paid[t]["receiver"]
    BY <1>11
  <2>3. ASSUME NEW t \in Tokens PROVE bal'[t]["receiver"] = got[t]["receiver"]
    BY <1>13
  <2>4. QED BY <2>1, <2>2, <2>3
<1>19. QED BY <1>1, <1>8, <1>13, <1>14, <1>15, <1>16, <1>17, <1>18 DEF ta, ma

-----------------------------------------------------------------------------
(* The plan, the loops. *)

(* The parts of a plan.                                                     *)
LEMMA PlanParts ==
    ASSUME NEW plan \in PlanType
    PROVE  /\ plan.tokenIn \in Tokens /\ plan.tokenOut \in Tokens /\ plan.amountIn \in Nat
           /\ Len(plan.batches) \in Nat /\ DOMAIN plan.batches = 1 .. Len(plan.batches)
           /\ \A i \in DOMAIN plan.batches :
                /\ plan.batches[i].weight \in Nat /\ plan.batches[i].hops \in Seq(HopType)
                /\ Len(plan.batches[i].hops) \in Nat
                /\ DOMAIN plan.batches[i].hops = 1 .. Len(plan.batches[i].hops)
                /\ \A h \in DOMAIN plan.batches[i].hops : plan.batches[i].hops[h] \in HopType
<1>1. /\ plan.tokenIn \in Tokens /\ plan.tokenOut \in Tokens /\ plan.amountIn \in Nat
      /\ plan.batches \in Seq(BatchType)
  BY DEF PlanType
<1>2. Len(plan.batches) \in Nat /\ DOMAIN plan.batches = 1 .. Len(plan.batches)
  BY <1>1, LenProperties
<1>3. ASSUME NEW i \in DOMAIN plan.batches
      PROVE  plan.batches[i].weight \in Nat /\ plan.batches[i].hops \in Seq(HopType)
  <2>1. plan.batches[i] \in BatchType
    BY <1>1, <1>3, ElementOfSeq, <1>2
  <2>2. QED BY <2>1 DEF BatchType
<1>4. ASSUME NEW q \in Seq(HopType)
      PROVE  /\ Len(q) \in Nat /\ DOMAIN q = 1 .. Len(q)
             /\ \A h \in DOMAIN q : q[h] \in HopType
  <2>1. Len(q) \in Nat /\ DOMAIN q = 1 .. Len(q)
    BY <1>4, LenProperties
  <2>2. QED BY <1>4, <2>1, ElementOfSeq
<1>5. QED BY <1>1, <1>2, <1>3, <1>4

(* The parts of a hop.                                                      *)
LEMMA HopParts ==
    ASSUME NEW hop \in HopType
    PROVE  /\ hop.tokenIn \in Tokens /\ Len(hop.steps) \in Nat
           /\ DOMAIN hop.steps = 1 .. Len(hop.steps)
           /\ \A j \in DOMAIN hop.steps : hop.steps[j] \in StepType
<1>1. hop.tokenIn \in Tokens /\ hop.steps \in Seq(StepType)
  BY DEF HopType
<1>2. Len(hop.steps) \in Nat /\ DOMAIN hop.steps = 1 .. Len(hop.steps)
  BY <1>1, LenProperties
<1>3. QED BY <1>1, <1>2, ElementOfSeq

(* What is noted of the next hop's token before a hop starts.               *)
LEMMA BeforeIs ==
    ASSUME NEW b \in Holdings, NEW hops \in Seq(HopType), NEW h \in DOMAIN hops
    PROVE  /\ Before(b, hops, h) \in Nat
           /\ h < Len(hops) => /\ h + 1 \in DOMAIN hops
                               /\ Before(b, hops, h) = b[hops[h + 1].tokenIn]["router"]
<1>1. Len(hops) \in Nat /\ DOMAIN hops = 1 .. Len(hops)
  BY LenProperties
<1>2. CASE h < Len(hops)
  <2>1. h + 1 \in 1 .. Len(hops)
    BY <1>1, <1>2
  <2>2. hops[h + 1] \in HopType
    BY <2>1, ElementOfSeq
  <2>3. hops[h + 1].tokenIn \in Tokens
    BY <2>2 DEF HopType
  <2>4. Before(b, hops, h) = b[hops[h + 1].tokenIn]["router"]
    BY <1>2 DEF Before
  <2>5. "router" \in Holders
    BY PartiesHold DEF Parties
  <2>6. QED BY <1>1, <2>1, <2>3, <2>4, <2>5 DEF Holdings
<1>3. CASE ~(h < Len(hops))
  BY <1>3 DEF Before
<1>4. QED BY <1>2, <1>3

(* Where a batch starts: at its first hop, with its share of what was       *)
(* received.                                                                *)
LEMMA EnterBatchIs ==
    ASSUME NEW b \in Holdings, NEW plan \in PlanType, NEW i \in DOMAIN plan.batches,
           NEW x \in Int, NEW taken \in Int, EnterBatch(b, plan, i, x, taken)
    PROVE  LET hops == plan.batches[i].hops
           IN  /\ at' \in Places /\ at'.batch = i /\ at'.hop = 1 /\ at'.step = 1
               /\ 1 \in DOMAIN hops /\ hops[1].tokenIn = plan.tokenIn
               /\ at'.before = Before(b, hops, 1)
<1> DEFINE share == Share(plan.batches, i, x, taken)
           hops  == plan.batches[i].hops
<1>1. /\ hops # <<>> /\ hops[1].tokenIn = plan.tokenIn
      /\ at' = [batch |-> i, hop |-> 1, step |-> 1, received |-> x, granted |-> taken + share,
                available |-> share, allocated |-> 0, before |-> Before(b, hops, 1)]
  BY DEF EnterBatch
<1>2. share \in Int
  <2>1. plan.batches[i].weight \in Nat /\ W \in Nat \ {0}
    BY PlanParts, RouterAssumption DEF RouterAssumption
  <2>2. x * plan.batches[i].weight \in Int
    BY <2>1, SMT
  <2>3. (x * plan.batches[i].weight) \div W \in Int
    BY <2>1, <2>2, Quotient
  <2>4. QED BY <2>3 DEF Share
<1>3. hops \in Seq(HopType) /\ i \in Nat
  BY PlanParts
<1> HIDE DEF share
<1>4. 1 \in DOMAIN hops
  <2>1. Len(hops) \in Nat /\ DOMAIN hops = 1 .. Len(hops) /\ Len(hops) # 0
    BY <1>1, <1>3, LenProperties, EmptySeq
  <2>2. QED BY <2>1
<1> HIDE DEF hops
<1>5. Before(b, hops, 1) \in Nat /\ (1 < Len(hops) => Before(b, hops, 1) = b[hops[2].tokenIn]["router"])
  BY <1>3, <1>4, BeforeIs
<1>6. at' \in Places
  BY <1>1, <1>2, <1>3, <1>5 DEF Places
<1>7. QED BY <1>1, <1>4, <1>5, <1>6 DEF hops

(* Where a call is, in terms of its plan.                                   *)
LEMMA Here ==
    ASSUME CallInv, AtInv, pc = "running"
    PROVE  /\ call.plan \in PlanType /\ call.plan.tokenIn # call.plan.tokenOut
           /\ at \in Places /\ at.batch \in DOMAIN Batches /\ at.hop \in DOMAIN Hops
           /\ Hops \in Seq(HopType) /\ Len(Hops) \in Nat /\ DOMAIN Hops = 1 .. Len(Hops)
           /\ Hop \in HopType /\ Hop.tokenIn \in Tokens
           /\ Len(Hop.steps) \in Nat /\ DOMAIN Hop.steps = 1 .. Len(Hop.steps)
           /\ at.hop < Len(Hops) => at.hop + 1 \in DOMAIN Hops /\ Hops[at.hop + 1] \in HopType
           /\ Len(Batches) \in Nat /\ DOMAIN Batches = 1 .. Len(Batches)
<1>1. /\ call.plan \in PlanType /\ call.plan.tokenIn # call.plan.tokenOut
      /\ at \in Places /\ at.batch \in DOMAIN Batches /\ at.hop \in DOMAIN Hops
  BY DEF CallInv, AtInv
<1>2. /\ Hops \in Seq(HopType) /\ Len(Hops) \in Nat /\ DOMAIN Hops = 1 .. Len(Hops)
      /\ (\A h \in DOMAIN Hops : Hops[h] \in HopType)
      /\ Len(Batches) \in Nat /\ DOMAIN Batches = 1 .. Len(Batches)
  BY <1>1, PlanParts DEF Batches, Hops
<1>3. Hop \in HopType
  BY <1>1, <1>2 DEF Hop
<1>4. at.hop < Len(Hops) => at.hop + 1 \in DOMAIN Hops
  BY <1>1, <1>2
<1>5. QED BY <1>1, <1>2, <1>3, <1>4, HopParts

(* A step of the plan under way leads where the plan goes. *)
LEMMA StepLeads ==
    ASSUME CallInv, AtInv, pc = "running", PassesAll(call.plan), NEW j \in DOMAIN Hop.steps
    PROVE  /\ Leads(Hop.steps[j], Hop.tokenIn,
                    IF at.hop < Len(Hops) THEN Hops[at.hop + 1].tokenIn ELSE call.plan.tokenOut)
           /\ at.hop > 1 => Whole(Hop)
<1>1. at.batch \in DOMAIN call.plan.batches /\ at.hop \in DOMAIN call.plan.batches[at.batch].hops
  BY Here DEF Batches, Hops
<1>2. QED BY <1>1 DEF PassesAll, Batches, Hops, Hop

(* What a step moves. *)
LEMMA StepMoves ==
    ASSUME RouteTypes, CallInv, AtInv, Step
    PROVE  /\ Booked(bal', reserve', used', order')
           /\ order' # NoOrder => SameTerms(order', call.order) /\ call.order # NoOrder
           /\ \E share \in Nat \ {0} :
                /\ share = Share(Hop.steps, at.step, at.available, at.allocated)
                /\ Advance(share) /\ at.step \in DOMAIN Hop.steps
                /\ PassesAll(call.plan) =>
                     \A t \in Tokens \ {call.plan.tokenIn, call.plan.tokenOut} : \E y \in Nat :
                        /\ bal'[t]["router"] = bal[t]["router"] - (IF t = Hop.tokenIn THEN share ELSE 0) + y
                        /\ y > 0 => Awaited(t) /\ t # Hop.tokenIn
<1> DEFINE from   == Hop.tokenIn
           to     == IF at.hop < Len(Hops) THEN Hops[at.hop + 1].tokenIn ELSE call.plan.tokenOut
           step   == Hop.steps[at.step]
           share  == Share(Hop.steps, at.step, at.available, at.allocated)
           funds  == IF step.fund THEN (IF step.venue = "pmm" THEN "pmmAdapter" ELSE "ammAdapter")
                     ELSE step.venue
           funded == Moved(bal, from, "router", funds, share)
<1>1. /\ pc = "running" /\ Weighed(Hop.steps) /\ \A i \in DOMAIN Hop.steps : ValidStep(Hop.steps[i])
      /\ share \in 1 .. bal[from]["router"]
      /\ IF step.venue = "pmm" THEN step.fund /\ PmmLeg(funded)
         ELSE PoolLeg(funded, step.venue, step.reverse)
      /\ Advance(share)
  BY DEF Step
<1>2. /\ Hop \in HopType /\ from \in Tokens /\ at \in Places
      /\ Len(Hop.steps) \in Nat /\ DOMAIN Hop.steps = 1 .. Len(Hop.steps)
      /\ call.plan.tokenIn # call.plan.tokenOut
  BY <1>1, Here
<1>3. at.step \in DOMAIN Hop.steps
  <2>1. Hop.steps # <<>> /\ Hop.steps \in Seq(StepType)
    BY <1>1, <1>2 DEF Weighed, HopType
  <2>2. 1 \in DOMAIN Hop.steps
    BY <1>2, <2>1, EmptySeq
  <2>3. QED BY <1>1, <2>2 DEF AtInv
<1>4. step.venue \in DOMAIN Venues \cup {"pmm"}
  BY <1>1, <1>3 DEF ValidStep
<1>5. bal \in Holdings /\ reserve \in Pools /\ used \in Words /\ Covered(bal, reserve) /\ (order # NoOrder => order \in Terms)
  BY DEF RouteTypes, Booked
<1>6. "router" \in Parties /\ funds \in Holders /\ funds # "router" /\ "router" \in Holders
  <2>1. step.venue = "pmm" => step.fund
    BY <1>1
  <2> HIDE DEF step
  <2>2. QED BY <2>1, <1>4, PartiesHold DEF Parties
<1>7. bal[from]["router"] \in Nat
  BY <1>2, <1>5, <1>6 DEF Holdings
<1> HIDE DEF share
<1>8. share \in Nat \ {0} /\ share <= bal[from]["router"]
  BY <1>1, <1>7
<1> HIDE DEF funds, step, to
<1>9. /\ funded \in Holdings /\ Covered(funded, reserve)
      /\ funded[from]["router"] = bal[from]["router"] - share
      /\ \A s \in Tokens \ {from} : funded[s] = bal[s]
  <2> HIDE DEF from
  <2>1. QED BY <1>2, <1>5, <1>6, <1>8, MovedIs, StillCovered
<1> HIDE DEF funded
<1>10. CASE step.venue # "pmm"
  <2> DEFINE v    == step.venue
             tin  == TokenIn(v, step.reverse)
             tout == TokenOut(v, step.reverse)
  <2>1. v \in DOMAIN Venues /\ PoolLeg(funded, v, step.reverse)
    BY <1>1, <1>4, <1>10
  <2>2. /\ bal' \in Holdings /\ reserve' \in Pools /\ used' \in Words
        /\ Covered(bal', reserve') /\ order' = order
        /\ \A t \in Tokens \ {tout} : bal'[t]["router"] = funded[t]["router"]
        /\ \E y \in Nat \ {0} : bal'[tout]["router"] = funded[tout]["router"] + y
    BY <1>5, <1>9, <2>1, PoolLegIs
  <2>3. tin # tout /\ tout \in Tokens
    BY <2>1, TokensOfVenue
  <2>4. Booked(bal', reserve', used', order')
    BY <1>5, <2>2 DEF Booked
  <2>5. order' # NoOrder => SameTerms(order', call.order) /\ call.order # NoOrder
    BY <1>1, <2>2 DEF CallInv
  <2>6. ASSUME PassesAll(call.plan), NEW t \in Tokens \ {call.plan.tokenIn, call.plan.tokenOut}
        PROVE  \E y \in Nat :
                  /\ bal'[t]["router"] = bal[t]["router"] - (IF t = from THEN share ELSE 0) + y
                  /\ y > 0 => Awaited(t) /\ t # from
    <3>1. tin = from /\ tout = to
      <4>1. Leads(step, from, to)
        BY <1>1, <1>3, <2>6, StepLeads DEF step, to
      <4>2. QED BY <4>1, <1>10 DEF Leads
    <3>2. bal[t]["router"] \in Nat
      BY <1>5, <1>6 DEF Holdings
    <3>3. CASE t = tout
      <4>1. PICK y \in Nat \ {0} : bal'[tout]["router"] = funded[tout]["router"] + y
        BY <2>2
      <4>2. t # from /\ funded[t]["router"] = bal[t]["router"]
        BY <1>9, <2>3, <3>1, <3>3
      <4>3. Awaited(t)
        BY <3>1, <3>3, <2>6 DEF to, Awaited
      <4>4. QED BY <3>2, <3>3, <4>1, <4>2, <4>3
    <3>4. CASE t # tout
      <4>1. bal'[t]["router"] = funded[t]["router"]
        BY <2>2, <3>4
      <4>2. bal'[t]["router"] = bal[t]["router"] - (IF t = from THEN share ELSE 0) + 0
        <5>1. CASE t = from
          BY <1>8, <1>9, <3>2, <4>1, <5>1
        <5>2. CASE t # from
          BY <1>9, <3>2, <4>1, <5>2
        <5>3. QED BY <5>1, <5>2
      <4>3. QED BY <4>2
    <3>5. QED BY <3>3, <3>4
  <2>7. QED BY <1>1, <1>3, <1>8, <2>4, <2>5, <2>6 DEF share, from
<1>11. CASE step.venue = "pmm"
  <2> DEFINE ta == order.takerAsset
             ma == order.makerAsset
  <2>1. PmmLeg(funded) /\ order # NoOrder
    BY <1>1, <1>11 DEF PmmLeg
  <2>2. order \in Terms /\ SameTerms(order, call.order) /\ call.order # NoOrder
    BY <1>1, <1>5, <2>1 DEF CallInv
  <2>3. /\ bal' \in Holdings /\ UNCHANGED <<reserve, used>>
        /\ Covered(bal', reserve') /\ SameTerms(order', order)
        /\ \A t \in Tokens \ {ta, ma} : bal'[t]["router"] = funded[t]["router"]
        /\ ma # ta => \E y \in Nat \ {0} : bal'[ma]["router"] = funded[ma]["router"] + y
    BY <1>5, <1>9, <2>1, <2>2, PmmLegIs
  <2>4. Booked(bal', reserve', used', order')
    BY <1>5, <2>3 DEF Booked, SameTerms
  <2>5. SameTerms(order', call.order) /\ call.order # NoOrder
    BY <2>2, <2>3 DEF SameTerms
  <2>6. ASSUME PassesAll(call.plan), NEW t \in Tokens \ {call.plan.tokenIn, call.plan.tokenOut}
        PROVE  \E y \in Nat :
                  /\ bal'[t]["router"] = bal[t]["router"] - (IF t = from THEN share ELSE 0) + y
                  /\ y > 0 => Awaited(t) /\ t # from
    <3>1. Leads(step, from, to) /\ (at.hop > 1 => Whole(Hop))
      BY <1>1, <1>3, <2>6, StepLeads DEF step, to
    <3>2. from = call.plan.tokenIn
      <4>1. ~(at.hop > 1)
        BY <1>3, <1>11, <3>1 DEF Whole, step
      <4>2. at.hop = 1
        BY <4>1, <1>1, Here
      <4>3. QED BY <1>1, <4>2 DEF AtInv
    <3>3. ta = from /\ ma = to
      BY <1>11, <2>2, <3>1 DEF Leads, SameTerms
    <3>4. t # from /\ bal[t]["router"] \in Nat /\ funded[t]["router"] = bal[t]["router"]
      BY <1>5, <1>6, <1>9, <3>2 DEF Holdings
    <3>5. CASE t = ma
      <4>1. PICK y \in Nat \ {0} : bal'[ma]["router"] = funded[ma]["router"] + y
        BY <2>3, <3>3, <3>4, <3>5
      <4>2. Awaited(t)
        BY <3>3, <3>5, <2>6 DEF to, Awaited
      <4>3. QED BY <3>4, <3>5, <4>1, <4>2
    <3>6. CASE t # ma
      <4>1. bal'[t]["router"] = funded[t]["router"]
        BY <2>3, <3>3, <3>4, <3>6
      <4>2. bal'[t]["router"] = bal[t]["router"] - (IF t = from THEN share ELSE 0) + 0
        BY <3>4, <4>1
      <4>3. QED BY <4>2
    <3>7. QED BY <3>5, <3>6
  <2>7. QED BY <1>1, <1>3, <1>8, <2>4, <2>5, <2>6 DEF share, from
<1>12. QED BY <1>10, <1>11

(* The locals of a hop that is fed x. *)
Fed(a, h, x, y) == [a EXCEPT !.hop = h, !.step = 1, !.available = x, !.allocated = 0, !.before = y]

(* What the loop holds at the start of the next hop.                        *)
LEMMA NextHop ==
    ASSUME NEW a \in Places, NEW h \in Nat, NEW x \in Int, NEW y \in Int
    PROVE  /\ Fed(a, h, x, y) \in Places
           /\ Fed(a, h, x, y).batch = a.batch /\ Fed(a, h, x, y).hop = h /\ Fed(a, h, x, y).step = 1
           /\ Fed(a, h, x, y).available = x /\ Fed(a, h, x, y).allocated = 0 /\ Fed(a, h, x, y).before = y
<1> DEFINE n == Fed(a, h, x, y)
<1>1. n = [a EXCEPT !.hop = h, !.step = 1, !.available = x, !.allocated = 0, !.before = y]
  BY DEF Fed
<1> HIDE DEF n
<1>2. /\ n.batch = a.batch /\ n.hop = h /\ n.step = 1 /\ n.received = a.received /\ n.granted = a.granted
      /\ n.available = x /\ n.allocated = 0 /\ n.before = y
  BY <1>1 DEF Places
<1>3. n = [batch |-> n.batch, hop |-> n.hop, step |-> n.step, received |-> n.received, granted |-> n.granted,
           available |-> n.available, allocated |-> n.allocated, before |-> n.before]
  BY <1>1 DEF Places
<1>4. /\ n.batch \in Nat /\ n.hop \in Nat /\ n.step \in Nat /\ n.received \in Int /\ n.granted \in Int
      /\ n.available \in Int /\ n.allocated \in Int /\ n.before \in Int
  BY <1>2 DEF Places
<1>5. n \in Places
  BY <1>3, <1>4 DEF Places
<1>6. QED BY <1>2, <1>5 DEF n

(* A plan that passes everything on does so for the whole call. *)
LEMMA StillPasses ==
    ASSUME UNCHANGED call
    PROVE  PassesAll(call.plan)' <=> PassesAll(call.plan)
BY DEF PassesAll, Leads, Whole

(* The last step of a hop has spent what the hop was fed: beyond what the    *)
(* call found and gifts, the router only has what waits for the next hop.   *)
LEMMA HopDone ==
    ASSUME RouteTypes, CallInv, AtInv, FlowInv, Step, PassesAll(call.plan),
           NEW t \in Tokens \ {call.plan.tokenIn, call.plan.tokenOut}
    PROVE  LET last == ~(at.step < Len(Hop.steps))
           IN  /\ t = Hop.tokenIn => at.hop > 1
               /\ Awaited(t) => /\ t # Hop.tokenIn /\ at.before <= bal'[t]["router"]
                                /\ at.before - call.bal[t]["router"] \in 0 .. gifts[t]
               /\ ~Awaited(t) => /\ t # Hop.tokenIn => Excess(t)' = Excess(t)
                                 /\ last => Excess(t)' \in 0 .. gifts[t]
<1>1. pc = "running" /\ UNCHANGED call
  BY DEF Step
<1>2. PICK share \in Nat \ {0} :
          /\ share = Share(Hop.steps, at.step, at.available, at.allocated)
          /\ at.step \in DOMAIN Hop.steps
          /\ \E y \in Nat :
                /\ bal'[t]["router"] = bal[t]["router"] - (IF t = Hop.tokenIn THEN share ELSE 0) + y
                /\ y > 0 => Awaited(t) /\ t # Hop.tokenIn
  BY StepMoves
<1>3. PICK y \in Nat :
          /\ bal'[t]["router"] = bal[t]["router"] - (IF t = Hop.tokenIn THEN share ELSE 0) + y
          /\ y > 0 => Awaited(t) /\ t # Hop.tokenIn
  BY <1>2
<1>4. /\ bal[t]["router"] \in Nat /\ call.bal[t]["router"] \in Nat /\ gifts[t] \in Nat
      /\ at \in Places /\ at.hop \in Nat /\ at.hop >= 1
      /\ Len(Hop.steps) \in Nat /\ DOMAIN Hop.steps = 1 .. Len(Hop.steps)
  <2>1. "router" \in Holders
    BY PartiesHold DEF Parties
  <2>2. at \in Places /\ at.hop \in 1 .. Len(Hops) /\ Len(Hops) \in Nat
    BY <1>1, Here
  <2>3. at.hop \in Nat /\ at.hop >= 1
    BY <2>2
  <2>4. Len(Hop.steps) \in Nat /\ DOMAIN Hop.steps = 1 .. Len(Hop.steps)
    BY <1>1, Here
  <2>5. bal[t]["router"] \in Nat /\ call.bal[t]["router"] \in Nat /\ gifts[t] \in Nat
    BY <1>1, <2>1 DEF RouteTypes, Booked, CallInv, Holdings
  <2>6. QED BY <2>2, <2>3, <2>4, <2>5
<1>5. /\ Kept(t) \in 0 .. gifts[t] /\ (Awaited(t) => at.before <= bal[t]["router"])
  BY <1>1 DEF FlowInv
<1>6. at.before \in Int /\ at.available \in Int /\ at.allocated \in Int
  BY <1>4 DEF Places
<1>7. t = Hop.tokenIn => at.hop > 1
  <2>1. at.hop # 1 \/ Hop.tokenIn = call.plan.tokenIn
    BY <1>1 DEF AtInv
  <2>2. QED BY <1>4, <2>1
<1>8. Awaited(t) => t # Hop.tokenIn
  <2> SUFFICES ASSUME Awaited(t), t = Hop.tokenIn PROVE FALSE
    OBVIOUS
  <2>1. Leads(Hop.steps[at.step], t, t) /\ Whole(Hop)
    BY <1>1, <1>2, <1>7, StepLeads DEF Awaited
  <2>2. Hop.steps[at.step].venue # "pmm" /\ Hop.steps[at.step].venue \in DOMAIN Venues
    <3>1. Hop.steps[at.step] \in StepType
      BY <1>1, <1>2, Here, HopParts
    <3>2. QED BY <1>2, <2>1, <3>1 DEF Whole, StepType
  <2>3. QED BY <2>1, <2>2, TokensOfVenue DEF Leads
<1>9. Awaited(t) => /\ at.before <= bal'[t]["router"]
                    /\ at.before - call.bal[t]["router"] \in 0 .. gifts[t]
  <2> SUFFICES ASSUME Awaited(t)
               PROVE  at.before <= bal'[t]["router"] /\ at.before - call.bal[t]["router"] \in 0 .. gifts[t]
    OBVIOUS
  <2>1. t # Hop.tokenIn
    BY <1>8
  <2>2. Kept(t) = at.before - call.bal[t]["router"] - 0
    BY <2>1 DEF Kept, Unspent
  <2>3. Kept(t) \in 0 .. gifts[t] /\ at.before <= bal[t]["router"]
    BY <1>5
  <2>4. at.before - call.bal[t]["router"] \in 0 .. gifts[t]
    <3>1. at.before - call.bal[t]["router"] - 0 = at.before - call.bal[t]["router"]
      BY <1>4, <1>6
    <3>2. QED BY <2>2, <2>3, <3>1
  <2>5. bal'[t]["router"] = bal[t]["router"] - 0 + y
    BY <1>3, <2>1
  <2>6. at.before <= bal'[t]["router"]
    <3>1. bal[t]["router"] <= bal[t]["router"] - 0 + y
      BY <1>3, <1>4
    <3>2. bal'[t]["router"] \in Int
      BY <1>3, <1>4, <2>5
    <3>3. QED BY <1>4, <1>6, <2>3, <2>5, <3>1, <3>2
  <2>7. QED BY <2>4, <2>6
<1>10. ASSUME ~Awaited(t), t # Hop.tokenIn PROVE Excess(t)' = Excess(t)
  BY <1>1, <1>3, <1>4, <1>10 DEF Excess
<1>11. ASSUME ~Awaited(t), ~(at.step < Len(Hop.steps)) PROVE Excess(t)' \in 0 .. gifts[t]
  <2>1. CASE t # Hop.tokenIn
    BY <1>4, <1>5, <1>10, <1>11, <2>1 DEF Kept, Unspent, Excess
  <2>2. CASE t = Hop.tokenIn
    <3>1. Whole(Hop)
      BY <1>1, <1>2, <1>7, <2>2, StepLeads
    <3>2. at.step = Len(Hop.steps)
      BY <1>2, <1>4, <1>11
    <3>3. share = at.available - at.allocated
      BY <1>2, <3>1, <3>2 DEF Share, Whole
    <3>4. Kept(t) = Excess(t) - (at.available - at.allocated)
      BY <1>7, <1>11, <2>2 DEF Kept, Unspent
    <3>5. bal'[t]["router"] = bal[t]["router"] - share
      BY <1>3, <1>4, <1>11, <2>2
    <3>6. Excess(t)' = Kept(t)
      BY <1>1, <1>4, <1>6, <3>3, <3>4, <3>5 DEF Excess
    <3>7. QED BY <1>5, <3>6
  <2>3. QED BY <2>1, <2>2
<1>12. QED BY <1>7, <1>8, <1>9, <1>10, <1>11

(* Where a step goes, the loops are still within the plan. *)
LEMMA StepPlace ==
    ASSUME RouteTypes, CallInv, AtInv, Step
    PROVE  AtInv' /\ pc' \in {"running", "settling"}
<1>1. pc = "running" /\ UNCHANGED <<call, gifts>>
  BY DEF Step
<1>2. PICK share \in Nat \ {0} : Advance(share) /\ at.step \in DOMAIN Hop.steps
  BY StepMoves
<1>3. bal' \in Holdings
  BY StepMoves DEF Booked
<1>4. /\ call.plan \in PlanType /\ at \in Places
      /\ at.batch \in DOMAIN Batches /\ at.hop \in DOMAIN Hops
      /\ Hops \in Seq(HopType) /\ Len(Hops) \in Nat /\ DOMAIN Hops = 1 .. Len(Hops)
      /\ Len(Hop.steps) \in Nat /\ DOMAIN Hop.steps = 1 .. Len(Hop.steps)
      /\ Len(Batches) \in Nat /\ DOMAIN Batches = 1 .. Len(Batches)
  BY <1>1, Here
<1>5. Batches' = Batches
  BY <1>1 DEF Batches
<1>6. CASE at.step < Len(Hop.steps)
  <2>1. at' = [at EXCEPT !.step = @ + 1, !.allocated = @ + share] /\ pc' = "running"
    BY <1>2, <1>6 DEF Advance
  <2>2. /\ at' \in Places /\ at'.batch = at.batch /\ at'.hop = at.hop /\ at'.step = at.step + 1
    <3>1. at.step + 1 \in Nat /\ at.allocated + share \in Int
      BY <1>4 DEF Places
    <3>2. at \in Places
      BY <1>4
    <3>3. QED BY <2>1, <3>1, <3>2 DEF Places
  <2>3. Hops' = Hops /\ Hop' = Hop
    BY <1>5, <2>2 DEF Hops, Hop
  <2>4. at.step + 1 \in DOMAIN Hop.steps
    BY <1>2, <1>4, <1>6
  <2>5. at.hop = 1 => Hop.tokenIn = call.plan.tokenIn
    BY <1>1 DEF AtInv
  <2>6. QED BY <1>1, <1>4, <1>5, <2>1, <2>2, <2>3, <2>4, <2>5 DEF AtInv
<1>7. CASE ~(at.step < Len(Hop.steps)) /\ at.hop < Len(Hops)
  <2> DEFINE next == Hops[at.hop + 1].tokenIn
             gained == bal'[next]["router"] - at.before
  <2>1. /\ at' = [at EXCEPT !.hop = @ + 1, !.step = 1, !.available = gained, !.allocated = 0,
                            !.before = Before(bal', Hops, at.hop + 1)]
        /\ pc' = "running"
    BY <1>2, <1>7 DEF Advance
  <2>2. at.hop + 1 \in DOMAIN Hops
    BY <1>4, <1>7
  <2>3. next \in Tokens /\ "router" \in Holders
    <3>1. Hops[at.hop + 1] \in HopType
      BY <1>4, <2>2, ElementOfSeq
    <3>2. QED BY <3>1, PartiesHold DEF HopType, Parties
  <2>4. gained \in Int
    BY <1>3, <1>4, <2>3 DEF Holdings, Places
  <2>5. Before(bal', Hops, at.hop + 1) \in Nat
    BY <1>3, <1>4, <2>2, BeforeIs
  <2> HIDE DEF gained
  <2>6. at' \in Places /\ at'.batch = at.batch /\ at'.hop = at.hop + 1 /\ at'.step = 1
    <3>1. at.hop + 1 \in Nat /\ at \in Places
      BY <1>4 DEF Places
    <3> DEFINE rest == Before(bal', Hops, at.hop + 1)
    <3>2. rest \in Int
      BY <2>5
    <3>3. at' = Fed(at, at.hop + 1, gained, rest)
      BY <2>1 DEF Fed
    <3> HIDE DEF rest
    <3>4. QED BY <2>4, <3>1, <3>2, <3>3, NextHop
  <2>7. Hops' = Hops
    BY <1>5, <2>6 DEF Hops
  <2>8. at'.hop # 1
    BY <1>4, <2>6
  <2>9. QED BY <1>4, <1>5, <2>1, <2>2, <2>6, <2>7, <2>8 DEF AtInv
<1>8. CASE ~(at.step < Len(Hop.steps)) /\ ~(at.hop < Len(Hops)) /\ at.batch < Len(Batches)
  <2>1. EnterBatch(bal', call.plan, at.batch + 1, at.received, at.granted) /\ pc' = "running"
    BY <1>2, <1>8 DEF Advance
  <2>2. at.batch + 1 \in DOMAIN Batches /\ at.received \in Int /\ at.granted \in Int
    BY <1>4, <1>8 DEF Places
  <2>3. /\ at' \in Places /\ at'.batch = at.batch + 1 /\ at'.hop = 1 /\ at'.step = 1
        /\ 1 \in DOMAIN Batches[at.batch + 1].hops
        /\ Batches[at.batch + 1].hops[1].tokenIn = call.plan.tokenIn
    <3>1. at.batch + 1 \in DOMAIN call.plan.batches /\ call.plan \in PlanType /\ bal' \in Holdings
      BY <1>3, <1>4, <2>2 DEF Batches
    <3>2. QED BY <2>1, <2>2, <3>1, EnterBatchIs DEF Batches
  <2>4. Hops' = Batches[at.batch + 1].hops /\ Hop' = Batches[at.batch + 1].hops[1]
    BY <1>5, <2>3 DEF Hops, Hop
  <2>5. QED BY <1>1, <1>5, <2>1, <2>2, <2>3, <2>4 DEF AtInv
<1>9. CASE ~(at.step < Len(Hop.steps)) /\ ~(at.hop < Len(Hops)) /\ ~(at.batch < Len(Batches))
  BY <1>2, <1>9 DEF Advance, AtInv
<1>10. QED
  <2>1. CASE pc' = "running" \/ pc' = "settling"
    BY <1>6, <1>7, <1>8, <1>9, <2>1
  <2>2. pc' = "running" \/ pc' = "settling"
    BY <1>2 DEF Advance
  <2>3. QED BY <2>1, <2>2

(* What the call keeps on the way stays within the gifts. *)
LEMMA StepFlows ==
    ASSUME RouteTypes, CallInv, AtInv, FlowInv, Step
    PROVE  FlowInv'
<1>1. pc = "running" /\ UNCHANGED <<call, gifts>>
  BY DEF Step
<1> SUFFICES ASSUME PassesAll(call.plan),
                    NEW t \in Tokens \ {call.plan.tokenIn, call.plan.tokenOut}
             PROVE  /\ pc' = "running" =>
                          Kept(t)' \in 0 .. gifts[t] /\ (Awaited(t)' => at'.before <= bal'[t]["router"])
                    /\ pc' = "settling" => Excess(t)' \in 0 .. gifts[t]
  BY <1>1, StillPasses DEF FlowInv
<1>2. PICK share \in Nat \ {0} :
          /\ Advance(share) /\ at.step \in DOMAIN Hop.steps
          /\ \E y \in Nat :
                /\ bal'[t]["router"] = bal[t]["router"] - (IF t = Hop.tokenIn THEN share ELSE 0) + y
                /\ y > 0 => Awaited(t) /\ t # Hop.tokenIn
  BY StepMoves
<1>3. PICK y \in Nat :
          /\ bal'[t]["router"] = bal[t]["router"] - (IF t = Hop.tokenIn THEN share ELSE 0) + y
          /\ y > 0 => Awaited(t) /\ t # Hop.tokenIn
  BY <1>2
<1>4. /\ t = Hop.tokenIn => at.hop > 1
      /\ Awaited(t) => /\ t # Hop.tokenIn /\ at.before <= bal'[t]["router"]
                       /\ at.before - call.bal[t]["router"] \in 0 .. gifts[t]
      /\ ~Awaited(t) => /\ t # Hop.tokenIn => Excess(t)' = Excess(t)
                        /\ ~(at.step < Len(Hop.steps)) => Excess(t)' \in 0 .. gifts[t]
  BY HopDone
<1>5. /\ call.plan \in PlanType /\ at \in Places
      /\ at.batch \in DOMAIN Batches /\ at.hop \in DOMAIN Hops
      /\ Hops \in Seq(HopType) /\ Len(Hops) \in Nat /\ DOMAIN Hops = 1 .. Len(Hops)
      /\ Len(Batches) \in Nat /\ DOMAIN Batches = 1 .. Len(Batches)
  BY <1>1, Here
<1>6. Batches' = Batches
  BY <1>1 DEF Batches
<1>7. bal' \in Holdings /\ "router" \in Holders
  BY StepMoves, PartiesHold DEF Booked, Parties
<1>8. /\ bal[t]["router"] \in Nat /\ bal'[t]["router"] \in Nat /\ call.bal[t]["router"] \in Nat
      /\ gifts[t] \in Nat
  BY <1>1, <1>7 DEF RouteTypes, Booked, CallInv, Holdings
<1>9. /\ at.before \in Int /\ at.available \in Int /\ at.allocated \in Int
      /\ at.hop \in Nat /\ at.batch \in Nat /\ at.received \in Int /\ at.granted \in Int
  BY <1>5 DEF Places
<1>10. CASE at.step < Len(Hop.steps)
  <2>1. at' = [at EXCEPT !.step = @ + 1, !.allocated = @ + share] /\ pc' = "running"
    BY <1>2, <1>10 DEF Advance
  <2>2. /\ at'.batch = at.batch /\ at'.hop = at.hop /\ at'.before = at.before
        /\ at'.available = at.available /\ at'.allocated = at.allocated + share
    <3>1. at \in Places
      BY <1>5
    <3>2. QED BY <2>1, <3>1 DEF Places
  <2>3. Hops' = Hops /\ Hop' = Hop
    BY <1>6, <2>2 DEF Hops, Hop
  <2>4. Awaited(t)' = Awaited(t)
    BY <2>2, <2>3 DEF Awaited
  <2>5. Kept(t) \in 0 .. gifts[t]
    BY <1>1 DEF FlowInv
  <2>6. CASE Awaited(t)
    BY <1>1, <1>4, <1>8, <1>9, <2>1, <2>2, <2>3, <2>4, <2>6 DEF Kept, Unspent
  <2>7. CASE ~Awaited(t) /\ t # Hop.tokenIn
    BY <1>1, <1>4, <1>8, <1>9, <2>1, <2>2, <2>3, <2>4, <2>5, <2>7 DEF Kept, Unspent, Excess
  <2>8. CASE ~Awaited(t) /\ t = Hop.tokenIn
    <3>1. Excess(t)' = Excess(t) - share
      BY <1>1, <1>3, <1>8, <2>8 DEF Excess
    <3>2. Unspent(t) = at.available - at.allocated /\ Unspent(t)' = at.available - (at.allocated + share)
      BY <1>4, <2>2, <2>3, <2>8 DEF Unspent
    <3>3. Excess(t) \in Int
      BY <1>8 DEF Excess
    <3>4. Kept(t) = Excess(t) - Unspent(t) /\ Kept(t)' = Excess(t)' - Unspent(t)'
      BY <2>4, <2>8 DEF Kept
    <3>5. Kept(t)' = Kept(t)
      BY <1>9, <3>1, <3>2, <3>3, <3>4
    <3>6. QED BY <2>1, <2>4, <2>5, <2>8, <3>5
  <2>9. QED BY <2>6, <2>7, <2>8
<1>11. CASE ~(at.step < Len(Hop.steps)) /\ at.hop < Len(Hops)
  <2> DEFINE next   == Hops[at.hop + 1].tokenIn
             gained == bal'[next]["router"] - at.before
             rest   == Before(bal', Hops, at.hop + 1)
  <2>1. /\ at' = [at EXCEPT !.hop = at.hop + 1, !.step = 1, !.available = gained, !.allocated = 0,
                            !.before = rest]
        /\ pc' = "running"
    BY <1>2, <1>11 DEF Advance
  <2>2. at.hop + 1 \in DOMAIN Hops
    BY <1>5, <1>11
  <2>3. at.hop + 1 < Len(Hops) => rest = bal'[Hops[at.hop + 1 + 1].tokenIn]["router"]
    BY <1>5, <1>7, <2>2, BeforeIs
  <2> HIDE DEF gained, rest
  <2>4. /\ at'.batch = at.batch /\ at'.hop = at.hop + 1 /\ at'.before = rest
        /\ at'.available = gained /\ at'.allocated = 0
    <3>1. at \in Places
      BY <1>5
    <3>2. at.hop + 1 \in Nat /\ gained \in Int /\ rest \in Int
      <4>1. next \in Tokens
        <5>1. Hops[at.hop + 1] \in HopType
          BY <1>5, <2>2, ElementOfSeq
        <5>2. QED BY <5>1 DEF HopType
      <4>2. rest \in Nat
        BY <1>5, <1>7, <2>2, BeforeIs DEF rest
      <4>3. bal'[next]["router"] \in Nat
        BY <1>7, <4>1 DEF Holdings
      <4>4. gained \in Int
        BY <1>9, <4>3 DEF gained
      <4>5. QED BY <1>9, <4>2, <4>4
    <3>3. at' = Fed(at, at.hop + 1, gained, rest)
      BY <2>1 DEF Fed
    <3>4. LET n == Fed(at, at.hop + 1, gained, rest)
          IN  /\ n.batch = at.batch /\ n.hop = at.hop + 1 /\ n.before = rest
              /\ n.available = gained /\ n.allocated = 0
      BY <3>1, <3>2, NextHop
    <3>5. QED BY <3>3, <3>4
  <2>5. Hops' = Hops /\ Hop' = Hops[at.hop + 1]
    BY <1>6, <2>4 DEF Hops, Hop
  <2>6. Awaited(t)' => rest = bal'[t]["router"]
    BY <2>3, <2>4, <2>5 DEF Awaited
  <2>7. Kept(t)' = Excess(t)' - Unspent(t)'
    <3>1. Excess(t)' = bal'[t]["router"] - call.bal[t]["router"]
      BY <1>1 DEF Excess
    <3>2. Kept(t)' = (IF Awaited(t)' THEN rest - call.bal[t]["router"] ELSE Excess(t)') - Unspent(t)'
      BY <1>1, <2>4 DEF Kept
    <3>3. QED BY <2>6, <3>1, <3>2
  <2>8. Unspent(t)' = IF Awaited(t) THEN bal'[t]["router"] - at.before ELSE 0
    <3>1. at.hop + 1 > 1
      BY <1>5
    <3>2. Unspent(t)' = IF next = t THEN gained ELSE 0
      BY <1>8, <2>4, <2>5, <3>1, <1>7, <1>9 DEF Unspent, gained, Holdings
    <3>3. Awaited(t) <=> next = t
      BY <1>11 DEF Awaited
    <3>4. QED BY <3>2, <3>3 DEF gained
  <2>9. Kept(t)' \in 0 .. gifts[t]
    <3>1. Excess(t)' = bal'[t]["router"] - call.bal[t]["router"]
      BY <1>1 DEF Excess
    <3>2. CASE Awaited(t)
      BY <1>4, <1>8, <1>9, <2>7, <2>8, <3>1, <3>2
    <3>3. CASE ~Awaited(t)
      BY <1>4, <1>8, <1>11, <2>7, <2>8, <3>1, <3>3
    <3>4. QED BY <3>2, <3>3
  <2>10. QED BY <1>8, <2>1, <2>4, <2>6, <2>9
<1>12. CASE ~(at.step < Len(Hop.steps)) /\ ~(at.hop < Len(Hops)) /\ at.batch < Len(Batches)
  <2>1. EnterBatch(bal', call.plan, at.batch + 1, at.received, at.granted) /\ pc' = "running"
    BY <1>2, <1>12 DEF Advance
  <2>2. at.batch + 1 \in DOMAIN Batches
    BY <1>5, <1>12
  <2> DEFINE hops == Batches[at.batch + 1].hops
  <2>3. /\ at'.batch = at.batch + 1 /\ at'.hop = 1 /\ at'.before = Before(bal', hops, 1)
    <3>1. at.batch + 1 \in DOMAIN call.plan.batches /\ call.plan \in PlanType /\ bal' \in Holdings
      BY <1>5, <1>7, <2>2 DEF Batches
    <3>2. LET hs == call.plan.batches[at.batch + 1].hops
          IN  /\ at'.batch = at.batch + 1 /\ at'.hop = 1
              /\ at'.before = Before(bal', hs, 1)
      <4> HIDE DEF hops
      <4> DEFINE j == at.batch + 1
      <4>1. j \in DOMAIN call.plan.batches /\ EnterBatch(bal', call.plan, j, at.received, at.granted)
        BY <2>1, <3>1
      <4> HIDE DEF j
      <4>2. LET hs == call.plan.batches[j].hops
            IN  /\ at'.batch = j /\ at'.hop = 1
                /\ at'.before = Before(bal', hs, 1)
        BY <1>9, <3>1, <4>1, EnterBatchIs
      <4>3. QED BY <4>2 DEF j
    <3>3. QED BY <3>2 DEF Batches
  <2>4. Hops' = hops
    BY <1>6, <2>3 DEF Hops
  <2> HIDE DEF hops
  <2>5. Unspent(t)' = 0 /\ (Awaited(t)' => at'.before = bal'[t]["router"])
    BY <2>3, <2>4 DEF Unspent, Awaited, Before
  <2>6. Excess(t)' = bal'[t]["router"] - call.bal[t]["router"]
    BY <1>1 DEF Excess
  <2>7. Kept(t)' = Excess(t)'
    BY <1>1, <1>8, <2>5, <2>6 DEF Kept
  <2>8. ~Awaited(t)
    BY <1>12 DEF Awaited
  <2>9. QED BY <1>4, <1>8, <1>12, <2>1, <2>5, <2>7, <2>8
<1>13. CASE ~(at.step < Len(Hop.steps)) /\ ~(at.hop < Len(Hops)) /\ ~(at.batch < Len(Batches))
  <2>1. pc' = "settling"
    BY <1>2, <1>13 DEF Advance
  <2>2. ~Awaited(t)
    BY <1>13 DEF Awaited
  <2>3. QED BY <1>4, <1>13, <2>1, <2>2
<1>14. QED BY <1>10, <1>11, <1>12, <1>13

-----------------------------------------------------------------------------
(* The invariant, one action at a time. *)

(* The invariant over a leg,                                                *)
LEMMA StepInv ==
    ASSUME RouteInv, Step
    PROVE  RouteInv'
<1>1. UNCHANGED <<quote, call, gifts>> /\ RouteTypes /\ CallInv /\ AtInv /\ FlowInv /\ pc = "running"
  BY DEF Step, RouteInv
<1>2. AtInv' /\ FlowInv' /\ pc' \in {"running", "settling"}
  BY <1>1, StepPlace, StepFlows
<1>3. Booked(bal', reserve', used', order') /\ (order' # NoOrder => SameTerms(order', call.order) /\ call.order # NoOrder)
  BY <1>1, StepMoves
<1>4. RouteTypes' /\ CallInv'
  BY <1>1, <1>2, <1>3 DEF RouteTypes, CallInv
<1>5. RouterKeepsNothing'
  BY <1>2 DEF RouterKeepsNothing
<1>6. QED BY <1>2, <1>4, <1>5 DEF RouteInv

(* over the start of a call,                                                *)
LEMMA EnterInv ==
    ASSUME RouteInv, NEW plan \in PlanType, NEW least, NEW most, NEW answer, Enter(plan, least, most, answer)
    PROVE  /\ Booked(bal', reserve', used', order') /\ pc' = "running" /\ gifts' \in [Tokens -> Nat]
           /\ CallInv' /\ AtInv' /\ FlowInv' /\ RouterKeepsNothing'
<1>1. /\ plan.tokenIn # plan.tokenOut /\ plan.batches # <<>>
      /\ plan.amountIn <= bal[plan.tokenIn]["user"]
      /\ bal' = Moved(bal, plan.tokenIn, "user", "router", plan.amountIn)
      /\ call' = [plan |-> plan, least |-> least, most |-> most, bal |-> bal,
                  reserve |-> reserve, used |-> used, order |-> order, quote |-> answer]
      /\ EnterBatch(bal', plan, 1, plan.amountIn, 0)
      /\ pc' = "running" /\ gifts' = [t \in Tokens |-> 0]
      /\ UNCHANGED <<reserve, used, order>>
  BY DEF Enter, Sound, venues
<1>2. Booked(bal, reserve, used, order)
  BY DEF RouteInv, RouteTypes
<1>3. /\ plan.tokenIn \in Tokens /\ plan.amountIn \in Nat /\ 1 \in DOMAIN plan.batches
  <2>1. plan.batches \in Seq(BatchType)
    BY DEF PlanType
  <2>2. QED BY <1>1, <2>1, PlanParts, EmptySeq
<1>4. /\ bal' \in Holdings /\ Covered(bal', reserve)
      /\ \A s \in Tokens \ {plan.tokenIn} : bal'[s] = bal[s]
  <2>1. {"user", "router"} \subseteq Holders /\ {"user", "router"} \subseteq Parties
    BY PartiesHold DEF Parties
  <2>2. bal \in Holdings /\ reserve \in Pools /\ Covered(bal, reserve)
    BY <1>2 DEF Booked
  <2>3. QED BY <1>1, <1>3, <2>1, <2>2, MovedIs, StillCovered
<1>5. Booked(bal', reserve', used', order')
  BY <1>1, <1>2, <1>4 DEF Booked
<1>6. /\ call'.plan = plan /\ call'.bal = bal /\ call'.reserve = reserve /\ call'.used = used
      /\ call'.order = order
  BY <1>1
<1>7. CallInv'
  <2>1. order # NoOrder => SameTerms(order, order)
    BY <1>2 DEF Booked, SameTerms
  <2>2. QED BY <1>1, <1>2, <1>6, <2>1 DEF CallInv
<1>8. /\ at' \in Places /\ at'.batch = 1 /\ at'.hop = 1 /\ at'.step = 1
      /\ 1 \in DOMAIN plan.batches[1].hops /\ plan.batches[1].hops[1].tokenIn = plan.tokenIn
      /\ at'.before = Before(bal', plan.batches[1].hops, 1)
  BY <1>1, <1>3, <1>4, EnterBatchIs
<1>9. Batches' = plan.batches /\ Hops' = plan.batches[1].hops /\ Hop' = plan.batches[1].hops[1]
  BY <1>6, <1>8 DEF Batches, Hops, Hop
<1>10. AtInv'
  BY <1>1, <1>3, <1>6, <1>8, <1>9 DEF AtInv
<1>11. ASSUME NEW t \in Tokens \ {plan.tokenIn, plan.tokenOut}
       PROVE  Kept(t)' \in 0 .. gifts'[t] /\ (Awaited(t)' => at'.before <= bal'[t]["router"])
  <2>1. bal[t]["router"] \in Nat /\ bal'[t]["router"] = bal[t]["router"]
    BY <1>2, <1>4, PartiesHold DEF Booked, Holdings, Parties
  <2>2. Unspent(t)' = 0 /\ (Awaited(t)' => at'.before = bal'[t]["router"])
    BY <1>8, <1>9 DEF Unspent, Awaited, Before
  <2>3. Kept(t)' = 0
    BY <1>6, <2>1, <2>2 DEF Kept, Excess
  <2>4. gifts'[t] = 0
    BY <1>1
  <2>5. QED BY <2>1, <2>2, <2>3, <2>4
<1>12. FlowInv'
  BY <1>1, <1>6, <1>11 DEF FlowInv
<1>13. RouterKeepsNothing' /\ gifts' \in [Tokens -> Nat]
  BY <1>1 DEF RouterKeepsNothing
<1>14. QED BY <1>1, <1>5, <1>7, <1>10, <1>12, <1>13

(* its end,                                                                 *)
LEMMA FinishInv ==
    ASSUME RouteInv, Finish
    PROVE  RouteInv'
<1> DEFINE tin  == call.plan.tokenIn
           tout == call.plan.tokenOut
           back == Moved(bal, tin, "router", "user", Leftover)
<1>1. /\ pc = "settling" /\ pc' = "paid" /\ Gained > 0 /\ Leftover \in 0 .. at.received
      /\ bal' = Moved(back, tout, "router", "receiver", Gained)
      /\ UNCHANGED <<reserve, used, order, quote, call, at, gifts>>
  BY DEF Finish, venues
<1>2. RouteTypes /\ CallInv /\ FlowInv
  BY DEF RouteInv
<1>3. /\ call.plan \in PlanType /\ tin # tout /\ tin \in Tokens /\ tout \in Tokens
      /\ Booked(call.bal, call.reserve, call.used, call.order)
  BY <1>1, <1>2, PlanParts DEF CallInv
<1>4. Booked(bal, reserve, used, order) /\ gifts \in [Tokens -> Nat]
  BY <1>2 DEF RouteTypes
<1>5. {"router", "user", "receiver"} \subseteq Parties /\ {"router", "user", "receiver"} \subseteq Holders
  BY PartiesHold DEF Parties
<1>6. /\ bal[tin]["router"] \in Nat /\ call.bal[tin]["router"] \in Nat
      /\ bal[tout]["router"] \in Nat /\ call.bal[tout]["router"] \in Nat
  BY <1>3, <1>4, <1>5 DEF Booked, Holdings
<1>7. /\ Leftover \in Nat /\ Leftover <= bal[tin]["router"]
      /\ Gained \in Nat /\ Gained <= bal[tout]["router"]
  BY <1>1, <1>6 DEF Leftover, Gained
<1>8. /\ back \in Holdings /\ Covered(back, reserve)
      /\ back[tin]["router"] = bal[tin]["router"] - Leftover
      /\ \A s \in Tokens \ {tin} : back[s] = bal[s]
  <2>1. bal \in Holdings /\ reserve \in Pools /\ Covered(bal, reserve)
    BY <1>4 DEF Booked
  <2> HIDE DEF tin
  <2>2. QED BY <1>3, <1>5, <1>7, <2>1, MovedIs, StillCovered
<1> HIDE DEF back
<1>9. /\ bal' \in Holdings /\ Covered(bal', reserve)
      /\ bal'[tout]["router"] = back[tout]["router"] - Gained
      /\ \A s \in Tokens \ {tout} : bal'[s] = back[s]
  <2>1. reserve \in Pools /\ Gained <= back[tout]["router"]
    BY <1>3, <1>4, <1>7, <1>8 DEF Booked
  <2> HIDE DEF tout
  <2>2. QED BY <1>1, <1>3, <1>5, <1>7, <1>8, <2>1, MovedIs, StillCovered
<1>10. /\ bal'[tin]["router"] = call.bal[tin]["router"] /\ bal'[tout]["router"] = call.bal[tout]["router"]
  <2>1. bal'[tin]["router"] = bal[tin]["router"] - Leftover
    BY <1>3, <1>8, <1>9
  <2>2. bal'[tout]["router"] = bal[tout]["router"] - Gained
    BY <1>3, <1>8, <1>9
  <2>3. QED BY <1>6, <2>1, <2>2 DEF Leftover, Gained
<1>11. ASSUME PassesAll(call.plan), NEW t \in Tokens \ {tin, tout}
       PROVE  bal'[t]["router"] - call.bal[t]["router"] \in 0 .. gifts[t]
  <2>1. bal'[t] = bal[t]
    BY <1>8, <1>9
  <2>2. Excess(t) \in 0 .. gifts[t]
    BY <1>1, <1>2, <1>11 DEF FlowInv
  <2>3. QED BY <2>1, <2>2 DEF Excess
<1>12. RouterKeepsNothing'
  BY <1>1, <1>10, <1>11, StillPasses DEF RouterKeepsNothing
<1>13. Booked(bal', reserve', used', order')
  BY <1>1, <1>4, <1>9 DEF Booked
<1>14. RouteTypes' /\ CallInv' /\ AtInv' /\ FlowInv'
  BY <1>1, <1>2, <1>3, <1>13 DEF RouteTypes, CallInv, AtInv, FlowInv
<1>15. QED BY <1>12, <1>14 DEF RouteInv

(* a revert,                                                                *)
LEMMA RevertInv ==
    ASSUME RouteInv, Revert
    PROVE  RouteInv'
<1>1. /\ pc \in {"running", "settling"} /\ pc' = "idle" /\ gifts' = [t \in Tokens |-> 0]
      /\ bal' = call.bal /\ reserve' = call.reserve /\ used' = call.used /\ order' = call.order
      /\ UNCHANGED quote
  BY DEF Revert
<1>2. Booked(bal', reserve', used', order')
  BY <1>1 DEF RouteInv, CallInv
<1>3. RouteTypes'
  BY <1>1, <1>2 DEF RouteInv, RouteTypes
<1>4. QED BY <1>1, <1>3 DEF RouteInv, CallInv, AtInv, FlowInv, RouterKeepsNothing

(* a callback,                                                              *)
LEMMA GiveInv ==
    ASSUME RouteInv, NEW t \in Tokens, NEW to \in {"router", "pmmAdapter"} \cup DOMAIN Venues,
           NEW x \in Gifts, Give(t, to, x)
    PROVE  RouteInv'
<1>1. /\ x <= bal[t]["maker"] /\ bal' = Moved(bal, t, "maker", to, x) /\ pc # "paid"
      /\ gifts' = IF to = "router" THEN [gifts EXCEPT ![t] = @ + x] ELSE gifts
      /\ UNCHANGED <<reserve, used, order, quote, pc, call, at>>
  BY DEF Give, venues
<1>2. RouteTypes /\ CallInv /\ AtInv /\ FlowInv
  BY DEF RouteInv
<1>3. Booked(bal, reserve, used, order) /\ gifts \in [Tokens -> Nat] /\ x \in Nat
  BY <1>2, RouterAssumption DEF RouteTypes, RouterAssumption
<1>4. to \in Holders /\ to # "maker" /\ "maker" \in Parties /\ "router" \in Holders /\ "maker" # "router"
  BY PartiesHold DEF Parties
<1>5. /\ bal' \in Holdings /\ Covered(bal', reserve)
      /\ bal'[t][to] = bal[t][to] + x
      /\ \A h \in Holders \ {"maker", to} : bal'[t][h] = bal[t][h]
      /\ \A s \in Tokens \ {t} : bal'[s] = bal[s]
  <2>1. bal \in Holdings /\ reserve \in Pools /\ Covered(bal, reserve)
    BY <1>3 DEF Booked
  <2>2. "maker" \in Holders
    BY PartiesHold DEF Parties
  <2>3. QED BY <1>1, <1>3, <1>4, <2>1, <2>2, MovedIs, StillCovered
<1>6. gifts' \in [Tokens -> Nat]
  BY <1>1, <1>3
<1>7. Booked(bal', reserve', used', order')
  BY <1>1, <1>3, <1>5 DEF Booked
<1>8. RouteTypes' /\ CallInv' /\ AtInv'
  <2>1. Batches' = Batches /\ Hops' = Hops /\ Hop' = Hop
    BY <1>1 DEF Batches, Hops, Hop
  <2>2. QED BY <1>1, <1>2, <1>6, <1>7, <2>1 DEF RouteTypes, CallInv, AtInv
<1>9. ASSUME pc \in {"running", "settling"}, PassesAll(call.plan),
             NEW s \in Tokens \ {call.plan.tokenIn, call.plan.tokenOut}
      PROVE  /\ pc = "running" =>
                   Kept(s)' \in 0 .. gifts'[s] /\ (Awaited(s)' => at.before <= bal'[s]["router"])
             /\ pc = "settling" => Excess(s)' \in 0 .. gifts'[s]
  <2> DEFINE g == IF to = "router" /\ s = t THEN x ELSE 0
  <2>1. /\ bal[s]["router"] \in Nat /\ call.bal[s]["router"] \in Nat /\ gifts[s] \in Nat /\ g \in Nat
    BY <1>2, <1>3, <1>4, <1>9 DEF Booked, CallInv, Holdings
  <2>2. bal'[s]["router"] = bal[s]["router"] + g /\ gifts'[s] = gifts[s] + g
    <3>1. CASE to = "router" /\ s = t
      BY <1>1, <1>3, <1>5, <3>1
    <3>2. CASE to # "router" /\ s = t
      BY <1>1, <1>4, <1>5, <2>1, <3>2
    <3>3. CASE s # t
      BY <1>1, <1>3, <1>5, <2>1, <3>3
    <3>4. QED BY <3>1, <3>2, <3>3
  <2> HIDE DEF g
  <2>3. Hops' = Hops /\ Hop' = Hop
    BY <1>1 DEF Batches, Hops, Hop
  <2>4. /\ Awaited(s)' = Awaited(s) /\ Unspent(s)' = Unspent(s)
    BY <1>1, <2>3 DEF Awaited, Unspent
  <2>5. Excess(s)' = Excess(s) + g /\ Excess(s) \in Int
    BY <1>1, <2>1, <2>2 DEF Excess
  <2>6. CASE pc = "settling"
    <3>1. Excess(s) \in 0 .. gifts[s]
      BY <1>2, <1>9, <2>6 DEF FlowInv
    <3>2. QED BY <2>1, <2>2, <2>5, <2>6, <3>1
  <2>7. CASE pc = "running"
    <3>1. Kept(s) \in 0 .. gifts[s] /\ (Awaited(s) => at.before <= bal[s]["router"])
      BY <1>2, <1>9, <2>7 DEF FlowInv
    <3>2. Unspent(s) \in Int /\ at.before \in Int
      BY <1>2, <2>7 DEF AtInv, Places, Unspent
    <3>3. Kept(s)' = Kept(s) + (IF Awaited(s) THEN 0 ELSE g)
      <4>1. CASE Awaited(s)
        BY <1>1, <2>1, <2>4, <3>2, <4>1 DEF Kept
      <4>2. CASE ~Awaited(s)
        BY <2>1, <2>4, <2>5, <3>2, <4>2 DEF Kept
      <4>3. QED BY <4>1, <4>2
    <3>4. Kept(s)' \in 0 .. gifts'[s]
      BY <2>1, <2>2, <3>1, <3>3
    <3>5. QED BY <2>1, <2>2, <2>4, <2>7, <3>1, <3>2, <3>4
  <2>8. QED BY <1>9, <2>6, <2>7
<1>10. FlowInv'
  BY <1>1, <1>9, StillPasses DEF FlowInv
<1>11. RouterKeepsNothing'
  BY <1>1 DEF RouterKeepsNothing
<1>12. QED BY <1>8, <1>10, <1>11 DEF RouteInv

(* What the aggregator builds is a plan. *)
LEMMA PlanOfIs ==
    ASSUME NEW r \in Requests, NEW steps \in Seq(StepType)
    PROVE  PlanOf(r, steps) \in PlanType
<1>1. r.in \in Tokens /\ r.out \in Tokens /\ r.amount \in Nat /\ W \in Nat
  BY RouterAssumption DEF RouterAssumption
<1> DEFINE hop   == [tokenIn |-> r.in, steps |-> steps]
           batch == [weight |-> W, hops |-> <<hop>>]
<1>2. hop \in HopType
  BY <1>1 DEF HopType
<1> HIDE DEF hop
<1>3. batch \in BatchType
  BY <1>1, <1>2 DEF BatchType
<1> HIDE DEF batch
<1>4. <<batch>> \in Seq(BatchType)
  BY <1>3
<1>5. PlanOf(r, steps) = [tokenIn |-> r.in, tokenOut |-> r.out, amountIn |-> r.amount, batches |-> <<batch>>]
  BY DEF PlanOf, batch, hop
<1>6. QED BY <1>1, <1>4, <1>5 DEF PlanType

(* The legs the aggregator builds of two pools are legs the router takes.   *)
LEMMA StepsOfAmms ==
    ASSUME NEW p \in DOMAIN Venues, NEW u \in DOMAIN Venues, NEW r, NEW q \in BestPoints(p, u, r)
    PROVE  AmmSteps(p, u, r, q) \in Seq(StepType)
<1>1. W \in Nat
  BY RouterAssumption DEF RouterAssumption
<1>2. q.weight \in Nat /\ W - q.weight \in Nat
  <2>1. PICK w \in Grid : q = Priced(p, u, r, w)
    BY DEF BestPoints
  <2>2. q.weight = w
    BY <2>1 DEF Priced
  <2>3. QED BY <1>1, <2>2 DEF Grid
<1> DEFINE rev  == r.in = Venues[p].quote
           prop == [venue |-> p, weight |-> q.weight, reverse |-> rev, fund |-> FALSE]
           uni  == [venue |-> u, weight |-> W - q.weight, reverse |-> rev, fund |-> FALSE]
<1>3. prop \in StepType /\ uni \in StepType
  BY <1>2 DEF StepType
<1>4. AmmSteps(p, u, r, q) = (IF q.toProp > 0 THEN <<prop>> ELSE <<>>) \o (IF q.toUni > 0 THEN <<uni>> ELSE <<>>)
  BY DEF AmmSteps
<1> HIDE DEF prop, uni
<1>5. <<prop>> \in Seq(StepType) /\ <<uni>> \in Seq(StepType) /\ <<>> \in Seq(StepType)
  BY <1>3
<1>6. QED BY <1>4, <1>5, ConcatProperties

(* and an answer of the aggregator.                                         *)
LEMMA QuoteInv ==
    ASSUME RouteInv, NEW p \in PropVenues, NEW u \in UniVenues, NEW r \in Requests,
           QuoteAmms(p, u, r) \/ \E y \in Offers : QuoteRfq(p, u, r, y)
    PROVE  RouteInv'
<1>1. pc \in {"idle", "paid"} /\ UNCHANGED <<bal, reserve, used, pc, call, at, gifts>>
  BY DEF QuoteAmms, QuoteRfq, Asked, venues
<1>2. p \in DOMAIN Venues /\ u \in DOMAIN Venues
  BY DEF PropVenues, UniVenues
<1>3. Booked(bal, reserve, used, order)
  BY DEF RouteInv, RouteTypes
<1>4. (order' # NoOrder => order' \in Terms) /\ quote'.plan \in PlanType
  <2>1. CASE QuoteAmms(p, u, r)
    <3>1. PICK q \in BestPoints(p, u, r) : Answered(r, AmmSteps(p, u, r, q), q.out)
      BY <2>1 DEF QuoteAmms
    <3>2. quote'.plan = PlanOf(r, AmmSteps(p, u, r, q))
      BY <3>1 DEF Answered
    <3>3. order' = order
      BY <2>1 DEF QuoteAmms, venues
    <3>4. QED BY <1>2, <1>3, <3>2, <3>3, StepsOfAmms, PlanOfIs DEF Booked
  <2>2. ASSUME NEW y \in Offers, QuoteRfq(p, u, r, y)
        PROVE  (order' # NoOrder => order' \in Terms) /\ quote'.plan \in PlanType
    <3>1. /\ order' = [takerAsset |-> r.in, makerAsset |-> r.out, takerAmount |-> r.amount,
                       makerAmount |-> y, filled |-> 0]
          /\ Answered(r, RfqSteps, y)
      BY <2>2 DEF QuoteRfq
    <3>2. r.in \in Tokens /\ r.out \in Tokens /\ r.amount \in Nat \ {0} /\ y \in Nat /\ W \in Nat
      BY RouterAssumption DEF RouterAssumption
    <3>3. order' \in Terms
      BY <3>1, <3>2 DEF Terms
    <3>4. RfqSteps \in Seq(StepType)
      <4> DEFINE step == [venue |-> "pmm", weight |-> W, reverse |-> FALSE, fund |-> TRUE]
      <4>1. step \in StepType /\ RfqSteps = <<step>>
        BY <3>2 DEF StepType, RfqSteps
      <4> HIDE DEF step
      <4>2. QED BY <4>1
    <3>5. quote'.plan = PlanOf(r, RfqSteps)
      BY <3>1 DEF Answered
    <3>6. QED BY <3>3, <3>4, <3>5, PlanOfIs
  <2>3. QED BY <2>1, <2>2
<1>5. RouteTypes'
  BY <1>1, <1>3, <1>4 DEF RouteInv, RouteTypes, Booked
<1>6. CallInv' /\ AtInv' /\ FlowInv'
  BY <1>1 DEF RouteInv, CallInv, AtInv, FlowInv
<1>7. RouterKeepsNothing'
  BY <1>1, StillPasses DEF RouteInv, RouterKeepsNothing
<1>8. QED BY <1>5, <1>6, <1>7 DEF RouteInv

(* It holds to begin with, and over every step.                             *)
LEMMA InitInv == RouteInit => RouteInv
<1> SUFFICES ASSUME RouteInit PROVE RouteInv
  OBVIOUS
<1>1. /\ bal = InitFunds /\ used = [bid |-> 0, ask |-> 0]
      /\ reserve = [v \in DOMAIN Venues |-> [t \in Tokens |-> InitFunds[t][v]]]
      /\ order = NoOrder /\ quote = NoCall /\ pc = "idle" /\ gifts = [t \in Tokens |-> 0]
  BY DEF RouteInit
<1>2. bal \in Holdings
  BY <1>1, RouterAssumption DEF RouterAssumption, Holdings, Holders
<1>3. reserve \in Pools /\ Covered(bal, reserve)
  <2>1. \A v \in DOMAIN Venues, t \in Tokens : reserve[v][t] = bal[t][v] /\ bal[t][v] \in Nat
    BY <1>1, <1>2, PartiesHold DEF Holdings
  <2>2. reserve \in Pools
    BY <1>1, <2>1 DEF Pools
  <2>3. QED BY <2>1, <2>2 DEF Covered
<1>4. Booked(bal, reserve, used, order)
  BY <1>1, <1>2, <1>3, RouterAssumption DEF RouterAssumption, Booked, Words
<1>5. QED BY <1>1, <1>4 DEF RouteInv, RouteTypes, CallInv, AtInv, FlowInv, RouterKeepsNothing

LEMMA RouteStepInv == RouteInv /\ [RouteNext]_routeVars => RouteInv'
<1> SUFFICES ASSUME RouteInv, [RouteNext]_routeVars PROVE RouteInv'
  OBVIOUS
<1>1. ASSUME NEW plan \in PlanType, NEW least, NEW answer, Enter(plan, least, plan.amountIn, answer),
             quote' # NoCall => quote'.plan \in PlanType
      PROVE  RouteInv'
  BY <1>1, EnterInv DEF RouteInv, RouteTypes
<1>2. CASE Submit
  <2>1. quote # NoCall /\ Enter(quote.plan, quote.least, quote.plan.amountIn, quote) /\ quote' = NoCall
    BY <1>2 DEF Submit
  <2>2. quote.plan \in PlanType
    BY <2>1 DEF RouteInv, RouteTypes
  <2>3. QED BY <1>1, <2>1, <2>2
<1>3. ASSUME NEW plan \in Plans, NEW least, Swap(plan, least) PROVE RouteInv'
  <2>1. plan \in PlanType
    BY RouterAssumption DEF RouterAssumption
  <2>2. Enter(plan, least, plan.amountIn, NoCall) /\ quote' = quote
    BY <1>3 DEF Swap
  <2>3. quote' # NoCall => quote'.plan \in PlanType
    BY <2>2 DEF RouteInv, RouteTypes
  <2>4. QED BY <1>1, <2>1, <2>2, <2>3
<1>4. CASE UNCHANGED routeVars
  <2>1. UNCHANGED <<bal, reserve, used, order, quote, pc, call, at, gifts>>
    BY <1>4 DEF routeVars, venues
  <2>2. RouteTypes' /\ CallInv' /\ AtInv'
    BY <2>1 DEF RouteInv, RouteTypes, CallInv, AtInv, Batches, Hops, Hop
  <2>3. FlowInv'
    <3>1. \A t \in Tokens : Kept(t)' = Kept(t) /\ Excess(t)' = Excess(t) /\ Awaited(t)' = Awaited(t)
      BY <2>1 DEF Kept, Excess, Unspent, Awaited, Batches, Hops, Hop
    <3>2. QED BY <2>1, <3>1, StillPasses DEF RouteInv, FlowInv
  <2>4. RouterKeepsNothing'
    BY <2>1, StillPasses DEF RouteInv, RouterKeepsNothing
  <2>5. QED BY <2>2, <2>3, <2>4 DEF RouteInv
<1>5. QED BY <1>2, <1>3, <1>4, StepInv, FinishInv, RevertInv, GiveInv, QuoteInv DEF RouteNext

(* A call leaves nothing of its own in the router and takes nothing it      *)
(* found there, whatever the plan, the venues, the order and the gifts: it  *)
(* ends with the tokens it sold and bought as it found them, and, where     *)
(* every hop feeds the next and the later ones are whole, with no token of  *)
(* the way but what a callback gave it (Router.sol 130-136, 216-296).       *)
THEOREM NothingKept == RouteSpec => []RouterKeepsNothing
<1>1. RouteInv => RouterKeepsNothing
  BY DEF RouteInv
<1>2. QED BY <1>1, InitInv, RouteStepInv, PTL DEF RouteSpec

-----------------------------------------------------------------------------
(* A route as it was quoted pays what it was quoted.                        *)

(* What a quote promises: one hop of one or two legs that split the whole     *)
(* amount, and for each leg what its venue answered as it was asked.        *)
Legs(o)  == o.plan.batches[1].hops[1].steps
First(o) == IF Len(Legs(o)) = 1 THEN o.plan.amountIn ELSE ToProp(o.plan.amountIn, Legs(o)[1].weight)

(* What the venue of a leg answered, asked for the leg's share, and all     *)
(* legs together.                                                           *)
Owes(o, step, x) ==
    IF step.venue = "pmm" THEN o.venues[3].makerAmount
    ELSE AnswerAt(step.venue, step.reverse, x, o.venues[1], o.venues[2])

OwedInAll(o) ==
    IF Len(Legs(o)) = 1 THEN Owes(o, Legs(o)[1], First(o))
    ELSE Owes(o, Legs(o)[1], First(o)) + Owes(o, Legs(o)[2], o.plan.amountIn - First(o))

(* The legs sell what they are sent. *)
Sells(o) ==
    \A j \in DOMAIN Legs(o) :
        Legs(o)[j].venue # "pmm" => TokenIn(Legs(o)[j].venue, Legs(o)[j].reverse) = o.plan.tokenIn

(* An answer of the aggregator: what it says a route pays is what its legs  *)
(* owe, as long as they sell what the request sells.                        *)
Offer(o) ==
    /\ Len(o.plan.batches) = 1 /\ SumOf(o.plan.batches) = W /\ Len(o.plan.batches[1].hops) = 1
    /\ o.plan.amountIn \in Nat \ {0} /\ Len(Legs(o)) \in {1, 2} /\ SumOf(Legs(o)) = W
    /\ \A j \in DOMAIN Legs(o) : Legs(o)[j].fund = (Legs(o)[j].venue = "pmm")
    /\ Len(Legs(o)) = 2 =>
           /\ Legs(o)[1].venue # "pmm" /\ Legs(o)[2].venue \in UniVenues \ {Legs(o)[1].venue, "pmm"}
           /\ First(o) \in 1 .. o.plan.amountIn - 1
    /\ Legs(o)[1].venue = "pmm" =>
           o.venues[3].takerAmount = o.plan.amountIn /\ o.venues[3].filled = 0
    /\ o.out \in Int /\ (Sells(o) => o.out <= OwedInAll(o))

(* The call submits a quote, and finds the venues as they were quoted. *)
Honoured ==
    /\ call.quote # NoCall /\ PassesAll(call.plan)
    /\ call.quote.venues = <<call.reserve, call.used, call.order>>

(* A leg that is done has brought what it was promised, and the next one      *)
(* still finds its pool as it was asked.                                   *)
Due ==
    LET o == call.quote
    IN  /\ \A t \in Tokens : bal[t]["receiver"] = call.bal[t]["receiver"]
        /\ pc = "settling" => o.out <= Excess(call.plan.tokenOut)
        /\ pc = "running" =>
              /\ at.batch = 1 /\ at.hop = 1 /\ at.available = call.plan.amountIn
              /\ \/ /\ at.step = 1 /\ at.allocated = 0 /\ 0 <= Excess(call.plan.tokenOut)
                    /\ reserve = call.reserve /\ used = call.used /\ order = call.order
                 \/ /\ at.step = 2 /\ Len(Legs(o)) = 2 /\ at.allocated = First(o)
                    /\ reserve[Legs(o)[2].venue] = call.reserve[Legs(o)[2].venue]
                    /\ Owes(o, Legs(o)[1], First(o)) <= Excess(call.plan.tokenOut)

(* The offers, and where the call of one is.                                *)
DueInv ==
    /\ quote # NoCall => Offer(quote)
    /\ pc # "idle" /\ call.quote # NoCall => Offer(call.quote) /\ call.plan = call.quote.plan
    /\ pc \in {"running", "settling"} /\ Honoured => Due

(* The inductive invariant of what a quote pays.                            *)
HonouredInv == RouteInv /\ DueInv /\ QuoteIsPaid

-----------------------------------------------------------------------------
(* The weights of one and of two items. *)
LEMMA OneWeight ==
    ASSUME NEW items, DOMAIN items = {1}, items[1].weight \in Int
    PROVE  SumOf(items) = items[1].weight
<1> DEFINE g == [i \in DOMAIN items |-> items[i].weight]
<1>1. IsFiniteSet({1}) /\ \A i \in {1} : g[i] \in Int
  BY FS_Singleton
<1>2. SumFunctionOnSet(g, {1}) = g[1] + SumFunctionOnSet(g, {1} \ {1})
  <2> HIDE DEF g
  <2> QED BY <1>1, SumOfSome
<1>3. {1} \ {1} = {} /\ SumFunctionOnSet(g, {}) = 0
  <2> HIDE DEF g
  <2> QED BY SumOfNone
<1>4. SumOf(items) = SumFunctionOnSet(g, {1}) /\ g[1] = items[1].weight
  BY DEF SumOf
<1> HIDE DEF g
<1>5. QED BY <1>2, <1>3, <1>4

LEMMA TwoWeights ==
    ASSUME NEW items, DOMAIN items = {1, 2}, items[1].weight \in Int, items[2].weight \in Int
    PROVE  SumOf(items) = items[1].weight + items[2].weight
<1> DEFINE g == [i \in DOMAIN items |-> items[i].weight]
<1>1. /\ IsFiniteSet({1, 2}) /\ IsFiniteSet({2})
      /\ (\A i \in {1, 2} : g[i] \in Int) /\ (\A i \in {2} : g[i] \in Int)
  <2>1. IsFiniteSet({2})
    BY FS_Singleton
  <2>2. {1, 2} = {2} \cup {1}
    OBVIOUS
  <2>3. IsFiniteSet({1, 2})
    BY <2>1, <2>2, FS_AddElement
  <2>4. QED BY <2>1, <2>3
<1>2. /\ SumFunctionOnSet(g, {1, 2}) = g[1] + SumFunctionOnSet(g, {1, 2} \ {1})
      /\ SumFunctionOnSet(g, {2}) = g[2] + SumFunctionOnSet(g, {2} \ {2})
  <2> HIDE DEF g
  <2> QED BY <1>1, SumOfSome
<1>3. {1, 2} \ {1} = {2} /\ {2} \ {2} = {} /\ SumFunctionOnSet(g, {}) = 0
  <2> HIDE DEF g
  <2> QED BY SumOfNone
<1>4. /\ SumOf(items) = SumFunctionOnSet(g, {1, 2})
      /\ g[1] = items[1].weight /\ g[2] = items[2].weight
  BY DEF SumOf
<1> HIDE DEF g
<1>5. SumFunctionOnSet(g, {2}) = g[2]
  <2>1. g[2] \in Int
    BY <1>4
  <2>2. SumFunctionOnSet(g, {2} \ {2}) = 0
    BY <1>3
  <2>3. QED BY <1>2, <2>1, <2>2
<1>6. SumFunctionOnSet(g, {1, 2}) = g[1] + g[2]
  BY <1>2, <1>3, <1>5
<1>7. QED BY <1>4, <1>6

(* A pool answers by its own reserves, and a UniswapV2 pair by nothing else. *)
LEMMA AnswerOf ==
    ASSUME NEW v \in DOMAIN Venues, NEW reverse, NEW x, NEW res, NEW u, NEW res2, NEW u2,
           res[v] = res2[v], Venues[v].kind = "uni" \/ u = u2
    PROVE  AnswerAt(v, reverse, x, res, u) = AnswerAt(v, reverse, x, res2, u2)
<1>1. Venues[v].kind = "uni" => Venues[v].kind # "prop"
  OBVIOUS
<1>2. CASE u = u2
  BY <1>2 DEF AnswerAt
<1>3. CASE Venues[v].kind = "uni"
  BY <1>1, <1>3 DEF AnswerAt
<1>4. QED BY <1>2, <1>3

(* What the step of a single hop brings: what its venue answers for the      *)
(* step's share, or the order's whole amount for a share that fills it.     *)
LEMMA LegPays ==
    ASSUME RouteTypes, CallInv, AtInv, Step, PassesAll(call.plan), at.hop = 1, Len(Hops) = 1
    PROVE  LET part   == Hop.steps[at.step]
               out   == call.plan.tokenOut
               share == Share(Hop.steps, at.step, at.available, at.allocated)
           IN  /\ share \in Nat \ {0} /\ at.step \in DOMAIN Hop.steps /\ Advance(share)
               /\ \A t \in Tokens : bal'[t]["receiver"] = bal[t]["receiver"]
               /\ \A w \in DOMAIN Venues \ {part.venue} : reserve'[w] = reserve[w]
               /\ \E y \in Nat :
                     /\ Excess(out)' = Excess(out) + y
                     /\ part.venue # "pmm" /\ ~part.fund =>
                           part.venue \in DOMAIN Venues /\ Answer(part.venue, part.reverse, share) <= y
                     /\ part.venue = "pmm" =>
                           /\ order # NoOrder
                           /\ order.filled = 0 /\ order.takerAmount <= share => y = order.makerAmount
<1> DEFINE from   == Hop.tokenIn
           to     == call.plan.tokenOut
           step   == Hop.steps[at.step]
           share  == Share(Hop.steps, at.step, at.available, at.allocated)
           funds  == IF step.fund THEN (IF step.venue = "pmm" THEN "pmmAdapter" ELSE "ammAdapter")
                     ELSE step.venue
           funded == Moved(bal, from, "router", funds, share)
<1>1. /\ pc = "running" /\ Weighed(Hop.steps) /\ \A i \in DOMAIN Hop.steps : ValidStep(Hop.steps[i])
      /\ share \in 1 .. bal[from]["router"]
      /\ IF step.venue = "pmm" THEN step.fund /\ PmmLeg(funded)
         ELSE PoolLeg(funded, step.venue, step.reverse)
      /\ Advance(share) /\ UNCHANGED call
  BY DEF Step
<1>2. /\ Hop \in HopType /\ from \in Tokens /\ at \in Places /\ to \in Tokens
      /\ from = call.plan.tokenIn /\ from # to
  <2>1. call.plan \in PlanType /\ call.plan.tokenIn # to /\ Hop \in HopType /\ from \in Tokens /\ at \in Places
    BY <1>1, Here
  <2>2. to \in Tokens
    BY <2>1, PlanParts
  <2>3. from = call.plan.tokenIn
    BY <1>1 DEF AtInv
  <2>4. QED BY <2>1, <2>2, <2>3
<1>3. at.step \in DOMAIN Hop.steps
  BY StepMoves
<1>4. step.venue \in DOMAIN Venues \cup {"pmm"}
  BY <1>1, <1>3 DEF ValidStep
<1>5. bal \in Holdings /\ reserve \in Pools /\ used \in Words /\ Covered(bal, reserve) /\ (order # NoOrder => order \in Terms)
  BY DEF RouteTypes, Booked
<1>6. "router" \in Parties /\ funds \in Holders /\ funds # "router" /\ "router" \in Holders
      /\ funds # "receiver" /\ "receiver" \in Holders /\ "router" # "receiver"
  <2>1. step.venue = "pmm" => step.fund
    BY <1>1
  <2> HIDE DEF step
  <2>2. QED BY <2>1, <1>4, PartiesHold DEF Parties
<1>7. bal[from]["router"] \in Nat /\ bal[to]["router"] \in Nat /\ call.bal[to]["router"] \in Nat
  BY <1>1, <1>2, <1>5, <1>6 DEF Holdings, CallInv, Booked
<1>8. Leads(step, from, to)
  BY <1>1, <1>3, StepLeads
<1>9. to' = to
  BY <1>1
<1> HIDE DEF share
<1>10. share \in Nat \ {0} /\ share <= bal[from]["router"]
  BY <1>1, <1>7
<1> HIDE DEF step, to
<1>11. /\ funded \in Holdings /\ Covered(funded, reserve)
       /\ funded[from][funds] = bal[from][funds] + share
       /\ funded[from]["receiver"] = bal[from]["receiver"]
       /\ \A s \in Tokens \ {from} : funded[s] = bal[s]
  <2> HIDE DEF from, funds
  <2>1. QED BY <1>2, <1>5, <1>6, <1>10, MovedIs, StillCovered
<1>12. \A t \in Tokens : funded[t]["receiver"] = bal[t]["receiver"]
  BY <1>11
<1>13. funded[to] = bal[to]
  BY <1>2, <1>11
<1> HIDE DEF funded
<1>14. CASE step.venue # "pmm"
  <2> DEFINE v    == step.venue
             tin  == TokenIn(v, step.reverse)
             tout == TokenOut(v, step.reverse)
  <2>1. v \in DOMAIN Venues /\ PoolLeg(funded, v, step.reverse)
    BY <1>1, <1>4, <1>14
  <2>2. tin = from /\ tout = to
    BY <1>8, <1>14 DEF Leads
  <2>3. /\ \A w \in DOMAIN Venues \ {v} : reserve'[w] = reserve[w]
        /\ \A t \in Tokens : bal'[t]["receiver"] = funded[t]["receiver"]
        /\ \E x, y \in Nat \ {0} :
              /\ x = funded[tin][v] - reserve[v][tin] /\ y = Answer(v, step.reverse, x)
              /\ bal'[tout]["router"] = funded[tout]["router"] + y
    BY <1>5, <1>11, <2>1, PoolLegIs
  <2>4. PICK x, y \in Nat \ {0} :
              /\ x = funded[tin][v] - reserve[v][tin] /\ y = Answer(v, step.reverse, x)
              /\ bal'[tout]["router"] = funded[tout]["router"] + y
    BY <2>3
  <2>5. Excess(to)' = Excess(to) + y
    BY <1>1, <1>7, <1>9, <1>13, <2>2, <2>4 DEF Excess
  <2>6. ASSUME ~step.fund PROVE Answer(v, step.reverse, share) <= y
    <3>1. funds = v
      BY <2>6
    <3>2. funded[tin][v] = bal[tin][v] + share
      BY <1>11, <2>2, <3>1
    <3>3. reserve[v][tin] <= bal[tin][v] /\ reserve[v][tin] \in Nat /\ bal[tin][v] \in Nat
      <4>1. v \in Holders /\ tin \in Tokens
        BY <1>2, <2>1, <2>2, PartiesHold
      <4>2. QED BY <1>5, <2>1, <4>1 DEF Covered, Pools, Holdings
    <3>4. share <= x
      BY <1>10, <2>4, <3>2, <3>3
    <3>5. AnswerAt(v, step.reverse, share, reserve, used) <= AnswerAt(v, step.reverse, x, reserve, used)
      <4>1. AnswerAt(v, step.reverse, x, reserve, used) > 0
        BY <2>4 DEF Answer
      <4>2. reserve \in [DOMAIN Venues -> [Tokens -> Nat]]
        BY <1>5 DEF Pools
      <4> HIDE DEF v
      <4>3. QED BY <1>5, <1>10, <2>1, <2>4, <3>4, <4>1, <4>2, AnswerGrows
    <3>6. QED BY <2>4, <3>5 DEF Answer
  <2>7. \A t \in Tokens : bal'[t]["receiver"] = bal[t]["receiver"]
    BY <1>12, <2>3
  <2>8. QED BY <1>1, <1>3, <1>10, <1>14, <2>1, <2>3, <2>5, <2>6, <2>7 DEF share, step, to
<1>15. CASE step.venue = "pmm"
  <2> DEFINE ta == order.takerAsset
             ma == order.makerAsset
  <2>1. PmmLeg(funded) /\ order # NoOrder /\ step.fund
    BY <1>1, <1>15 DEF PmmLeg
  <2>2. order \in Terms /\ SameTerms(order, call.order) /\ call.order # NoOrder
    BY <1>1, <1>5, <2>1 DEF CallInv
  <2>3. ta = from /\ ma = to
    BY <1>8, <1>15, <2>2 DEF Leads, SameTerms
  <2>4. /\ UNCHANGED <<reserve, used>>
        /\ \A t \in Tokens : bal'[t]["receiver"] = funded[t]["receiver"]
        /\ ma # ta => \E y \in Nat \ {0} :
              /\ bal'[ma]["router"] = funded[ma]["router"] + y
              /\ order.filled = 0 /\ order.takerAmount <= funded[ta]["pmmAdapter"] => y = order.makerAmount
    BY <1>5, <1>11, <2>1, <2>2, PmmLegIs
  <2>5. PICK y \in Nat \ {0} :
              /\ bal'[to]["router"] = funded[to]["router"] + y
              /\ order.filled = 0 /\ order.takerAmount <= funded[from]["pmmAdapter"] => y = order.makerAmount
    BY <1>2, <2>3, <2>4
  <2>6. Excess(to)' = Excess(to) + y
    BY <1>1, <1>7, <1>9, <1>13, <2>5 DEF Excess
  <2>7. share <= funded[from]["pmmAdapter"]
    <3>1. funds = "pmmAdapter"
      BY <1>15, <2>1
    <3>2. bal[from]["pmmAdapter"] \in Nat
      BY <1>2, <1>5, <1>6, <3>1 DEF Holdings
    <3>3. QED BY <1>10, <1>11, <3>1, <3>2
  <2>8. order.takerAmount <= share => order.takerAmount <= funded[from]["pmmAdapter"]
    <3>1. order.takerAmount \in Nat /\ funded[from]["pmmAdapter"] \in Nat
      BY <1>2, <1>11, <2>2, PartiesHold DEF Terms, Holdings, Parties
    <3>2. QED BY <1>10, <2>7, <3>1
  <2>9. \A t \in Tokens : bal'[t]["receiver"] = bal[t]["receiver"]
    BY <1>12, <2>4
  <2>10. QED BY <1>1, <1>3, <1>10, <1>15, <2>1, <2>4, <2>5, <2>6, <2>8, <2>9 DEF share, step, to
<1>16. QED BY <1>14, <1>15

(* What a venue answers is a number.                                        *)
LEMMA AnswerIs ==
    ASSUME NEW v \in DOMAIN Venues, NEW reverse, NEW x \in Nat \ {0}, NEW res \in Pools, NEW u \in Words
    PROVE  AnswerAt(v, reverse, x, res, u) \in Int
<1> DEFINE tin  == TokenIn(v, reverse)
           tout == TokenOut(v, reverse)
           bid  == ~reverse
           side == Side(bid, u)
<1>1. res[v][tin] \in Nat /\ res[v][tout] \in Nat
  BY TokensOfVenue DEF Pools
<1>2. AnswerAt(v, reverse, x, res, u) =
         IF Venues[v].kind = "prop"
         THEN IF PropOut(x, bid, u) > res[v][tout] THEN 0 ELSE PropOut(x, bid, u)
         ELSE UniOut(x, res[v][tin], res[v][tout])
  BY DEF AnswerAt
<1> HIDE DEF tin, tout
<1>3. PropOut(x, bid, u) \in Int
  <2>1. IsSide(side) /\ bid \in BOOLEAN
    BY SideIs
  <2>2. PropOut(x, bid, u) =
           IF bid THEN IF x <= Room(side) THEN BidGross(x, side, 1) ELSE 0
           ELSE IF AskCost(Room(side), side, 1) < x THEN 0 ELSE AmountOutAsk(x, side, 1)
    BY DEF PropOut, AmountOutBid
  <2> HIDE DEF bid, side
  <2>3. Room(side) \in Nat
    BY <2>1 DEF IsSide, Room
  <2>4. x <= Room(side) => BidGross(x, side, 1) \in Int
    BY <2>1, BidGrows
  <2>5. AmountOutAsk(x, side, 1) \in 0 .. Room(side)
    BY <2>1, AskBuysMore
  <2>6. QED BY <2>2, <2>3, <2>4, <2>5
<1> HIDE DEF bid
<1>4. UniOut(x, res[v][tin], res[v][tout]) \in Int
  BY <1>1, UniGrows
<1>5. QED BY <1>2, <1>3, <1>4

(* Where the call of a quote is: in its one hop, with the leg's share ahead. *)
LEMMA QuotedPlace ==
    ASSUME CallInv, AtInv, pc = "running", Offer(call.quote), call.plan = call.quote.plan, Honoured, Due
    PROVE  LET o == call.quote
               share == Share(Hop.steps, at.step, at.available, at.allocated)
           IN  /\ Len(Batches) = 1 /\ Len(Hops) = 1 /\ Hop.steps = Legs(o)
               /\ \/ /\ at.step = 1 /\ share = First(o)
                  \/ /\ at.step = 2 /\ Len(Legs(o)) = 2 /\ share = o.plan.amountIn - First(o)
               /\ First(o) \in Nat \ {0}
               /\ Len(Legs(o)) \in {1, 2} /\ o.plan.amountIn \in Nat
               /\ Len(Legs(o)) = 1 => First(o) = o.plan.amountIn
               /\ Len(Legs(o)) = 2 => o.plan.amountIn - First(o) \in Nat \ {0}
               /\ Sells(o)
<1> DEFINE o      == call.quote
           amount == o.plan.amountIn
<1>1. /\ at.batch = 1 /\ at.hop = 1 /\ at.available = amount
      /\ \/ at.step = 1 /\ at.allocated = 0
         \/ at.step = 2 /\ Len(Legs(o)) = 2 /\ at.allocated = First(o)
  BY DEF Due
<1>2. Hops = o.plan.batches[1].hops /\ Hop = o.plan.batches[1].hops[1] /\ Batches = o.plan.batches
  BY <1>1 DEF Batches, Hops, Hop
<1>3. Hop.steps = Legs(o)
  BY <1>2 DEF Legs
<1>4. /\ Len(Batches) = 1 /\ Len(Hops) = 1
      /\ amount \in Nat \ {0} /\ Len(Legs(o)) \in {1, 2} /\ SumOf(Legs(o)) = W
      /\ Len(Legs(o)) = 2 => First(o) \in 1 .. amount - 1
  BY <1>2 DEF Offer
<1>5. Len(Legs(o)) = 1 => First(o) = amount
  BY DEF First
<1>6. Len(Legs(o)) = 2 => First(o) = (amount * Legs(o)[1].weight) \div W
  BY DEF First, ToProp
<1> HIDE DEF o, amount
<1>7. /\ First(o) \in Nat \ {0}
      /\ Len(Legs(o)) = 2 => amount - First(o) \in Nat \ {0}
  BY <1>4, <1>5
<1>8. ASSUME at.step = 1 /\ at.allocated = 0
      PROVE  Share(Hop.steps, at.step, at.available, at.allocated) = First(o)
  <2>1. CASE Len(Legs(o)) = 1
    <3>1. Share(Hop.steps, at.step, at.available, at.allocated) = amount - 0
      BY <1>1, <1>3, <1>4, <1>8, <2>1 DEF Share
    <3>2. QED BY <1>4, <1>5, <1>8, <2>1, <3>1
  <2>2. CASE Len(Legs(o)) = 2
    <3>1. Share(Hop.steps, at.step, at.available, at.allocated) = (amount * Legs(o)[1].weight) \div W
      BY <1>1, <1>3, <1>8, <2>2 DEF Share
    <3>2. QED BY <1>6, <1>8, <2>2, <3>1
  <2>3. QED BY <1>4, <2>1, <2>2
<1>9. ASSUME at.step = 2 /\ Len(Legs(o)) = 2 /\ at.allocated = First(o)
      PROVE  Share(Hop.steps, at.step, at.available, at.allocated) = amount - First(o)
  BY <1>1, <1>3, <1>4, <1>9 DEF Share
<1>10. Sells(o)
  <2> SUFFICES ASSUME NEW j \in DOMAIN Legs(o), Legs(o)[j].venue # "pmm"
               PROVE  TokenIn(Legs(o)[j].venue, Legs(o)[j].reverse) = o.plan.tokenIn
    BY DEF Sells
  <2>1. j \in DOMAIN Hop.steps
    BY <1>3
  <2>2. Leads(Hop.steps[j], Hop.tokenIn,
              IF at.hop < Len(Hops) THEN Hops[at.hop + 1].tokenIn ELSE call.plan.tokenOut)
    BY <2>1, StepLeads DEF Honoured
  <2>3. Hop.tokenIn = o.plan.tokenIn
    BY <1>1 DEF AtInv, o
  <2>4. QED BY <1>3, <2>2, <2>3 DEF Leads
<1>11. QED BY <1>1, <1>2, <1>3, <1>4, <1>5, <1>7, <1>8, <1>9, <1>10 DEF o, amount

(* A leg brings at least what it was promised. *)
LEMMA LegOwes ==
    ASSUME RouteTypes, CallInv, AtInv, Step, Offer(call.quote), call.plan = call.quote.plan, Honoured, Due
    PROVE  LET o     == call.quote
               part   == Legs(o)[at.step]
               out   == call.plan.tokenOut
               share == Share(Hop.steps, at.step, at.available, at.allocated)
           IN  /\ Advance(share) /\ share \in Nat
               /\ \A t \in Tokens : bal'[t]["receiver"] = bal[t]["receiver"]
               /\ \A w \in DOMAIN Venues \ {part.venue} : reserve'[w] = reserve[w]
               /\ Owes(o, part, share) \in Int /\ Excess(out) + Owes(o, part, share) <= Excess(out)'
               /\ Excess(out) \in Int /\ Excess(out)' \in Int
<1> DEFINE o     == call.quote
           part   == Legs(o)[at.step]
           out   == call.plan.tokenOut
           share == Share(Hop.steps, at.step, at.available, at.allocated)
<1>1. pc = "running" /\ UNCHANGED call
  BY DEF Step
<1>2. /\ Len(Hops) = 1 /\ Hop.steps = Legs(o)
      /\ \/ at.step = 1 /\ share = First(o)
         \/ at.step = 2 /\ Len(Legs(o)) = 2
      /\ Len(Legs(o)) = 1 => First(o) = o.plan.amountIn
  BY <1>1, QuotedPlace
<1>3. /\ at.hop = 1
      /\ \/ at.step = 1 /\ reserve = call.reserve /\ used = call.used /\ order = call.order
         \/ at.step = 2 /\ reserve[Legs(o)[2].venue] = call.reserve[Legs(o)[2].venue]
  BY <1>1 DEF Due
<1>4. /\ share \in Nat \ {0} /\ at.step \in DOMAIN Hop.steps /\ Advance(share)
      /\ \A t \in Tokens : bal'[t]["receiver"] = bal[t]["receiver"]
      /\ \A w \in DOMAIN Venues \ {part.venue} : reserve'[w] = reserve[w]
      /\ \E y \in Nat :
            /\ Excess(out)' = Excess(out) + y
            /\ part.venue # "pmm" /\ ~part.fund =>
                  part.venue \in DOMAIN Venues /\ Answer(part.venue, part.reverse, share) <= y
            /\ part.venue = "pmm" =>
                  /\ order # NoOrder
                  /\ order.filled = 0 /\ order.takerAmount <= share => y = order.makerAmount
  BY <1>2, <1>3, LegPays DEF Honoured
<1>5. PICK y \in Nat :
            /\ Excess(out)' = Excess(out) + y
            /\ part.venue # "pmm" /\ ~part.fund =>
                  part.venue \in DOMAIN Venues /\ Answer(part.venue, part.reverse, share) <= y
            /\ part.venue = "pmm" =>
                  /\ order # NoOrder
                  /\ order.filled = 0 /\ order.takerAmount <= share => y = order.makerAmount
  BY <1>4
<1>6. o.venues[1] = call.reserve /\ o.venues[2] = call.used /\ o.venues[3] = call.order
  BY DEF Honoured
<1>7. /\ reserve \in Pools /\ used \in Words /\ call.used \in Words /\ call.reserve \in Pools
      /\ (order # NoOrder => order \in Terms)
  BY <1>1 DEF RouteTypes, CallInv, Booked
<1>8. Excess(out) \in Int
  <2>1. out \in Tokens /\ "router" \in Holders
    BY <1>1, Here, PlanParts, PartiesHold DEF Parties
  <2>2. bal[out]["router"] \in Nat /\ call.bal[out]["router"] \in Nat
    BY <1>1, <2>1 DEF RouteTypes, CallInv, Booked, Holdings
  <2>3. QED BY <2>2 DEF Excess
<1>9. part.fund = (part.venue = "pmm")
  BY <1>2, <1>4 DEF Offer
<1>10. Len(Legs(o)) = 2 => Legs(o)[1].venue # "pmm" /\ Legs(o)[2].venue \in UniVenues \ {"pmm"}
  BY DEF Offer
<1>11. Legs(o)[1].venue = "pmm" => o.venues[3].takerAmount = o.plan.amountIn /\ o.venues[3].filled = 0
  BY DEF Offer
<1>12. Len(Legs(o)) \in {1, 2}
  BY DEF Offer
<1>13. ASSUME part.venue # "pmm"
       PROVE  Owes(o, part, share) \in Int /\ Owes(o, part, share) <= y
  <2>1. part.venue \in DOMAIN Venues /\ Answer(part.venue, part.reverse, share) <= y
    BY <1>5, <1>9, <1>13
  <2>2. Owes(o, part, share) = AnswerAt(part.venue, part.reverse, share, call.reserve, call.used)
    BY <1>6, <1>13 DEF Owes
  <2>3. reserve[part.venue] = call.reserve[part.venue] /\ (used = call.used \/ Venues[part.venue].kind = "uni")
    BY <1>2, <1>3, <1>10 DEF UniVenues
  <2> DEFINE v == part.venue
             r == part.reverse
  <2> HIDE DEF v, r, share
  <2>4. AnswerAt(v, r, share, reserve, used) = AnswerAt(v, r, share, call.reserve, call.used)
    <3>1. v \in DOMAIN Venues /\ reserve[v] = call.reserve[v] /\ (Venues[v].kind = "uni" \/ used = call.used)
      BY <2>1, <2>3 DEF v
    <3>2. QED BY <3>1, AnswerOf
  <2>5. AnswerAt(v, r, share, call.reserve, call.used) \in Int
    BY <1>4, <1>7, <2>1, AnswerIs DEF v
  <2>6. QED BY <2>1, <2>2, <2>4, <2>5 DEF v, r, Answer
<1>14. ASSUME part.venue = "pmm"
       PROVE  Owes(o, part, share) \in Int /\ Owes(o, part, share) <= y
  <2>1. at.step = 1 /\ Len(Legs(o)) = 1 /\ share = o.plan.amountIn
    <3>1. at.step = 1
      BY <1>2, <1>10, <1>14
    <3>2. Len(Legs(o)) = 1
      BY <1>10, <1>12, <1>14, <3>1
    <3>3. QED BY <1>2, <3>1, <3>2
  <2>2. order = o.venues[3]
    BY <1>3, <1>6, <2>1
  <2>3. order.takerAmount = share /\ order.filled = 0
    BY <1>11, <1>14, <2>1, <2>2
  <2>4. order \in Terms
    BY <1>5, <1>7, <1>14
  <2>5. y = order.makerAmount
    <3> HIDE DEF share
    <3>1. order.takerAmount <= share
      BY <1>4, <2>3
    <3>2. QED BY <1>5, <1>14, <2>3, <3>1
  <2>6. Owes(o, part, share) = order.makerAmount
    BY <1>14, <2>2 DEF Owes
  <2>7. QED BY <2>5, <2>6
<1>15. Owes(o, part, share) \in Int /\ Owes(o, part, share) <= y
  BY <1>13, <1>14
<1> HIDE DEF o, part, share, out
<1>16. QED
  <2> SUFFICES /\ Excess(out) + Owes(o, part, share) <= Excess(out)'
               /\ Excess(out) \in Int /\ Excess(out)' \in Int
    BY <1>4, <1>15 DEF o, part, share, out
  <2>1. QED BY <1>5, <1>8, <1>15

(* What the first of two legs owes is a number. *)
LEMMA FirstOwed ==
    ASSUME CallInv, AtInv, pc = "running", DueInv, Honoured, at.step = 2
    PROVE  Owes(call.quote, Legs(call.quote)[1], First(call.quote)) \in Int
<1> DEFINE o == call.quote
           step == Legs(o)[1]
           v == step.venue
           r == step.reverse
           x == First(o)
<1>1. Due /\ Offer(o) /\ call.plan = o.plan
  BY DEF DueInv, Honoured
<1>2. Len(Legs(o)) = 2 /\ Hop.steps = Legs(o) /\ x \in Nat \ {0}
  BY <1>1, QuotedPlace
<1>3. 1 \in DOMAIN Hop.steps /\ Hop \in HopType
  BY <1>2, Here
<1>4. step \in StepType /\ v # "pmm"
  BY <1>1, <1>2, <1>3, HopParts DEF Offer
<1>5. v \in DOMAIN Venues
  BY <1>4 DEF StepType
<1>6. Owes(o, step, x) = AnswerAt(v, r, x, call.reserve, call.used)
  BY <1>4 DEF Owes, Honoured
<1>7. call.reserve \in Pools /\ call.used \in Words
  BY DEF CallInv, Booked
<1> HIDE DEF v, r, x
<1>8. AnswerAt(v, r, x, call.reserve, call.used) \in Int
  BY <1>2, <1>5, <1>7, AnswerIs
<1>9. QED BY <1>6, <1>8 DEF x

(* A leg leaves due what it should,                                         *)
LEMMA StepDue ==
    ASSUME RouteTypes, CallInv, AtInv, DueInv, Step
    PROVE  DueInv' /\ QuoteIsPaid'
<1> DEFINE o      == call.quote
           out    == call.plan.tokenOut
           amount == o.plan.amountIn
<1>1. pc = "running" /\ UNCHANGED <<quote, call>> /\ pc' \in {"running", "settling"}
  BY StepPlace DEF Step
<1>2. QuoteIsPaid'
  BY <1>1 DEF QuoteIsPaid
<1>3. Honoured' => Honoured
  BY <1>1, StillPasses DEF Honoured
<1> SUFFICES ASSUME Honoured PROVE Due'
  <2>1. quote' # NoCall => Offer(quote)'
    BY <1>1 DEF DueInv, Offer, Legs, First, Owes, OwedInAll, Sells
  <2>2. call'.quote # NoCall => Offer(call.quote)' /\ call'.plan = call'.quote.plan
    BY <1>1 DEF DueInv, Offer, Legs, First, Owes, OwedInAll, Sells
  <2>3. QED BY <1>1, <1>2, <1>3, <2>1, <2>2 DEF DueInv
<1>4. Due /\ Offer(o) /\ call.plan = o.plan
  BY <1>1 DEF DueInv, Honoured
<1> DEFINE share == Share(Hop.steps, at.step, at.available, at.allocated)
           part   == Legs(o)[at.step]
<1>5. /\ Len(Batches) = 1 /\ Len(Hops) = 1 /\ Hop.steps = Legs(o)
      /\ \/ /\ at.step = 1 /\ share = First(o)
         \/ /\ at.step = 2 /\ Len(Legs(o)) = 2 /\ share = amount - First(o)
      /\ First(o) \in Nat \ {0} /\ Len(Legs(o)) \in {1, 2}
      /\ Len(Legs(o)) = 1 => First(o) = amount
      /\ Sells(o)
  BY <1>1, <1>4, QuotedPlace
<1>6. /\ Advance(share) /\ share \in Nat
      /\ \A t \in Tokens : bal'[t]["receiver"] = bal[t]["receiver"]
      /\ \A w \in DOMAIN Venues \ {part.venue} : reserve'[w] = reserve[w]
      /\ Owes(o, part, share) \in Int /\ Excess(out) + Owes(o, part, share) <= Excess(out)'
      /\ Excess(out) \in Int /\ Excess(out)' \in Int
  BY <1>4, LegOwes
<1>7. /\ at.batch = 1 /\ at.hop = 1 /\ at.available = call.plan.amountIn
      /\ \/ /\ at.step = 1 /\ at.allocated = 0 /\ 0 <= Excess(out)
            /\ reserve = call.reserve
         \/ /\ at.step = 2 /\ Owes(o, Legs(o)[1], First(o)) <= Excess(out)
  BY <1>1, <1>4 DEF Due
<1>8. /\ o.out \in Int /\ o.out <= OwedInAll(o)
      /\ Len(Legs(o)) = 2 => Legs(o)[2].venue \in UniVenues \ {Legs(o)[1].venue}
  BY <1>4, <1>5 DEF Offer
<1>9. \A t \in Tokens : bal'[t]["receiver"] = call.bal[t]["receiver"]
  BY <1>4, <1>6 DEF Due
<1>10. at \in Places
  BY <1>1, Here
<1>11. o' = o /\ out' = out
  BY <1>1
<1>12. CASE at.step = 1 /\ Len(Legs(o)) = 2
  <2>1. share = First(o) /\ part = Legs(o)[1]
    BY <1>5, <1>12
  <2>2. at' = [at EXCEPT !.step = @ + 1, !.allocated = @ + share] /\ pc' = "running"
    BY <1>5, <1>6, <1>12 DEF Advance
  <2>3. /\ at'.batch = 1 /\ at'.hop = 1 /\ at'.available = call.plan.amountIn
        /\ at'.step = 2 /\ at'.allocated = First(o)
    <3> HIDE DEF share
    <3>1. at.allocated = 0
      BY <1>4, <1>1, <1>12 DEF Due
    <3>2. QED BY <1>5, <1>7, <1>10, <1>12, <2>1, <2>2, <3>1 DEF Places
  <2>4. reserve'[Legs(o)[2].venue] = call.reserve[Legs(o)[2].venue]
    <3>1. Legs(o)[2].venue \in DOMAIN Venues \ {part.venue}
      BY <1>8, <1>12, <2>1 DEF UniVenues
    <3>2. QED BY <1>6, <1>7, <1>12, <3>1
  <2>5. Owes(o, Legs(o)[1], First(o)) <= Excess(out)'
    <3> DEFINE w == Owes(o, Legs(o)[1], First(o))
               e == Excess(out)
               f == Excess(out)'
    <3>1. w \in Int /\ e \in Int /\ f \in Int /\ e + w <= f /\ 0 <= e
      BY <1>6, <1>7, <1>12, <2>1
    <3> HIDE DEF w, e, f
    <3>2. w <= f
      BY <3>1
    <3>3. QED BY <3>2 DEF w, f
  <2>6. QED BY <1>1, <1>9, <1>12, <2>2, <2>3, <2>4, <2>5 DEF Due, Legs, First, Owes
<1>13. ASSUME ~(at.step = 1 /\ Len(Legs(o)) = 2)
       PROVE  o.out <= Excess(out)' /\ pc' = "settling"
  <2>1. ~(at.step < Len(Hop.steps))
    <3> DEFINE n == Len(Legs(o))
    <3>1. n \in {1, 2} /\ (at.step = 1 \/ (at.step = 2 /\ n = 2)) /\ ~(at.step = 1 /\ n = 2)
      BY <1>5, <1>13
    <3>2. Hop.steps = Legs(o)
      BY <1>5
    <3> HIDE DEF n, o
    <3>3. ~(at.step < n)
      BY <3>1
    <3>4. QED BY <3>2, <3>3 DEF n
  <2>2. pc' = "settling"
    BY <1>5, <1>6, <1>7, <2>1 DEF Advance
  <2>3. CASE at.step = 1
    <3>1. Len(Legs(o)) = 1 /\ share = First(o) /\ part = Legs(o)[1]
      BY <1>5, <1>13, <2>3
    <3>2. OwedInAll(o) = Owes(o, part, share)
      BY <3>1 DEF OwedInAll
    <3> DEFINE w == Owes(o, part, share)
               e == Excess(out)
               f == Excess(out)'
    <3>3. w \in Int /\ e \in Int /\ f \in Int /\ e + w <= f /\ 0 <= e /\ o.out <= w
      BY <1>6, <1>7, <1>8, <2>3, <3>2
    <3> HIDE DEF w, e, f
    <3>4. o.out <= f
      BY <1>8, <3>3
    <3>5. QED BY <2>2, <3>4 DEF f
  <2>4. CASE at.step = 2
    <3>1. Len(Legs(o)) = 2 /\ share = amount - First(o) /\ part = Legs(o)[2]
      BY <1>5, <2>4
    <3>2. OwedInAll(o) = Owes(o, Legs(o)[1], First(o)) + Owes(o, part, share)
      BY <3>1 DEF OwedInAll
    <3> DEFINE w == Owes(o, part, share)
               k == Owes(o, Legs(o)[1], First(o))
               e == Excess(out)
               f == Excess(out)'
    <3>3. k \in Int
      BY <1>1, <1>4, <2>4, FirstOwed DEF DueInv
    <3>4. w \in Int /\ e \in Int /\ f \in Int /\ e + w <= f /\ k <= e /\ o.out <= k + w
      BY <1>6, <1>7, <1>8, <2>4, <3>2
    <3> HIDE DEF w, e, f, k
    <3>5. o.out <= f
      BY <1>8, <3>3, <3>4
    <3>6. QED BY <2>2, <3>5 DEF f
  <2>5. QED BY <1>5, <2>3, <2>4
<1>14. CASE ~(at.step = 1 /\ Len(Legs(o)) = 2)
  BY <1>1, <1>9, <1>13, <1>14 DEF Due
<1>15. QED BY <1>12, <1>14

(* A call begins with the venues as it finds them. *)
LEMMA EnterDue ==
    ASSUME RouteInv, DueInv, NEW plan \in PlanType, NEW least, NEW answer, Enter(plan, least, plan.amountIn, answer),
           answer # NoCall => Offer(answer) /\ answer.plan = plan,
           quote' # NoCall => Offer(quote)'
    PROVE  DueInv' /\ QuoteIsPaid'
<1>1. /\ plan.tokenIn # plan.tokenOut /\ plan.amountIn <= bal[plan.tokenIn]["user"]
      /\ bal' = Moved(bal, plan.tokenIn, "user", "router", plan.amountIn)
      /\ call' = [plan |-> plan, least |-> least, most |-> plan.amountIn, bal |-> bal,
                  reserve |-> reserve, used |-> used, order |-> order, quote |-> answer]
      /\ EnterBatch(bal', plan, 1, plan.amountIn, 0)
      /\ pc' = "running" /\ UNCHANGED <<reserve, used, order>>
  BY DEF Enter, Sound, venues
<1>2. /\ call'.plan = plan /\ call'.bal = bal /\ call'.reserve = reserve /\ call'.used = used
      /\ call'.order = order /\ call'.quote = answer
  BY <1>1
<1>3. QuoteIsPaid'
  BY <1>1 DEF QuoteIsPaid
<1>4. call'.quote # NoCall => Offer(call.quote)' /\ call'.plan = call'.quote.plan
  BY <1>2 DEF Offer, Legs, First, Owes, OwedInAll, Sells
<1> SUFFICES ASSUME answer # NoCall PROVE Due'
  BY <1>1, <1>2, <1>3, <1>4 DEF DueInv, Honoured
<1>5. /\ Len(plan.batches) = 1 /\ SumOf(plan.batches) = W /\ plan.amountIn \in Nat
  BY DEF Offer
<1>6. /\ at'.batch = 1 /\ at'.hop = 1 /\ at'.step = 1 /\ at'.allocated = 0 /\ at'.available = plan.amountIn
  <2>1. at' = [batch |-> 1, hop |-> 1, step |-> 1, received |-> plan.amountIn,
               granted |-> 0 + Share(plan.batches, 1, plan.amountIn, 0),
               available |-> Share(plan.batches, 1, plan.amountIn, 0), allocated |-> 0,
               before |-> Before(bal', plan.batches[1].hops, 1)]
    BY <1>1 DEF EnterBatch
  <2>2. Share(plan.batches, 1, plan.amountIn, 0) = plan.amountIn
    BY <1>5 DEF Share
  <2>3. QED BY <2>1, <2>2
<1>7. /\ plan.tokenIn \in Tokens /\ plan.tokenOut \in Tokens
      /\ {"user", "router", "receiver"} \subseteq Holders /\ {"user", "router"} \subseteq Parties
  BY PlanParts, PartiesHold DEF Parties
<1>8. /\ \A t \in Tokens : bal'[t]["receiver"] = bal[t]["receiver"]
      /\ bal'[plan.tokenOut]["router"] = bal[plan.tokenOut]["router"]
  <2>1. bal \in Holdings
    BY DEF RouteInv, RouteTypes, Booked
  <2>2. /\ \A h \in Holders \ {"user", "router"} : bal'[plan.tokenIn][h] = bal[plan.tokenIn][h]
        /\ \A s \in Tokens \ {plan.tokenIn} : bal'[s] = bal[s]
    BY <1>1, <1>5, <1>7, <2>1, MovedIs
  <2>3. "receiver" \in Holders \ {"user", "router"}
    BY <1>7
  <2>4. QED BY <1>1, <1>7, <2>2, <2>3
<1>9. Excess(plan.tokenOut)' = 0
  <2>1. bal[plan.tokenOut]["router"] \in Nat
    BY <1>7 DEF RouteInv, RouteTypes, Booked, Holdings
  <2>2. QED BY <1>2, <1>8, <2>1 DEF Excess
<1>10. QED BY <1>1, <1>2, <1>6, <1>8, <1>9 DEF Due, Excess

(* and so does a callback,                                                  *)
LEMMA GiveDue ==
    ASSUME RouteInv, DueInv, QuoteIsPaid,
           NEW t \in Tokens, NEW to \in {"router", "pmmAdapter"} \cup DOMAIN Venues,
           NEW x \in Gifts, Give(t, to, x)
    PROVE  DueInv' /\ QuoteIsPaid'
<1>1. /\ x <= bal[t]["maker"] /\ bal' = Moved(bal, t, "maker", to, x) /\ pc # "paid"
      /\ UNCHANGED <<reserve, used, order, quote, pc, call, at>>
  BY DEF Give, venues
<1>2. QuoteIsPaid'
  BY <1>1 DEF QuoteIsPaid
<1>3. Honoured' => Honoured
  BY <1>1, StillPasses DEF Honoured
<1>4. ASSUME pc \in {"running", "settling"}, Honoured PROVE Due'
  <2>1. Due /\ call.plan \in PlanType /\ x \in Nat
    BY <1>4, RouterAssumption DEF DueInv, RouteInv, CallInv, RouterAssumption
  <2> DEFINE out == call.plan.tokenOut
  <2>2. out \in Tokens /\ bal \in Holdings /\ call.bal \in Holdings
    BY <1>4, <2>1, PlanParts DEF RouteInv, RouteTypes, CallInv, Booked
  <2>3. to \in Holders /\ to # "maker" /\ to # "receiver" /\ {"maker", "router", "receiver"} \subseteq Holders
    BY PartiesHold DEF Parties
  <2>4. /\ bal'[t][to] = bal[t][to] + x
        /\ \A h \in Holders \ {"maker", to} : bal'[t][h] = bal[t][h]
        /\ \A s \in Tokens \ {t} : bal'[s] = bal[s]
    BY <1>1, <2>1, <2>2, <2>3, MovedIs
  <2>5. \A s \in Tokens : bal'[s]["receiver"] = bal[s]["receiver"]
    BY <2>3, <2>4
  <2>6. bal[out]["router"] <= bal'[out]["router"] /\ bal'[out]["router"] \in Nat /\ bal[out]["router"] \in Nat
    <3>1. bal[out]["router"] \in Nat
      BY <2>2, <2>3 DEF Holdings
    <3>2. CASE out = t /\ to = "router"
      BY <2>1, <2>4, <3>1, <3>2
    <3>3. CASE out = t /\ to # "router"
      BY <2>3, <2>4, <3>1, <3>3
    <3>4. CASE out # t
      BY <2>2, <2>4, <3>1, <3>4
    <3>5. QED BY <3>2, <3>3, <3>4
  <2>7. Excess(out) <= Excess(out)' /\ Excess(out) \in Int /\ Excess(out)' \in Int
    <3>1. call.bal[out]["router"] \in Nat
      BY <2>2, <2>3 DEF Holdings
    <3>2. QED BY <1>1, <2>6, <3>1 DEF Excess
  <2>8. Legs(call.quote)' = Legs(call.quote) /\ First(call.quote)' = First(call.quote)
        /\ Owes(call.quote, Legs(call.quote)[1], First(call.quote))' = Owes(call.quote, Legs(call.quote)[1], First(call.quote))
    BY <1>1 DEF Legs, First, Owes
  <2>9. \A k \in Int : k <= Excess(out) => k <= Excess(out)'
    BY <2>7
  <2>10. pc = "settling" => call.quote.out <= Excess(out)'
    <3>1. call.quote.out \in Int
      BY <1>4 DEF DueInv, Offer, Honoured
    <3>2. QED BY <2>1, <2>9, <3>1 DEF Due
  <2>11. CASE pc = "settling"
    BY <1>1, <2>1, <2>5, <2>10, <2>11 DEF Due
  <2>12. CASE pc = "running" /\ at.step = 1
    <3>1. 0 <= Excess(out)'
      BY <2>1, <2>9, <2>12 DEF Due
    <3>2. QED BY <1>1, <2>1, <2>5, <2>12, <3>1 DEF Due
  <2>13. CASE pc = "running" /\ at.step = 2
    <3> DEFINE k == Owes(call.quote, Legs(call.quote)[1], First(call.quote))
    <3>1. k <= Excess(out)
      BY <2>1, <2>13 DEF Due
    <3>2. k \in Int
      BY <1>4, <2>13, FirstOwed DEF RouteInv, DueInv, Honoured
    <3>3. k <= Excess(out)'
      <4> HIDE DEF k
      <4> QED BY <2>9, <3>1, <3>2
    <3>4. QED BY <1>1, <2>1, <2>5, <2>8, <2>13, <3>3 DEF Due
  <2>14. QED BY <1>4, <2>1, <2>11, <2>12, <2>13 DEF Due
<1>5. QED
  <2>1. (quote' # NoCall => Offer(quote)')
        /\ (pc' # "idle" /\ call'.quote # NoCall => Offer(call.quote)' /\ call'.plan = call'.quote.plan)
    BY <1>1 DEF DueInv, Offer, Legs, First, Owes, OwedInAll, Sells
  <2>2. QED BY <1>1, <1>2, <1>3, <1>4, <2>1 DEF DueInv

(* the end of the call,                                                     *)
LEMMA FinishDue ==
    ASSUME RouteInv, DueInv, Finish
    PROVE  DueInv' /\ QuoteIsPaid'
<1> DEFINE tin  == call.plan.tokenIn
           tout == call.plan.tokenOut
           back == Moved(bal, tin, "router", "user", Leftover)
<1>1. /\ pc = "settling" /\ pc' = "paid" /\ Gained > 0 /\ Leftover \in 0 .. at.received
      /\ bal' = Moved(back, tout, "router", "receiver", Gained)
      /\ UNCHANGED <<reserve, used, order, quote, call, at>>
  BY DEF Finish, venues
<1>2. DueInv'
  BY <1>1 DEF DueInv, Offer, Legs, First, Owes, OwedInAll, Sells
<1> SUFFICES ASSUME Honoured
             PROVE  call.quote.out <= bal'[tout]["receiver"] - call.bal[tout]["receiver"]
  <2>1. Honoured' => Honoured
    BY <1>1, StillPasses DEF Honoured
  <2>2. QuoteIsPaid' <=> (Honoured' => call.quote.out <= bal'[tout]["receiver"] - call.bal[tout]["receiver"])
    BY <1>1, StillPasses DEF QuoteIsPaid, Honoured
  <2>3. QED BY <1>2, <2>1, <2>2
<1>3. Due
  BY <1>1 DEF DueInv
<1>4. /\ call.plan \in PlanType /\ tin # tout /\ tin \in Tokens /\ tout \in Tokens
      /\ bal \in Holdings /\ call.bal \in Holdings
  BY <1>1, PlanParts DEF RouteInv, RouteTypes, CallInv, Booked
<1>5. {"router", "user", "receiver"} \subseteq Parties /\ {"router", "user", "receiver"} \subseteq Holders
  BY PartiesHold DEF Parties
<1>6. /\ bal[tin]["router"] \in Nat /\ call.bal[tin]["router"] \in Nat
      /\ bal[tout]["router"] \in Nat /\ call.bal[tout]["router"] \in Nat /\ bal[tout]["receiver"] \in Nat
  BY <1>4, <1>5 DEF Holdings
<1>7. /\ Leftover \in Nat /\ Leftover <= bal[tin]["router"]
      /\ Gained \in Nat /\ Gained <= bal[tout]["router"] /\ Gained = Excess(tout)
  BY <1>1, <1>6 DEF Leftover, Gained, Excess
<1>8. back \in Holdings /\ \A s \in Tokens \ {tin} : back[s] = bal[s]
  <2> HIDE DEF tin
  <2> QED BY <1>4, <1>5, <1>7, MovedIs
<1> HIDE DEF back
<1>9. bal'[tout]["receiver"] = bal[tout]["receiver"] + Gained
  <2>1. back[tout] = bal[tout]
    BY <1>4, <1>8
  <2>2. Gained <= back[tout]["router"]
    BY <1>7, <2>1
  <2> HIDE DEF tout
  <2>3. bal'[tout]["receiver"] = back[tout]["receiver"] + Gained
    BY <1>1, <1>4, <1>5, <1>7, <1>8, <2>2, MovedIs
  <2>4. QED BY <2>1, <2>3
<1>10. bal[tout]["receiver"] = call.bal[tout]["receiver"] /\ call.quote.out <= Gained
  BY <1>1, <1>3, <1>4, <1>7 DEF Due
<1>11. QED BY <1>6, <1>7, <1>9, <1>10

(* and a revert.                                                            *)
LEMMA RevertDue ==
    ASSUME DueInv, Revert
    PROVE  DueInv' /\ QuoteIsPaid'
<1>1. pc' = "idle" /\ quote' = quote
  BY DEF Revert
<1>2. QED BY <1>1 DEF DueInv, QuoteIsPaid, Offer, Legs, First, Owes, OwedInAll, Sells

-----------------------------------------------------------------------------
(* What the aggregator offers. *)

(* A plan of the aggregator has one batch of one hop.                       *)
LEMMA ShapeOf ==
    ASSUME NEW r \in Requests, NEW steps, NEW o, o.plan = PlanOf(r, steps)
    PROVE  /\ Len(o.plan.batches) = 1 /\ SumOf(o.plan.batches) = W /\ Len(o.plan.batches[1].hops) = 1
           /\ Legs(o) = steps /\ o.plan.tokenIn = r.in /\ o.plan.amountIn = r.amount
           /\ r.amount \in Nat \ {0} /\ W \in Nat \ {0}
<1> DEFINE hops  == <<[tokenIn |-> r.in, steps |-> steps]>>
           items == <<[weight |-> W, hops |-> hops]>>
<1>1. /\ o.plan.batches = items /\ o.plan.tokenIn = r.in /\ o.plan.amountIn = r.amount
      /\ items[1].hops = hops /\ hops[1].steps = steps
  BY DEF PlanOf
<1>2. W \in Nat \ {0} /\ r.amount \in Nat \ {0}
  BY RouterAssumption DEF RouterAssumption
<1>3. DOMAIN items = {1} /\ items[1].weight = W /\ Len(items) = 1 /\ Len(hops) = 1
  OBVIOUS
<1> HIDE DEF items, hops
<1>4. SumOf(items) = W
  BY <1>2, <1>3, OneWeight
<1>5. QED BY <1>1, <1>2, <1>3, <1>4 DEF Legs

(* A share of the weight. *)
LEMMA ShareIs ==
    ASSUME NEW x \in Nat \ {0}, NEW w \in Grid
    PROVE  /\ ToProp(x, w) \in 0 .. x
           /\ ToProp(x, w) = x => w = W
           /\ ToProp(x, 0) = 0 /\ 0 \in Grid
<1> DEFINE k == x * w
           a == k \div W
<1>1. W \in Nat \ {0} /\ w \in Nat /\ w <= W
  BY RouterAssumption DEF RouterAssumption, Grid
<1>2. k \in Nat /\ k <= x * W /\ x * W \in Nat
  BY <1>1, ProductIsNat, Scaling
<1>3. a \in Int /\ W * a <= k /\ k < W * a + W
  <2> HIDE DEF k
  <2> QED BY <1>1, <1>2, Quotient
<1>4. ToProp(x, w) = a
  BY DEF ToProp
<1> HIDE DEF a, k
<1>5. a <= x
  <2>1. x * W = W * x
    BY <1>1, SMT
  <2>2. W * a <= W * x /\ W * a \in Int
    BY <1>1, <1>2, <1>3, <2>1
  <2>3. QED BY <1>1, <1>3, <2>2, Cancelling
<1>6. 0 <= a
  <2> SUFFICES ASSUME a + 1 <= 0 PROVE FALSE
    BY <1>3
  <2>1. W * (a + 1) <= W * 0
    BY <1>1, <1>3, Scaling
  <2>2. W * (a + 1) = W * a + W /\ W * 0 = 0 /\ W * a \in Int
    BY <1>1, <1>3, SMT
  <2>3. QED BY <1>1, <1>2, <1>3, <2>1, <2>2
<1>7. a = x => w = W
  <2> SUFFICES ASSUME a = x PROVE W <= w
    BY <1>1
  <2>1. W * x = x * W
    BY <1>1, SMT
  <2>2. x * W <= x * w /\ x * w \in Int
    BY <1>2, <1>3, <2>1 DEF k
  <2>3. QED BY <1>1, <2>2, Cancelling
<1>8. ToProp(x, 0) = 0
  <2>1. x * 0 = 0
    OBVIOUS
  <2>2. 0 \div W \in Int /\ W * (0 \div W) <= 0 /\ 0 < W * (0 \div W) + W
    BY <1>1, Quotient
  <2>3. 0 \div W = 0
    BY <1>1, SMT
  <2>4. QED BY <2>1, <2>3 DEF ToProp
<1>9. QED BY <1>1, <1>3, <1>4, <1>5, <1>6, <1>7, <1>8 DEF Grid

(* And so is what the aggregator takes from it.                             *)
LEMMA PayIs ==
    ASSUME RouteTypes, NEW v \in DOMAIN Venues, NEW r, NEW x \in Nat
    PROVE  Pay(v, r, x) \in Int
<1> DEFINE rev == r.in = Venues[v].quote
<1>1. reserve \in Pools /\ used \in Words
  BY DEF RouteTypes, Booked
<1> HIDE DEF rev
<1>2. x # 0 => AnswerAt(v, rev, x, reserve, used) \in Int
  BY <1>1, AnswerIs
<1>3. QED BY <1>2 DEF Pay, Answer, rev

(* The chosen point: the pool's share is nothing only at weight zero and     *)
(* everything only at full weight.                                         *)
LEMMA BestIs ==
    ASSUME RouteTypes, NEW p \in DOMAIN Venues, NEW u \in DOMAIN Venues, NEW r \in Requests,
           NEW q \in BestPoints(p, u, r)
    PROVE  /\ q.out \in Int
           /\ q.weight \in Grid /\ q.toProp = ToProp(r.amount, q.weight)
           /\ q.toUni = r.amount - q.toProp /\ q.toProp \in 0 .. r.amount
           /\ q.out = Pay(p, r, q.toProp) + Pay(u, r, q.toUni)
           /\ q.toProp = 0 => q.weight = 0
           /\ q.toProp = r.amount => q.weight = W
<1>1. r.amount \in Nat \ {0} /\ W \in Nat \ {0}
  BY RouterAssumption DEF RouterAssumption
<1> DEFINE points == {k \in {Priced(p, u, r, w) : w \in Grid} : k.ok /\ k.out > 0}
<1>2. /\ q \in points
      /\ \A k \in points : k.out < q.out \/ (k.out = q.out /\ k.weight >= q.weight)
  BY DEF BestPoints
<1>3. PICK w \in Grid : q = Priced(p, u, r, w)
  BY <1>2
<1>4. \A k \in Grid :
         /\ Priced(p, u, r, k).weight = k /\ Priced(p, u, r, k).toProp = ToProp(r.amount, k)
         /\ Priced(p, u, r, k).toUni = r.amount - ToProp(r.amount, k)
         /\ Priced(p, u, r, k).out = Pay(p, r, ToProp(r.amount, k)) + Pay(u, r, r.amount - ToProp(r.amount, k))
         /\ Priced(p, u, r, k).ok = ((ToProp(r.amount, k) = 0 \/ Pay(p, r, ToProp(r.amount, k)) > 0)
                                     /\ (r.amount - ToProp(r.amount, k) = 0
                                         \/ Pay(u, r, r.amount - ToProp(r.amount, k)) > 0))
  BY DEF Priced
<1>5. /\ ToProp(r.amount, w) \in 0 .. r.amount /\ (ToProp(r.amount, w) = r.amount => w = W)
      /\ ToProp(r.amount, 0) = 0 /\ 0 \in Grid
  BY <1>1, ShareIs
<1>6. q.out \in Int
  <2>1. q.out = Pay(p, r, ToProp(r.amount, w)) + Pay(u, r, r.amount - ToProp(r.amount, w))
    BY <1>3, <1>4
  <2> DEFINE a == ToProp(r.amount, w)
             b == r.amount - a
  <2>2. a \in Nat /\ b \in Nat
    BY <1>1, <1>5
  <2> HIDE DEF a, b
  <2>3. Pay(p, r, a) \in Int /\ Pay(u, r, b) \in Int
    BY <2>2, PayIs
  <2>4. QED BY <2>1, <2>3 DEF a, b
<1>7. ASSUME q.toProp = 0 PROVE q.weight = 0
  <2> DEFINE k == Priced(p, u, r, 0)
  <2>1. k.weight = 0 /\ k.out = q.out /\ k.ok = q.ok
    BY <1>3, <1>4, <1>5, <1>7
  <2>2. k \in points
    BY <1>2, <1>5, <2>1
  <2> HIDE DEF k
  <2>3. k.out < q.out \/ (k.out = q.out /\ k.weight >= q.weight)
    BY <1>2, <2>2
  <2>4. q.weight \in Nat
    BY <1>1, <1>3, <1>4 DEF Grid
  <2>5. ~(k.out < q.out)
    BY <1>6, <2>1
  <2>6. QED BY <2>1, <2>3, <2>4, <2>5
<1>8. QED BY <1>3, <1>4, <1>5, <1>7, <1>6

(* A pool is asked for the direction its leg sells in. *)
LEMMA AskedAsSold ==
    ASSUME NEW p \in DOMAIN Venues, NEW u \in DOMAIN Venues, NEW v \in {p, u}, NEW r, NEW x \in Nat \ {0},
           TokenIn(v, r.in = Venues[p].quote) = r.in
    PROVE  Pay(v, r, x) = AnswerAt(v, r.in = Venues[p].quote, x, reserve, used)
<1> DEFINE rev == r.in = Venues[p].quote
           own == r.in = Venues[v].quote
<1>1. Venues[v].base # Venues[v].quote
  BY RouterAssumption DEF RouterAssumption
<1>2. TokenIn(v, rev) = IF rev THEN Venues[v].quote ELSE Venues[v].base
  BY DEF TokenIn
<1>3. own = rev
  <2>1. rev \in BOOLEAN /\ own \in BOOLEAN
    OBVIOUS
  <2>2. rev => own
    BY <1>2
  <2>3. ~rev => ~own
    BY <1>1, <1>2
  <2> HIDE DEF rev, own
  <2>4. QED BY <2>1, <2>2, <2>3
<1>4. Pay(v, r, x) = AnswerAt(v, own, x, reserve, used)
  BY DEF Pay, Answer
<1> HIDE DEF own, rev
<1>5. Pay(v, r, x) = AnswerAt(v, rev, x, reserve, used)
  BY <1>3, <1>4
<1>6. QED BY <1>5 DEF rev

(* The one leg of each of two venues, joined.                               *)
LEMMA Joined ==
    ASSUME NEW a, NEW b
    PROVE  /\ Len(<<a>> \o <<b>>) = 2 /\ DOMAIN (<<a>> \o <<b>>) = {1, 2}
           /\ (<<a>> \o <<b>>)[1] = a /\ (<<a>> \o <<b>>)[2] = b
           /\ <<a>> \o <<>> = <<a>> /\ <<>> \o <<b>> = <<b>>
<1> DEFINE S == {a, b}
           s == <<a>>
           t == <<b>>
<1>1. s \in Seq(S) /\ t \in Seq(S) /\ Len(s) = 1 /\ Len(t) = 1 /\ s[1] = a /\ t[1] = b
  OBVIOUS
<1> HIDE DEF s, t, S
<1>2. /\ s \o t \in Seq(S) /\ Len(s \o t) = 2
      /\ (s \o t)[1] = s[1] /\ (s \o t)[2] = t[1]
  <2>1. /\ s \o t \in Seq(S) /\ Len(s \o t) = Len(s) + Len(t)
        /\ \A i \in 1 .. Len(s) + Len(t) : (s \o t)[i] = IF i <= Len(s) THEN s[i] ELSE t[i - Len(s)]
    BY <1>1, ConcatProperties
  <2>2. /\ (s \o t)[1] = (IF 1 <= 1 THEN s[1] ELSE t[1 - 1])
        /\ (s \o t)[2] = (IF 2 <= 1 THEN s[2] ELSE t[2 - 1])
    BY <1>1, <2>1
  <2>3. QED BY <1>1, <2>1, <2>2
<1>3. DOMAIN (s \o t) = {1, 2}
  <2>1. DOMAIN (s \o t) = 1 .. 2
    BY <1>2, LenProperties
  <2>2. QED BY <2>1
<1>4. s \o <<>> = s /\ <<>> \o t = t
  BY <1>1, ConcatEmptySeq
<1>5. QED BY <1>1, <1>2, <1>3, <1>4 DEF s, t

(* What is offered of the two pools is what they owe,                       *)
LEMMA OfferOfAmms ==
    ASSUME RouteTypes, NEW p \in PropVenues, NEW u \in UniVenues, NEW r \in Requests,
           NEW q \in BestPoints(p, u, r),
           NEW o, o.plan = PlanOf(r, AmmSteps(p, u, r, q)), o.out = q.out,
           o.venues[1] = reserve, o.venues[2] = used
    PROVE  Offer(o)
<1> DEFINE rev   == r.in = Venues[p].quote
           prop  == [venue |-> p, weight |-> q.weight, reverse |-> rev, fund |-> FALSE]
           uni   == [venue |-> u, weight |-> W - q.weight, reverse |-> rev, fund |-> FALSE]
           steps == AmmSteps(p, u, r, q)
<1>1. /\ p \in DOMAIN Venues /\ u \in DOMAIN Venues /\ p # u /\ p # "pmm" /\ u # "pmm"
  BY RouterAssumption DEF PropVenues, UniVenues, RouterAssumption
<1>2. /\ Len(o.plan.batches) = 1 /\ SumOf(o.plan.batches) = W /\ Len(o.plan.batches[1].hops) = 1
      /\ Legs(o) = steps /\ o.plan.tokenIn = r.in /\ o.plan.amountIn = r.amount
      /\ r.amount \in Nat \ {0} /\ W \in Nat \ {0}
  <2> HIDE DEF steps
  <2>1. o.plan = PlanOf(r, steps)
    BY DEF steps
  <2>2. QED BY <2>1, ShapeOf
<1>3. /\ q.out \in Int /\ q.weight \in Grid /\ q.toProp = ToProp(r.amount, q.weight)
      /\ q.toUni = r.amount - q.toProp /\ q.toProp \in 0 .. r.amount
      /\ q.out = Pay(p, r, q.toProp) + Pay(u, r, q.toUni)
      /\ q.toProp = 0 => q.weight = 0
      /\ q.toProp = r.amount => q.weight = W
  BY <1>1, BestIs
<1>4. steps = (IF q.toProp > 0 THEN <<prop>> ELSE <<>>) \o (IF q.toUni > 0 THEN <<uni>> ELSE <<>>)
  BY DEF AmmSteps
<1>5. /\ prop.venue = p /\ prop.weight = q.weight /\ prop.reverse = rev /\ prop.fund = FALSE
      /\ uni.venue = u /\ uni.weight = W - q.weight /\ uni.reverse = rev /\ uni.fund = FALSE
  OBVIOUS
<1> HIDE DEF prop, uni, steps
<1>6. q.weight \in Nat /\ q.weight <= W /\ q.toProp \in Nat /\ q.toUni \in Nat /\ q.toProp + q.toUni = r.amount
  BY <1>2, <1>3 DEF Grid
<1>7. /\ \A x \in Nat \ {0} : TokenIn(p, rev) = r.in => Pay(p, r, x) = AnswerAt(p, rev, x, o.venues[1], o.venues[2])
      /\ \A x \in Nat \ {0} : TokenIn(u, rev) = r.in => Pay(u, r, x) = AnswerAt(u, rev, x, o.venues[1], o.venues[2])
  BY <1>1, AskedAsSold
<1>8. \A v, x : Pay(v, r, 0) = 0
  BY DEF Pay
<1> HIDE DEF rev
<1>9. CASE q.toProp > 0 /\ q.toUni > 0
  <2>1. steps = <<prop>> \o <<uni>>
    BY <1>4, <1>9
  <2>2. /\ Len(Legs(o)) = 2 /\ DOMAIN Legs(o) = {1, 2} /\ Legs(o)[1] = prop /\ Legs(o)[2] = uni
    BY <1>2, <2>1, Joined
  <2>3. SumOf(Legs(o)) = W
    <3>1. SumOf(Legs(o)) = q.weight + (W - q.weight)
      BY <1>2, <1>5, <1>6, <2>2, TwoWeights
    <3>2. QED BY <1>2, <1>6, <3>1
  <2>4. First(o) = q.toProp
    BY <1>2, <1>3, <1>5, <2>2 DEF First
  <2>5. First(o) \in 1 .. r.amount - 1 /\ r.amount - First(o) = q.toUni
    BY <1>2, <1>6, <1>9, <2>4
  <2>6. Sells(o) => q.out <= OwedInAll(o)
    <3> SUFFICES ASSUME Sells(o) PROVE q.out <= OwedInAll(o)
      OBVIOUS
    <3>1. TokenIn(p, rev) = r.in /\ TokenIn(u, rev) = r.in
      BY <1>1, <1>2, <1>5, <2>2 DEF Sells
    <3>2. OwedInAll(o) = Owes(o, prop, q.toProp) + Owes(o, uni, q.toUni)
      BY <1>2, <2>2, <2>4, <2>5 DEF OwedInAll
    <3>3. Owes(o, prop, q.toProp) = Pay(p, r, q.toProp) /\ Owes(o, uni, q.toUni) = Pay(u, r, q.toUni)
      <4>1. q.toProp \in Nat \ {0} /\ q.toUni \in Nat \ {0}
        BY <1>6, <1>9
      <4>2. QED BY <1>1, <1>5, <1>7, <3>1, <4>1 DEF Owes
    <3>4. QED BY <1>3, <3>2, <3>3
  <2>7. QED BY <1>1, <1>2, <1>3, <1>5, <2>2, <2>3, <2>5, <2>6 DEF Offer
<1>10. CASE q.toProp > 0 /\ ~(q.toUni > 0)
  <2>0. q.toProp = r.amount /\ q.toUni = 0
    BY <1>2, <1>6, <1>10
  <2>1. steps = <<prop>> /\ q.toProp = r.amount /\ q.toUni = 0
    BY <1>4, <1>10, <2>0, Joined
  <2>2. /\ Len(Legs(o)) = 1 /\ DOMAIN Legs(o) = {1} /\ Legs(o)[1] = prop
    BY <1>2, <2>1
  <2>3. SumOf(Legs(o)) = W
    BY <1>2, <1>3, <1>5, <2>1, <2>2, OneWeight
  <2>4. Sells(o) => q.out <= OwedInAll(o)
    <3> SUFFICES ASSUME Sells(o) PROVE q.out <= OwedInAll(o)
      OBVIOUS
    <3>1. TokenIn(p, rev) = r.in
      BY <1>1, <1>2, <1>5, <2>2 DEF Sells
    <3>2. OwedInAll(o) = Owes(o, prop, r.amount)
      BY <1>2, <2>2 DEF OwedInAll, First
    <3>3. Owes(o, prop, r.amount) = Pay(p, r, r.amount)
      BY <1>1, <1>2, <1>5, <1>7, <3>1 DEF Owes
    <3>4. q.out = Pay(p, r, r.amount) + 0
      BY <1>3, <1>8, <2>1
    <3>5. Pay(p, r, r.amount) \in Int
      BY <1>1, <1>2, PayIs
    <3>6. QED BY <3>2, <3>3, <3>4, <3>5
  <2>5. \A j \in DOMAIN Legs(o) : Legs(o)[j].fund = (Legs(o)[j].venue = "pmm")
    BY <1>1, <1>5, <2>2
  <2>6. Legs(o)[1].venue # "pmm" /\ Len(Legs(o)) # 2
    BY <1>1, <1>5, <2>2
  <2>7. QED BY <1>2, <1>3, <2>2, <2>3, <2>4, <2>5, <2>6 DEF Offer
<1>11. CASE ~(q.toProp > 0)
  <2>1. q.toProp = 0 /\ q.toUni = r.amount /\ q.weight = 0 /\ q.toUni > 0
    BY <1>2, <1>3, <1>6, <1>11
  <2>2. steps = <<uni>>
    BY <1>4, <1>11, <2>1, Joined
  <2>3. /\ Len(Legs(o)) = 1 /\ DOMAIN Legs(o) = {1} /\ Legs(o)[1] = uni
    BY <1>2, <2>2
  <2>4. SumOf(Legs(o)) = W
    <3>1. uni.weight = W
      BY <1>2, <1>5, <2>1
    <3>2. QED BY <1>2, <2>3, <3>1, OneWeight
  <2>5. Sells(o) => q.out <= OwedInAll(o)
    <3> SUFFICES ASSUME Sells(o) PROVE q.out <= OwedInAll(o)
      OBVIOUS
    <3>1. TokenIn(u, rev) = r.in
      BY <1>1, <1>2, <1>5, <2>3 DEF Sells
    <3>2. OwedInAll(o) = Owes(o, uni, r.amount)
      BY <1>2, <2>3 DEF OwedInAll, First
    <3>3. Owes(o, uni, r.amount) = Pay(u, r, r.amount)
      BY <1>1, <1>2, <1>5, <1>7, <3>1 DEF Owes
    <3>4. q.out = 0 + Pay(u, r, r.amount)
      BY <1>3, <1>8, <2>1
    <3>5. Pay(u, r, r.amount) \in Int
      BY <1>1, <1>2, PayIs
    <3>6. QED BY <3>2, <3>3, <3>4, <3>5
  <2>6. \A j \in DOMAIN Legs(o) : Legs(o)[j].fund = (Legs(o)[j].venue = "pmm")
    BY <1>1, <1>5, <2>3
  <2>7. Legs(o)[1].venue # "pmm" /\ Len(Legs(o)) # 2
    BY <1>1, <1>5, <2>3
  <2>8. QED BY <1>2, <1>3, <2>3, <2>4, <2>5, <2>6, <2>7 DEF Offer
<1>12. QED BY <1>9, <1>10, <1>11

(* and what is offered of an order is what the order pays.                  *)
LEMMA OfferOfRfq ==
    ASSUME NEW r \in Requests, NEW y \in Nat, NEW o, o.plan = PlanOf(r, RfqSteps), o.out = y,
           o.venues[3].takerAmount = r.amount, o.venues[3].makerAmount = y, o.venues[3].filled = 0
    PROVE  Offer(o)
<1>1. /\ Len(o.plan.batches) = 1 /\ SumOf(o.plan.batches) = W /\ Len(o.plan.batches[1].hops) = 1
      /\ Legs(o) = RfqSteps /\ o.plan.amountIn = r.amount
      /\ r.amount \in Nat \ {0} /\ W \in Nat \ {0}
  BY ShapeOf
<1>2. /\ Len(Legs(o)) = 1 /\ DOMAIN Legs(o) = {1} /\ Legs(o)[1].venue = "pmm"
      /\ Legs(o)[1].weight = W /\ Legs(o)[1].fund = TRUE
  BY <1>1 DEF RfqSteps
<1>3. SumOf(Legs(o)) = W
  BY <1>1, <1>2, OneWeight
<1>4. OwedInAll(o) = y
  BY <1>2 DEF OwedInAll, Owes
<1>5. \A j \in DOMAIN Legs(o) : Legs(o)[j].fund = (Legs(o)[j].venue = "pmm")
  BY <1>2
<1>6. Len(Legs(o)) # 2
  BY <1>2
<1>7. QED BY <1>1, <1>2, <1>3, <1>4, <1>5, <1>6 DEF Offer

(* So an answer of the aggregator leaves due what it should.                *)
LEMMA QuoteDue ==
    ASSUME RouteInv, DueInv, QuoteIsPaid, NEW p \in PropVenues, NEW u \in UniVenues, NEW r \in Requests,
           QuoteAmms(p, u, r) \/ \E y \in Offers : QuoteRfq(p, u, r, y)
    PROVE  DueInv' /\ QuoteIsPaid'
<1>1. pc \in {"idle", "paid"} /\ UNCHANGED <<bal, reserve, used, pc, call, at>>
  BY DEF QuoteAmms, QuoteRfq, Asked, venues
<1>2. Offer(quote')
  <2>1. CASE QuoteAmms(p, u, r)
    <3>1. PICK q \in BestPoints(p, u, r) : Answered(r, AmmSteps(p, u, r, q), q.out)
      BY <2>1 DEF QuoteAmms
    <3>2. /\ quote'.plan = PlanOf(r, AmmSteps(p, u, r, q)) /\ quote'.out = q.out
          /\ quote'.venues[1] = reserve /\ quote'.venues[2] = used
      BY <1>1, <3>1 DEF Answered, venues
    <3>3. QED BY <3>2, OfferOfAmms DEF RouteInv
  <2>2. ASSUME NEW y \in Offers, QuoteRfq(p, u, r, y)
        PROVE  Offer(quote')
    <3>1. /\ order' = [takerAsset |-> r.in, makerAsset |-> r.out, takerAmount |-> r.amount,
                       makerAmount |-> y, filled |-> 0]
          /\ Answered(r, RfqSteps, y)
      BY <2>2 DEF QuoteRfq
    <3>2. /\ quote'.plan = PlanOf(r, RfqSteps) /\ quote'.out = y
          /\ quote'.venues[3] = order'
      BY <3>1 DEF Answered, venues
    <3>3. y \in Nat
      BY RouterAssumption DEF RouterAssumption
    <3>4. QED BY <3>1, <3>2, <3>3, OfferOfRfq
  <2>3. QED BY <2>1, <2>2
<1>3. Offer(quote)'
  BY <1>2 DEF Offer, Legs, First, Owes, OwedInAll, Sells
<1>4. pc' # "idle" /\ call'.quote # NoCall => Offer(call.quote)' /\ call'.plan = call'.quote.plan
  BY <1>1 DEF DueInv, Offer, Legs, First, Owes, OwedInAll, Sells
<1>5. QuoteIsPaid'
  BY <1>1, StillPasses DEF QuoteIsPaid
<1>6. QED BY <1>1, <1>3, <1>4, <1>5 DEF DueInv

(* Every step does.                                                         *)
LEMMA PaidStepInv == HonouredInv /\ [RouteNext]_routeVars => HonouredInv'
<1> SUFFICES ASSUME HonouredInv, [RouteNext]_routeVars PROVE HonouredInv'
  OBVIOUS
<1>1. RouteInv /\ DueInv /\ QuoteIsPaid /\ RouteInv'
  BY RouteStepInv DEF HonouredInv
<1>2. RouteTypes /\ CallInv /\ AtInv
  BY <1>1 DEF RouteInv
<1>3. CASE Submit
  <2>1. quote # NoCall /\ Enter(quote.plan, quote.least, quote.plan.amountIn, quote) /\ quote' = NoCall
    BY <1>3 DEF Submit
  <2>2. quote.plan \in PlanType /\ Offer(quote)
    BY <1>1, <1>2, <2>1 DEF RouteTypes, DueInv
  <2> DEFINE o == quote
             plan == quote.plan
             least == quote.least
  <2>3. plan \in PlanType /\ Enter(plan, least, plan.amountIn, o) /\ Offer(o) /\ o.plan = plan
    BY <2>1, <2>2
  <2> HIDE DEF o, plan, least
  <2>4. DueInv' /\ QuoteIsPaid'
    BY <1>1, <2>1, <2>3, EnterDue
  <2>5. QED BY <1>1, <2>4 DEF HonouredInv
<1>4. ASSUME NEW plan \in Plans, NEW least, Swap(plan, least) PROVE HonouredInv'
  <2>1. plan \in PlanType
    BY RouterAssumption DEF RouterAssumption
  <2>2. Enter(plan, least, plan.amountIn, NoCall) /\ quote' = quote
    BY <1>4 DEF Swap
  <2>3. quote' # NoCall => Offer(quote)'
    BY <1>1, <2>2 DEF DueInv, Offer, Legs, First, Owes, OwedInAll, Sells
  <2>4. DueInv' /\ QuoteIsPaid'
    BY <1>1, <2>1, <2>2, <2>3, EnterDue
  <2>5. QED BY <1>1, <2>4 DEF HonouredInv
<1>5. CASE UNCHANGED routeVars
  <2>1. UNCHANGED <<bal, reserve, used, order, quote, pc, call, at, gifts>>
    BY <1>5 DEF routeVars, venues
  <2>2. /\ quote' # NoCall => Offer(quote)'
        /\ pc' # "idle" /\ call'.quote # NoCall => Offer(call.quote)' /\ call'.plan = call'.quote.plan
    BY <1>1, <2>1 DEF DueInv, Offer, Legs, First, Owes, OwedInAll, Sells
  <2>3. Honoured' <=> Honoured
    BY <2>1, StillPasses DEF Honoured
  <2>4. Due' <=> Due
    BY <2>1 DEF Due, Excess, Legs, First, Owes
  <2>5. QuoteIsPaid'
    BY <1>1, <2>1, StillPasses DEF QuoteIsPaid
  <2>6. DueInv'
    BY <1>1, <2>1, <2>2, <2>3, <2>4 DEF DueInv
  <2>7. QED BY <1>1, <2>5, <2>6 DEF HonouredInv
<1>6. CASE Step
  BY <1>1, <1>2, <1>6, StepDue DEF HonouredInv
<1>7. CASE Finish
  BY <1>1, <1>7, FinishDue DEF HonouredInv
<1>8. CASE Revert
  BY <1>1, <1>8, RevertDue DEF HonouredInv
<1>9. ASSUME NEW t \in Tokens, NEW to \in {"router", "pmmAdapter"} \cup DOMAIN Venues, NEW x \in Gifts,
             Give(t, to, x)
      PROVE  HonouredInv'
  BY <1>1, <1>9, GiveDue DEF HonouredInv
<1>10. ASSUME NEW p \in PropVenues, NEW u \in UniVenues, NEW r \in Requests,
              QuoteAmms(p, u, r) \/ \E y \in Offers : QuoteRfq(p, u, r, y)
       PROVE  HonouredInv'
  BY <1>1, <1>10, QuoteDue DEF HonouredInv
<1>11. QED BY <1>3, <1>4, <1>5, <1>6, <1>7, <1>8, <1>9, <1>10 DEF RouteNext

(* Whatever the amounts, the curve, the reserves, the gifts and the calls in  *)
(* between, a quote that is submitted and finds the venues as they were     *)
(* asked pays the receiver at least what was quoted (quote.ts 345-385,      *)
(* route.ts 83-140, Router.sol 286-290).                                    *)
THEOREM QuotesPay == RouteSpec => []QuoteIsPaid
<1>1. HonouredInv => QuoteIsPaid
  BY DEF HonouredInv
<1>2. RouteInit => HonouredInv
  <2>1. RouteInit => RouteInv
    BY InitInv
  <2>2. RouteInit => DueInv /\ QuoteIsPaid
    BY DEF RouteInit, DueInv, QuoteIsPaid
  <2>3. QED BY <2>1, <2>2 DEF HonouredInv
<1>3. QED BY <1>1, <1>2, PaidStepInv, PTL DEF RouteSpec
=============================================================================
