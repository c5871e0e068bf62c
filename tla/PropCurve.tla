----------------------------- MODULE PropCurve -----------------------------
(***************************************************************************)
(* The pricing curve of contracts/src/libraries/PropCurve.sol: a side of    *)
(* the book prices linearly from one end of its ladder to the other over    *)
(* its capacity, and a trade of the interval [u, u + q] pays the average.   *)
(*                                                                         *)
(* A side is [low, high, cap, used]: its two ladder prices, its capacity    *)
(* and how much of it the epoch has consumed.  `s` is 10 ^ priceScaleExp.   *)
(* The two forward conversions are the library's formulas; the two inverse  *)
(* ones are stated by what they return (CurveSearch models how).            *)
(***************************************************************************)
EXTENDS Integers, FiniteSetsExt

CeilDiv(a, b) == (a + b - 1) \div b

Span(side) == side.high - side.low
Room(side) == side.cap - side.used

(* _bidGross: quote paid for q of base, rounded down. *)
BidGross(q, side, s) ==
    (q * (2 * side.high * side.cap - Span(side) * (2 * side.used + q)))
        \div (2 * side.cap * s)

(* Faulty: the charge rounded down. *)
AskCostDown(q, side, s) ==
    (q * (2 * side.low * side.cap + Span(side) * (2 * side.used + q)))
        \div (2 * side.cap * s)

(* _askCost: quote charged for q of base, rounded up. *)
AskCost(q, side, s) ==
    CeilDiv(q * (2 * side.low * side.cap + Span(side) * (2 * side.used + q)),
            2 * side.cap * s)

(* Exact-in bid and exact-out ask are the formulas themselves. *)
AmountOutBid(x, side, s) == BidGross(x, side, s)
AmountInAsk(q, side, s)  == AskCost(q, side, s)

(* Exact-out bid: the least base that buys y of quote. *)
AmountInBid(y, side, s) == Min({x \in 1 .. Room(side) : BidGross(x, side, s) >= y})

(* Exact-in ask: the most base that x of quote pays for. *)
AmountOutAsk(x, side, s) == Max({q \in 0 .. Room(side) : AskCost(q, side, s) <= x})

(* validateLadder: ordered, not a single point, and not below the floor. *)
ValidLadder(l, minPrice) ==
    /\ l.minBid >= minPrice
    /\ l.maxAsk >= l.minAsk /\ l.minAsk >= l.maxBid /\ l.maxBid >= l.minBid
    /\ l.maxAsk > l.minBid

=============================================================================
