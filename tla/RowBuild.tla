------------------------------ MODULE RowBuild ------------------------------
(***************************************************************************)
(* From a reference price to a row of four prices, as the updater's cycle   *)
(* does it (ladder.rs of the updater; inverse.rs and ladder.rs of dubu-core;*)
(* spread.rs and skew.rs): the epoch is sized by a search on a flat ladder  *)
(* at the reference, the book is widened and skewed, and each side is       *)
(* solved for the widest ladder that pays its target on average.  The       *)
(* search is the one of CurveSearch, and both directions of it stay.        *)
(*                                                                         *)
(* A basis point is one part in Bps, and a fine unit one part in Bps * Fine. *)
(* Prices above PriceMax do not fit the row; amounts are as in CurveSearch. *)
(***************************************************************************)
EXTENDS CurveSearch

CONSTANTS
    Bps, Fine,    \* parts of a price in one unit of skew, of spread per skew
    PriceMax,
    Configured,   \* capacities the operator may ask for, on either side
    Bases,        \* base the pool may hold above its reserve
    OnChain,      \* the epoch the chain holds: its capacities, zero for none
    Captures,     \* sizes the targets must hold over
    MinPrices,    \* the pair's floor
    Spreads,      \* configured spread and volatility term, in fine units
    SpreadCap,    \* their ceiling
    Degraded,     \* widenings of an unhealthy chain, whole basis points
    RawSkews,     \* the model's skew, in tenths of a basis point
    SkewUp,       \* the largest skew down the book (positive) ...
    SkewDown,     \* ... and up the book
    Widths        \* requested widths, in fine units

ASSUME RowAssumption ==
    /\ {Bps, Fine, PriceMax} \subseteq Nat \ {0} /\ Captures \subseteq Nat
    /\ Configured \subseteq 0 .. MaxCapacity /\ Bases \subseteq Nat
    /\ OnChain \subseteq [bid : Nat, ask : Nat]
    /\ MinPrices \subseteq 0 .. PriceMax /\ Widths \subseteq Nat
    /\ Spreads \subseteq [s0 : Nat, vol : Nat] /\ Degraded \subseteq Nat
    /\ {SpreadCap, SkewUp, SkewDown} \subseteq Nat /\ RawSkews \subseteq Int

VARIABLES
    stage,  \* searching, planned, shaped, solved, built or dropped
    plan,   \* the epoch the pool can honour, and the capacities the row is solved for
    shape,  \* the skew, the mid, and the two targets
    row     \* the two solved sides

rowVars == <<stage, plan, shape, row>>
allVars == <<searchVars, rowVars>>

FineBps == Bps * Fine

Least(a, b)    == IF a <= b THEN a ELSE b
Greatest(a, b) == IF a >= b THEN a ELSE b

(* The search the planner makes: a flat ladder at the reference, nothing     *)
(* used, with room for every amount.  The budget is what it asks for.       *)
FlatBid == /\ way = "bid" /\ side.low = side.high /\ side.high \in 1 .. PriceMax
           /\ side.used = 0 /\ side.cap = MaxCapacity

fair   == side.high
budget == target

RInit == SearchInit /\ stage = "searching" /\ plan = <<>> /\ shape = <<>> /\ row = <<>>

Search == SearchNext /\ UNCHANGED rowVars

(* Faulty: the amount that spends the budget, or more. *)
AffordableWhole == IF pc = "reverted" THEN MaxCapacity ELSE hi

(* One less than the least amount that costs the budget, or than any there is. *)
Affordable == (IF pc = "reverted" THEN MaxCapacity ELSE hi) - 1

(* The row is solved for the epoch the chain holds, if it holds one. *)
InForce(held, planned) == IF held = 0 THEN planned ELSE held

(* plan_capacity: what was configured, cut to what the pool can settle. *)
Plan ==
    /\ stage = "searching" /\ pc \in {"returned", "reverted"} /\ FlatBid
    /\ \E want \in Configured, base \in Bases, held \in OnChain :
          LET bid == Least(want, Affordable)
              ask == Least(want, base)
          IN  plan' = [bid |-> bid, ask |-> ask, rowBid |-> InForce(held.bid, bid),
                       rowAsk |-> InForce(held.ask, ask)]
    /\ stage' = "planned"
    /\ UNCHANGED <<searchVars, shape, row>>

(* spread::compute: the widening of a degraded chain is above the cap. *)
HalfSpread(spread, extra) ==
    LET wanted == spread.s0 + spread.vol
        capped == IF wanted > SpreadCap THEN Greatest(SpreadCap, spread.s0) ELSE wanted
    IN  Least(capped + extra * Fine, FineBps - 1)

(* Faulty: the spread handed to the cap in whole basis points, rounded down. *)
WholeBpsDown(half) == Least(half \div Fine, Bps - 1)

WholeBps(half) == Least(CeilDiv(half, Fine), Bps - 1)

(* price_cap_bps_min: how far down the book may go and still clear the floor. *)
FloorCap(half, minPrice) ==
    LET midMin == CeilDiv(minPrice * Bps, Bps - WholeBps(half)) + 1
    IN  IF fair <= midMin THEN 0
        ELSE Least(Greatest(Bps - CeilDiv(midMin * Bps, fair), 0), Bps - 1)

(* Halves go away from zero. *)
RoundedSkew(raw) == IF raw >= 0 THEN (raw + 5) \div 10 ELSE -((5 - raw) \div 10)

Applied(raw, cap) == Greatest(-SkewDown, Least(RoundedSkew(raw), Least(SkewUp, cap)))

(* skewed_mid: a positive skew moves the book down. *)
SkewedMid(skew) == Greatest(1, Least((fair * (Bps - skew)) \div Bps, PriceMax))

BidTarget(mid, half) == (mid * (FineBps - half)) \div FineBps
AskTarget(mid, half) == CeilDiv(mid * (FineBps + half), FineBps)

(* The spread, then the skew against the floor, then build's own inputs: a  *)
(* row with no capacity on a side, or with a target off the price range, is *)
(* dropped.                                                                *)
Shape ==
    /\ stage = "planned"
    /\ \E spread \in Spreads, extra \in Degraded, raw \in RawSkews, minPrice \in MinPrices :
          LET half == HalfSpread(spread, extra)
              skew == Applied(raw, FloorCap(half, minPrice))
              mid  == SkewedMid(skew)
          IN  shape' = [skew |-> skew, mid |-> mid, minPrice |-> minPrice,
                        bid |-> BidTarget(mid, half), ask |-> AskTarget(mid, half)]
    /\ stage' = IF /\ plan.rowBid > 0 /\ plan.rowAsk > 0
                   /\ shape'.ask <= PriceMax /\ shape'.bid > 0
                THEN "shaped" ELSE "dropped"
    /\ UNCHANGED <<searchVars, plan, row>>

-----------------------------------------------------------------------------
(* Faulty: the bound on the near price without its correction. *)
BoundaryLoose(cap, headroom, capture) ==
    IF capture = 0 THEN PriceMax ELSE (2 * cap * (headroom + 1)) \div capture

(* The widest ladder whose near price, moved by the impact rounded down,    *)
(* stays within the headroom.                                              *)
Boundary(cap, headroom, capture) ==
    IF capture = 0 THEN PriceMax ELSE (2 * cap * (headroom + 1) - 1) \div capture

(* The widest whose far price does. *)
Endpoint(cap, headroom, capture) == (headroom * 2 * cap) \div (2 * cap - capture)

WidestWidth(capture, cap, nearRoom, farRoom, wanted) ==
    Min({PriceMax, wanted, Boundary(cap, nearRoom, capture), Endpoint(cap, farRoom, capture)})

(* Faulty: rounded up, which the realised average hides. *)
ImpactUp(width, capture, cap) == CeilDiv(width * capture, 2 * cap)

Impact(width, capture, cap) == (width * capture) \div (2 * cap)

(* What the solver refuses. *)
Solvable(i) == /\ i.cap > 0 /\ {i.target, i.minPrice, i.maxPrice} \subseteq 0 .. PriceMax
               /\ i.minPrice <= i.target /\ i.target <= i.maxPrice

SolveBid(i) ==
    LET capture == Least(i.capture, i.cap)
        width   == WidestWidth(capture, i.cap, i.maxPrice - i.target, i.target - i.minPrice, i.wanted)
        high    == i.target + Impact(width, capture, i.cap)
    IN  [low |-> high - width, high |-> high, cap |-> i.cap, used |-> 0, size |-> capture]

SolveAsk(i) ==
    LET capture == Least(i.capture, i.cap)
        width   == WidestWidth(capture, i.cap, i.target - i.minPrice, i.maxPrice - i.target, i.wanted)
        low     == i.target - Impact(width, capture, i.cap)
    IN  [low |-> low, high |-> low + width, cap |-> i.cap, used |-> 0, size |-> capture]

(* Sides that cross are reconciled by lifting the ask. *)
Lifted(bid, ask) ==
    LET low  == Greatest(ask.low, bid.high)
        high == Greatest(ask.high, low)
    IN  [ask EXCEPT !.low = low, !.high = IF high <= bid.low THEN bid.low + 1 ELSE high]

RowOf(bid, ask) == [minBid |-> bid.low, maxBid |-> bid.high, minAsk |-> ask.low, maxAsk |-> ask.high]

(* The realised averages build recomputes, away from the taker. *)
AvgBid(b) == b.high - CeilDiv((b.high - b.low) * b.size, 2 * b.cap)
AvgAsk(a) == a.low + CeilDiv((a.high - a.low) * a.size, 2 * a.cap)

(* The bid may not be lifted above the mid, nor the ask pushed below it. *)
BidIn(capture, width) ==
    [target |-> shape.bid, capture |-> capture, cap |-> plan.rowBid, minPrice |-> shape.minPrice,
     maxPrice |-> shape.mid, wanted |-> (shape.bid * width) \div FineBps]
AskIn(capture, width) ==
    [target |-> shape.ask, capture |-> capture, cap |-> plan.rowAsk,
     minPrice |-> Greatest(shape.minPrice, shape.mid), maxPrice |-> PriceMax,
     wanted |-> (shape.ask * width) \div FineBps]

(* The two fills build tries: the capture sold into the bid pays something,  *)
(* and the capture bought from the ask costs something.                    *)
BidFills(b) == BidGross(b.size, b, s) > 0
AskFills(a) == AskCost(a.size, a, s) > 0

(* The checks build makes of what it solved. *)
Checked(bid, ask) ==
    /\ ask.low <= PriceMax /\ ask.high <= PriceMax
    /\ ValidLadder(RowOf(bid, ask), shape.minPrice)
    /\ AvgBid(bid) <= shape.bid /\ AvgAsk(ask) >= shape.ask
    /\ BidFills(bid) /\ AskFills(ask)

Solve ==
    /\ stage = "shaped"
    /\ \E capture \in Captures, width \in Widths :
          \E bidIn \in {BidIn(capture, width)}, askIn \in {AskIn(capture, width)} :
             IF Solvable(bidIn) /\ Solvable(askIn)
             THEN /\ row' = [bid |-> SolveBid(bidIn), ask |-> SolveAsk(askIn),
                             bidIn |-> bidIn, askIn |-> askIn]
                  /\ stage' = "solved"
             ELSE stage' = "dropped" /\ row' = row
    /\ UNCHANGED <<searchVars, plan, shape>>

Build ==
    /\ stage = "solved"
    /\ row' = [row EXCEPT !.ask = Lifted(row.bid, row.ask)]
    /\ stage' = IF Checked(row'.bid, row'.ask) THEN "built" ELSE "dropped"
    /\ UNCHANGED <<searchVars, plan, shape>>

RNext == Search \/ Plan \/ Shape \/ Solve \/ Build

RSpec == RInit /\ [][RNext]_allVars

-----------------------------------------------------------------------------
(* The solver's bound is exact (inverse.rs 132-181): both prices of a side   *)
(* stay within the bounds it was given, and one unit wider, when that was   *)
(* asked for, would break one of them.  The correction of one belongs to    *)
(* whichever bound rounds down.  And a solved row is never dropped for its  *)
(* own shape: its ask lifted, it passes the pool's validator and the        *)
(* recomputed averages (inverse.rs 325-365, updater ladder.rs 239-284).     *)
Within(low, high, i) == i.minPrice <= low /\ high <= i.maxPrice

SolverTight ==
    stage = "solved" =>
        /\ Within(row.bid.low, row.bid.high, row.bidIn)
        /\ Within(row.ask.low, row.ask.high, row.askIn)
        /\ LET wider == Span(row.bid) + 1
               high  == shape.bid + Impact(wider, row.bid.size, plan.rowBid)
           IN  \/ Span(row.bid) = Least(row.bidIn.wanted, PriceMax)
               \/ ~Within(high - wider, high, row.bidIn)
        /\ LET wider == Span(row.ask) + 1
               low   == shape.ask - Impact(wider, row.ask.size, plan.rowAsk)
           IN  \/ Span(row.ask) = Least(row.askIn.wanted, PriceMax)
               \/ ~Within(low, low + wider, row.askIn)
        /\ LET ask == Lifted(row.bid, row.ask)
           IN  /\ ValidLadder(RowOf(row.bid, ask), shape.minPrice)
               /\ AvgBid(row.bid) <= shape.bid /\ AvgAsk(ask) >= shape.ask

(* A built row never trades the capture better than its target, at the      *)
(* amounts the pool itself computes (inverse.rs 1-50, updater ladder.rs     *)
(* 264-284): build's own check recomputes the average rounded away from the *)
(* taker, which an impact rounded the wrong way slips through.             *)
CaptureAtTarget ==
    stage = "built" =>
        /\ BidGross(row.bid.size, row.bid, s) <= (row.bid.size * shape.bid) \div s
        /\ AskCost(row.ask.size, row.ask, s) >= CeilDiv(row.ask.size * shape.ask, s)

(* A skew that lowers the book is clamped so that the bid it leads to still *)
(* clears the pair's floor (skew.rs 452-491, main.rs 2608-2611): the cap is *)
(* computed in whole basis points and the bid in fine ones, with three      *)
(* roundings between them.                                                 *)
SkewLeavesTheFloor ==
    shape # <<>> /\ shape.skew > 0 => shape.bid >= shape.minPrice

(* A fresh epoch whose row is not lifted can be bought whole with the quote *)
(* the planner budgeted (updater ladder.rs 360-410, main.rs 2464-2473): the *)
(* budget is spent at the flat reference, the row pays along its own ladder, *)
(* which may have been solved for the capacity of the epoch before.         *)
EpochIsPayable ==
    stage = "built" /\ shape.skew >= 0 /\ plan.bid > 0 =>
        BidGross(plan.bid, [row.bid EXCEPT !.cap = plan.bid], s) <= budget

=============================================================================
