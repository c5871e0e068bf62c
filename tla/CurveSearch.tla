---------------------------- MODULE CurveSearch ----------------------------
(***************************************************************************)
(* The two searches of curve.rs, amount_in_bid and amount_out_ask, which    *)
(* repeat those of PropCurve.sol statement for statement: a bracket seeded  *)
(* from the ladder's two prices, three rounds of refinement from the        *)
(* average price at the bracket's ends, then bisection.  Every step is one  *)
(* iteration of a loop.  A seed too large for its type is cut to the        *)
(* bracket, so the width of the integers is left out.                      *)
(***************************************************************************)
EXTENDS PropCurve

CONSTANTS
    LadderPrices, \* the ladder prices tried
    Scales,       \* the values of 10 ^ priceScaleExp tried
    MaxCapacity,  \* bound: capacities 1 .. MaxCapacity
    MaxTarget     \* bound: the amount asked for

ASSUME CurveAssumption ==
    /\ LadderPrices \subseteq Nat /\ Scales \subseteq Nat \ {0}
    /\ MaxCapacity \in Nat \ {0} /\ MaxTarget \in Nat

VARIABLES
    way,     \* "bid": amount_in_bid; "ask": amount_out_ask
    target,  \* the amount given: quote out of a bid, quote into an ask
    side,    \* the side of the book
    s,       \* the scale
    pc,      \* called, refining, bisecting, returned, reverted
    round,   \* refinement rounds done
    lo, hi   \* the bracket

searchVars == <<way, target, side, s, pc, round, lo, hi>>

Sides == {d \in [low : LadderPrices, high : LadderPrices, cap : 1 .. MaxCapacity, used : 0 .. MaxCapacity] :
              d.low <= d.high /\ d.used <= d.cap}

Scaled == target * s

(* What the bisections ask of an amount: whether it buys the target, or      *)
(* whether the target pays for it.                                         *)
Buys(q)    == BidGross(q, side, s) >= target
PaidFor(q) == AskCost(q, side, s) <= target

SearchInit ==
    /\ way \in {"bid", "ask"} /\ target \in 1 .. MaxTarget
    /\ side \in Sides /\ s \in Scales
    /\ pc = "called" /\ round = 0 /\ lo = 0 /\ hi = 0

(* The guards of both functions: no room, no price, or more than the room is *)
(* worth.                                                                  *)
Exceeds ==
    \/ side.used >= side.cap
    \/ way = "bid" /\ ~Buys(Room(side))
    \/ way = "ask" /\ (side.high = 0 \/ AskCost(Room(side), side, s) < target)

Revert ==
    /\ pc = "called" /\ Exceeds
    /\ pc' = "reverted"
    /\ UNCHANGED <<way, target, side, s, round, lo, hi>>

(* amount_out_ask returns the whole room when the input pays for exactly it. *)
WholeRoom ==
    /\ pc = "called" /\ way = "ask" /\ ~Exceeds
    /\ AskCost(Room(side), side, s) = target
    /\ pc' = "returned" /\ lo' = Room(side) /\ hi' = Room(side)
    /\ UNCHANGED <<way, target, side, s, round>>

(* The first bracket of a bid: the best price bounds it below, the worst    *)
(* above, each only if it falls inside what is already known.               *)
SeedBid ==
    /\ pc = "called" /\ way = "bid" /\ ~Exceeds
    /\ LET best  == CeilDiv(Scaled, side.high)
           worst == CeilDiv(Scaled, side.low)
       IN  /\ lo' = IF best > 1 /\ best <= Room(side) THEN best ELSE 1
           /\ hi' = IF side.low # 0 /\ worst >= lo' /\ worst < Room(side) THEN worst ELSE Room(side)
    /\ pc' = "refining" /\ UNCHANGED <<way, target, side, s, round>>

(* The first bracket of an ask, below the whole room. *)
SeedAsk ==
    /\ pc = "called" /\ way = "ask" /\ ~Exceeds
    /\ AskCost(Room(side), side, s) # target
    /\ LET most  == Room(side) - 1
           worst == Scaled \div side.high
           best  == Scaled \div side.low
       IN  /\ lo' = IF worst > most THEN most ELSE worst
           /\ hi' = IF side.low # 0 /\ best < most /\ best >= lo' THEN best ELSE most
    /\ pc' = "refining" /\ UNCHANGED <<way, target, side, s, round>>

Refining == pc = "refining" /\ round < 3 /\ lo < hi

(* The average price, rounded down, of what the epoch took and q more. *)
Drift(q) == Span(side) * (2 * side.used + q)
Den      == 2 * side.cap

(* One round of refine_bid_bracket. *)
RefineBid ==
    /\ Refining /\ way = "bid" /\ round' = round + 1
    /\ LET above == side.high - Drift(lo) \div Den
           seed  == CeilDiv(Scaled, above)
           below == side.high - CeilDiv(Drift(hi), Den)
           cut   == CeilDiv(Scaled, below)
           least == IF seed > hi THEN hi ELSE seed
       IN  /\ lo' = IF above # 0 /\ least > lo THEN least ELSE lo
           /\ hi' = IF below # 0 /\ cut < hi /\ cut >= lo' THEN cut ELSE hi
    /\ UNCHANGED <<way, target, side, s, pc>>

(* One round of refine_ask_bracket: the upper end first, then the lower. *)
RefineAsk ==
    /\ Refining /\ way = "ask" /\ round' = round + 1
    /\ LET below == side.low + Drift(lo) \div Den
           cut   == Scaled \div below
       IN  hi' = IF below # 0 /\ cut < hi THEN cut ELSE hi
    /\ LET above == side.low + CeilDiv(Drift(hi'), Den)
           seed  == Scaled \div above
           most  == IF seed > hi' THEN hi' ELSE seed
       IN  lo' = IF above # 0 /\ most > lo THEN most ELSE lo
    /\ UNCHANGED <<way, target, side, s, pc>>

Refined ==
    /\ pc = "refining" /\ ~(round < 3 /\ lo < hi)
    /\ pc' = "bisecting"
    /\ UNCHANGED <<way, target, side, s, round, lo, hi>>

(* Faulty: an exact hit is searched past. *)
BisectBidStrict ==
    /\ pc = "bisecting" /\ way = "bid" /\ lo < hi
    /\ LET mid == lo + (hi - lo) \div 2
       IN  IF BidGross(mid, side, s) > target
           THEN hi' = mid /\ lo' = lo
           ELSE lo' = mid + 1 /\ hi' = hi
    /\ UNCHANGED <<way, target, side, s, pc, round>>

(* amount_in_bid looks for the first amount that buys the target... *)
BisectBid ==
    /\ pc = "bisecting" /\ way = "bid" /\ lo < hi
    /\ LET mid == lo + (hi - lo) \div 2
       IN  IF Buys(mid)
           THEN hi' = mid /\ lo' = lo
           ELSE lo' = mid + 1 /\ hi' = hi
    /\ UNCHANGED <<way, target, side, s, pc, round>>

(* ... and amount_out_ask for the last amount the target pays for. *)
BisectAsk ==
    /\ pc = "bisecting" /\ way = "ask" /\ lo < hi
    /\ LET mid == lo + (hi - lo + 1) \div 2
       IN  IF PaidFor(mid)
           THEN lo' = mid /\ hi' = hi
           ELSE hi' = mid - 1 /\ lo' = lo
    /\ UNCHANGED <<way, target, side, s, pc, round>>

Return ==
    /\ pc = "bisecting" /\ ~(lo < hi)
    /\ pc' = "returned"
    /\ UNCHANGED <<way, target, side, s, round, lo, hi>>

SearchNext ==
    \/ Revert \/ WholeRoom \/ SeedBid \/ SeedAsk \/ RefineBid \/ RefineAsk
    \/ Refined \/ BisectBid \/ BisectAsk \/ Return

SearchSpec == SearchInit /\ [][SearchNext]_searchVars

-----------------------------------------------------------------------------
(* The bracket stays in the naturals, and no search refines more than three   *)
(* times (curve.rs 455-508, 732-784).                                      *)
SearchTypeOK ==
    /\ way \in {"bid", "ask"} /\ target \in 1 .. MaxTarget /\ side \in Sides /\ s \in Scales
    /\ pc \in {"called", "refining", "bisecting", "returned", "reverted"}
    /\ round \in 0 .. 3 /\ lo \in Nat /\ hi \in Nat

(* What the search is for, by definition. *)
Expected == IF way = "bid" THEN AmountInBid(target, side, s) ELSE AmountOutAsk(target, side, s)

(* The two searches return what they are defined to return: the least input *)
(* that buys the output, the greatest output the input pays for.  And no    *)
(* seed, refinement or halving inverts the bracket or takes it out of the   *)
(* room, which the asserts of curve.rs demand (442-447, 503-507, 717-720,   *)
(* 781-782), whatever is rounded on the way.                               *)
ReturnsExpected ==
    /\ pc \in {"refining", "bisecting"} => 0 <= lo /\ lo <= hi /\ hi <= Room(side)
    /\ pc = "returned" => (IF way = "bid" THEN hi ELSE lo) = Expected

=============================================================================
