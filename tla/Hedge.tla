-------------------------------- MODULE Hedge --------------------------------
(***************************************************************************)
(* The hedge leg (hedge/, run_hedge and hedge_pass in main.rs): a task of  *)
(* its own that compares what the pool holds with what it believes the     *)
(* venue holds against it, and crosses what leaves the band, one order per *)
(* pair and pass. Live pairs send market orders to Binance, paper pairs    *)
(* write them into a book of this process. It reads the view that the      *)
(* killswitches' marks read (RiskMarks) and is told of nothing else, so    *)
(* prices and marks stand still here; the cycle's skew reads the positions *)
(* it publishes after each pass. Prices and fees of the crossings are left *)
(* out: no decision depends on them.                                       *)
(***************************************************************************)
EXTENDS RiskMarks

CONSTANTS
  Live, Paper,    \* the pairs hedged at the exchange, and on paper
  Carry,          \* hedge.pairs.carry_base
  QtyMin,         \* hedge.pairs.qty_base_min
  OrderMax,       \* hedge.pairs.order_base_max, 0 for no clip
  Lot,            \* base units of the venue's smallest step
  CoolOff,        \* hedge.pairs.cooloff_ms, in ticks
  NoOrder

ASSUME HedgeAssumption ==
  /\ Live \cup Paper \subseteq Pairs /\ Live \cap Paper = {}
  /\ {Carry, QtyMin, OrderMax, CoolOff} \subseteq Nat /\ Lot \in Nat \ {0}
  /\ NoView \notin Nat
  /\ NoOrder \notin [pair : Live, side : {-1, 1}, qty : Nat, filled : Nat \cup {NoView}]

VARIABLES
  pos,            \* positions: what the leg believes it holds, orders under way included
  cool,           \* ticks until a pair's cool-off is over
  quoted,         \* paper pairs whose book was polled at least once
  passing,        \* a pass is sending
  due,            \* its orders not sent yet
  order,          \* the order at the exchange whose answer is awaited
  published,      \* the positions the skew reads, NoView before the first pass
  venue,          \* what the exchange, or the paper book, holds
  misled          \* history: pairs whose execution the leg was not told of

task == <<pos, cool, quoted, passing, due, order, published>>
leg == <<task, venue, misled>>

Hedged == Live \cup Paper
Zero == [p \in Hedged |-> 0]

\* What the exchange may do with an order of which n units can be filled.
Fills(n) == {k \in 0..n : k % Lot = 0}

----------------------------------------------------------------------------
\* derive_band: sqrt(3) times the budget, to three digits.
Width == (Carry * 1732) \div 1000

\* observe: both sides as they stand.
Deviation(p) == view.base[p] + pos[p]
Exposure(p) == Max({Deviation(p), -Deviation(p)})

(* Faulty: back to flat instead of to the edge. *)
PastFlat(p) == IF Exposure(p) > Width THEN Exposure(p) ELSE 0

\* How far the exposure is past the band.
Past(p) == Max({0, Exposure(p) - Width})

Clip(q) == IF OrderMax > 0 THEN Min({q, OrderMax}) ELSE q

Crosses(p) == Width > 0 /\ Past(p) > 0 /\ Past(p) >= QtyMin /\ cool[p] = 0

\* What leaves for the venue: whole lots, never rounded up.
Lots(q) == (q \div Lot) * Lot

OrderFor(p) ==
  [pair |-> p, side |-> IF Deviation(p) > 0 THEN -1 ELSE 1, qty |-> Clip(Past(p))]

Sent(o) == [pair |-> o.pair, side |-> o.side, qty |-> o.qty, filled |-> NoView]

----------------------------------------------------------------------------
HedgeInit ==
  /\ Init
  /\ pos = Zero /\ cool = Zero /\ quoted = {}
  /\ passing = FALSE /\ due = {} /\ order = NoOrder
  /\ published = NoView /\ venue = Zero /\ misled = {}

\* The pool is traded, at whatever price, and read beside the leg.
Traded ==
  /\ Read \/ \E p \in Pairs, d \in {-1, 1} : Fill(p, d, CHOOSE c \in Costs : TRUE)
  /\ UNCHANGED leg

HedgeTick ==
  /\ up
  /\ cool' = [p \in Hedged |-> Max({0, cool[p] - 1})]
  /\ UNCHANGED <<vars, pos, quoted, passing, due, order, venue, published, misled>>

\* The books are polled, a failed one keeps what it had; then every band decides.
Pass ==
  /\ up /\ view # NoView /\ ~passing
  /\ \E polled \in SUBSET Paper : quoted' = quoted \cup polled
  /\ due' = {OrderFor(p) : p \in {q \in Hedged : Crosses(q)}}
  /\ passing' = TRUE
  /\ UNCHANGED <<vars, pos, cool, order, venue, published, misled>>

\* An order smaller than the venue's step is dropped before it is committed.
Skip(o) ==
  /\ up /\ order = NoOrder /\ o \in due /\ Lots(o.qty) = 0
  /\ due' = due \ {o}
  /\ UNCHANGED <<vars, pos, cool, quoted, passing, order, venue, published, misled>>

\* The exposure is taken when the order leaves.
Send(o) ==
  /\ up /\ order = NoOrder /\ o \in due /\ o.pair \in Live /\ Lots(o.qty) > 0
  /\ due' = due \ {o} /\ order' = Sent(o)
  /\ pos' = [pos EXCEPT ![o.pair] = @ + o.side * o.qty]
  /\ UNCHANGED <<vars, cool, quoted, passing, venue, published, misled>>

\* Paper::write: a pair whose book was never polled is refused and backed out.
Write(o) ==
  /\ up /\ order = NoOrder /\ o \in due /\ o.pair \in Paper /\ Lots(o.qty) > 0
  /\ due' = due \ {o}
  /\ IF o.pair \in quoted
       THEN /\ pos' = [pos EXCEPT ![o.pair] = @ + o.side * o.qty]
            /\ venue' = [venue EXCEPT ![o.pair] = @ + o.side * Lots(o.qty)]
            /\ cool' = [cool EXCEPT ![o.pair] = CoolOff]
       ELSE UNCHANGED <<pos, venue, cool>>
  /\ UNCHANGED <<vars, quoted, passing, order, published, misled>>

\* The exchange executes all of the order or a part.
Execute ==
  /\ order # NoOrder /\ order.filled = NoView
  /\ \E k \in Fills(Lots(order.qty)) :
       /\ order' = [order EXCEPT !.filled = k]
       /\ venue' = [venue EXCEPT ![order.pair] = @ + order.side * k]
  /\ UNCHANGED <<vars, pos, cool, quoted, passing, due, published, misled>>

(* Faulty: the commitment stands whatever was filled. *)
AsAsked(o) == 0

\* The commitment becomes what was filled.
Correction(o) == o.side * (o.filled - o.qty)

Answered ==
  /\ up /\ order # NoOrder /\ order.filled # NoView
  /\ pos' = [pos EXCEPT ![order.pair] = @ + Correction(order)]
  /\ cool' = [cool EXCEPT ![order.pair] = CoolOff]
  /\ order' = NoOrder
  /\ UNCHANGED <<vars, quoted, passing, due, venue, published, misled>>

\* A rejection, or an error on the way: the commitment comes back off and no
\* cool-off is armed. An error may hide an execution; once per pair (a bound).
Failed ==
  /\ up /\ order # NoOrder
  /\ order.filled \in {NoView, 0} \/ order.pair \notin misled
  /\ pos' = [pos EXCEPT ![order.pair] = @ - order.side * order.qty]
  /\ misled' = IF order.filled \in {NoView, 0} THEN misled ELSE misled \cup {order.pair}
  /\ order' = NoOrder
  /\ UNCHANGED <<vars, cool, quoted, passing, due, venue, published>>

\* The pass is over, and its positions are published.
Publish ==
  /\ up /\ passing /\ due = {} /\ order = NoOrder
  /\ passing' = FALSE /\ published' = pos
  /\ UNCHANGED <<vars, pos, cool, quoted, due, order, venue, misled>>

\* The process ends, an order that is out may be executed yet.
HedgeStop ==
  /\ Stop
  /\ \E k \in IF order # NoOrder /\ order.filled = NoView THEN Fills(Lots(order.qty)) ELSE {0} :
       venue' = IF order = NoOrder THEN venue
                ELSE [venue EXCEPT ![order.pair] = @ + order.side * k]
  /\ passing' = FALSE /\ due' = {} /\ order' = NoOrder
  /\ published' = NoView
  /\ UNCHANGED <<pos, cool, quoted, misled>>

\* The leg starts with an empty book: it does not ask the exchange what it holds.
HedgeStart ==
  /\ Start
  /\ pos' = Zero /\ cool' = Zero /\ quoted' = {}
  /\ venue' = [p \in Hedged |-> IF p \in Live THEN venue[p] ELSE 0]
  /\ misled' = misled \cup {p \in Live : venue[p] # 0}
  /\ UNCHANGED <<passing, due, order, published>>

HedgeNext ==
  \/ Traded \/ HedgeTick
  \/ Pass \/ (\E o \in due : Skip(o) \/ Send(o) \/ Write(o))
  \/ Execute \/ Answered \/ Failed \/ Publish
  \/ HedgeStop \/ HedgeStart

HedgeSpec == HedgeInit /\ [][HedgeNext]_<<vars, leg>>

----------------------------------------------------------------------------
Believed == Live \ misled

\* The leg never asks the exchange for its position, so what it believes is all
\* there is: unless an execution was reported as an error, or a process before
\* this one left a position behind, the belief is the exchange's position, with
\* the whole order added while one is out, and between passes so is what the
\* skew reads (main.rs 1546-1550, 1773-1775, 1899-1935).
HedgeBookTrue ==
  up => \A p \in Believed :
    LET out == order # NoOrder /\ order.pair = p
        executed == IF out /\ order.filled # NoView THEN order.filled ELSE 0
    IN /\ pos[p] = venue[p] + (IF out THEN order.side * (order.qty - executed) ELSE 0)
       /\ ~passing /\ published # NoView => published[p] = venue[p]

\* However views, partial fills, rejections and cool-offs follow each other, one
\* holding is hedged once: the exchange is never long, and never short by more
\* than the largest holding there can have been, less the band (hedge/mod.rs
\* 94-107).
HedgeOnlyOffsets ==
  \A p \in Believed : -Max({0, InitBase + fills - Width}) <= venue[p] /\ venue[p] <= 0
=============================================================================
