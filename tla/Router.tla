------------------------------- MODULE Router -------------------------------
(***************************************************************************)
(* Router.sol with its adapters, and the aggregator that builds its plans.  *)
(*                                                                         *)
(* A plan is a sequence of batches, a batch a sequence of hops, a hop a     *)
(* sequence of steps that each send a share of the hop's input to a venue.  *)
(* A call pulls the input, runs one step at a time (a token may call back   *)
(* at each, and give tokens to anybody), measures what it gained, pays it   *)
(* and refunds what was not spent, or reverts.  The venues are one pair of  *)
(* the proprietary pool, two UniswapV2 pairs and one signed order; a weight *)
(* counts tenths instead of basis points (W is WEIGHT_DENOMINATOR).         *)
(***************************************************************************)
EXTENDS PropCurve, Sequences, FiniteSets, Functions

CONSTANTS
    Tokens,
    Venues,     \* name -> [kind, base, quote]: the pool words of the steps; token0
                \* and token1 are the base and quote of a UniswapV2 pair
    Plans,      \* plans written by hand, for swapExactIn and swapExactOut
    Requests,   \* what the aggregator is asked: [in, out, amount]
    Ladder,     \* the pushed row of the proprietary pair and its capacities
    Offers,     \* maker amounts an RFQ maker answers with
    Slippage,   \* tenths of the quote the caller gives up
    InitFunds,  \* token -> holder -> amount
    Gifts,      \* amounts given in a callback
    W,          \* WEIGHT_DENOMINATOR
    NoOrder, NoCall,
    MaxGifts, MaxCalls   \* bounds

\* Who a venue's name never is.
Parties == {"user", "receiver", "router", "pmmAdapter", "ammAdapter", "maker"}

StepType  == [venue : DOMAIN Venues \cup {"pmm"}, weight : Nat, reverse : BOOLEAN, fund : BOOLEAN]
HopType   == [tokenIn : Tokens, steps : Seq(StepType)]
BatchType == [weight : Nat, hops : Seq(HopType)]
PlanType  == [tokenIn : Tokens, tokenOut : Tokens, amountIn : Nat, batches : Seq(BatchType)]

ASSUME RouterAssumption ==
    /\ "pmm" \notin DOMAIN Venues /\ \A v \in DOMAIN Venues : v \notin Parties
    /\ \A v \in DOMAIN Venues :
           /\ Venues[v].kind \in {"prop", "uni"} /\ {Venues[v].base, Venues[v].quote} \subseteq Tokens
           /\ Venues[v].base # Venues[v].quote
    /\ Ladder \in [minBid : Nat, maxBid : Nat, minAsk : Nat, maxAsk : Nat, bidCap : Nat \ {0}, askCap : Nat \ {0}]
    /\ Ladder.minBid <= Ladder.maxBid /\ Ladder.minAsk <= Ladder.maxAsk
    /\ Plans \subseteq PlanType /\ Requests \subseteq [in : Tokens, out : Tokens, amount : Nat \ {0}]
    /\ Offers \cup Gifts \subseteq Nat /\ W \in Nat \ {0} /\ Slippage \in Nat
    /\ InitFunds \in [Tokens -> [Parties \cup DOMAIN Venues -> Nat]]

Holders == Parties \cup DOMAIN Venues

VARIABLES
    bal,      \* the tokens' books
    reserve,  \* what every pool accounts for
    used,     \* the proprietary pair's used word, per side
    order,    \* the maker's signed order and how much of it is filled
    quote,    \* the aggregator's answer, not yet submitted, or NoCall
    pc,       \* idle, running, settling, paid
    call,     \* the call under way or last paid: plan, least output, book at its start
    at,       \* where the call is: loop indices and the locals of the loops
    gifts,    \* history: tokens given to the router during the call
    gifted, calls   \* bounds

venues == <<reserve, used, order>>
routeVars == <<bal, venues, quote, pc, call, at, gifts, gifted, calls>>

-----------------------------------------------------------------------------
(* Tokens and pools. *)
Moved(b, t, from, to, x) ==
    [b EXCEPT ![t] = [h \in Holders |-> b[t][h] - (IF h = from THEN x ELSE 0)
                                               + (IF h = to THEN x ELSE 0)]]

TokenIn(v, reverse)  == IF reverse THEN Venues[v].quote ELSE Venues[v].base
TokenOut(v, reverse) == IF reverse THEN Venues[v].base ELSE Venues[v].quote

(* UniV2Adapter.getAmountOut: the pair keeps a fee of three per mille. *)
UniOut(x, rin, rout) == (x * 997 * rout) \div (rin * 1000 + x * 997)

Side(bid, u) ==
    IF bid THEN [low |-> Ladder.minBid, high |-> Ladder.maxBid, cap |-> Ladder.bidCap, used |-> u.bid]
    ELSE [low |-> Ladder.minAsk, high |-> Ladder.maxAsk, cap |-> Ladder.askCap, used |-> u.ask]

(* What the proprietary pool pays for an input, and what it counts as used:  *)
(* base in for a bid, base out for an ask; zero where it would refuse.      *)
PropOut(x, bid, u) ==
    LET side == Side(bid, u) IN
    IF bid THEN IF x <= Room(side) THEN AmountOutBid(x, side, 1) ELSE 0
    ELSE IF AskCost(Room(side), side, 1) < x THEN 0 ELSE AmountOutAsk(x, side, 1)

AnswerAt(v, reverse, x, res, u) ==
    LET tin == TokenIn(v, reverse) tout == TokenOut(v, reverse) IN
    IF Venues[v].kind = "prop"
    THEN LET y == PropOut(x, ~reverse, u) IN IF y > res[v][tout] THEN 0 ELSE y
    ELSE UniOut(x, res[v][tin], res[v][tout])

Answer(v, reverse, x) == AnswerAt(v, reverse, x, reserve, used)

-----------------------------------------------------------------------------
(* The adapters.  Funded(b) is the book once the step's share has moved; an  *)
(* adapter that cannot complete reverts the call.                          *)

(* UniV2Adapter and PropPoolAdapter: what the pool holds beyond what it      *)
(* accounts for is the input; it pays the router and accounts for both.     *)
PoolLeg(b, v, reverse) ==
    LET tin == TokenIn(v, reverse) tout == TokenOut(v, reverse)
        x   == b[tin][v] - reserve[v][tin]
        y   == Answer(v, reverse, x)
    IN  /\ x > 0 /\ y \in 1 .. reserve[v][tout]
        /\ bal' = Moved(b, tout, v, "router", y)
        /\ reserve' = [reserve EXCEPT ![v][tin] = b[tin][v], ![v][tout] = b[tout][v] - y]
        /\ used' = IF Venues[v].kind # "prop" THEN used
                   ELSE IF reverse THEN [used EXCEPT !.ask = @ + y]
                   ELSE [used EXCEPT !.bid = @ + x]
        /\ UNCHANGED order

Remaining == order.takerAmount - order.filled

(* PmmAdapter: fills as much of the order as it holds tokens for, at the     *)
(* order's terms, and returns the rest to the router.                      *)
PmmLeg(b) ==
    /\ order # NoOrder
    /\ LET held == b[order.takerAsset]["pmmAdapter"]
           x    == IF held < Remaining THEN held ELSE Remaining
           y    == (order.makerAmount * x) \div order.takerAmount
           paid == Moved(b, order.takerAsset, "pmmAdapter", "maker", x)
           got  == Moved(paid, order.makerAsset, "maker", "router", y)
       IN  /\ x > 0 /\ y > 0 /\ y <= b[order.makerAsset]["maker"]
           /\ order' = [order EXCEPT !.filled = @ + x]
           /\ bal' = Moved(got, order.takerAsset, "pmmAdapter", "router", held - x)
    /\ UNCHANGED <<reserve, used>>

-----------------------------------------------------------------------------
(* The loops of _execute, _runBatch and _runHop. *)
SumOf(items) == SumFunctionOnSet([i \in DOMAIN items |-> items[i].weight], DOMAIN items)

(* Every item gets its rounded share; the last of a full split gets the rest. *)
Share(items, i, x, taken) ==
    IF i = Len(items) /\ SumOf(items) = W THEN x - taken ELSE (x * items[i].weight) \div W

Weighed(items) == items # <<>> /\ SumOf(items) <= W

(* RouteDecoder.validateStep *)
ValidStep(step) == step.weight \in 1 .. W /\ step.venue \in DOMAIN Venues \cup {"pmm"}

Before(b, hops, h) == IF h < Len(hops) THEN b[hops[h + 1].tokenIn]["router"] ELSE 0

(* The first step of batch i, of what x leaves of the input. *)
EnterBatch(b, plan, i, x, taken) ==
    LET share == Share(plan.batches, i, x, taken)
        hops  == plan.batches[i].hops
    IN  /\ share > 0 /\ hops # <<>> /\ hops[1].tokenIn = plan.tokenIn
        /\ at' = [batch |-> i, hop |-> 1, step |-> 1, received |-> x, granted |-> taken + share,
                  available |-> share, allocated |-> 0, before |-> Before(b, hops, 1)]

(* _validate *)
Sound(plan) == plan.tokenIn # plan.tokenOut /\ plan.amountIn > 0 /\ plan.batches # <<>>

(* swapExactIn, swapExactOut and their Permit2 forms, up to the first step:  *)
(* the input is pulled, and the output is measured from here on.            *)
Enter(plan, least, most, answer) ==
    /\ Sound(plan) /\ plan.amountIn <= most
    /\ SumOf(plan.batches) <= W
    /\ plan.amountIn <= bal[plan.tokenIn]["user"]
    /\ bal' = Moved(bal, plan.tokenIn, "user", "router", plan.amountIn)
    /\ call' = [plan |-> plan, least |-> least, most |-> most, bal |-> bal,
                reserve |-> reserve, used |-> used, order |-> order, quote |-> answer]
    /\ EnterBatch(bal', plan, 1, plan.amountIn, 0)
    /\ pc' = "running" /\ gifts' = [t \in Tokens |-> 0]
    /\ UNCHANGED venues

Batches == call.plan.batches
Hops    == Batches[at.batch].hops
Hop     == Hops[at.hop]

(* Where the call goes after a step: the next step, the next hop with what   *)
(* the last one gained, the next batch, or the settlement.                  *)
Advance(share) ==
    IF at.step < Len(Hop.steps)
    THEN at' = [at EXCEPT !.step = @ + 1, !.allocated = @ + share] /\ pc' = "running"
    ELSE IF at.hop < Len(Hops)
    THEN LET gained == bal'[Hops[at.hop + 1].tokenIn]["router"] - at.before IN
         /\ gained > 0 /\ pc' = "running"
         /\ at' = [at EXCEPT !.hop = @ + 1, !.step = 1, !.available = gained, !.allocated = 0,
                            !.before = Before(bal', Hops, at.hop + 1)]
    ELSE IF at.batch < Len(Batches)
    THEN EnterBatch(bal', call.plan, at.batch + 1, at.received, at.granted) /\ pc' = "running"
    ELSE at' = at /\ pc' = "settling"

(* One turn of _runHop's second loop, and the loops around it. *)
Step ==
    /\ pc = "running"
    /\ Weighed(Hop.steps) /\ \A i \in DOMAIN Hop.steps : ValidStep(Hop.steps[i])
    /\ LET step   == Hop.steps[at.step]
           share  == Share(Hop.steps, at.step, at.available, at.allocated)
           funds  == IF step.fund THEN (IF step.venue = "pmm" THEN "pmmAdapter" ELSE "ammAdapter")
                     ELSE step.venue
           funded == Moved(bal, Hop.tokenIn, "router", funds, share)
       IN  /\ share \in 1 .. bal[Hop.tokenIn]["router"]
           /\ IF step.venue = "pmm" THEN step.fund /\ PmmLeg(funded)
              ELSE PoolLeg(funded, step.venue, step.reverse)
           /\ Advance(share)
    /\ UNCHANGED <<quote, call, gifts, gifted, calls>>

Gained == bal[call.plan.tokenOut]["router"] - call.bal[call.plan.tokenOut]["router"]

(* Faulty: the refund is what the batches were not granted. *)
LeftoverUngranted == at.received - at.granted

Leftover == bal[call.plan.tokenIn]["router"] - call.bal[call.plan.tokenIn]["router"]

(* The end of _execute and _run: refund, check the limits, pay. *)
Finish ==
    /\ pc = "settling"
    /\ Gained > 0 /\ Gained >= call.least
    /\ Leftover \in 0 .. at.received /\ at.received - Leftover <= call.most
    /\ bal' = Moved(Moved(bal, call.plan.tokenIn, "router", "user", Leftover),
                    call.plan.tokenOut, "router", "receiver", Gained)
    /\ pc' = "paid"
    /\ UNCHANGED <<venues, quote, call, at, gifts, gifted, calls>>

(* Any check that fails, any venue that refuses: nothing happened. *)
Revert ==
    /\ pc \in {"running", "settling"}
    /\ bal' = call.bal /\ reserve' = call.reserve /\ used' = call.used /\ order' = call.order
    /\ pc' = "idle" /\ call' = NoCall /\ at' = NoCall /\ gifts' = [t \in Tokens |-> 0]
    /\ UNCHANGED <<quote, gifted, calls>>

(* A token that calls back lets anybody move tokens; stray transfers also     *)
(* come between calls.                                                      *)
Give(t, to, x) ==
    /\ gifted < MaxGifts /\ gifted' = gifted + 1
    /\ x <= bal[t]["maker"]
    /\ bal' = Moved(bal, t, "maker", to, x)
    /\ gifts' = IF to = "router" THEN [gifts EXCEPT ![t] = @ + x] ELSE gifts
    /\ pc # "paid" /\ UNCHANGED <<venues, quote, pc, call, at, calls>>

-----------------------------------------------------------------------------
(* The aggregator. *)
Grid == 0 .. W

(* Faulty: the pool's share is rounded up. *)
ToPropUp(x, w) == CeilDiv(x * w, W)

ToProp(x, w) == (x * w) \div W

(* Asked by token: the engine and UniswapV2's own router find the direction. *)
Pay(v, r, x) == IF x = 0 THEN 0 ELSE Answer(v, r.in = Venues[v].quote, x)

(* A grid point counts when neither venue refuses its part. *)
Priced(p, u, r, w) ==
    LET a == ToProp(r.amount, w) b == r.amount - ToProp(r.amount, w)
    IN  [weight |-> w, toProp |-> a, toUni |-> b,
         ok |-> (a = 0 \/ Pay(p, r, a) > 0) /\ (b = 0 \/ Pay(u, r, b) > 0),
         out |-> Pay(p, r, a) + Pay(u, r, b)]

(* chooseSplit: the first of the best points of the grid. *)
BestPoints(p, u, r) ==
    LET points == {q \in {Priced(p, u, r, w) : w \in Grid} : q.ok /\ q.out > 0} IN
    {q \in points : \A o \in points : o.out < q.out \/ (o.out = q.out /\ o.weight >= q.weight)}

(* buildRoute: one batch of one hop, a fork per leg that gets anything, and  *)
(* on every leg the direction of the market's own base and quote.          *)
AmmSteps(p, u, r, q) ==
    LET rev == r.in = Venues[p].quote
        prop == [venue |-> p, weight |-> q.weight, reverse |-> rev, fund |-> FALSE]
        uni  == [venue |-> u, weight |-> W - q.weight, reverse |-> rev, fund |-> FALSE]
    IN  (IF q.toProp > 0 THEN <<prop>> ELSE <<>>) \o (IF q.toUni > 0 THEN <<uni>> ELSE <<>>)

RfqSteps == <<[venue |-> "pmm", weight |-> W, reverse |-> FALSE, fund |-> TRUE]>>

PlanOf(r, steps) ==
    [tokenIn |-> r.in, tokenOut |-> r.out, amountIn |-> r.amount,
     batches |-> <<[weight |-> W, hops |-> <<[tokenIn |-> r.in, steps |-> steps]>>]>>]

Answered(r, steps, out) ==
    quote' = [plan |-> PlanOf(r, steps), out |-> out, least |-> (out * (W - Slippage)) \div W,
              venues |-> venues']

Asked == pc \in {"idle", "paid"} /\ quote = NoCall

(* handleQuote: the best split of the two pools, with the maker refusing or   *)
(* offering no more than it.                                               *)
QuoteAmms(p, u, r) ==
    /\ Asked
    /\ UNCHANGED <<bal, venues, pc, call, at, gifts, gifted, calls>>
    /\ \E q \in BestPoints(p, u, r) : Answered(r, AmmSteps(p, u, r, q), q.out)

(* The maker signs a better offer for the whole size, that it can deliver. *)
QuoteRfq(p, u, r, y) ==
    /\ Asked /\ y <= bal[r.out]["maker"]
    /\ \A q \in BestPoints(p, u, r) : y > q.out
    /\ order' = [takerAsset |-> r.in, makerAsset |-> r.out, takerAmount |-> r.amount,
                 makerAmount |-> y, filled |-> 0]
    /\ UNCHANGED <<bal, reserve, used>>
    /\ Answered(r, RfqSteps, y)
    /\ UNCHANGED <<pc, call, at, gifts, gifted, calls>>

(* The caller submits what it was handed. *)
Submit ==
    /\ pc \in {"idle", "paid"} /\ quote # NoCall /\ calls < MaxCalls /\ calls' = calls + 1
    /\ Enter(quote.plan, quote.least, quote.plan.amountIn, quote)
    /\ quote' = NoCall /\ UNCHANGED gifted

(* A plan of the caller's own, exact in or exact out; it may come between a  *)
(* quote and its submission.                                               *)
Swap(plan, least) ==
    /\ pc \in {"idle", "paid"} /\ calls < MaxCalls /\ calls' = calls + 1
    /\ Enter(plan, least, plan.amountIn, NoCall)
    /\ UNCHANGED <<quote, gifted>>

RouteInit ==
    /\ bal = InitFunds /\ used = [bid |-> 0, ask |-> 0]
    /\ reserve = [v \in DOMAIN Venues |-> [t \in Tokens |-> InitFunds[t][v]]]
    /\ order = NoOrder /\ quote = NoCall /\ pc = "idle" /\ call = NoCall /\ at = NoCall
    /\ gifts = [t \in Tokens |-> 0] /\ gifted = 0 /\ calls = 0

PropVenues == {v \in DOMAIN Venues : Venues[v].kind = "prop"}
UniVenues  == {v \in DOMAIN Venues : Venues[v].kind = "uni"}
Listed(p, u, r) == {r.in, r.out} = {Venues[p].base, Venues[p].quote}
                   /\ {r.in, r.out} = {Venues[u].base, Venues[u].quote}

RouteNext ==
    \/ Step \/ Finish \/ Revert \/ Submit
    \/ \E plan \in Plans, least \in 0 .. 1 : Swap(plan, least)
    \/ \E t \in Tokens, to \in {"router", "pmmAdapter"} \cup DOMAIN Venues, x \in Gifts : Give(t, to, x)
    \/ \E p \in PropVenues, u \in UniVenues, r \in Requests :
           /\ Listed(p, u, r)
           /\ QuoteAmms(p, u, r) \/ \E y \in Offers : QuoteRfq(p, u, r, y)

RouteSpec == RouteInit /\ [][RouteNext]_routeVars

-----------------------------------------------------------------------------
(* Properties. *)

(* A step that sells what its hop brings, for what comes next. *)
Leads(step, from, to) ==
    IF step.venue = "pmm"
    THEN call.order # NoOrder /\ call.order.takerAsset = from /\ call.order.makerAsset = to
    ELSE TokenIn(step.venue, step.reverse) = from /\ TokenOut(step.venue, step.reverse) = to

Whole(hop) == SumOf(hop.steps) = W /\ \A j \in DOMAIN hop.steps : hop.steps[j].venue # "pmm"

(* Every hop feeds the next, and all but the first spend all they are fed. *)
PassesAll(plan) ==
    \A i \in DOMAIN plan.batches :
        LET hops == plan.batches[i].hops
        IN  \A h \in DOMAIN hops :
                /\ h > 1 => Whole(hops[h])
                /\ \A j \in DOMAIN hops[h].steps :
                       Leads(hops[h].steps[j], hops[h].tokenIn,
                             IF h < Len(hops) THEN hops[h + 1].tokenIn ELSE plan.tokenOut)

(* What a call leaves in the router of the tokens it sold and bought is what  *)
(* it found there, to the unit: shares that round, order remainders an      *)
(* adapter hands back, forks below full weight and tokens given in a        *)
(* callback all reach the caller or the receiver, and nobody's stray        *)
(* balance pays for the call (Router.sol 130-136, 216-246).  Of a token on  *)
(* the way it spends none it held before, and, when every hop feeds the     *)
(* next and the later ones are whole, keeps only what a callback gave it    *)
(* (248-268, 286-296).                                                     *)
RouterKeepsNothing ==
    pc = "paid" =>
        /\ \A t \in {call.plan.tokenIn, call.plan.tokenOut} :
              bal[t]["router"] = call.bal[t]["router"]
        /\ PassesAll(call.plan) =>
              \A t \in Tokens \ {call.plan.tokenIn, call.plan.tokenOut} :
                  bal[t]["router"] - call.bal[t]["router"] \in 0 .. gifts[t]

(* What the aggregator quotes is what its plan pays: with the venues as they  *)
(* were quoted, and legs that sell what they are sent, the router's shares   *)
(* are the split's amounts, so the call never pays less, whatever the       *)
(* rounding and however many forks (quote.ts 303-345, route.ts 83-140,      *)
(* Router.sol 286-290).                                                    *)
QuoteIsPaid ==
    /\ pc = "paid" /\ call.quote # NoCall /\ PassesAll(call.plan)
    /\ call.quote.venues = <<call.reserve, call.used, call.order>>
    => bal[call.plan.tokenOut]["receiver"] - call.bal[call.plan.tokenOut]["receiver"] >= call.quote.out

(* "`reverse` is unused by that adapter; the token order is carried by the    *)
(* hop" (route.ts 110-111): a leg quoted on a UniswapV2 pair sells what its  *)
(* hop brings, whichever token of the pair comes first.                     *)
HopCarriesTheOrder ==
    quote # NoCall =>
        LET hop == quote.plan.batches[1].hops[1]
        IN  \A j \in DOMAIN hop.steps :
                hop.steps[j].venue \in UniVenues =>
                    TokenIn(hop.steps[j].venue, hop.steps[j].reverse) = hop.tokenIn

=============================================================================
