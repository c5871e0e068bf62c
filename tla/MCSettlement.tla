---------------------------- MODULE MCSettlement ----------------------------
(* The contracts that hand tokens on, in three lanes of which a run takes     *)
(* one.  Routes: tokens A, B and C; the proprietary pair and a UniswapV2     *)
(* pair trade A for B, another UniswapV2 pair B for C.  Orders: two orders   *)
(* of one maker that share a nonce, one of them decaying, the other with a   *)
(* floor on its fills.  Requests: the maker's endpoint for one pair, coin    *)
(* for cash.                                                                *)
EXTENDS Router, RfqMaker

MCVenues == [prop  |-> [kind |-> "prop", base |-> "A", quote |-> "B"],
             uniAB |-> [kind |-> "uni", base |-> "A", quote |-> "B"],
             uniBC |-> [kind |-> "uni", base |-> "B", quote |-> "C"]]

\* As mTSLA/mUSDC: the market's quote is token0 of the UniswapV2 pair.
MCFlipped == [MCVenues EXCEPT !.uniAB = [kind |-> "uni", base |-> "B", quote |-> "A"]]

MCLadder == [minBid |-> 1, maxBid |-> 2, minAsk |-> 2, maxAsk |-> 3, bidCap |-> 6, askCap |-> 3]

St(v, w, rev) == [venue |-> v, weight |-> w, reverse |-> rev, fund |-> v = "pmm"]
H(t, steps) == [tokenIn |-> t, steps |-> steps]
B(w, hops) == [weight |-> w, hops |-> hops]
P(in, out, x, batches) == [tokenIn |-> in, tokenOut |-> out, amountIn |-> x, batches |-> batches]

(* Two hops, the first forked; a part of the input only, over two batches;    *)
(* an order first, and what it leaves to be returned.                       *)
MCPlans ==
    { P("A", "C", 7, <<B(10, <<H("A", <<St("prop", 4, FALSE), St("uniAB", 6, FALSE)>>),
                               H("B", <<St("uniBC", 5, FALSE), St("uniBC", 5, FALSE)>>)>>)>>),
      P("A", "B", 7, <<B(3, <<H("A", <<St("prop", 10, FALSE)>>)>>),
                       B(5, <<H("A", <<St("uniAB", 9, FALSE)>>)>>)>>),
      P("A", "B", 7, <<B(4, <<H("A", <<St("uniAB", 10, FALSE)>>)>>),
                       B(6, <<H("A", <<St("pmm", 10, FALSE)>>)>>)>>) }

MCRequests == {[in |-> "A", out |-> "B", amount |-> 7], [in |-> "B", out |-> "A", amount |-> 7]}

MCFunds ==
    [t \in Tokens |-> [h \in Holders |->
        CASE h = "user" -> IF t = "C" THEN 0 ELSE 9
          [] h = "maker" -> 12
          [] h = "router" -> 2
          [] h = "prop" -> IF t = "C" THEN 0 ELSE 20
          [] h = "uniAB" -> IF t = "A" THEN 20 ELSE IF t = "B" THEN 40 ELSE 0
          [] h = "uniBC" -> IF t = "A" THEN 0 ELSE 20
          [] OTHER -> 0]]

-----------------------------------------------------------------------------
O(amount, paid, start, cap, floor) ==
    [maker |-> "maker", makerAsset |-> "base", takerAsset |-> "quote",
     makerAmount |-> amount, takerAmount |-> paid, nonce |-> 1, expiry |-> 3,
     decayStart |-> start, decayPerSec |-> 4, decayCap |-> cap, minFillBps |-> floor]

TwoOrders == {O(5, 3, 1, 5, 0), O(4, 3, 0, 0, 5)}

MCBase  == [p \in Pairs |-> "coin"]
MCQuote == [p \in Pairs |-> "cash"]

\* Of what the orders trade the maker holds one token and the taker the other.
Purses ==
    [asset \in Assets |->
        [a \in Accounts |->
            IF asset \in {"coin", "cash"} THEN IF a = "maker" THEN 4 ELSE 8
            ELSE IF (asset = "base") = (a = "maker") THEN 6 ELSE 0]]

-----------------------------------------------------------------------------
VARIABLE lane

AllInit == RouteInit /\ RfqInit /\ lane \in {"routes", "orders", "requests"}

\* Signed answers are filled whole, orders in any part; only what the orders
\* trade moves otherwise.
AllNext ==
    /\ UNCHANGED lane
    /\ \/ lane = "routes" /\ RouteNext /\ UNCHANGED allVars
       \/ /\ lane = "orders" /\ Next /\ UNCHANGED <<routeVars, rfqVars>>
          /\ \A asset \in {"coin", "cash"} : balance'[asset] = balance[asset]
       \/ /\ lane = "requests" /\ RfqNext /\ UNCHANGED routeVars
          /\ leg = "none" /\ leg' = "taker" => fill'.in = fill'.order.takerAmount

AllSpec == AllInit /\ [][AllNext]_<<lane, routeVars, allVars>>

=============================================================================
