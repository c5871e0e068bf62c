----------------------------- MODULE MCPropPool -----------------------------
(* The pool, and what the updater sends it, in three lanes of which a run     *)
(* takes one. Pool: one pair under every order of calls and fills. Row: the   *)
(* ladders of MCRowBuild, searched, solved and built. Sender: two pairs,      *)
(* batches of one or two rows, two nonces.                                   *)
EXTENDS PropPool, MCRowBuild, MCTxSender

L(a, b, c, d) == [minBid |-> a, maxBid |-> b, minAsk |-> c, maxAsk |-> d]
S(stale, price, base, quote) ==
    [maxStale |-> stale, minPrice |-> price, minBase |-> base, minQuote |-> quote]
C(bid, ask) == [bid |-> bid, ask |-> ask]

OneListing == {[base |-> "base", quote |-> "quote"]}

BOOLEANS == {TRUE, FALSE}

(* A minimum price above one of the ladders, a floor on each token.  A       *)
(* capacity may be too large on either side.                               *)
PolicyLadders  == {L(1, 3, 3, 4), L(2, 3, 2, 4)}
PolicySettings == {S(1, 1, 0, 1), S(1, 2, 0, 0)}
PolicyCaps     == {C(0, 0), C(2, 2), C(3, 1), C(1, 3)}

----------------------------------------------------------------------------
VARIABLE lane

NoSearch ==
    /\ way = "bid" /\ target = 1 /\ s = 1 /\ side = [low |-> 0, high |-> 0, cap |-> 1, used |-> 0]
    /\ pc = "called" /\ round = 0 /\ lo = 0 /\ hi = 0
    /\ stage = "searching" /\ plan = <<>> /\ shape = <<>> /\ row = <<>>

LanesInit ==
    /\ Init /\ SenderInit
    /\ \/ lane = "row" /\ RInit
       \/ lane \in {"pool", "sender"} /\ NoSearch

LanesNext ==
    /\ UNCHANGED lane
    /\ \/ lane = "pool" /\ Next /\ UNCHANGED <<allVars, senderVars>>
       \/ lane = "row" /\ RNext /\ UNCHANGED <<vars, senderVars>>
       \/ lane = "sender" /\ SenderNext /\ UNCHANGED <<vars, allVars>>

LanesSpec == LanesInit /\ [][LanesNext]_<<lane, vars, allVars, senderVars>>
=============================================================================
