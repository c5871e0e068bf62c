----------------------------- MODULE PmmSettle -----------------------------
(***************************************************************************)
(* PmmSettle.sol: the contract that settles orders makers sign off chain.   *)
(*                                                                         *)
(* A fill checks and consumes the order, prices it, and then moves two      *)
(* tokens that may call back before they return.  The transaction is        *)
(* therefore several steps: FillOrder up to the first transfer, TakerLeg,   *)
(* MakerLeg, and Undo for a transfer or a callback that reverts; between    *)
(* them makers cancel and tokens move.  An order stands for its hash, and   *)
(* the filled amounts of orders nobody signed, always zero, are left out.   *)
(***************************************************************************)
EXTENDS Integers, FiniteSets

CONSTANTS
    Orders,      \* orders the makers sign
    Accounts,    \* makers, takers and receivers
    Assets,      \* tokens
    Funds,       \* what every account holds of each token to begin with
    Nonces,      \* the nonces a maker may cancel in one call: a set of sets
    Sizes,       \* takerAmountIn of the fills tried
    Limits,      \* maxDecayPpm of the fills tried
    Moves,       \* amounts moved by token transfers outside the contract
    Unit,        \* DECAY_DENOMINATOR
    MaxDecayCap, \* MAX_DECAY_CAP
    Bps,         \* BPS_DENOMINATOR
    NoFill,      \* no fill under way
    MaxTime      \* bound: the last block.timestamp

OrderType == [maker : Accounts, makerAsset : Assets, takerAsset : Assets,
              makerAmount : Nat, takerAmount : Nat, nonce : Nat, expiry : Nat,
              decayStart : Nat, decayPerSec : Nat, decayCap : Nat, minFillBps : Nat]

ASSUME PmmSettleAssumption ==
    /\ Orders \subseteq OrderType
    /\ Funds \in [Assets -> [Accounts -> Nat]]
    /\ \A ns \in Nonces : ns \subseteq Nat
    /\ Sizes \subseteq Nat /\ Limits \subseteq Nat /\ Moves \subseteq Nat
    /\ Unit \in Nat \ {0} /\ MaxDecayCap \in 0 .. Unit /\ Bps \in Nat \ {0}
    /\ MaxTime \in Nat
    /\ NoFill \notin [order : OrderType, in : Nat, out : Nat, taker : Accounts,
                      receiver : Accounts]

VARIABLES
    now,       \* block.timestamp
    signed,    \* orders their maker has signed
    filled,    \* filledTaker
    cancelled, \* _cancelledNonces
    balance,   \* the tokens' books
    leg,       \* where a fill is: none, or before the taker's or maker's transfer
    fill,      \* the fill under way; leg # "none" is _entered
    before,    \* what an undone fill restores
    received,  \* history: taker tokens paid to the maker, by order
    delivered  \* history: maker tokens paid out, by order

book       == <<filled, cancelled, balance, received, delivered>>
settleVars == <<now, signed, book, leg, fill, before>>

FillType == [order : OrderType, in : Nat, out : Nat, taker : Accounts, receiver : Accounts]

-----------------------------------------------------------------------------
(* _checkOrderShape, without its address and width checks. *)
WellFormed(o) ==
    /\ o.makerAsset # o.takerAsset
    /\ o.makerAmount > 0 /\ o.takerAmount > 0
    /\ o.decayCap <= MaxDecayCap /\ o.minFillBps <= Bps

(* A rate of at least one reaches the cap by `cap` seconds, which is what   *)
(* the early return of the code says without the multiplication.           *)
DecayPpmAt(o, t) ==
    IF o.decayStart = 0 \/ o.decayCap = 0 \/ t <= o.decayStart THEN 0
    ELSE LET accrued == (t - o.decayStart) * o.decayPerSec
         IN  IF accrued > o.decayCap THEN o.decayCap ELSE accrued

(* Faulty: rounded up, in the taker's favour. *)
QuotedUp(o, x) == (o.makerAmount * x + o.takerAmount - 1) \div o.takerAmount

Quoted(o, x) == (o.makerAmount * x) \div o.takerAmount
Realised(o, x, t) == (Quoted(o, x) * (Unit - DecayPpmAt(o, t))) \div Unit

(* _price: what the taker accepts and what the maker's floor allows. *)
Acceptable(o, x, limit) ==
    /\ DecayPpmAt(o, now) <= limit
    /\ Realised(o, x, now) > 0
    /\ Realised(o, x, now) >= (o.makerAmount * o.minFillBps) \div Bps

Dead(o) == [maker |-> o.maker, nonce |-> o.nonce] \in cancelled

(* Faulty: the fill replaces what was filled before it. *)
ConsumeOnly(o, x) == x <= o.takerAmount - filled[o] /\ filled' = [filled EXCEPT ![o] = x]

(* _consume *)
Consume(o, x) ==
    /\ x <= o.takerAmount - filled[o]
    /\ filled' = [filled EXCEPT ![o] = filled[o] + x]

(* safeTransferFrom *)
Transfer(asset, a, b, x) ==
    /\ x <= balance[asset][a]
    /\ balance' = [balance EXCEPT ![asset] =
                      [c \in Accounts |-> balance[asset][c]
                          - (IF c = a THEN x ELSE 0) + (IF c = b THEN x ELSE 0)]]

-----------------------------------------------------------------------------
Init ==
    /\ now = 0 /\ signed = {} /\ filled = [o \in {} |-> 0] /\ cancelled = {}
    /\ balance = Funds
    /\ leg = "none" /\ fill = NoFill /\ before = NoFill
    /\ received = [o \in {} |-> 0] /\ delivered = [o \in {} |-> 0]

WithZero(f, o) == [q \in DOMAIN f \cup {o} |-> IF q \in DOMAIN f THEN f[q] ELSE 0]

(* A maker signs.  Nothing on the chain changes, so it does not matter when *)
(* within another order's fill it happens.                                 *)
Sign(o) ==
    /\ leg = "none"
    /\ signed' = signed \cup {o}
    /\ filled' = WithZero(filled, o) /\ received' = WithZero(received, o)
    /\ delivered' = WithZero(delivered, o)
    /\ UNCHANGED <<now, cancelled, balance, leg, fill, before>>

(* fillOrder up to its first transfer. *)
FillOrder(o, x, limit, taker, receiver) ==
    /\ leg = "none"
    /\ x > 0 /\ WellFormed(o)
    /\ now <= o.expiry /\ ~Dead(o) /\ o \in signed
    /\ Consume(o, x)
    /\ Acceptable(o, x, limit)
    /\ leg' = "taker"
    /\ fill' = [order |-> o, in |-> x, out |-> Realised(o, x, now),
                taker |-> taker, receiver |-> receiver]
    /\ before' = [filled |-> filled, cancelled |-> cancelled, balance |-> balance,
                  received |-> received, delivered |-> delivered]
    /\ UNCHANGED <<now, signed, cancelled, balance, received, delivered>>

(* The taker's token goes to the maker. *)
TakerLeg ==
    /\ leg = "taker" /\ leg' = "maker"
    /\ Transfer(fill.order.takerAsset, fill.taker, fill.order.maker, fill.in)
    /\ received' = [received EXCEPT ![fill.order] = @ + fill.in]
    /\ UNCHANGED <<now, signed, filled, cancelled, fill, before, delivered>>

(* The maker's token goes to the receiver, and the call returns. *)
MakerLeg ==
    /\ leg = "maker" /\ leg' = "none"
    /\ Transfer(fill.order.makerAsset, fill.order.maker, fill.receiver, fill.out)
    /\ delivered' = [delivered EXCEPT ![fill.order] = @ + fill.out]
    /\ fill' = NoFill /\ before' = NoFill
    /\ UNCHANGED <<now, signed, filled, cancelled, received>>

(* A transfer without funds or allowance, or a callback, reverts the call,  *)
(* and everything its callbacks did with it.                               *)
Undo ==
    /\ leg # "none" /\ leg' = "none"
    /\ filled' = before.filled /\ cancelled' = before.cancelled
    /\ balance' = before.balance
    /\ received' = before.received /\ delivered' = before.delivered
    /\ fill' = NoFill /\ before' = NoFill
    /\ UNCHANGED <<now, signed>>

(* cancelNonce (one bit) and cancelNonceSlot (a mask), also from a callback. *)
Cancel(m, ns) ==
    /\ cancelled' = cancelled \cup {[maker |-> m, nonce |-> n] : n \in ns}
    /\ UNCHANGED <<now, signed, filled, balance, leg, fill, before, received, delivered>>

(* Tokens move outside the contract, also from a callback. *)
Move(asset, a, b, x) ==
    /\ a # b /\ Transfer(asset, a, b, x)
    /\ UNCHANGED <<now, signed, filled, cancelled, leg, fill, before, received, delivered>>

Tick ==
    /\ leg = "none" /\ now < MaxTime /\ now' = now + 1
    /\ UNCHANGED <<signed, book, leg, fill, before>>

Settle ==
    \/ \E o \in signed, x \in Sizes, limit \in Limits, taker, receiver \in Accounts :
           FillOrder(o, x, limit, taker, receiver)
    \/ TakerLeg \/ MakerLeg \/ Undo

Next ==
    \/ Settle \/ Tick
    \/ \E o \in Orders : Sign(o)
    \/ \E m \in Accounts, ns \in Nonces : Cancel(m, ns)
    \/ \E asset \in Assets, a, b \in Accounts, x \in Moves : Move(asset, a, b, x)

Spec == Init /\ [][Next]_settleVars

-----------------------------------------------------------------------------
(* Properties.                                                             *)

Books == [filled : [signed -> Nat], cancelled : SUBSET [maker : Accounts, nonce : Nat],
          balance : [Assets -> [Accounts -> Nat]],
          received : [signed -> Nat], delivered : [signed -> Nat]]

(* Every variable keeps its type; no balance is ever negative.               *)
TypeOK ==
    /\ now \in 0 .. MaxTime /\ signed \subseteq OrderType
    /\ [filled |-> filled, cancelled |-> cancelled, balance |-> balance,
        received |-> received, delivered |-> delivered] \in Books
    /\ leg \in {"none", "taker", "maker"}
    /\ IF leg = "none" THEN fill = NoFill /\ before = NoFill
       ELSE fill \in FillType /\ fill.order \in signed /\ before \in Books

(* filledTaker is exactly what makers were paid, and never more than they   *)
(* asked for, over partial fills, reverted legs and callbacks               *)
(* (PmmSettle.sol 175-214): a fill is both of its legs or nothing.          *)
PaidAsFilled ==
    /\ \A o \in signed : filled[o] <= o.takerAmount
    /\ leg = "none" => \A o \in signed : received[o] = filled[o]

(* Splitting an order never beats its price: however its fills are sliced,   *)
(* timed and rounded, the maker hands over no more than the signed ratio of *)
(* what it was paid (PmmSettle.sol 223-230).                               *)
PriceKept ==
    \A o \in signed : delivered[o] * o.takerAmount <= o.makerAmount * received[o]

(* Nor does the maker's decay take more from a taker than the order's cap:   *)
(* every delivery is at least the quote less decayCap, rounded down         *)
(* (PmmSettle.sol 121-135), whatever the block's time.                      *)
DecayBounded ==
    [][\A o \in signed : delivered'[o] > delivered[o] =>
          delivered'[o] - delivered[o]
              >= (Quoted(o, fill.in) * (Unit - o.decayCap)) \div Unit]_settleVars

(* A nonce cancelled outside a fill is dead for good, and no order under a   *)
(* cancelled nonce is filled any further: only a revert of the very call    *)
(* that cancelled it takes a cancellation back (PmmSettle.sol 161-173).     *)
CancelledStaysDead ==
    [][\A o \in signed : Dead(o) =>
          /\ filled'[o] <= filled[o]
          /\ leg = "none" => Dead(o)']_settleVars

=============================================================================
