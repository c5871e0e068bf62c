------------------------------ MODULE RfqMaker ------------------------------
(***************************************************************************)
(* The RFQ side of dubu-updater (quoting.rs, serve.rs, maker.rs) over the   *)
(* settlement contract: the cycle publishes a market from a view of the     *)
(* maker's balances, the endpoint prices a request, reserves the base leg   *)
(* and signs, and takers fill what was signed when they please.             *)
(*                                                                         *)
(* The maker's account is not the pool's, so no epoch is subtracted; decay  *)
(* is off, and the maker cancels nothing.                                   *)
(***************************************************************************)
EXTENDS PmmSettle, FiniteSetsExt

CONSTANTS
    Pairs,       \* pair ids
    Base, Quote, \* the pair's tokens
    Maker,       \* the account the orders draw on
    Scale,       \* 10 ** price_scale_exp
    SpreadUnit,  \* BPS_E2 * 100
    Halves,      \* half-spreads the volatility may give
    Fairs,       \* fair values
    NotionalMax, \* notional_per_order_max
    Ttl,         \* ttl_secs
    MinFill,     \* fill_bps_min
    QuoteSizes,    \* taker amounts asked for
    ClockLag,    \* how far the published chain clock may be behind the chain
    NoMarket,    \* a pair that is not quotable
    MaxSigned,   \* bound: orders signed
    MaxRestarts  \* bound: restarts

ASSUME RfqMakerAssumption ==
    /\ Base \in [Pairs -> Assets] /\ Quote \in [Pairs -> Assets]
    /\ \A p \in Pairs : Base[p] # Quote[p]
    /\ Maker \in Accounts
    /\ Scale \in Nat \ {0} /\ SpreadUnit \in Nat \ {0}
    /\ \A h \in Halves : h \in 0 .. SpreadUnit
    /\ Fairs \subseteq Nat \ {0} /\ NotionalMax \in Nat
    /\ Ttl \in Nat /\ MinFill \in Nat /\ QuoteSizes \subseteq Nat
    /\ ClockLag \in Nat /\ MaxSigned \in Nat /\ MaxRestarts \in Nat

VARIABLES
    view,     \* ChainView::maker_deliverable, as last read
    market,   \* Inner::markets
    open,     \* Book::open; the nonce tells equal reservations apart
    count,    \* Book::signed
    life,     \* history: orders signed in this life of the process
    restarts  \* restarts so far

rfqVars == <<view, market, open, count, life, restarts>>
allVars == <<settleVars, rfqVars>>

Reservations == [pair : Pairs, sells : BOOLEAN, base : Nat, expires : Nat, nonce : Nat]
Markets == [fair : Fairs, base : Nat, quote : Nat]

-----------------------------------------------------------------------------
(* Book::quote, for a taker that hands over `amount`.  `sells` is            *)
(* taker_buys_base: the maker sells base.                                  *)

Price(m, sells, half) ==
    (m.fair * (IF sells THEN SpreadUnit + half ELSE SpreadUnit - half)) \div SpreadUnit

MakerAmount(m, sells, half, amount) ==
    IF sells THEN (amount * Scale) \div Price(m, sells, half)
    ELSE (amount * Price(m, sells, half)) \div Scale

BaseAmount(m, sells, half, amount) ==
    IF sells THEN MakerAmount(m, sells, half, amount) ELSE amount

(* The notional cap is on the quote leg, whichever leg that is. *)
InRange(m, sells, half, amount) ==
    /\ amount > 0
    /\ IF sells THEN Price(m, sells, half) > 0 /\ amount <= NotionalMax
       ELSE /\ amount <= (NotionalMax * Scale) \div m.fair
            /\ MakerAmount(m, sells, half, amount) <= NotionalMax
    /\ MakerAmount(m, sells, half, amount) > 0 /\ BaseAmount(m, sells, half, amount) > 0

(* Faulty: a reservation is dropped a second before its order's last. *)
UnexpiredEarly(t) == {r \in open : r.expires > t + 1}

(* Book::expire *)
Unexpired(t) == {r \in open : r.expires > t}

(* Faulty: the other side's reservations. *)
ReservedOther(rs, p, sells) ==
    MapThenSumSet(LAMBDA r : r.base, {r \in rs : r.pair = p /\ r.sells # sells})

Reserved(rs, p, sells) ==
    MapThenSumSet(LAMBDA r : r.base, {r \in rs : r.pair = p /\ r.sells = sells})

(* Book::room: the quote on hand is valued at fair. *)
RoomLeft(m, rs, p, sells) ==
    (IF sells THEN m.base ELSE (m.quote * Scale) \div m.fair) - Reserved(rs, p, sells)

(* The order as MakerKey::sign fills it in. *)
OrderFor(p, sells, amount, out, nonce, expiry) ==
    [maker       |-> Maker,
     makerAsset  |-> IF sells THEN Base[p] ELSE Quote[p],
     takerAsset  |-> IF sells THEN Quote[p] ELSE Base[p],
     makerAmount |-> out, takerAmount |-> amount, nonce |-> nonce, expiry |-> expiry,
     decayStart  |-> 0, decayPerSec |-> 0, decayCap |-> 0, minFillBps |-> MinFill]

-----------------------------------------------------------------------------
Held == [a \in Assets |-> balance[a][Maker]]

RfqInit ==
    /\ Init
    /\ view = [a \in Assets |-> Funds[a][Maker]]
    /\ market = [p \in Pairs |-> NoMarket]
    /\ open = {} /\ count = 0 /\ life = {} /\ restarts = 0

(* The reader polls the maker's balances, between transactions. *)
ReadView ==
    /\ leg = "none" /\ view' = Held
    /\ UNCHANGED <<settleVars, market, open, count, life, restarts>>

(* run_cycle, with a fair value and no cool-off in force.  What it publishes  *)
(* stays quotable until the cycle replaces or retires it, however old.     *)
Publish(p, fair) ==
    /\ market' = [market EXCEPT ![p] =
                     [fair |-> fair, base |-> view[Base[p]], quote |-> view[Quote[p]]]]
    /\ UNCHANGED <<settleVars, view, open, count, life, restarts>>

(* run_cycle without a fair value or in a cool-off, and withdraw_pair. *)
Retire(p) ==
    /\ market[p] # NoMarket /\ market' = [market EXCEPT ![p] = NoMarket]
    /\ UNCHANGED <<settleVars, view, open, count, life, restarts>>

(* Shared::chain_now: the last head's time and what has passed since. *)
Clocks == {t \in 0 .. now : t + ClockLag >= now}

(* POST /quote, answered with a signed order. *)
AnswerQuote(p, sells, half, amount, t) ==
    LET m  == market[p]
        rs == Unexpired(t)
        o  == OrderFor(p, sells, amount, MakerAmount(m, sells, half, amount), count, t + Ttl)
        r  == [pair |-> p, sells |-> sells, base |-> BaseAmount(m, sells, half, amount),
               expires |-> t + Ttl, nonce |-> count]
    IN  /\ m # NoMarket /\ Cardinality(signed) < MaxSigned
        /\ InRange(m, sells, half, amount)
        /\ r.base <= RoomLeft(m, rs, p, sells)
        /\ open' = rs \cup {r} /\ count' = count + 1
        /\ Sign(o) /\ life' = life \cup {o}
        /\ UNCHANGED <<view, market, restarts>>

(* POST /quote, refused for its size (zero, say) or for want of room: the     *)
(* book has been swept by then.                                            *)
Refuse(t) ==
    /\ \E p \in Pairs : market[p] # NoMarket
    /\ open' = Unexpired(t)
    /\ UNCHANGED <<settleVars, view, market, count, life, restarts>>

(* The book and the nonces are in memory. *)
Restart ==
    /\ leg = "none" /\ restarts < MaxRestarts /\ restarts' = restarts + 1
    /\ market' = [p \in Pairs |-> NoMarket] /\ open' = {} /\ count' = 0 /\ life' = {}
    /\ view' = Held
    /\ UNCHANGED settleVars

RfqNext ==
    \/ (Settle \/ Tick) /\ UNCHANGED rfqVars
    \/ ReadView \/ Restart
    \/ \E p \in Pairs, fair \in Fairs : Publish(p, fair)
    \/ \E p \in Pairs : Retire(p)
    \/ \E t \in Clocks : Refuse(t)
    \/ \E p \in Pairs, sells \in BOOLEAN, half \in Halves, amount \in QuoteSizes, t \in Clocks :
           AnswerQuote(p, sells, half, amount, t)

RfqSpec == RfqInit /\ [][RfqNext]_allVars

-----------------------------------------------------------------------------
(* Properties.                                                             *)

RfqTypeOK ==
    /\ TypeOK
    /\ view \in [Assets -> Nat]
    /\ \A p \in Pairs : market[p] # NoMarket => market[p] \in Markets
    /\ open \subseteq Reservations /\ count \in 0 .. MaxSigned
    /\ life \subseteq signed /\ restarts \in 0 .. MaxRestarts

HasReservation(o) ==
    \E r \in open : r.nonce = o.nonce /\ r.expires = o.expiry

(* Every order of this life that is before its last second holds its         *)
(* reservation, whichever requests swept the book and whatever the clocks    *)
(* said (quoting.rs 267-270).                                              *)
LiveIsReserved == \A o \in life : now < o.expiry => HasReservation(o)

(* What the unexpired orders of a set promise of a token. *)
Promised(orders, asset) ==
    MapThenSumSet(LAMBDA o : o.makerAmount,
                  {o \in orders : o.makerAsset = asset /\ now < o.expiry})

(* No signature promises base a second time: with the new order, the base    *)
(* promised in every unexpired order of this life is within the balance it  *)
(* was sized by, however orders expired, were filled and were swept and     *)
(* markets were replaced and retired in between (quoting.rs 436-466).       *)
BaseWithinView ==
    [][\A o \in life' \ life, p \in Pairs : o.makerAsset = Base[p] =>
          Promised(life', Base[p]) <= market[p].base]_allVars

=============================================================================
