------------------------------ MODULE PropPool ------------------------------
(***************************************************************************)
(* contracts/src/PropPool.sol: the pool the engine quotes through.  A pair  *)
(* keeps three words, each written by a different hand: the quote word (the *)
(* ladder and when it was pushed), the capacity word (capacities, their     *)
(* generation, the pause flag, the decay window), and the used word, which  *)
(* counts only while its generation is the capacity word's.  A swap prices  *)
(* itself from the three, moves the tokens, and only then settles: between  *)
(* the two the tokens may call back, and the lock is what they meet.        *)
(*                                                                         *)
(* A caller's limit amount and deadline only add refusals and are left out. *)
(***************************************************************************)
EXTENDS PropCurve, Sequences, SequencesExt

CONSTANTS
    Tokens,
    MaxPairs,      \* bound: pairs listed
    Listings,      \* [base, quote] pairs the owner may list
    Settings,      \* [maxStale, minPrice, minBase, minQuote] the manager may set
    Ladders,       \* ladders the updater may push, malformed ones included
    Capacities,    \* [bid, ask] the updater may set
    DecayWindows,  \* decay windows the manager may set, 0 for none
    Deviations,    \* oracle deviations the manager may set, in units of 1 / BPS
    References,    \* readable reference prices
    Pyths,         \* addresses the owner may set the reference oracle to
    Pauses,        \* what the guardian may set a pause to: BOOLEAN, or {} to leave it out
    Scale,         \* 10 ^ priceScaleExp
    BPS,           \* BPS
    MaxPrice,      \* MAX_PRICE
    MaxAmountOut,  \* PropCurve.MAX_AMOUNT_OUT
    GenModulus,    \* generations in a word
    MaxGen,        \* bound: refreshes of one pair
    Amounts,       \* amounts traded
    Transfers,     \* amounts deposited and withdrawn
    Gifts,         \* amounts sent without a call
    MaxAge,        \* ages from here on are all alike
    MaxBalance     \* bound: what the pool ever holds of a token

NoToken  == "no token"
NoLadder == [minBid |-> 0, maxBid |-> 0, minAsk |-> 0, maxAsk |-> 0]  \* the word never written
NoOracle == -1      \* the pair has no feed id
Unreadable == 0     \* no usable reference price
NoPyth == "zero address"

PairIds == 1 .. MaxPairs
IsPrice(v) == v \in 1 .. MaxPrice

ASSUME PoolAssumption ==
    /\ MaxPairs \in Nat /\ Scale \in Nat \ {0} /\ BPS \in Nat \ {0}
    /\ MaxPrice \in Nat /\ MaxAmountOut \in Nat /\ MaxBalance \in Nat /\ MaxAge \in Nat
    /\ GenModulus \in Nat /\ MaxGen \in Nat /\ MaxGen < GenModulus
    /\ NoToken \notin Tokens
    /\ Listings \subseteq [base : Tokens, quote : Tokens]
    /\ \A c \in Settings : /\ {"maxStale", "minPrice", "minBase", "minQuote"} = DOMAIN c
                           /\ c.maxStale \in 1 .. (MaxAge - 1) /\ IsPrice(c.minPrice)
                           /\ c.minBase \in Nat /\ c.minQuote \in Nat
    /\ Ladders \subseteq [minBid : 0 .. MaxPrice, maxBid : 0 .. MaxPrice,
                          minAsk : 0 .. MaxPrice, maxAsk : 0 .. MaxPrice]
    /\ Capacities \subseteq [bid : Nat, ask : Nat]
    /\ DecayWindows \subseteq 0 .. MaxAge
    /\ Deviations \subseteq 0 .. BPS
    /\ References \subseteq Nat \ {0} /\ NoPyth \notin Pyths /\ Pauses \subseteq BOOLEAN
    /\ Amounts \subseteq Nat \ {0} /\ Transfers \subseteq Nat \ {0}
    /\ Gifts \subseteq Nat \ {0}

VARIABLES
    pairCount,
    config,     \* [base, quote, maxStale, minPrice, minBase, minQuote] of a pair
    ladder,     \* the quote word's ladder
    age,        \* time since the quote word was written
    cap,        \* the capacity word: [bid, ask, gen, paused, decay]
    used,       \* the used word: [bid, ask, gen]
    allPaused,
    pyth,       \* the reference oracle's address
    oracle,     \* a pair's maximum deviation from the reference, or NoOracle
    reserve,    \* what the pool accounts for, per token
    balance,    \* what the pool holds, per token
    call,       \* swaps whose tokens moved and that have not settled, outermost first
    net         \* what each pair's fills brought in since its ladder was pushed

policy == <<pairCount, config, allPaused, pyth, oracle>>
funds  == <<reserve, balance>>
vars   == <<policy, ladder, age, cap, used, funds, call, net>>

Nothing == [base |-> 0, quote |-> 0]

Init ==
    /\ pairCount = 0 /\ allPaused = FALSE /\ pyth = NoPyth
    /\ config = [p \in PairIds |-> [base |-> NoToken, quote |-> NoToken, maxStale |-> 0,
                                    minPrice |-> 0, minBase |-> 0, minQuote |-> 0]]
    /\ oracle = [p \in PairIds |-> NoOracle]
    /\ ladder = [p \in PairIds |-> NoLadder]
    /\ age = [p \in PairIds |-> 0]
    /\ cap = [p \in PairIds |-> [bid |-> 0, ask |-> 0, gen |-> 0, paused |-> FALSE, decay |-> 0]]
    /\ used = [p \in PairIds |-> [bid |-> 0, ask |-> 0, gen |-> 0]]
    /\ reserve = [t \in Tokens |-> 0] /\ balance = [t \in Tokens |-> 0]
    /\ call = <<>>
    /\ net = [p \in PairIds |-> Nothing]

(* ReentrancyLock is transient and held from a locked call's start to its   *)
(* end.  The roles are accounts that act in transactions of their own, so   *)
(* none of their calls comes from inside a swap, locked or not.             *)
Unlocked == call = <<>>
OwnTransaction == call = <<>>

Listed == 1 .. pairCount

-----------------------------------------------------------------------------
(* The owner and the manager. *)

Routed(a, b) == \E p \in Listed : {config[p].base, config[p].quote} = {a, b}

AddPair(l, c) ==
    /\ OwnTransaction /\ pairCount < MaxPairs
    /\ l.base # l.quote /\ ~Routed(l.base, l.quote)
    /\ pairCount' = pairCount + 1
    /\ config' = [config EXCEPT ![pairCount + 1] =
          [base |-> l.base, quote |-> l.quote, maxStale |-> c.maxStale,
           minPrice |-> c.minPrice, minBase |-> 0, minQuote |-> 0]]
    /\ UNCHANGED <<allPaused, pyth, oracle, ladder, age, cap, used, funds, call, net>>

(* A minimum price the stored ladder does not meet is refused. *)
Strands(p, minPrice) == ladder[p] # NoLadder /\ ladder[p].minBid < minPrice

SetPairConfig(p, c) ==
    /\ OwnTransaction /\ ~Strands(p, c.minPrice)
    /\ config' = [config EXCEPT ![p] =
          [base |-> @.base, quote |-> @.quote, maxStale |-> c.maxStale,
           minPrice |-> c.minPrice, minBase |-> c.minBase, minQuote |-> c.minQuote]]
    /\ UNCHANGED <<pairCount, allPaused, pyth, oracle, ladder, age, cap, used, funds, call, net>>

SetPairDecay(p, w) ==
    /\ OwnTransaction
    /\ cap' = [cap EXCEPT ![p].decay = w]
    /\ UNCHANGED <<policy, ladder, age, used, funds, call, net>>

SetPyth(a) ==
    /\ OwnTransaction /\ pyth' = a
    /\ UNCHANGED <<pairCount, config, allPaused, oracle, ladder, age, cap, used, funds, call, net>>

SetPairOracle(p, d) ==
    /\ OwnTransaction /\ (d # NoOracle => pyth # NoPyth)
    /\ oracle' = [oracle EXCEPT ![p] = d]
    /\ UNCHANGED <<pairCount, config, allPaused, pyth, ladder, age, cap, used, funds, call, net>>

-----------------------------------------------------------------------------
(* The updater. *)

(* The reading is whatever the feed answers; an absent contract, a stale or *)
(* a malformed price are all Unreadable, and refuse the row.                *)
WithinReference(p, l, ref) ==
    oracle[p] # NoOracle =>
        /\ ref # Unreadable
        /\ l.maxBid * BPS <= ref * (BPS + oracle[p])
        /\ l.minAsk * BPS >= ref * (BPS - oracle[p])

Acceptable(p, l, ref) == ValidLadder(l, config[p].minPrice) /\ WithinReference(p, l, ref)

(* A batch of rows lands whole or not at all; of two rows for one pair the   *)
(* later one stands.                                                       *)
UpdateQuote(rows, ref) ==
    /\ OwnTransaction
    /\ \A p \in DOMAIN rows : Acceptable(p, rows[p], ref)
    /\ ladder' = [p \in PairIds |-> IF p \in DOMAIN rows THEN rows[p] ELSE ladder[p]]
    /\ age' = [p \in PairIds |-> IF p \in DOMAIN rows THEN 0 ELSE age[p]]
    /\ net' = [p \in PairIds |-> IF p \in DOMAIN rows THEN Nothing ELSE net[p]]
    /\ UNCHANGED <<policy, cap, used, funds, call>>

(* No price a word can hold makes such a capacity worth more than the       *)
(* library can return.                                                     *)
InDomain(c) == c.bid * MaxPrice <= MaxAmountOut * Scale /\ c.ask * MaxPrice <= MaxAmountOut * Scale

Renewed(w, c) ==
    [bid |-> c.bid, ask |-> c.ask, gen |-> (w.gen + 1) % GenModulus,
     paused |-> w.paused, decay |-> w.decay]

RefreshCapacity(rows) ==
    /\ OwnTransaction
    /\ \A p \in DOMAIN rows : InDomain(rows[p]) /\ cap[p].gen < MaxGen
    /\ cap' = [p \in PairIds |-> IF p \in DOMAIN rows THEN Renewed(cap[p], rows[p]) ELSE cap[p]]
    /\ UNCHANGED <<policy, ladder, age, used, funds, call, net>>

-----------------------------------------------------------------------------
(* The guardian. *)

Pause(p, b) ==
    /\ OwnTransaction
    /\ cap' = [cap EXCEPT ![p].paused = b]
    /\ UNCHANGED <<policy, ladder, age, used, funds, call, net>>

PauseAll(b) ==
    /\ OwnTransaction
    /\ allPaused' = b
    /\ UNCHANGED <<pairCount, config, pyth, oracle, ladder, age, cap, used, funds, call, net>>

-----------------------------------------------------------------------------
(* Funds. *)

Deposit(t, a) ==
    /\ OwnTransaction /\ Unlocked /\ balance[t] + a <= MaxBalance
    /\ balance' = [balance EXCEPT ![t] = @ + a]
    /\ reserve' = [reserve EXCEPT ![t] = @ + a]
    /\ UNCHANGED <<policy, ladder, age, cap, used, call, net>>

Withdraw(t, a) ==
    /\ OwnTransaction /\ Unlocked /\ a <= reserve[t] /\ a <= balance[t]
    /\ reserve' = [reserve EXCEPT ![t] = @ - a]
    /\ balance' = [balance EXCEPT ![t] = @ - a]
    /\ UNCHANGED <<policy, ladder, age, cap, used, call, net>>

Sync(t) ==
    /\ OwnTransaction
    /\ reserve' = [reserve EXCEPT ![t] = balance[t]]
    /\ UNCHANGED <<policy, ladder, age, cap, used, balance, call, net>>

(* Anyone may send the pool tokens, at any moment. *)
Donate(t, a) ==
    /\ balance[t] + a <= MaxBalance
    /\ balance' = [balance EXCEPT ![t] = @ + a]
    /\ UNCHANGED <<policy, ladder, age, cap, used, reserve, call, net>>

-----------------------------------------------------------------------------
(* Pricing. *)

TokenIn(p, bid)  == IF bid THEN config[p].base ELSE config[p].quote
TokenOut(p, bid) == IF bid THEN config[p].quote ELSE config[p].base
Floor(p, bid)    == IF bid THEN config[p].minQuote ELSE config[p].minBase

(* _load's statuses: a paused pool or pair, a pair never quoted or quoted   *)
(* too long ago, price nothing.                                            *)
Live(p) ==
    /\ p \in Listed /\ ~allPaused /\ ~cap[p].paused
    /\ ladder[p] # NoLadder /\ age[p] <= config[p].maxStale

(* Faulty: the used word's generation is not compared. *)
UsedAlways(p, bid) == IF bid THEN used[p].bid ELSE used[p].ask

(* What of the used word belongs to the capacities now in force. *)
Used(p, bid) ==
    IF used[p].gen = cap[p].gen THEN (IF bid THEN used[p].bid ELSE used[p].ask) ELSE 0

SideOf(p, bid) ==
    IF bid THEN [low |-> ladder[p].minBid, high |-> ladder[p].maxBid,
                 cap |-> cap[p].bid, used |-> Used(p, TRUE)]
           ELSE [low |-> ladder[p].minAsk, high |-> ladder[p].maxAsk,
                 cap |-> cap[p].ask, used |-> Used(p, FALSE)]

Decayed(c, a, w) == IF w = 0 THEN c ELSE IF a >= w THEN 0 ELSE (c * (w - a)) \div w

Available(p, bid) == Decayed(IF bid THEN cap[p].bid ELSE cap[p].ask, age[p], cap[p].decay)

Left(p, bid) == Available(p, bid) - Used(p, bid)

(* The largest input taken: of a decayed ask side, the last one that still  *)
(* buys no more than is left of it.                                        *)
MaxAmountIn(p, bid) ==
    CASE bid -> Left(p, bid)
      [] ~bid /\ Available(p, bid) = cap[p].ask -> AskCost(Left(p, bid), SideOf(p, bid), Scale)
      [] OTHER -> AskCost(Left(p, bid) + 1, SideOf(p, bid), Scale) - 1

(* Faulty: the last unit of output is out of reach. *)
MaxOutShort(p, bid) ==
    (IF bid THEN BidGross(Left(p, bid), SideOf(p, bid), Scale) ELSE Left(p, bid)) - 1

MaxOut(p, bid) == IF bid THEN BidGross(Left(p, bid), SideOf(p, bid), Scale) ELSE Left(p, bid)

(* Faulty: the reserve may be paid out down to nothing. *)
BreachesReserve(p, bid, amount) == amount > reserve[TokenOut(p, bid)]

Breaches(p, bid, amount) ==
    LET r == reserve[TokenOut(p, bid)]
    IN  r < Floor(p, bid) \/ amount > r - Floor(p, bid)

(* quoteByPair and _resolveExactIn agree: 0 is what the swap refuses. *)
QuoteOut(p, bid, x) ==
    LET out == IF bid THEN AmountOutBid(x, SideOf(p, bid), Scale)
                      ELSE AmountOutAsk(x, SideOf(p, bid), Scale)
    IN  IF Live(p) /\ Left(p, bid) > 0 /\ x <= MaxAmountIn(p, bid) /\ ~Breaches(p, bid, out)
        THEN out ELSE 0

(* getAmountIn and _resolveExactOut. *)
QuoteIn(p, bid, y) ==
    IF Live(p) /\ y > 0 /\ ~Breaches(p, bid, y) /\ Left(p, bid) > 0 /\ y <= MaxOut(p, bid)
    THEN IF bid THEN AmountInBid(y, SideOf(p, bid), Scale) ELSE AmountInAsk(y, SideOf(p, bid), Scale)
    ELSE 0

-----------------------------------------------------------------------------
(* Swaps. *)

(* The tokens of a priced swap move; the receiver may be the pool itself.   *)
Move(p, bid, in, out, kept) ==
    /\ balance[TokenIn(p, bid)] + in <= MaxBalance
    /\ out <= balance[TokenOut(p, bid)]
    /\ balance' = [balance EXCEPT ![TokenIn(p, bid)] = @ + in,
                                  ![TokenOut(p, bid)] = IF kept THEN @ ELSE @ - out]

Enter(p, bid, in, out) ==
    /\ call' = Append(call, [pair |-> p, bid |-> bid, in |-> in, out |-> out])
    /\ UNCHANGED <<policy, ladder, age, cap, used, reserve, net>>

SwapExactIn(p, bid, x, kept) ==
    LET out == QuoteOut(p, bid, x)
    IN  /\ Unlocked /\ out > 0
        /\ Move(p, bid, x, out, kept) /\ Enter(p, bid, x, out)

SwapExactOut(p, bid, y, kept) ==
    LET in == QuoteIn(p, bid, y)
    IN  /\ Unlocked /\ in > 0
        /\ Move(p, bid, in, y, kept) /\ Enter(p, bid, in, y)

(* Faulty: the whole balance taken for the pushed input. *)
WholeBalance(t) == balance[t]

Unaccounted(t) == balance[t] - reserve[t]

(* swapWithContractBalance: the input is what the pool holds unaccounted. *)
SwapPushed(p, bid, kept) ==
    LET in  == Unaccounted(TokenIn(p, bid))
        out == QuoteOut(p, bid, in)
    IN  /\ Unlocked /\ in > 0 /\ out > 0
        /\ Move(p, bid, 0, out, kept) /\ Enter(p, bid, in, out)

(* _settle, of the innermost swap. *)
Settle ==
    /\ call # <<>>
    /\ LET f == Last(call)
           p == f.pair
       IN  /\ f.out <= reserve[TokenOut(p, f.bid)]
           /\ used' = [used EXCEPT ![p] =
                 [bid |-> Used(p, TRUE) + (IF f.bid THEN f.in ELSE 0),
                  ask |-> Used(p, FALSE) + (IF f.bid THEN 0 ELSE f.out),
                  gen |-> cap[p].gen]]
           /\ reserve' = [reserve EXCEPT ![TokenIn(p, f.bid)] = @ + f.in,
                                         ![TokenOut(p, f.bid)] = @ - f.out]
           /\ net' = [net EXCEPT ![p] =
                 IF f.bid THEN [base |-> @.base + f.in, quote |-> @.quote - f.out]
                          ELSE [base |-> @.base - f.out, quote |-> @.quote + f.in]]
    /\ call' = Front(call)
    /\ UNCHANGED <<policy, ladder, age, cap, balance>>

(* Time passes between transactions. *)
Tick ==
    /\ OwnTransaction
    /\ age' = [p \in PairIds |-> IF age[p] < MaxAge THEN age[p] + 1 ELSE age[p]]
    /\ UNCHANGED <<policy, ladder, cap, used, funds, call, net>>

Batches(S) == UNION {[R -> S] : R \in SUBSET Listed \ {{}}}

Next ==
    \/ \E l \in Listings, c \in Settings : AddPair(l, c)
    \/ \E p \in Listed, c \in Settings : SetPairConfig(p, c)
    \/ \E p \in Listed, w \in DecayWindows : SetPairDecay(p, w)
    \/ \E a \in Pyths : SetPyth(a)
    \/ \E p \in Listed, d \in Deviations \cup {NoOracle} : SetPairOracle(p, d)
    \/ \E rows \in Batches(Ladders), ref \in References \cup {Unreadable} : UpdateQuote(rows, ref)
    \/ \E rows \in Batches(Capacities) : RefreshCapacity(rows)
    \/ \E p \in Listed, b \in Pauses : Pause(p, b)
    \/ \E b \in Pauses : PauseAll(b)
    \/ \E t \in Tokens, a \in Transfers : Deposit(t, a) \/ Withdraw(t, a)
    \/ \E t \in Tokens, a \in Gifts : Donate(t, a)
    \/ \E t \in Tokens : Sync(t)
    \/ \E p \in Listed, bid, kept \in BOOLEAN :
          \/ \E a \in Amounts : SwapExactIn(p, bid, a, kept) \/ SwapExactOut(p, bid, a, kept)
          \/ SwapPushed(p, bid, kept)
    \/ Settle
    \/ Tick

Spec == Init /\ [][Next]_vars

-----------------------------------------------------------------------------
(* Properties. *)

CapWords  == [bid : Nat, ask : Nat, gen : 0 .. MaxGen, paused : BOOLEAN, decay : 0 .. MaxAge]
UsedWords == [bid : Nat, ask : Nat, gen : 0 .. MaxGen]
Swaps     == [pair : PairIds, bid : BOOLEAN, in : Nat \ {0}, out : Nat \ {0}]

ConfigOK ==
    /\ config \in [PairIds -> [base : Tokens \cup {NoToken}, quote : Tokens \cup {NoToken},
                               maxStale : Nat, minPrice : Nat, minBase : Nat, minQuote : Nat]]
    /\ \A p \in Listed : config[p].base \in Tokens /\ config[p].quote \in Tokens \ {config[p].base}

(* Every word holds what its width allows, and no reserve is negative.       *)
TypeOK ==
    /\ pairCount \in 0 .. MaxPairs /\ allPaused \in BOOLEAN /\ pyth \in Pyths \cup {NoPyth}
    /\ ConfigOK
    /\ oracle \in [PairIds -> Deviations \cup {NoOracle}]
    /\ ladder \in [PairIds -> Ladders \cup {NoLadder}]
    /\ age \in [PairIds -> 0 .. MaxAge]
    /\ cap \in [PairIds -> CapWords] /\ used \in [PairIds -> UsedWords]
    /\ reserve \in [Tokens -> Nat] /\ balance \in [Tokens -> Nat]
    /\ call \in Seq(Swaps)
    /\ net \in [PairIds -> [base : Int, quote : Int]]

(* The pool never accounts for tokens it does not hold, whatever donations,  *)
(* pushed inputs, swaps paid to the pool itself, syncs and withdrawals come  *)
(* between (PropPool.sol 435-453, 609, 808).                               *)
Backed == call = <<>> => \A t \in Tokens : reserve[t] <= balance[t]

(* The ladder a pair prices from is ordered and at or above the minimum      *)
(* price in force, although the two are set by different roles in any order *)
(* (PropPool.sol 288-290, 363).                                            *)
StoredLadderValid ==
    \A p \in Listed : ladder[p] # NoLadder => ValidLadder(ladder[p], config[p].minPrice)

(* Whatever is filled against one pushed ladder, at whatever capacities,     *)
(* refreshes, decay and rounding, the pool does not lose by it at any price *)
(* between its best bid and its best ask: buying from the pool and selling  *)
(* back to it never pays.  Linear in the price, so its two ends are enough. *)
WorthAt(p, price) == Scale * net[p].quote + price * net[p].base
RoundTripNeverPays ==
    \A p \in Listed : ladder[p] # NoLadder =>
        WorthAt(p, ladder[p].maxBid) >= 0 /\ WorthAt(p, ladder[p].minAsk) >= 0

(* A size the pool just quoted is reachable: what getAmountOut promises,     *)
(* getAmountIn prices, for an input that is promised at least as much       *)
(* (PropPool.t.sol 1132-1144), part of the capacity decayed or not.         *)
QuotedSizeReachable ==
    \A p \in Listed, bid \in BOOLEAN, x \in Amounts :
        LET y    == QuoteOut(p, bid, x)
            back == QuoteIn(p, bid, y)
        IN  y > 0 => back > 0 /\ QuoteOut(p, bid, back) >= y

(* A fill leaves its output token's reserve at or above its pair's floor,    *)
(* which was checked before the tokens moved.                              *)
FloorHeld ==
    [][call # <<>> =>
          LET f == Last(call)
              t == TokenOut(f.pair, f.bid)
          IN  reserve'[t] < reserve[t] => reserve'[t] >= Floor(f.pair, f.bid)]_vars

(* The capacity word and the used word together are a budget per side: a     *)
(* refresh gives the whole of it back, although it does not touch the used  *)
(* word, and pausing, decay and quote updates give nothing back.            *)
Books == PairIds \X {"bid", "ask"}
IsBid(b) == b[2] = "bid"
Total == [b \in Books |-> IF IsBid(b) THEN cap[b[1]].bid ELSE cap[b[1]].ask]
Spent == [b \in Books |-> Used(b[1], IsBid(b))]

Budget == INSTANCE CapacityBudget WITH Budgets <- Books, total <- Total, spent <- Spent
BudgetKept == Budget!Spec

=============================================================================
