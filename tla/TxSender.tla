------------------------------ MODULE TxSender ------------------------------
(***************************************************************************)
(* The transmit path of dubu-updater (engine/crates/dubu-updater/src/tx.rs) *)
(* together with the part of the world it talks to: a sequencer that holds, *)
(* executes, loses or refuses transactions of one account, and a node that  *)
(* answers with the account's nonce.                                       *)
(*                                                                         *)
(* The process is one task, so the engine is a program counter `engine`;   *)
(* every await is a point where the sequencer may move.  Nonces are        *)
(* assigned synchronously (Reserve), broadcasts fly concurrently and are   *)
(* answered in any order (Arrive, Unreachable), and their outcomes are     *)
(* folded back in reservation order (Fold).                                *)
(***************************************************************************)
EXTENDS Integers, Sequences, FiniteSets, FiniteSetsExt

CONSTANTS
    Pairs,            \* pair ids, numbers: the pending map walks them in order
    Kinds,            \* the kinds of intent the configuration sends
    Offers,           \* the intent sequences one cycle may push
    InFlightMax,      \* tx.in_flight_max, per pair
    InFlightTotalMax, \* IN_FLIGHT_TOTAL_MAX, per account
    BaseFee,          \* tx.max_fee_per_gas_gwei
    WithdrawFee,      \* jump.withdraw_priority_fee_wei
    BumpNum, BumpDen, \* REPLACE_BUMP_NUM, REPLACE_BUMP_DEN
    EscalationMax,    \* REPLACE_ESCALATION_MAX
    PendingTimeout,   \* tx.pending_timeout_secs, in ticks
    BackpressurePause, \* in ticks
    NoNonce,          \* Nonces::next before it is seeded
    MaxNonce,         \* bound: nonces 0 .. MaxNonce - 1 are ever handed out
    MaxFaults,        \* bound: transactions the sequencer may lose
    MaxRestarts       \* bound: crashes of the process

ASSUME TxSenderAssumption ==
    /\ Pairs \subseteq Nat
    /\ \A b \in Offers : b \in Seq([pair : Pairs, kind : Kinds])
    /\ Kinds \subseteq {"updateQuote", "refreshCapacity", "withdrawal"}
    /\ InFlightMax \in Nat /\ InFlightTotalMax \in Nat
    /\ BaseFee \in Nat /\ WithdrawFee \in Nat
    /\ BumpNum \in Nat /\ BumpDen \in Nat \ {0} /\ EscalationMax \in Nat
    /\ PendingTimeout \in Nat \ {0} /\ BackpressurePause \in Nat
    /\ NoNonce \notin Nat
    /\ MaxNonce \in Nat /\ MaxFaults \in Nat /\ MaxRestarts \in Nat

VARIABLES
    engine,     \* what the task is doing: idle, reserving, flying or polling
    next,       \* Nonces::next
    free,       \* Nonces::free
    todo,       \* intents of the phase still to be given a nonce
    feeTier,    \* the fee the phase was asked to pay
    air,        \* transactions reserved in this phase, with their outcomes
    pending,    \* Sender::pending; `seat` is the position in the pair's queue
    landed,     \* Sender::landed_nonce
    pause,      \* ticks since the last -32003, no further than the pause
    escalate,   \* Sender::escalate, a partial function of the nonce
    reread,     \* history: the book was re-read while transactions were out
    chainNonce, \* the account's nonce on the chain
    executed,   \* what executed, by nonce
    held,       \* what the sequencer is holding
    faults,     \* transactions lost so far
    restarts    \* crashes so far

engineVars == <<engine, next, free, todo, feeTier, air, pending, landed, pause, escalate, reread>>
worldVars  == <<chainNonce, executed, held, faults, restarts>>
senderVars == <<engineVars, worldVars>>

Intents  == [pair : Pairs, kind : Kinds]
(* The hash of a transaction is a function of what it says. *)
Tx       == [pair : Pairs, kind : Kinds, nonce : Nat, fee : Nat]
Outcomes == {"flying", "ok", "alreadyKnown", "full", "neverSent", "nonceTooLow",
             "underpriced", "unknown"}

HashOf(e) == [pair |-> e.pair, kind |-> e.kind, nonce |-> e.nonce, fee |-> e.fee]

-----------------------------------------------------------------------------
(* Nonces: the account's sequence, held in this process. *)

Seeded == next # NoNonce

(* Nonces::reserve takes the lowest hole before it advances. *)
IsNextReserved(n) ==
    IF free = {} THEN n = next
    ELSE n \in free /\ \A m \in free : n <= m

(* Faulty: a hole is read but not removed. *)
PeekNonce(n) ==
    IF free = {} THEN next' = next + 1 /\ free' = free
    ELSE free' = free /\ next' = next

TakeNonce(n) ==
    IF free = {} THEN next' = next + 1 /\ free' = free
    ELSE free' = free \ {n} /\ next' = next

(* Faulty: the highest nonce handed out does not count as handed out. *)
ReleasableBelowLast(ns) == IF Seeded THEN {n \in ns : n + 1 < next} ELSE {}

(* Nonces::release puts back only a nonce this book handed out. *)
Releasable(ns) == IF Seeded THEN {n \in ns : n < next} ELSE {}

-----------------------------------------------------------------------------
(* What counts as in flight: tracked, and not yet passed by the chain. *)

InFlight(p)       == Cardinality({e \in pending : e.pair = p /\ e.nonce >= landed})
InFlightTotal     == Cardinality({e \in pending : e.nonce >= landed})
AtCapacity(p)     == InFlight(p) >= InFlightMax \/ InFlightTotal >= InFlightTotalMax
WithdrawalInFlight(p) ==
    \E e \in pending : e.pair = p /\ e.kind = "withdrawal" /\ e.nonce >= landed

(* Sender::fees_for: an escalated nonce outbids its last attempt, up to a   *)
(* ceiling anchored to its first one.                                      *)
FeesFor(n, base) ==
    IF n \notin DOMAIN escalate THEN base
    ELSE LET e == escalate[n]
             anchor == IF e.origin > base THEN e.origin ELSE base
             bumped == (e.last * BumpNum) \div BumpDen
         IN  IF bumped < anchor * EscalationMax THEN bumped ELSE anchor * EscalationMax

(* release_for_retry: the book after the transactions of `back`, walked in  *)
(* pair order, were handed back to be sent again.                          *)
Escalated(book, back) ==
    LET at(n)    == {t \in back : t.nonce = n}
        first(n) == CHOOSE t \in at(n) : \A u \in at(n) : t.pair <= u.pair
        final(n) == CHOOSE t \in at(n) : \A u \in at(n) : t.pair >= u.pair
    IN  [n \in DOMAIN book \cup {t.nonce : t \in back} |->
            IF at(n) = {} THEN book[n]
            ELSE [origin |-> IF n \in DOMAIN book THEN book[n].origin ELSE first(n).fee,
                  last   |-> final(n).fee]]

Pruned(book, n) == [m \in {k \in DOMAIN book : k >= n} |-> book[m]]

-----------------------------------------------------------------------------
SenderInit ==
    /\ engine = "idle" /\ next = NoNonce /\ free = {} /\ todo = <<>>
    /\ feeTier = BaseFee /\ air = <<>> /\ pending = {} /\ landed = 0
    /\ pause = BackpressurePause /\ escalate = <<>> /\ reread = FALSE
    /\ chainNonce = 0 /\ executed = <<>> /\ held = {} /\ faults = 0 /\ restarts = 0

(* The first nonce the node has not seen taken, were its pool complete. *)
HeldRunEnd ==
    CHOOSE n \in chainNonce .. MaxNonce :
        /\ \A m \in chainNonce .. n - 1 : \E t \in held : t.nonce = m
        /\ \A t \in held : t.nonce # n

(* seed_nonce / ensure_seeded: the node answers with its "pending" count,   *)
(* which truncates, so it may be anything from the confirmed nonce up.     *)
Seed(n) ==
    /\ engine = "idle" /\ ~Seeded
    /\ n \in chainNonce .. HeldRunEnd
    /\ next' = n /\ free' = {}
    /\ UNCHANGED <<engine, todo, feeTier, air, pending, landed, pause, escalate, reread, worldVars>>

(* quote_loop hands over the reader's "latest" nonce, which may be old. *)
ObserveLanded(n) ==
    /\ engine = "idle" /\ n \in 0 .. chainNonce
    /\ landed' = IF n > landed THEN n ELSE landed
    /\ escalate' = Pruned(escalate, landed')
    /\ UNCHANGED <<engine, next, free, todo, feeTier, air, pending, pause, reread, worldVars>>

-----------------------------------------------------------------------------
(* A send phase: intents accepted, nonces assigned, envelopes signed.      *)

(* The bound on nonces: a phase starts only if its nonces are available.   *)
NoncesLeft(k) == Cardinality(free) + (MaxNonce - next) >= k

(* send_batch: gated per pair by policy (PushInFlight), held back while an  *)
(* episode is fresh, trimmed to the account's headroom.                    *)
Offer(b) ==
    LET headroom == InFlightTotalMax - InFlightTotal
        offered  == SubSeq(b, 1, IF Len(b) < headroom THEN Len(b) ELSE headroom)
    IN  /\ engine = "idle" /\ Seeded /\ pause = BackpressurePause
        /\ \A i \in DOMAIN b : ~AtCapacity(b[i].pair)
        /\ offered # <<>> /\ NoncesLeft(Len(offered))
        /\ engine' = "reserving" /\ todo' = offered /\ feeTier' = BaseFee
        /\ UNCHANGED <<next, free, air, pending, landed, pause, escalate, reread, worldVars>>

(* withdraw_pair: send_with_fees, past the stand-down and past the ceiling. *)
WithdrawPair(p) ==
    /\ "withdrawal" \in Kinds
    /\ engine = "idle" /\ Seeded /\ NoncesLeft(1)
    /\ engine' = "reserving" /\ todo' = <<[pair |-> p, kind |-> "withdrawal"]>>
    /\ feeTier' = WithdrawFee
    /\ UNCHANGED <<next, free, air, pending, landed, pause, escalate, reread, worldVars>>

(* One turn of reserve_batch's loop, and the envelope signed at that nonce. *)
Reserve(n) ==
    /\ engine = "reserving" /\ todo # <<>>
    /\ IsNextReserved(n) /\ TakeNonce(n)
    /\ air' = Append(air, [tx |-> [pair |-> Head(todo).pair, kind |-> Head(todo).kind,
                                   nonce |-> n, fee |-> FeesFor(n, feeTier)],
                           outcome |-> "flying"])
    /\ todo' = Tail(todo)
    /\ UNCHANGED <<engine, feeTier, pending, landed, pause, escalate, reread, worldVars>>

(* Signing failed for one of them: every nonce of the phase goes back. *)
SignFails ==
    /\ engine = "reserving" /\ todo = <<>>
    /\ engine' = "idle" /\ air' = <<>> /\ feeTier' = BaseFee
    /\ free' = free \cup Releasable({air[i].tx.nonce : i \in DOMAIN air})
    /\ UNCHANGED <<next, todo, pending, landed, pause, escalate, reread, worldVars>>

Broadcast ==
    /\ engine = "reserving" /\ todo = <<>>
    /\ engine' = "flying" /\ feeTier' = BaseFee
    /\ UNCHANGED <<next, free, todo, air, pending, landed, pause, escalate, reread, worldVars>>

-----------------------------------------------------------------------------
(* The sequencer and the wire between.                                     *)

Answered(i, o) == air' = [air EXCEPT ![i].outcome = o]

Rivals(t) == {u \in held : u.nonce = t.nonce}

(* A replacement has to pay a tenth more than what it replaces. *)
Outbids(t) == \A u \in Rivals(t) : t.fee * 10 >= u.fee * 11

(* The sequencer takes it; the answer may still be lost on the way back. *)
Accepted(i) ==
    LET t == air[i].tx IN
    /\ t.nonce >= chainNonce /\ t \notin held /\ Outbids(t)
    /\ held' = (held \ Rivals(t)) \cup {t}
    /\ \E o \in {"ok", "unknown"} : Answered(i, o)
    /\ UNCHANGED faults

(* The sequencer answers for what it already knows of the nonce. *)
Rejected(i) ==
    LET t == air[i].tx IN
    /\ \/ t.nonce < chainNonce /\ Answered(i, "nonceTooLow")
       \/ t \in held /\ Answered(i, "alreadyKnown")
       \/ t.nonce >= chainNonce /\ t \notin held /\ ~Outbids(t)
          /\ Answered(i, "underpriced")
    /\ UNCHANGED <<held, faults>>

(* -32003: the account's share of the sequencer's pool is taken. *)
PoolFull(i) ==
    /\ air[i].tx.nonce >= chainNonce /\ air[i].tx \notin held
    /\ Answered(i, "full") /\ UNCHANGED <<held, faults>>

(* The local limiter refuses it before a socket is opened. *)
NeverSent(i) == Answered(i, "neverSent") /\ UNCHANGED <<held, faults>>

(* It is lost: an endpoint that answers and swallows it, or a dead socket. *)
Swallowed(i) ==
    /\ faults < MaxFaults /\ faults' = faults + 1
    /\ \E o \in {"ok", "unknown"} : Answered(i, o)
    /\ UNCHANGED held

Arrive(i) ==
    /\ engine = "flying" /\ air[i].outcome = "flying"
    /\ Accepted(i) \/ Rejected(i) \/ PoolFull(i) \/ NeverSent(i) \/ Swallowed(i)
    /\ UNCHANGED <<engine, next, free, todo, feeTier, pending, landed, pause, escalate,
                   reread, chainNonce, executed, restarts>>

(* Between awaits the task runs alone. *)
Awaiting == engine \in {"idle", "flying", "polling"}

Execute(t) ==
    /\ Awaiting /\ t.nonce = chainNonce
    /\ chainNonce' = chainNonce + 1 /\ executed' = Append(executed, t)
    /\ held' = held \ {t}
    /\ UNCHANGED <<engineVars, faults, restarts>>

Lose(t) ==
    /\ Awaiting /\ faults < MaxFaults
    /\ held' = held \ {t} /\ faults' = faults + 1
    /\ UNCHANGED <<engineVars, chainNonce, executed, restarts>>

-----------------------------------------------------------------------------
(* settle_broadcast, one outcome at a time, in reservation order.          *)

AllAnswered ==
    /\ engine = "flying" /\ \A i \in DOMAIN air : air[i].outcome # "flying"
    /\ engine' = "folding"
    /\ UNCHANGED <<next, free, todo, feeTier, air, pending, landed, pause, escalate, reread, worldVars>>

SeatsOf(p) == {e.seat : e \in {d \in pending : d.pair = p}}
NextSeat(p) == IF SeatsOf(p) = {} THEN 0 ELSE Max(SeatsOf(p)) + 1

Track(t) ==
    pending' = pending \cup
        {[pair |-> t.pair, kind |-> t.kind, nonce |-> t.nonce, fee |-> t.fee,
          age |-> 0, seat |-> NextSeat(t.pair)]}

(* resync_nonce forgets the sequence, not what is still outstanding. *)
Resync(outstanding) ==
    next' = NoNonce /\ free' = {} /\ reread' = (reread \/ outstanding)

Fold ==
    /\ engine = "folding" /\ air # <<>>
    /\ LET t == Head(air).tx
           o == Head(air).outcome
       IN  \/ /\ o \in {"ok", "alreadyKnown"}
              /\ Track(t) /\ pause' = BackpressurePause
              /\ UNCHANGED <<next, free, escalate, reread>>
           \/ /\ o \in {"full", "neverSent"}
              /\ free' = free \cup Releasable({t.nonce})
              /\ escalate' = Escalated(escalate, {t})
              /\ pause' = IF o = "full" THEN 0 ELSE pause
              /\ UNCHANGED <<next, pending, reread>>
           \/ /\ o = "nonceTooLow"
              /\ Resync(pending # {} \/ Tail(air) # <<>>)
              /\ UNCHANGED <<pending, pause, escalate>>
           \/ /\ o \in {"underpriced", "unknown"}
              /\ Track(t)
              /\ UNCHANGED <<next, free, pause, escalate, reread>>
    /\ air' = Tail(air)
    /\ UNCHANGED <<engine, todo, feeTier, landed, worldVars>>

PhaseDone ==
    /\ engine = "folding" /\ air = <<>>
    /\ engine' = "idle"
    /\ UNCHANGED <<next, free, todo, feeTier, air, pending, landed, pause, escalate, reread, worldVars>>

-----------------------------------------------------------------------------
(* poll_pending: receipts for what the chain has passed, then the sweep.   *)

BeginPoll ==
    /\ engine = "idle" /\ pending # {}
    /\ engine' = "polling"
    /\ UNCHANGED <<next, free, todo, feeTier, air, pending, landed, pause, escalate, reread, worldVars>>

(* A lookup that fails or finds nothing leaves the entry where it is. *)
Receipt(e) ==
    /\ engine = "polling" /\ e.nonce < landed
    /\ executed[e.nonce + 1] = HashOf(e)
    /\ pending' = {d \in pending : d.pair # e.pair \/ HashOf(d) # HashOf(e)}
    /\ UNCHANGED <<engine, next, free, todo, feeTier, air, landed, pause, escalate, reread, worldVars>>

Stuck == {e \in pending : e.age = PendingTimeout}

(* Each pair's first stuck transaction; its whole queue goes with it. *)
TimedOut == {e \in Stuck : \A d \in Stuck : d.pair = e.pair => e.seat <= d.seat}

Sweep ==
    /\ engine = "polling" /\ engine' = "idle"
    /\ LET unexecuted == {e \in TimedOut : e.nonce >= landed}
           kept       == {e \in pending : \A d \in TimedOut : d.pair # e.pair}
       IN  /\ escalate' = Escalated(escalate, {HashOf(e) : e \in unexecuted})
           /\ pending' = kept
           /\ IF unexecuted = TimedOut
              THEN /\ free' = free \cup Releasable({e.nonce : e \in unexecuted})
                   /\ UNCHANGED <<next, reread>>
              ELSE Resync(kept # {})
    /\ UNCHANGED <<todo, feeTier, air, landed, pause, worldVars>>

-----------------------------------------------------------------------------
SenderTick ==
    /\ Awaiting
    /\ pending' = {[e EXCEPT !.age = IF @ < PendingTimeout THEN @ + 1 ELSE @] : e \in pending}
    /\ pause' = IF pause < BackpressurePause THEN pause + 1 ELSE pause
    /\ UNCHANGED <<engine, next, free, todo, feeTier, air, landed, escalate, reread, worldVars>>

(* Everything the sender knows is in memory. *)
Crash ==
    /\ Awaiting /\ restarts < MaxRestarts /\ restarts' = restarts + 1
    /\ engine' = "idle" /\ next' = NoNonce /\ free' = {} /\ todo' = <<>>
    /\ feeTier' = BaseFee /\ air' = <<>> /\ pending' = {} /\ landed' = 0
    /\ pause' = BackpressurePause /\ escalate' = <<>> /\ reread' = FALSE
    /\ UNCHANGED <<chainNonce, executed, held, faults>>

SenderNext ==
    \/ \E n \in 0 .. MaxNonce : Seed(n) \/ ObserveLanded(n) \/ Reserve(n)
    \/ \E b \in Offers : Offer(b)
    \/ \E p \in Pairs : WithdrawPair(p)
    \/ SignFails \/ Broadcast \/ AllAnswered \/ Fold \/ PhaseDone
    \/ \E i \in DOMAIN air : Arrive(i)
    \/ \E t \in held : Execute(t) \/ Lose(t)
    \/ BeginPoll \/ Sweep \/ \E e \in pending : Receipt(e)
    \/ SenderTick \/ Crash

SenderSpec == SenderInit /\ [][SenderNext]_senderVars

(* What the quote loop and the world keep doing: every cycle observes the   *)
(* landed nonce, polls, and offers a batch; every broadcast is answered;    *)
(* neither the local limiter nor a full pool refuses one nonce for ever,    *)
(* and the sequencer does not sit on a runnable transaction for ever.       *)
Delivering(n) ==
    \E i \in DOMAIN air :
        /\ engine = "flying" /\ air[i].outcome = "flying" /\ air[i].tx.nonce = n
        /\ Accepted(i) \/ Rejected(i)
        /\ UNCHANGED <<engine, next, free, todo, feeTier, pending, landed, pause, escalate,
                       reread, chainNonce, executed, restarts>>

Fairness ==
    /\ WF_senderVars(\E n \in 0 .. MaxNonce : Seed(n))
    /\ WF_senderVars(\E n \in 0 .. MaxNonce : Reserve(n))
    /\ SF_senderVars(ObserveLanded(chainNonce))
    /\ SF_senderVars(\E b \in Offers : Offer(b))
    /\ SF_senderVars(Broadcast)
    /\ \A n \in 0 .. MaxNonce - 1 : SF_senderVars(Delivering(n))
    /\ WF_senderVars(\E i \in DOMAIN air : Arrive(i))
    /\ WF_senderVars(AllAnswered) /\ WF_senderVars(Fold) /\ WF_senderVars(PhaseDone)
    /\ SF_senderVars(BeginPoll) /\ WF_senderVars(Sweep)
    /\ SF_senderVars(\E e \in pending : Receipt(e))
    /\ SF_senderVars(SenderTick) /\ SF_senderVars(\E t \in held : Execute(t))

LiveSpec == SenderSpec /\ Fairness

-----------------------------------------------------------------------------
(* Properties.                                                             *)

Entries == [pair : Pairs, kind : Kinds, nonce : Nat, fee : Nat,
            age : 0 .. PendingTimeout, seat : Nat]

(* Every variable keeps its type; the nonces handed out stay bounded.       *)
SenderTypeOK ==
    /\ engine \in {"idle", "reserving", "flying", "folding", "polling"}
    /\ next \in Nat \cup {NoNonce} /\ free \subseteq Nat
    /\ todo \in Seq(Intents) /\ feeTier \in {BaseFee, WithdrawFee}
    /\ air \in Seq([tx : Tx, outcome : Outcomes])
    /\ pending \subseteq Entries /\ landed \in 0 .. chainNonce
    /\ pause \in 0 .. BackpressurePause /\ reread \in BOOLEAN
    /\ DOMAIN escalate \subseteq Nat
    /\ \A n \in DOMAIN escalate : escalate[n] \in [origin : Nat, last : Nat]
    /\ chainNonce \in Nat /\ executed \in Seq(Tx) /\ Len(executed) = chainNonce
    /\ held \subseteq Tx /\ faults \in 0 .. MaxFaults /\ restarts \in 0 .. MaxRestarts

(* Nonces' free set (tx.rs 431-482) against the pending set: until the book *)
(* is re-read over outstanding transactions, a nonce is in at most one      *)
(* place - one tracked transaction, one reservation in the air, or the free *)
(* set - and always below `next`.  Two places is two transactions signed at *)
(* one nonce, the failure the synchronous reserve pass exists for.          *)
SignedOnce ==
    Seeded /\ ~reread =>
        /\ \A n \in free : n < next
        /\ \A e \in pending : e.nonce < next /\ e.nonce \notin free
        /\ \A e, d \in pending : e.nonce = d.nonce => e = d
        /\ \A i \in DOMAIN air :
               /\ air[i].tx.nonce < next /\ air[i].tx.nonce \notin free
               /\ \A e \in pending : e.nonce # air[i].tx.nonce

(* The assertion inside reserve_batch (tx.rs 1095-1105): a phase's nonces   *)
(* strictly increase in intent order even when some of them are refilled    *)
(* holes, which is what lets push order be execution order.                 *)
ReservedInOrder ==
    \A i, j \in DOMAIN air : i < j => air[i].tx.nonce < air[j].tx.nonce

(* Once handed out, a nonce executes: a refusal, a stand-down, a timeout of *)
(* a slow transaction, a re-read of the sequence, a nonce reclaimed under a  *)
(* late view or a restart that seeds below what is still out (tx.rs 823,     *)
(* 1322-1370) only delays it.                                               *)
EveryNonceLands ==
    \A n \in 0 .. MaxNonce - 1 : (Seeded /\ n < next) ~> (n < chainNonce)

=============================================================================
