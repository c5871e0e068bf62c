--------------------------- MODULE TxSenderProofs ---------------------------
(***************************************************************************)
(* What TLAPS proves of TxSender, for every set of pairs, every fee, every *)
(* bound: the type invariant, that a nonce is never in two places at once  *)
(* (SignedOnce), and that the assertion in reserve_batch cannot fire       *)
(* (ReservedInOrder).                                                      *)
(***************************************************************************)
EXTENDS TxSender, NatSets, SequenceTheorems

-----------------------------------------------------------------------------
(* Types.                                                                  *)

(* Division by a positive number stays in the naturals. *)
LEMMA QuotientIsNat ==
    ASSUME NEW a \in Nat, NEW b \in Nat \ {0}
    PROVE  a \div b \in Nat
BY SMT

(* The fee of a transaction is a natural number, escalated or not. *)
LEMMA FeesForType ==
    ASSUME SenderTypeOK, NEW n \in Nat, NEW base \in Nat
    PROVE  FeesFor(n, base) \in Nat
<1>1. CASE n \notin DOMAIN escalate
  BY <1>1 DEF FeesFor
<1>2. CASE n \in DOMAIN escalate
  <2> DEFINE e      == escalate[n]
             anchor == IF e.origin > base THEN e.origin ELSE base
             bumped == (e.last * BumpNum) \div BumpDen
  <2>1. e.origin \in Nat /\ e.last \in Nat
    BY <1>2 DEF SenderTypeOK
  <2>2. e.last * BumpNum \in Nat
    <3> HIDE DEF e
    <3> QED BY <2>1, TxSenderAssumption, SMT DEF TxSenderAssumption
  <2>3. bumped \in Nat
    BY <2>2, QuotientIsNat, TxSenderAssumption DEF TxSenderAssumption
  <2>4. anchor * EscalationMax \in Nat
    <3>1. anchor \in Nat
      BY <2>1
    <3> HIDE DEF anchor
    <3> QED BY <3>1, TxSenderAssumption, SMT DEF TxSenderAssumption
  <2>5. FeesFor(n, base) \in {bumped, anchor * EscalationMax}
    BY <1>2 DEF FeesFor
  <2>6. QED BY <2>3, <2>4, <2>5
<1>3. QED BY <1>1, <1>2

(* The escalation book maps nonces to pairs of fees. *)
IsBook(book) == /\ DOMAIN book \subseteq Nat
                /\ \A n \in DOMAIN book : book[n] \in [origin : Nat, last : Nat]

(* The image of a finite set under a function is finite. *)
LEMMA ImageIsFinite ==
    ASSUME NEW S, IsFiniteSet(S), NEW f, f = [x \in S |-> f[x]]
    PROVE  IsFiniteSet({f[x] : x \in S})
<1> DEFINE T == {f[x] : x \in S}
<1>1. f \in Surjection(S, T)
  BY DEF Surjection
<1> HIDE DEF T
<1>2. IsFiniteSet(T)
  BY <1>1, FS_Surjection
<1>3. QED BY <1>2 DEF T

(* A transaction of the lowest, and one of the highest, pair of a finite set. *)
LEMMA LowestAndHighestPair ==
    ASSUME NEW S \in SUBSET Tx, IsFiniteSet(S), S # {}
    PROVE  /\ \E t \in S : \A u \in S : t.pair <= u.pair
           /\ \E t \in S : \A u \in S : t.pair >= u.pair
<1> DEFINE P == {t.pair : t \in S}
<1>1. P \subseteq Nat /\ P # {}
  BY TxSenderAssumption DEF Tx, TxSenderAssumption
<1>2. IsFiniteSet(P)
  <2> DEFINE f == [t \in S |-> t.pair]
  <2>1. IsFiniteSet({f[t] : t \in S})
    BY ImageIsFinite
  <2>2. {f[t] : t \in S} = P
    OBVIOUS
  <2>3. QED BY <2>1, <2>2
<1>3. PICK a \in P : \A n \in P : a >= n
  BY <1>1, <1>2, GreatestAndLeast
<1>4. PICK b \in P : \A n \in P : b <= n
  BY <1>1, <1>2, GreatestAndLeast
<1>5. QED BY <1>3, <1>4

LEMMA EscalatedIsBook ==
    ASSUME NEW book, IsBook(book), NEW back \in SUBSET Tx, IsFiniteSet(back)
    PROVE  IsBook(Escalated(book, back))
<1> DEFINE at(n)    == {t \in back : t.nonce = n}
           first(n) == CHOOSE t \in at(n) : \A u \in at(n) : t.pair <= u.pair
           final(n) == CHOOSE t \in at(n) : \A u \in at(n) : t.pair >= u.pair
           dom      == DOMAIN book \cup {t.nonce : t \in back}
           val(n)   == IF at(n) = {} THEN book[n]
                       ELSE [origin |-> IF n \in DOMAIN book THEN book[n].origin
                                        ELSE first(n).fee,
                             last   |-> final(n).fee]
<1>1. dom \subseteq Nat
  BY DEF IsBook, Tx
<1>2. ASSUME NEW n \in dom PROVE val(n) \in [origin : Nat, last : Nat]
  <2>1. CASE at(n) = {}
    <3>1. n \in DOMAIN book
      BY <2>1
    <3>2. QED BY <2>1, <3>1 DEF IsBook
  <2>2. CASE at(n) # {}
    <3>1. at(n) \in SUBSET Tx /\ IsFiniteSet(at(n))
      BY FS_Subset
    <3>2. first(n) \in at(n) /\ final(n) \in at(n)
      <4> HIDE DEF at
      <4> QED BY <2>2, <3>1, LowestAndHighestPair
    <3>3. first(n).fee \in Nat /\ final(n).fee \in Nat
      BY <3>1, <3>2 DEF Tx
    <3>4. n \in DOMAIN book => book[n].origin \in Nat
      BY DEF IsBook
    <3> HIDE DEF at, first, final
    <3>5. QED BY <2>2, <3>3, <3>4
  <2>3. QED BY <2>1, <2>2
<1>3. Escalated(book, back) = [n \in dom |-> val(n)]
  BY DEF Escalated
<1> HIDE DEF dom, val
<1>4. QED BY <1>1, <1>2, <1>3 DEF IsBook

LEMMA PrunedIsBook ==
    ASSUME NEW book, IsBook(book), NEW n
    PROVE  IsBook(Pruned(book, n))
BY DEF IsBook, Pruned

(* The next position in a pair's queue is a natural number. *)
LEMMA NextSeatType ==
    ASSUME SenderTypeOK, IsFiniteSet(pending), NEW p
    PROVE  NextSeat(p) \in Nat
<1>1. SeatsOf(p) \subseteq Nat
  BY DEF SeatsOf, SenderTypeOK, Entries
<1>2. IsFiniteSet(SeatsOf(p))
  <2>1. IsFiniteSet({d \in pending : d.pair = p})
    BY FS_Subset
  <2> DEFINE D == {d \in pending : d.pair = p}
             f == [d \in D |-> d.seat]
  <2>2. IsFiniteSet({f[d] : d \in D})
    BY <2>1, ImageIsFinite
  <2>3. {f[d] : d \in D} = SeatsOf(p)
    BY DEF SeatsOf
  <2>4. QED BY <2>2, <2>3
<1>3. QED BY <1>1, <1>2, MaxInSet DEF NextSeat

(* What SenderTypeOK needs to be inductive: the pending set is finite, so that    *)
(* the greatest seat of a queue exists.                                     *)
TInv == SenderTypeOK /\ IsFiniteSet(pending)

LEMMA TypeInit == SenderInit => TInv
<1> SUFFICES ASSUME SenderInit PROVE TInv
  OBVIOUS
<1>1. IsFiniteSet(pending)
  BY FS_EmptySet DEF SenderInit
<1>2. DOMAIN escalate = {}
  BY DEF SenderInit
<1>3. air \in Seq([tx : Tx, outcome : Outcomes]) /\ todo \in Seq(Intents) /\ executed \in Seq(Tx)
  BY DEF SenderInit
<1>4. chainNonce = 0 /\ Len(executed) = 0 /\ landed \in 0 .. chainNonce
  BY DEF SenderInit
<1>5. /\ feeTier \in {BaseFee, WithdrawFee} /\ pause \in 0 .. BackpressurePause
      /\ faults \in 0 .. MaxFaults /\ restarts \in 0 .. MaxRestarts
  BY TxSenderAssumption DEF SenderInit, TxSenderAssumption
<1>6. pending \subseteq Entries /\ held \subseteq Tx /\ free \subseteq Nat
  BY DEF SenderInit
<1>7. engine = "idle" /\ next = NoNonce /\ reread = FALSE
  BY DEF SenderInit
<1>8. SenderTypeOK
  BY <1>2, <1>3, <1>4, <1>5, <1>6, <1>7 DEF SenderTypeOK
<1>9. QED BY <1>1, <1>8 DEF TInv

(* A tracked transaction is a well-typed entry. *)
LEMMA TrackType ==
    ASSUME TInv, NEW t \in Tx, Track(t)
    PROVE  pending' \subseteq Entries /\ IsFiniteSet(pending')
<1> DEFINE e == [pair |-> t.pair, kind |-> t.kind, nonce |-> t.nonce, fee |-> t.fee,
                 age |-> 0, seat |-> NextSeat(t.pair)]
<1>1. NextSeat(t.pair) \in Nat
  BY NextSeatType DEF TInv
<1>2. e \in Entries
  BY <1>1, TxSenderAssumption DEF Entries, Tx, TxSenderAssumption
<1>3. pending' = pending \cup {e}
  BY DEF Track
<1> HIDE DEF e
<1>4. IsFiniteSet(pending')
  BY <1>3, FS_AddElement DEF TInv
<1>5. QED BY <1>2, <1>3, <1>4 DEF TInv, SenderTypeOK

(* A step that answers one broadcast keeps the air well-typed. *)
LEMMA AnsweredType ==
    ASSUME SenderTypeOK, NEW i \in DOMAIN air, NEW o \in Outcomes, Answered(i, o)
    PROVE  /\ air' \in Seq([tx : Tx, outcome : Outcomes])
           /\ DOMAIN air' = DOMAIN air
           /\ \A j \in DOMAIN air : air'[j].tx = air[j].tx
<1> DEFINE R == [tx : Tx, outcome : Outcomes]
<1>1. air \in Seq(R) /\ air' = [air EXCEPT ![i].outcome = o]
  BY DEF SenderTypeOK, Answered
<1>2. \A j \in DOMAIN air : air[j] \in R
  <2> HIDE DEF R
  <2>1. DOMAIN air = 1 .. Len(air)
    BY <1>1, LenProperties
  <2>2. QED BY <1>1, <2>1, ElementOfSeq
<1>3. DOMAIN air' = DOMAIN air /\ \A j \in DOMAIN air : air'[j] \in R /\ air'[j].tx = air[j].tx
  BY <1>1, <1>2
<1>4. Len(air) \in Nat /\ DOMAIN air = 1 .. Len(air)
  BY <1>1
<1>5. air' = [j \in 1 .. Len(air) |-> air'[j]]
  BY <1>1, <1>4
<1> HIDE DEF R
<1>6. air' \in Seq(R)
  BY <1>3, <1>4, <1>5, SeqDef
<1>7. QED BY <1>3, <1>6 DEF R

(* What is in the air is a transaction and an outcome. *)
LEMMA AirType ==
    ASSUME SenderTypeOK, NEW i \in DOMAIN air
    PROVE  air[i].tx \in Tx /\ air[i].outcome \in Outcomes
<1> DEFINE R == [tx : Tx, outcome : Outcomes]
<1>1. air \in Seq(R)
  BY DEF SenderTypeOK
<1>2. air[i] \in R
  <2> HIDE DEF R
  <2>1. DOMAIN air = 1 .. Len(air)
    BY <1>1, LenProperties
  <2>2. QED BY <1>1, <2>1, ElementOfSeq
<1>3. QED BY <1>2

(* A broadcast, answered in any way, touches the air, what the sequencer    *)
(* holds and the count of losses.                                          *)
LEMMA ArriveType ==
    ASSUME SenderTypeOK, NEW i \in DOMAIN air, Arrive(i)
    PROVE  /\ air' \in Seq([tx : Tx, outcome : Outcomes])
           /\ DOMAIN air' = DOMAIN air
           /\ \A j \in DOMAIN air : air'[j].tx = air[j].tx
           /\ held' \subseteq Tx /\ faults' \in 0 .. MaxFaults
<1>1. \E o \in Outcomes : Answered(i, o)
  BY DEF Arrive, Accepted, Rejected, PoolFull, NeverSent, Swallowed, Outcomes
<1>2. air[i].tx \in Tx
  BY AirType
<1>3. held' \subseteq Tx
  BY <1>2 DEF Arrive, Accepted, Rejected, PoolFull, NeverSent, Swallowed, Rivals, SenderTypeOK
<1>4. faults' \in 0 .. MaxFaults
  BY TxSenderAssumption DEF Arrive, Accepted, Rejected, PoolFull, NeverSent, Swallowed, SenderTypeOK,
     TxSenderAssumption
<1>5. QED BY <1>1, <1>3, <1>4, AnsweredType

LEMMA TypeStep == TInv /\ [SenderNext]_senderVars => TInv'
<1> SUFFICES ASSUME TInv, [SenderNext]_senderVars PROVE TInv'
  OBVIOUS
<1> DEFINE R == [tx : Tx, outcome : Outcomes]
<1>a. SenderTypeOK /\ IsFiniteSet(pending)
  BY DEF TInv
<1>b. 0 \in 0 .. BackpressurePause /\ BackpressurePause \in 0 .. BackpressurePause /\ BaseFee \in Nat /\ WithdrawFee \in Nat
      /\ 0 \in 0 .. PendingTimeout
  BY TxSenderAssumption DEF TxSenderAssumption
<1>1. ASSUME NEW n \in 0 .. MaxNonce, Seed(n) PROVE TInv'
  <2>1. n \in Nat /\ n \notin {NoNonce}
    BY TxSenderAssumption DEF TxSenderAssumption
  <2>2. QED BY <1>1, <1>a, <2>1 DEF Seed, TInv, SenderTypeOK, worldVars
<1>2. ASSUME NEW n \in 0 .. MaxNonce, ObserveLanded(n) PROVE TInv'
  <2>1. landed' \in 0 .. chainNonce
    BY <1>2, <1>a DEF ObserveLanded, SenderTypeOK
  <2>2. IsBook(escalate')
    BY <1>2, <1>a, PrunedIsBook DEF ObserveLanded, SenderTypeOK, IsBook
  <2>3. QED BY <1>2, <1>a, <2>1, <2>2 DEF ObserveLanded, TInv, SenderTypeOK, IsBook, worldVars
<1>3. ASSUME NEW n \in 0 .. MaxNonce, Reserve(n) PROVE TInv'
  <2> DEFINE t == [pair |-> Head(todo).pair, kind |-> Head(todo).kind,
                   nonce |-> n, fee |-> FeesFor(n, feeTier)]
             e == [tx |-> t, outcome |-> "flying"]
  <2>1. todo \in Seq(Intents) /\ todo # <<>>
    BY <1>3, <1>a DEF Reserve, SenderTypeOK
  <2>2. Head(todo) \in Intents /\ Tail(todo) \in Seq(Intents)
    BY <2>1, HeadTailProperties
  <2>3. n \in Nat /\ feeTier \in Nat
    BY <1>a, <1>b DEF SenderTypeOK
  <2>4. FeesFor(n, feeTier) \in Nat
    BY <1>a, <2>3, FeesForType
  <2>5. t \in Tx
    BY <2>2, <2>3, <2>4 DEF Intents, Tx
  <2>6. e \in R
    <3> HIDE DEF t
    <3> QED BY <2>5 DEF Outcomes
  <2>7. air \in Seq(R) /\ air' = Append(air, e)
    BY <1>3, <1>a DEF Reserve, SenderTypeOK
  <2>8. air' \in Seq(R)
    <3> HIDE DEF R, e
    <3> QED BY <2>6, <2>7, AppendProperties
  <2>9. next' \in Nat \cup {NoNonce} /\ free' \subseteq Nat
    <3>1. next \in Nat \cup {NoNonce} /\ free \subseteq Nat
      BY <1>a DEF SenderTypeOK
    <3>2. CASE free = {}
      <4>1. n = next /\ next' = next + 1 /\ free' = free
        BY <1>3, <3>2 DEF Reserve, IsNextReserved, TakeNonce
      <4>2. QED BY <4>1, <3>1, <2>3
    <3>3. CASE free # {}
      <4>1. next' = next /\ free' = free \ {n}
        BY <1>3, <3>3 DEF Reserve, TakeNonce
      <4>2. QED BY <4>1, <3>1
    <3>4. QED BY <3>2, <3>3
  <2>10. todo' \in Seq(Intents)
    BY <1>3, <2>2 DEF Reserve
  <2>11. QED BY <1>3, <1>a, <2>8, <2>9, <2>10 DEF Reserve, TInv, SenderTypeOK, worldVars
<1>4. ASSUME NEW b \in Offers, Offer(b) PROVE TInv'
  <2>1. b \in Seq(Intents)
    BY TxSenderAssumption DEF TxSenderAssumption, Intents
  <2>2. InFlightTotal \in Nat
    <3>1. IsFiniteSet({e \in pending : e.nonce >= landed})
      BY <1>a, FS_Subset
    <3>2. QED BY <3>1, FS_CardinalityType DEF InFlightTotal
  <2> DEFINE headroom == InFlightTotalMax - InFlightTotal
             k        == IF Len(b) < headroom THEN Len(b) ELSE headroom
  <2>3. Len(b) \in Nat /\ DOMAIN b = 1 .. Len(b)
    BY <2>1, LenProperties
  <2>4. k \in Int /\ k <= Len(b)
    BY <2>2, <2>3, TxSenderAssumption DEF TxSenderAssumption
  <2>5. \A i \in 1 .. k : b[i] \in Intents
    <3> HIDE DEF k
    <3>1. \A i \in 1 .. k : i \in 1 .. Len(b)
      BY <2>3, <2>4
    <3>2. QED BY <3>1, <2>1, ElementOfSeq
  <2>6. SubSeq(b, 1, k) \in Seq(Intents)
    <3> HIDE DEF k
    <3> QED BY <2>4, <2>5, SubSeqProperties
  <2>7. todo' \in Seq(Intents)
    BY <1>4, <2>6 DEF Offer
  <2>8. QED BY <1>4, <1>a, <2>7 DEF Offer, TInv, SenderTypeOK, worldVars
<1>5. ASSUME NEW p \in Pairs, WithdrawPair(p) PROVE TInv'
  <2>1. [pair |-> p, kind |-> "withdrawal"] \in Intents
    BY <1>5 DEF WithdrawPair, Intents
  <2>2. todo' \in Seq(Intents)
    BY <1>5, <2>1 DEF WithdrawPair
  <2>3. QED BY <1>5, <1>a, <2>2 DEF WithdrawPair, TInv, SenderTypeOK, worldVars
<1>6. ASSUME SignFails PROVE TInv'
  <2>1. free' \subseteq Nat
    <3>1. \A i \in DOMAIN air : air[i].tx \in Tx
      BY <1>a, AirType
    <3>2. \A i \in DOMAIN air : air[i].tx.nonce \in Nat
      BY <3>1 DEF Tx
    <3>3. QED BY <1>6, <1>a, <3>2 DEF SignFails, Releasable, SenderTypeOK
  <2>2. air' \in Seq(R)
    BY <1>6 DEF SignFails
  <2>3. QED BY <1>6, <1>a, <2>1, <2>2 DEF SignFails, TInv, SenderTypeOK, worldVars
<1>7. ASSUME Broadcast PROVE TInv'
  BY <1>7, <1>a DEF Broadcast, TInv, SenderTypeOK, worldVars
<1>8. ASSUME AllAnswered PROVE TInv'
  BY <1>8, <1>a DEF AllAnswered, TInv, SenderTypeOK, worldVars
<1>9. ASSUME Fold PROVE TInv'
  <2> DEFINE t == Head(air).tx
  <2>1. air \in Seq(R) /\ air # <<>>
    BY <1>9, <1>a DEF Fold, SenderTypeOK
  <2>2. Head(air) \in R /\ Tail(air) \in Seq(R)
    <3> HIDE DEF R
    <3> QED BY <2>1, HeadTailProperties
  <2>3. t \in Tx /\ t.nonce \in Nat
    BY <2>2 DEF Tx
  <2>4. air' \in Seq(R)
    BY <1>9, <2>2 DEF Fold
  <2> HIDE DEF t
  <2>5. pending' \subseteq Entries /\ IsFiniteSet(pending')
    <3>1. CASE Track(t)
      BY <3>1, <2>3, TrackType DEF TInv
    <3>2. CASE UNCHANGED pending
      BY <3>2, <1>a DEF SenderTypeOK
    <3>3. QED BY <1>9, <3>1, <3>2 DEF Fold, t
  <2>6. IsBook(escalate')
    <3>1. IsBook(escalate)
      BY <1>a DEF SenderTypeOK, IsBook
    <3>2. IsFiniteSet({t}) /\ {t} \in SUBSET Tx
      BY <2>3, FS_Singleton
    <3>3. IsBook(Escalated(escalate, {t}))
      BY <3>1, <3>2, EscalatedIsBook
    <3>4. escalate' = Escalated(escalate, {t}) \/ escalate' = escalate
      BY <1>9 DEF Fold, t
    <3>5. QED BY <3>1, <3>3, <3>4
  <2>7. next' \in Nat \cup {NoNonce} /\ free' \subseteq Nat
    BY <1>9, <1>a, <2>3 DEF Fold, Releasable, Resync, SenderTypeOK, t
  <2>8. pause' \in 0 .. BackpressurePause
    BY <1>9, <1>a, <1>b DEF Fold, SenderTypeOK
  <2>9. reread' \in BOOLEAN
    <3>1. reread' = reread \/ \E o \in BOOLEAN : Resync(o)
      BY <1>9 DEF Fold
    <3>2. QED BY <3>1, <1>a DEF Resync, SenderTypeOK
  <2>10. QED
    BY <1>9, <1>a, <2>4, <2>5, <2>6, <2>7, <2>8, <2>9
       DEF Fold, TInv, SenderTypeOK, IsBook, worldVars
<1>10. ASSUME PhaseDone PROVE TInv'
  BY <1>10, <1>a DEF PhaseDone, TInv, SenderTypeOK, worldVars
<1>11. ASSUME NEW i \in DOMAIN air, Arrive(i) PROVE TInv'
  <2>1. /\ air' \in Seq(R)
        /\ held' \subseteq Tx /\ faults' \in 0 .. MaxFaults
    BY <1>11, <1>a, ArriveType
  <2>2. QED BY <1>11, <1>a, <2>1 DEF Arrive, TInv, SenderTypeOK
<1>12. ASSUME NEW t \in held, Execute(t) PROVE TInv'
  <2>1. t \in Tx /\ executed \in Seq(Tx) /\ Len(executed) = chainNonce /\ chainNonce \in Nat
    BY <1>a DEF SenderTypeOK
  <2>2. executed' \in Seq(Tx) /\ Len(executed') = chainNonce + 1
    BY <1>12, <2>1, AppendProperties DEF Execute
  <2>3. landed' \in 0 .. chainNonce' /\ chainNonce' \in Nat /\ Len(executed') = chainNonce'
    BY <1>12, <1>a, <2>1, <2>2 DEF Execute, SenderTypeOK, engineVars
  <2>4. QED BY <1>12, <1>a, <2>2, <2>3 DEF Execute, TInv, SenderTypeOK, engineVars
<1>13. ASSUME NEW t \in held, Lose(t) PROVE TInv'
  <2>1. faults' \in 0 .. MaxFaults
    BY <1>13, <1>a, TxSenderAssumption DEF Lose, SenderTypeOK, TxSenderAssumption
  <2>2. QED BY <1>13, <1>a, <2>1 DEF Lose, TInv, SenderTypeOK, engineVars
<1>14. ASSUME BeginPoll PROVE TInv'
  BY <1>14, <1>a DEF BeginPoll, TInv, SenderTypeOK, worldVars
<1>15. ASSUME NEW e \in pending, Receipt(e) PROVE TInv'
  <2>1. pending' \subseteq pending
    BY <1>15 DEF Receipt
  <2>2. IsFiniteSet(pending')
    BY <1>a, <2>1, FS_Subset
  <2>3. QED BY <1>15, <1>a, <2>1, <2>2 DEF Receipt, TInv, SenderTypeOK, worldVars
<1>16. ASSUME Sweep PROVE TInv'
  <2> DEFINE unexecuted == {e \in TimedOut : e.nonce >= landed}
             back       == {HashOf(e) : e \in unexecuted}
  <2>1. pending' \subseteq pending
    BY <1>16 DEF Sweep
  <2>2. IsFiniteSet(pending')
    BY <1>a, <2>1, FS_Subset
  <2>3. unexecuted \subseteq pending
    BY DEF TimedOut, Stuck
  <2>4. back \subseteq Tx
    BY <1>a, <2>3 DEF HashOf, SenderTypeOK, Entries, Tx
  <2>5. IsFiniteSet(back)
    <3>1. IsFiniteSet(unexecuted)
      BY <1>a, <2>3, FS_Subset
    <3> DEFINE f == [e \in unexecuted |-> HashOf(e)]
    <3> HIDE DEF unexecuted
    <3>2. IsFiniteSet({f[e] : e \in unexecuted})
      BY <3>1, ImageIsFinite
    <3>3. {f[e] : e \in unexecuted} = back
      OBVIOUS
    <3>4. QED BY <3>2, <3>3
  <2>6. IsBook(escalate')
    <3>1. IsBook(escalate)
      BY <1>a DEF SenderTypeOK, IsBook
    <3>2. escalate' = Escalated(escalate, back)
      BY <1>16 DEF Sweep
    <3> HIDE DEF back
    <3>3. QED BY <3>1, <3>2, <2>4, <2>5, EscalatedIsBook
  <2>7. next' \in Nat \cup {NoNonce} /\ free' \subseteq Nat
    <3>1. \A e \in unexecuted : e.nonce \in Nat
      BY <1>a, <2>3 DEF SenderTypeOK, Entries
    <3>2. Releasable({e.nonce : e \in unexecuted}) \subseteq Nat
      BY <3>1 DEF Releasable
    <3>3. QED BY <1>16, <1>a, <3>2 DEF Sweep, Resync, SenderTypeOK
  <2>8. reread' \in BOOLEAN
    BY <1>16, <1>a DEF Sweep, Resync, SenderTypeOK
  <2>9. QED
    BY <1>16, <1>a, <2>1, <2>2, <2>6, <2>7, <2>8
       DEF Sweep, TInv, SenderTypeOK, IsBook, worldVars
<1>17. ASSUME SenderTick PROVE TInv'
  <2> DEFINE older(e) == [e EXCEPT !.age = IF @ < PendingTimeout THEN @ + 1 ELSE @]
             f        == [e \in pending |-> older(e)]
  <2>1. pending' = {f[e] : e \in pending}
    BY <1>17 DEF SenderTick
  <2>2. IsFiniteSet(pending')
    <3> HIDE DEF f
    <3>1. f = [e \in pending |-> f[e]]
      BY DEF f
    <3>2. QED BY <1>a, <2>1, <3>1, ImageIsFinite
  <2>3. \A e \in pending : older(e) \in Entries
    <3> TAKE e \in pending
    <3>1. e \in Entries /\ e.age \in 0 .. PendingTimeout /\ PendingTimeout \in Nat
      BY <1>a, TxSenderAssumption DEF SenderTypeOK, Entries, TxSenderAssumption
    <3> DEFINE a == IF e.age < PendingTimeout THEN e.age + 1 ELSE e.age
    <3>2. a \in 0 .. PendingTimeout
      BY <3>1
    <3>3. older(e) = [e EXCEPT !.age = a]
      OBVIOUS
    <3> HIDE DEF a
    <3>4. QED BY <3>1, <3>2, <3>3 DEF Entries
  <2>4. pending' \subseteq Entries
    BY <2>1, <2>3
  <2>5. pause' \in 0 .. BackpressurePause
    <3>1. pause \in 0 .. BackpressurePause /\ BackpressurePause \in Nat
      BY <1>a, TxSenderAssumption DEF SenderTypeOK, TxSenderAssumption
    <3>2. pause' = IF pause < BackpressurePause THEN pause + 1 ELSE pause
      BY <1>17 DEF SenderTick
    <3>3. QED BY <3>1, <3>2
  <2>6. QED BY <1>17, <1>a, <2>2, <2>4, <2>5 DEF SenderTick, TInv, SenderTypeOK, worldVars
<1>18. ASSUME Crash PROVE TInv'
  <2>1. IsFiniteSet(pending') /\ pending' \subseteq Entries
    BY <1>18, FS_EmptySet DEF Crash
  <2>2. DOMAIN escalate' = {} /\ air' \in Seq(R) /\ todo' \in Seq(Intents)
    BY <1>18 DEF Crash
  <2>3. landed' \in 0 .. chainNonce' /\ restarts' \in 0 .. MaxRestarts
    BY <1>18, <1>a, TxSenderAssumption DEF Crash, SenderTypeOK, TxSenderAssumption
  <2>4. QED BY <1>18, <1>a, <1>b, <2>1, <2>2, <2>3 DEF Crash, TInv, SenderTypeOK
<1>19. ASSUME UNCHANGED senderVars PROVE TInv'
  BY <1>19, <1>a DEF senderVars, engineVars, worldVars, TInv, SenderTypeOK
<1>20. QED
  BY <1>1, <1>2, <1>3, <1>4, <1>5, <1>6, <1>7, <1>8, <1>9, <1>10, <1>11, <1>12,
     <1>13, <1>14, <1>15, <1>16, <1>17, <1>18, <1>19 DEF SenderNext

(* Every variable of the sender keeps its type, whatever the pairs, the     *)
(* fees, the timeouts and the sequencer's answers.                         *)
THEOREM TypeCorrect == SenderSpec => []SenderTypeOK
<1>1. SenderInit => TInv
  BY TypeInit
<1>2. TInv /\ [SenderNext]_senderVars => TInv'
  BY TypeStep
<1>3. TInv => SenderTypeOK
  BY DEF TInv
<1>4. QED BY <1>1, <1>2, <1>3, PTL DEF SenderSpec

-----------------------------------------------------------------------------
(* The book of nonces.                                                     *)

(* The air holds nothing between phases, and a phase reserves only from a   *)
(* seeded book.                                                            *)
PhaseOK ==
    /\ engine \in {"idle", "polling"} => air = <<>>
    /\ engine = "reserving" => Seeded

(* Holes are below `next`, seeded or not; an unseeded book that was not     *)
(* re-read over outstanding transactions has nothing outstanding.          *)
BookOK ==
    /\ Seeded => \A m \in free : m < next
    /\ ~Seeded => free = {}
    /\ ~Seeded /\ ~reread => pending = {} /\ air = <<>>

(* While a phase reserves, what it has taken is below all it may still take. *)
TakenFromBelow ==
    engine = "reserving" =>
        \A i \in DOMAIN air : /\ air[i].tx.nonce < next
                              /\ \A m \in free : air[i].tx.nonce < m

BInv == PhaseOK /\ BookOK /\ TakenFromBelow /\ ReservedInOrder /\ SignedOnce

LEMMA BookInit == SenderInit => BInv
<1> SUFFICES ASSUME SenderInit PROVE BInv
  OBVIOUS
<1>1. next = NoNonce /\ free = {} /\ pending = {} /\ air = <<>> /\ engine = "idle"
  BY DEF SenderInit
<1>2. ~Seeded /\ DOMAIN air = {}
  BY <1>1 DEF Seeded
<1>3. PhaseOK /\ BookOK /\ TakenFromBelow
  BY <1>1, <1>2 DEF PhaseOK, BookOK, TakenFromBelow
<1>4. ReservedInOrder /\ SignedOnce
  BY <1>2 DEF ReservedInOrder, SignedOnce
<1>5. QED BY <1>3, <1>4 DEF BInv

(* A step that leaves the book, the air and the pending set alone preserves *)
(* the invariant wherever it takes the task.                               *)
LEMMA BookUntouched ==
    ASSUME BInv, UNCHANGED <<next, free, air, pending, reread>>, PhaseOK',
           engine' = "reserving" => engine = "reserving" \/ air = <<>>
    PROVE  BInv'
<1>1. BookOK' /\ ReservedInOrder'
  BY DEF BInv, BookOK, ReservedInOrder, Seeded
<1>2. SignedOnce'
  BY DEF BInv, SignedOnce, Seeded
<1>3. TakenFromBelow'
  BY DEF BInv, TakenFromBelow
<1>4. QED BY <1>1, <1>2, <1>3 DEF BInv

(* Reserving takes a nonce nobody holds: from the free set, where nothing   *)
(* tracked is, or from `next`, which everything is below.                  *)
LEMMA BookReserve ==
    ASSUME SenderTypeOK, BInv, NEW n \in Nat, Reserve(n)
    PROVE  BInv'
<1> DEFINE e == [tx |-> [pair |-> Head(todo).pair, kind |-> Head(todo).kind,
                         nonce |-> n, fee |-> FeesFor(n, feeTier)],
                 outcome |-> "flying"]
           k == Len(air)
<1>1. engine = "reserving" /\ engine' = "reserving" /\ Seeded /\ air' = Append(air, e)
      /\ UNCHANGED <<pending, reread>> /\ e.tx.nonce = n
  BY DEF Reserve, BInv, PhaseOK
<1>2. next \in Nat /\ NoNonce \notin Nat /\ free \subseteq Nat
  BY <1>1, TxSenderAssumption DEF SenderTypeOK, Seeded, TxSenderAssumption
<1>3. \A m \in free : m < next
  BY <1>1 DEF BInv, BookOK
<1>4. /\ n < next' /\ next <= next' /\ next' \in Nat
      /\ \A m \in free' : m \in free /\ n < m /\ m < next'
  <2>1. CASE free = {}
    BY <2>1, <1>2 DEF Reserve, IsNextReserved, TakeNonce
  <2>2. CASE free # {}
    <3>1. n \in free /\ next' = next /\ free' = free \ {n} /\ \A m \in free : n <= m
      BY <2>2 DEF Reserve, IsNextReserved, TakeNonce
    <3>2. \A m \in free' : n <= m /\ n # m /\ m \in Nat
      BY <3>1, <1>2
    <3>3. QED BY <3>1, <3>2, <1>2, <1>3
  <2>3. QED BY <2>1, <2>2
<1>5. Seeded'
  BY <1>2, <1>4 DEF Seeded
<1>6. \A i \in DOMAIN air : air[i].tx.nonce \in Nat /\ air[i].tx.nonce < n
  <2>1. \A i \in DOMAIN air : air[i].tx.nonce < next /\ \A m \in free : air[i].tx.nonce < m
    BY <1>1 DEF BInv, TakenFromBelow
  <2>2. \A i \in DOMAIN air : air[i].tx \in Tx
    BY AirType
  <2>3. n = next \/ n \in free
    BY DEF Reserve, IsNextReserved
  <2>4. QED BY <2>1, <2>2, <2>3 DEF Tx
<1>7. /\ k \in Nat /\ DOMAIN air = 1 .. k /\ DOMAIN air' = 1 .. k + 1
      /\ \A i \in 1 .. k : air'[i] = air[i]
      /\ air'[k + 1] = e
  BY <1>1 DEF SenderTypeOK
<1> HIDE DEF e, k
<1>8. \A i \in DOMAIN air' : \/ i \in DOMAIN air /\ air'[i].tx.nonce = air[i].tx.nonce
                             \/ i = k + 1 /\ air'[i].tx.nonce = n
  BY <1>1, <1>7
<1>9. PhaseOK' /\ BookOK'
  BY <1>1, <1>4, <1>5 DEF PhaseOK, BookOK
<1>10. TakenFromBelow'
  <2>1. \A i \in DOMAIN air' : air'[i].tx.nonce \in Nat /\ air'[i].tx.nonce <= n
    BY <1>6, <1>8
  <2>2. \A m \in free' : m \in Nat /\ n < m
    BY <1>2, <1>4
  <2>3. QED BY <2>1, <2>2, <1>4 DEF TakenFromBelow
<1>11. ReservedInOrder'
  <2>1. ReservedInOrder
    BY DEF BInv
  <2>2. SUFFICES ASSUME NEW i \in DOMAIN air', NEW j \in DOMAIN air', i < j
                 PROVE  air'[i].tx.nonce < air'[j].tx.nonce
    BY DEF ReservedInOrder
  <2>3. i \in DOMAIN air
    BY <1>7, <2>2
  <2>4. CASE j \in DOMAIN air
    BY <2>1, <2>2, <2>3, <2>4, <1>7 DEF ReservedInOrder
  <2>5. CASE j = k + 1
    BY <2>3, <2>5, <1>1, <1>6, <1>7
  <2>6. QED BY <1>8, <2>4, <2>5
<1>12. SignedOnce'
  <2>1. SUFFICES ASSUME ~reread
                 PROVE  /\ \A m \in free' : m < next'
                        /\ \A d \in pending : d.nonce < next' /\ d.nonce \notin free'
                        /\ \A d, g \in pending : d.nonce = g.nonce => d = g
                        /\ \A i \in DOMAIN air' :
                              /\ air'[i].tx.nonce < next' /\ air'[i].tx.nonce \notin free'
                              /\ \A d \in pending : d.nonce # air'[i].tx.nonce
    BY <1>1 DEF SignedOnce
  <2>2. /\ \A d \in pending : d.nonce < next /\ d.nonce \notin free
        /\ \A d, g \in pending : d.nonce = g.nonce => d = g
        /\ \A i \in DOMAIN air : \A d \in pending : d.nonce # air[i].tx.nonce
    BY <1>1, <2>1 DEF BInv, SignedOnce
  <2>3. \A d \in pending : d.nonce \in Nat
    BY DEF SenderTypeOK, Entries
  <2>4. \A d \in pending : d.nonce < next' /\ d.nonce \notin free' /\ d.nonce # n
    <3>1. n = next \/ n \in free
      BY DEF Reserve, IsNextReserved
    <3>2. QED BY <2>2, <2>3, <3>1, <1>2, <1>4
  <2>5. \A i \in DOMAIN air' : air'[i].tx.nonce \in Nat /\ air'[i].tx.nonce < next'
    BY <1>4, <1>6, <1>8
  <2>6. \A i \in DOMAIN air' : air'[i].tx.nonce \notin free'
    <3>1. \A i \in DOMAIN air' : air'[i].tx.nonce <= n
      BY <1>6, <1>8
    <3>2. QED BY <3>1, <2>5, <1>4, <1>2
  <2>7. \A i \in DOMAIN air' : \A d \in pending : d.nonce # air'[i].tx.nonce
    BY <2>2, <2>4, <1>8
  <2>8. QED BY <1>4, <2>2, <2>4, <2>5, <2>6, <2>7
<1>13. QED BY <1>9, <1>10, <1>11, <1>12 DEF BInv

(* Signing failed: the phase's nonces move from the air to the free set. *)
LEMMA BookSignFails ==
    ASSUME SenderTypeOK, BInv, SignFails
    PROVE  BInv'
<1>1. /\ engine = "reserving" /\ engine' = "idle" /\ Seeded /\ air' = <<>>
      /\ UNCHANGED <<next, pending, reread>>
      /\ DOMAIN air' = {} /\ Seeded'
  BY DEF SignFails, BInv, PhaseOK, Seeded
<1>2. \A m \in free' : m \in free \/ \E i \in DOMAIN air : m = air[i].tx.nonce
  BY <1>1 DEF SignFails, Releasable
<1>3. \A m \in free' : m < next
  BY <1>1, <1>2 DEF BInv, BookOK, TakenFromBelow
<1>4. PhaseOK' /\ BookOK' /\ TakenFromBelow' /\ ReservedInOrder'
  BY <1>1, <1>3 DEF PhaseOK, BookOK, TakenFromBelow, ReservedInOrder
<1>5. SignedOnce'
  BY <1>1, <1>2, <1>3 DEF BInv, SignedOnce
<1>6. QED BY <1>4, <1>5 DEF BInv

(* Folding one outcome: its nonce moves from the air to the pending set, or *)
(* to the free set, or the whole book is forgotten.                        *)
LEMMA BookFold ==
    ASSUME SenderTypeOK, BInv, Fold
    PROVE  BInv'
<1> DEFINE R == [tx : Tx, outcome : Outcomes]
           t == Head(air).tx
           k == Len(air)
<1>1. /\ engine = "folding" /\ engine' = "folding" /\ air # <<>> /\ air' = Tail(air)
      /\ \/ UNCHANGED <<next, free, reread>> /\ Track(t)
         \/ UNCHANGED <<next, pending, reread>> /\ free' = free \cup Releasable({t.nonce})
         \/ UNCHANGED pending /\ Resync(pending # {} \/ Tail(air) # <<>>)
  BY DEF Fold
<1>2. /\ k \in Nat /\ k # 0 /\ DOMAIN air = 1 .. k /\ 1 \in DOMAIN air /\ t = air[1].tx
      /\ DOMAIN air' = 1 .. k - 1
      /\ \A i \in DOMAIN air' : i + 1 \in DOMAIN air /\ air'[i] = air[i + 1]
  <2>1. air \in Seq(R)
    BY DEF SenderTypeOK
  <2> HIDE DEF R
  <2>2. k \in Nat /\ DOMAIN air = 1 .. k /\ k # 0
    BY <2>1, <1>1, LenProperties, EmptySeq
  <2>3. Tail(air) \in Seq(R) /\ Len(Tail(air)) = k - 1
        /\ \A i \in 1 .. Len(Tail(air)) : Tail(air)[i] = air[i + 1]
    BY <2>1, <1>1, HeadTailProperties
  <2>4. DOMAIN Tail(air) = 1 .. k - 1
    BY <2>3, LenProperties
  <2>5. Head(air) = air[1]
    BY <2>1, <1>1
  <2>6. QED BY <2>2, <2>3, <2>4, <2>5, <1>1
<1> HIDE DEF t, k
<1>3. \A i \in DOMAIN air : air[i].tx.nonce \in Nat
  BY AirType DEF Tx
<1>4. t.nonce \in Nat /\ \A i \in DOMAIN air' : air'[i].tx.nonce # t.nonce
  <2>1. t.nonce \in Nat
    BY <1>2, <1>3
  <2>2. ASSUME NEW i \in DOMAIN air' PROVE air'[i].tx.nonce # t.nonce
    <3>1. 1 < i + 1 /\ i + 1 \in DOMAIN air
      BY <1>2
    <3>2. air[1].tx.nonce < air[i + 1].tx.nonce
      BY <3>1, <1>2 DEF BInv, ReservedInOrder
    <3>3. QED BY <3>1, <3>2, <1>2, <1>3
  <2>3. QED BY <2>1, <2>2
<1>5. ReservedInOrder'
  <2>1. SUFFICES ASSUME NEW i \in DOMAIN air', NEW j \in DOMAIN air', i < j
                 PROVE  air'[i].tx.nonce < air'[j].tx.nonce
    BY DEF ReservedInOrder
  <2>2. i + 1 < j + 1
    BY <2>1, <1>2
  <2>3. QED BY <2>2, <1>2 DEF BInv, ReservedInOrder
<1>6. PhaseOK' /\ TakenFromBelow'
  BY <1>1 DEF PhaseOK, TakenFromBelow
<1>7. CASE UNCHANGED <<next, free, reread>> /\ Track(t)
  <2>1. Seeded' = Seeded
    BY <1>7 DEF Seeded
  <2>2. BookOK'
    BY <1>1, <1>7, <2>1 DEF BInv, BookOK
  <2> DEFINE e == [pair |-> t.pair, kind |-> t.kind, nonce |-> t.nonce, fee |-> t.fee,
                   age |-> 0, seat |-> NextSeat(t.pair)]
  <2>3. pending' = pending \cup {e} /\ e.nonce = t.nonce
    BY <1>7 DEF Track
  <2> HIDE DEF e
  <2>4. SUFFICES ASSUME Seeded, ~reread PROVE SignedOnce'
    BY <1>5, <1>6, <1>7, <2>1, <2>2 DEF BInv, SignedOnce
  <2>5. /\ \A n \in free : n < next
        /\ \A d \in pending : d.nonce < next /\ d.nonce \notin free
        /\ \A d, g \in pending : d.nonce = g.nonce => d = g
        /\ \A i \in DOMAIN air :
               /\ air[i].tx.nonce < next /\ air[i].tx.nonce \notin free
               /\ \A d \in pending : d.nonce # air[i].tx.nonce
    BY <2>4 DEF BInv, SignedOnce
  <2>6. t.nonce < next /\ t.nonce \notin free /\ \A d \in pending : d.nonce # t.nonce
    BY <2>5, <1>2
  <2>7. \A d, g \in pending' : d.nonce = g.nonce => d = g
    BY <2>3, <2>5, <2>6
  <2>8. \A i \in DOMAIN air' :
               /\ air'[i].tx.nonce < next /\ air'[i].tx.nonce \notin free
               /\ \A d \in pending' : d.nonce # air'[i].tx.nonce
    BY <1>2, <1>4, <2>3, <2>5
  <2>9. \A d \in pending' : d.nonce < next /\ d.nonce \notin free
    BY <2>3, <2>5, <2>6
  <2>10. QED BY <1>7, <2>5, <2>7, <2>8, <2>9 DEF SignedOnce
<1>8. CASE UNCHANGED <<next, pending, reread>> /\ free' = free \cup Releasable({t.nonce})
  <2>1. Seeded' = Seeded
    BY <1>8 DEF Seeded
  <2>2. free' \subseteq free \cup {t.nonce}
    BY <1>8 DEF Releasable
  <2>3. BookOK'
    <3>1. Seeded => \A m \in free' : m < next
      BY <1>8 DEF BInv, BookOK, Releasable
    <3>2. ~Seeded => free' = {}
      BY <1>8 DEF BInv, BookOK, Releasable
    <3>3. ~Seeded => reread
      BY <1>1 DEF BInv, BookOK
    <3>4. QED BY <1>8, <2>1, <3>1, <3>2, <3>3 DEF BookOK
  <2>4. SUFFICES ASSUME Seeded, ~reread PROVE SignedOnce'
    BY <1>5, <1>6, <1>8, <2>1, <2>3 DEF BInv, SignedOnce
  <2>5. /\ \A d \in pending : d.nonce < next /\ d.nonce \notin free
        /\ \A d, g \in pending : d.nonce = g.nonce => d = g
        /\ \A i \in DOMAIN air :
               /\ air[i].tx.nonce < next /\ air[i].tx.nonce \notin free
               /\ \A d \in pending : d.nonce # air[i].tx.nonce
    BY <2>4 DEF BInv, SignedOnce
  <2>6. \A d \in pending : d.nonce # t.nonce
    BY <2>5, <1>2
  <2>7. \A i \in DOMAIN air' :
               /\ air'[i].tx.nonce < next /\ air'[i].tx.nonce \notin free'
               /\ \A d \in pending : d.nonce # air'[i].tx.nonce
    BY <1>2, <1>4, <2>2, <2>5
  <2>8. \A m \in free' : m < next
    BY <2>1, <2>3, <2>4, <1>8 DEF BookOK
  <2>9. QED BY <1>8, <2>2, <2>5, <2>6, <2>7, <2>8 DEF SignedOnce
<1>9. CASE UNCHANGED pending /\ Resync(pending # {} \/ Tail(air) # <<>>)
  <2>1. next' = NoNonce /\ free' = {} /\ reread' = (reread \/ (pending # {} \/ Tail(air) # <<>>))
    BY <1>9 DEF Resync
  <2>2. ~Seeded'
    BY <2>1 DEF Seeded
  <2>3. BookOK' /\ SignedOnce'
    BY <1>1, <1>9, <2>1, <2>2 DEF BookOK, SignedOnce
  <2>4. QED BY <1>5, <1>6, <2>3 DEF BInv
<1>10. QED BY <1>1, <1>7, <1>8, <1>9

(* An answer changes an outcome in the air, never a nonce. *)
LEMMA BookArrive ==
    ASSUME SenderTypeOK, BInv, NEW i \in DOMAIN air, Arrive(i)
    PROVE  BInv'
<1>1. DOMAIN air' = DOMAIN air /\ \A j \in DOMAIN air : air'[j].tx = air[j].tx
  BY ArriveType
<1>2. UNCHANGED <<engine, next, free, pending, reread>> /\ engine = "flying"
  BY DEF Arrive
<1>3. PhaseOK' /\ TakenFromBelow'
  BY <1>2 DEF PhaseOK, TakenFromBelow
<1>4. BookOK'
  <2>1. air # <<>>
    OBVIOUS
  <2>2. ~Seeded => reread
    BY <2>1 DEF BInv, BookOK
  <2>3. QED BY <1>2, <2>2 DEF BInv, BookOK, Seeded
<1>5. ReservedInOrder'
  BY <1>1 DEF BInv, ReservedInOrder
<1>6. SignedOnce'
  BY <1>1, <1>2 DEF BInv, SignedOnce, Seeded
<1>7. QED BY <1>3, <1>4, <1>5, <1>6 DEF BInv

(* Fewer tracked transactions, the book and the air as they were. *)
LEMMA BookForgets ==
    ASSUME BInv, pending' \subseteq pending, UNCHANGED <<engine, next, free, air, reread>>
    PROVE  BInv'
<1>1. PhaseOK' /\ TakenFromBelow' /\ ReservedInOrder'
  BY DEF BInv, PhaseOK, TakenFromBelow, ReservedInOrder, Seeded
<1>2. BookOK'
  BY DEF BInv, BookOK, Seeded
<1>3. SignedOnce'
  BY DEF BInv, SignedOnce, Seeded
<1>4. QED BY <1>1, <1>2, <1>3 DEF BInv

(* The sweep frees the nonces of the transactions it gave up on, which no   *)
(* transaction it keeps shares; or it forgets the book.                    *)
LEMMA BookSweep ==
    ASSUME SenderTypeOK, BInv, Sweep
    PROVE  BInv'
<1> DEFINE unexecuted == {e \in TimedOut : e.nonce >= landed}
           kept       == {e \in pending : \A d \in TimedOut : d.pair # e.pair}
<1>1. /\ engine = "polling" /\ engine' = "idle" /\ UNCHANGED air /\ air = <<>>
      /\ pending' = kept
      /\ \/ UNCHANGED <<next, reread>> /\ free' = free \cup Releasable({e.nonce : e \in unexecuted})
         \/ Resync(kept # {})
  BY DEF Sweep, BInv, PhaseOK
<1>2. kept \subseteq pending /\ unexecuted \subseteq pending
      /\ \A e \in kept : e \notin unexecuted
  BY DEF TimedOut, Stuck
<1> HIDE DEF kept, unexecuted
<1>3. DOMAIN air' = {} /\ DOMAIN air = {}
  BY <1>1
<1>4. PhaseOK' /\ TakenFromBelow' /\ ReservedInOrder'
  BY <1>1, <1>3 DEF PhaseOK, TakenFromBelow, ReservedInOrder
<1>5. CASE UNCHANGED <<next, reread>> /\ free' = free \cup Releasable({e.nonce : e \in unexecuted})
  <2>1. Seeded' = Seeded
    BY <1>5 DEF Seeded
  <2>2. \A m \in free' : m \in free \/ \E e \in unexecuted : m = e.nonce
    BY <1>5 DEF Releasable
  <2>3. BookOK'
    <3>1. Seeded => \A m \in free' : m < next
      BY <1>5 DEF BInv, BookOK, Releasable
    <3>2. ~Seeded => free' = {}
      BY <1>5 DEF BInv, BookOK, Releasable
    <3>3. ~Seeded /\ ~reread => pending' = {} /\ air' = <<>>
      BY <1>1, <1>2 DEF BInv, BookOK
    <3>4. QED BY <1>5, <2>1, <3>1, <3>2, <3>3 DEF BookOK
  <2>4. SUFFICES ASSUME Seeded, ~reread PROVE SignedOnce'
    BY <1>4, <1>5, <2>1, <2>3 DEF BInv, SignedOnce
  <2>5. /\ \A e \in pending : e.nonce < next /\ e.nonce \notin free
        /\ \A e, d \in pending : e.nonce = d.nonce => e = d
    BY <2>4 DEF BInv, SignedOnce
  <2>6. \A e \in pending' : e.nonce < next /\ e.nonce \notin free'
    BY <1>1, <1>2, <2>2, <2>5
  <2>7. \A m \in free' : m < next
    BY <2>1, <2>3, <2>4, <1>5 DEF BookOK
  <2>8. QED BY <1>1, <1>2, <1>3, <1>5, <2>5, <2>6, <2>7 DEF SignedOnce
<1>6. CASE Resync(kept # {})
  <2>1. next' = NoNonce /\ free' = {} /\ reread' = (reread \/ kept # {})
    BY <1>6 DEF Resync
  <2>2. ~Seeded'
    BY <2>1 DEF Seeded
  <2>3. BookOK' /\ SignedOnce'
    BY <1>1, <2>1, <2>2 DEF BookOK, SignedOnce
  <2>4. QED BY <1>4, <2>3 DEF BInv
<1>7. QED BY <1>1, <1>5, <1>6

(* Ageing a transaction leaves its nonce where it is. *)
LEMMA BookTick ==
    ASSUME SenderTypeOK, BInv, SenderTick
    PROVE  BInv'
<1>1. /\ UNCHANGED <<engine, next, free, air, reread>>
      /\ pending' = {[e EXCEPT !.age = IF @ < PendingTimeout THEN @ + 1 ELSE @] : e \in pending}
  BY DEF SenderTick
<1>2. \A d \in pending' : \E e \in pending :
         /\ d = [e EXCEPT !.age = IF @ < PendingTimeout THEN @ + 1 ELSE @]
         /\ d.nonce = e.nonce
  BY <1>1 DEF SenderTypeOK, Entries
<1>3. PhaseOK' /\ TakenFromBelow' /\ ReservedInOrder'
  BY <1>1 DEF BInv, PhaseOK, TakenFromBelow, ReservedInOrder, Seeded
<1>4. BookOK'
  BY <1>1, <1>2 DEF BInv, BookOK, Seeded
<1>5. SignedOnce'
  <2>1. Seeded' = Seeded
    BY <1>1 DEF Seeded
  <2>2. SUFFICES ASSUME Seeded, ~reread PROVE SignedOnce'
    BY <1>1, <2>1 DEF SignedOnce
  <2>3. /\ \A m \in free : m < next
        /\ \A e \in pending : e.nonce < next /\ e.nonce \notin free
        /\ \A e, d \in pending : e.nonce = d.nonce => e = d
        /\ \A i \in DOMAIN air :
               /\ air[i].tx.nonce < next /\ air[i].tx.nonce \notin free
               /\ \A e \in pending : e.nonce # air[i].tx.nonce
    BY <2>2 DEF BInv, SignedOnce
  <2>4. \A d \in pending' : d.nonce < next /\ d.nonce \notin free
    BY <1>2, <2>3
  <2>5. \A d, g \in pending' : d.nonce = g.nonce => d = g
    BY <1>2, <2>3
  <2>6. \A i \in DOMAIN air : \A d \in pending' : d.nonce # air[i].tx.nonce
    BY <1>2, <2>3
  <2>7. QED BY <1>1, <2>3, <2>4, <2>5, <2>6 DEF SignedOnce
<1>6. QED BY <1>3, <1>4, <1>5 DEF BInv

(* Seeding starts a sequence from nothing, or over a book whose re-read is  *)
(* on record.                                                              *)
LEMMA BookSeed ==
    ASSUME BInv, NEW n, Seed(n)
    PROVE  BInv'
<1>1. /\ ~Seeded /\ next' = n /\ free' = {} /\ UNCHANGED <<engine, air, pending, reread>>
      /\ engine = "idle" /\ air = <<>> /\ DOMAIN air' = {}
  BY DEF Seed, BInv, PhaseOK
<1>2. ~reread => pending = {}
  BY <1>1 DEF BInv, BookOK
<1>3. BookOK'
  BY <1>1, <1>2 DEF BookOK
<1>4. SignedOnce'
  BY <1>1, <1>2 DEF SignedOnce
<1>5. PhaseOK' /\ TakenFromBelow' /\ ReservedInOrder'
  BY <1>1 DEF PhaseOK, TakenFromBelow, ReservedInOrder
<1>6. QED BY <1>3, <1>4, <1>5 DEF BInv

LEMMA BookCrash ==
    ASSUME Crash
    PROVE  BInv'
<1>1. /\ engine' = "idle" /\ next' = NoNonce /\ free' = {} /\ air' = <<>> /\ pending' = {}
      /\ ~Seeded' /\ DOMAIN air' = {}
  BY DEF Crash, Seeded
<1>2. PhaseOK' /\ BookOK' /\ TakenFromBelow'
  BY <1>1 DEF PhaseOK, BookOK, TakenFromBelow
<1>3. ReservedInOrder' /\ SignedOnce'
  BY <1>1 DEF ReservedInOrder, SignedOnce
<1>4. QED BY <1>2, <1>3 DEF BInv

LEMMA BookStep == SenderTypeOK /\ BInv /\ [SenderNext]_senderVars => BInv'
<1> SUFFICES ASSUME SenderTypeOK, BInv, [SenderNext]_senderVars PROVE BInv'
  OBVIOUS
<1>1. PhaseOK /\ (engine \in {"idle", "polling"} => air = <<>>)
  BY DEF BInv, PhaseOK
<1>2. ASSUME NEW n \in 0 .. MaxNonce, Seed(n) PROVE BInv'
  BY <1>2, BookSeed
<1>3. ASSUME NEW n \in 0 .. MaxNonce, ObserveLanded(n) PROVE BInv'
  <2>1. PhaseOK'
    BY <1>3, <1>1 DEF ObserveLanded, PhaseOK
  <2>2. QED BY <1>3, <2>1, BookUntouched DEF ObserveLanded
<1>4. ASSUME NEW n \in 0 .. MaxNonce, Reserve(n) PROVE BInv'
  BY <1>4, BookReserve
<1>5. ASSUME NEW b \in Offers, Offer(b) PROVE BInv'
  <2>1. PhaseOK' /\ air = <<>>
    BY <1>5, <1>1 DEF Offer, PhaseOK, Seeded
  <2>2. QED BY <1>5, <2>1, BookUntouched DEF Offer
<1>6. ASSUME NEW p \in Pairs, WithdrawPair(p) PROVE BInv'
  <2>1. PhaseOK' /\ air = <<>>
    BY <1>6, <1>1 DEF WithdrawPair, PhaseOK, Seeded
  <2>2. QED BY <1>6, <2>1, BookUntouched DEF WithdrawPair
<1>7. CASE SignFails
  BY <1>7, BookSignFails
<1>8. CASE Broadcast
  <2>1. PhaseOK'
    BY <1>8 DEF Broadcast, PhaseOK
  <2>2. QED BY <1>8, <2>1, BookUntouched DEF Broadcast
<1>9. CASE AllAnswered
  <2>1. PhaseOK'
    BY <1>9 DEF AllAnswered, PhaseOK
  <2>2. QED BY <1>9, <2>1, BookUntouched DEF AllAnswered
<1>10. CASE Fold
  BY <1>10, BookFold
<1>11. CASE PhaseDone
  <2>1. PhaseOK'
    BY <1>11 DEF PhaseDone, PhaseOK
  <2>2. QED BY <1>11, <2>1, BookUntouched DEF PhaseDone
<1>12. ASSUME NEW i \in DOMAIN air, Arrive(i) PROVE BInv'
  BY <1>12, BookArrive
<1>13. ASSUME NEW t \in held, Execute(t) \/ Lose(t) PROVE BInv'
  <2>1. UNCHANGED engineVars
    BY <1>13 DEF Execute, Lose
  <2>2. PhaseOK'
    BY <2>1, <1>1 DEF engineVars, PhaseOK, Seeded
  <2>3. QED BY <2>1, <2>2, BookUntouched DEF engineVars
<1>14. CASE BeginPoll
  <2>1. PhaseOK'
    BY <1>14, <1>1 DEF BeginPoll, PhaseOK
  <2>2. QED BY <1>14, <2>1, BookUntouched DEF BeginPoll
<1>15. ASSUME NEW e \in pending, Receipt(e) PROVE BInv'
  <2>1. pending' \subseteq pending /\ UNCHANGED <<engine, next, free, air, reread>>
    BY <1>15 DEF Receipt
  <2>2. QED BY <2>1, BookForgets
<1>16. CASE Sweep
  BY <1>16, BookSweep
<1>17. CASE SenderTick
  BY <1>17, BookTick
<1>18. CASE Crash
  BY <1>18, BookCrash
<1>19. CASE UNCHANGED senderVars
  <2>1. PhaseOK'
    BY <1>19, <1>1 DEF senderVars, engineVars, PhaseOK, Seeded
  <2>2. QED BY <1>19, <2>1, BookUntouched DEF senderVars, engineVars
<1>20. QED
  BY <1>2, <1>3, <1>4, <1>5, <1>6, <1>7, <1>8, <1>9, <1>10, <1>11, <1>12, <1>13,
     <1>14, <1>15, <1>16, <1>17, <1>18, <1>19 DEF SenderNext

(* A nonce is in one place: tracked once, or in the air once, or free; two  *)
(* transactions are never signed at one nonce while the book stands (tx.rs  *)
(* 428-482, 1075-1140).                                                    *)
THEOREM NeverSignedTwice == SenderSpec => []SignedOnce
<1>1. SenderInit => BInv
  BY BookInit
<1>2. SenderTypeOK /\ BInv /\ [SenderNext]_senderVars => BInv'
  BY BookStep
<1>3. BInv => SignedOnce
  BY DEF BInv
<1>4. QED BY <1>1, <1>2, <1>3, TypeCorrect, PTL DEF SenderSpec

(* The assertion in reserve_batch never fires: whatever holes the free set   *)
(* has, a phase's nonces increase in the order of its intents.             *)
THEOREM OrderNeverLost == SenderSpec => []ReservedInOrder
<1>1. SenderInit => BInv
  BY BookInit
<1>2. SenderTypeOK /\ BInv /\ [SenderNext]_senderVars => BInv'
  BY BookStep
<1>3. BInv => ReservedInOrder
  BY DEF BInv
<1>4. QED BY <1>1, <1>2, <1>3, TypeCorrect, PTL DEF SenderSpec

=============================================================================
