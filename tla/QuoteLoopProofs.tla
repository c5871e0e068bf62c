-------------------------- MODULE QuoteLoopProofs --------------------------
(***************************************************************************)
(* What TLAPS proves of QuoteLoop, for every jump threshold, every limit on *)
(* the transactions in flight and any number of refused sends: that no      *)
(* order is signed for a withdrawn pair, that a dark pool is armed only at  *)
(* the price its epoch was planned for, and when the withdrawal a process   *)
(* ends with leaves the pool dark.                                         *)
(***************************************************************************)
EXTENDS QuoteLoop, NatSets, SequenceTheorems

Planned == [kind : {"row", "epoch"}, at : Prices, behind : Prices]
Intents == {Hole, Zero} \cup Planned

(* An epoch whose ladder is not the one of the price it was planned at.     *)
Stale(i) == i.kind = "epoch" /\ i.behind # i.at

LoopTypes ==
    /\ withdrawn \in BOOLEAN /\ cooled \in BOOLEAN /\ halted \in BOOLEAN
    /\ refused \in Nat
    /\ row \in Prices /\ depth \in Depths
    /\ view \in [row : Prices, depth : Depths]
    /\ queue \in Seq(Intents)

(* A cool-off ends on a pool that is dark and stays so: nothing on its way  *)
(* arms it or darkens it again.                                            *)
CoolInv ==
    /\ ~cooled => withdrawn
    /\ withdrawn /\ cooled =>
         /\ depth = "zero" /\ view.depth = "zero"
         /\ \A n \in DOMAIN queue : queue[n].kind \notin {"zero", "epoch"}

(* A withdrawal is owed within a scan, after a trip whose cool-off still     *)
(* runs; a process that has ended owes none.                               *)
OwedInv ==
    /\ owed => withdrawn /\ ~cooled
    /\ owed => scanned
    /\ scanned => Running

(* Where nothing withdraws, no withdrawal is under way and a dark pool has  *)
(* been seen dark.                                                         *)
OpenInv ==
    Running /\ ~withdrawn /\ ~halted =>
        /\ \A n \in DOMAIN queue : queue[n] # Zero
        /\ depth = "zero" => view.depth = "zero"

(* A stale epoch was sent to a lit pool, behind no withdrawal, and no hole  *)
(* lets a later withdrawal overtake it.                                    *)
StaleInv ==
    \A n \in DOMAIN queue : Stale(queue[n]) =>
        /\ depth # "zero"
        /\ \A m \in DOMAIN queue : m < n => queue[m] \notin {Zero, Hole}

(* The last withdrawal is on its way, behind no hole and before no epoch, or *)
(* it has been executed, and no epoch is left.                             *)
Parted(n) ==
    /\ n \in DOMAIN queue /\ queue[n] = Zero
    /\ \A m \in DOMAIN queue : m < n => queue[m] # Hole
    /\ \A m \in DOMAIN queue : m > n => queue[m].kind # "epoch"

EndInv ==
    ended = "last" =>
        \/ \E n \in DOMAIN queue : Parted(n)
        \/ depth = "zero" /\ \A n \in DOMAIN queue : queue[n].kind # "epoch"

LoopInv == LoopTypes /\ CoolInv /\ OwedInv /\ OpenInv /\ StaleInv /\ EndInv

-----------------------------------------------------------------------------
(* Intents, and the ways a queue of them grows. *)

LEMMA ZeroIsAPrice == 0 \in Prices /\ JumpSteps \in Prices /\ Prices \subseteq Nat
BY QuoteLoopAssumption DEF Prices

LEMMA IntentsTold ==
    /\ Hole \in Intents /\ Zero \in Intents /\ Row \in Intents
    /\ Hole # Zero /\ Row \notin {Hole, Zero}
    /\ ~Stale(Hole) /\ ~Stale(Zero) /\ ~Stale(Row)
    /\ Hole.kind = "hole" /\ Zero.kind = "zero" /\ Row.kind = "row"
    /\ \A i \in Intents : /\ i.kind = "hole" <=> i = Hole
                          /\ i.kind = "zero" <=> i = Zero
BY ZeroIsAPrice DEF Intents, Planned, Hole, Zero, Row, Intent, Stale

LEMMA EpochsTold ==
    ASSUME NEW l \in Prices
    PROVE  /\ EpochBehind(l) \in Intents \ {Hole, Zero}
           /\ EpochBehind(l).kind = "epoch"
           /\ Stale(EpochBehind(l)) <=> l # 0
BY ZeroIsAPrice DEF Intents, Planned, Hole, Zero, EpochBehind, Intent, Stale

LEMMA BehindIsAPrice ==
    ASSUME NEW p \in Prices
    PROVE  Behind(p) \in Prices
<1>1. p \in Nat /\ p + 1 \in Int /\ JumpSteps \in Int
  BY QuoteLoopAssumption DEF Prices
<1>2. Behind(p) = IF p + 1 <= JumpSteps THEN p + 1 ELSE JumpSteps
  BY <1>1, SmallerOfTwo DEF Behind
<1>3. QED BY <1>1, <1>2, QuoteLoopAssumption DEF Prices

(* A price move keeps an intent what it is, and makes no epoch stale. *)
LEMMA LaterKeeps ==
    ASSUME NEW i \in Intents
    PROVE  /\ Later(i) \in Intents
           /\ Later(i).kind = i.kind
           /\ Stale(Later(i)) => Stale(i)
<1>1. CASE i \in {Hole, Zero}
  <2>1. i.kind \notin {"row", "epoch"}
    BY <1>1, IntentsTold
  <2>2. Later(i) = i
    BY <2>1 DEF Later
  <2>3. QED BY <2>2
<1>2. CASE i \in Planned /\ i.kind = "row"
  <2>1. Later(i) = [i EXCEPT !.at = Behind(@)]
    BY <1>2 DEF Later
  <2>2. Behind(i.at) \in Prices
    BY <1>2, BehindIsAPrice DEF Planned
  <2>3. QED BY <1>2, <2>1, <2>2 DEF Planned, Intents, Stale
<1>3. CASE i \in Planned /\ i.kind = "epoch"
  <2>1. Later(i) = [i EXCEPT !.at = Behind(@), !.behind = Behind(@)]
    BY <1>3 DEF Later
  <2>2. Behind(i.at) \in Prices /\ Behind(i.behind) \in Prices
    BY <1>3, BehindIsAPrice DEF Planned
  <2>3. QED BY <1>3, <2>1, <2>2 DEF Planned, Intents, Stale
<1>4. QED BY <1>1, <1>2, <1>3 DEF Intents, Planned

(* r is q with some of its holes and its end filled, by members of S or by  *)
(* holes.                                                                  *)
Grows(q, r, S) ==
    /\ r \in Seq(Intents)
    /\ \A n \in DOMAIN q : q[n] # Hole => n \in DOMAIN r /\ r[n] = q[n]
    /\ \A n \in DOMAIN r : \/ r[n] \in S \cup {Hole}
                           \/ n \in DOMAIN q /\ r[n] = q[n]

LEMMA GrowsByNone ==
    ASSUME NEW q \in Seq(Intents), NEW S
    PROVE  Grows(q, q, S)
BY DEF Grows

LEMMA GrowsTwice ==
    ASSUME NEW q, NEW r, NEW t, NEW S, Grows(q, r, S), Grows(r, t, S)
    PROVE  Grows(q, t, S)
BY DEF Grows

(* An intent is placed in the lowest hole, or at the end when there is none. *)
LEMMA PlacedShape ==
    ASSUME NEW q \in Seq(Intents), NEW i \in Intents
    PROVE  LET r == Placed(q, i)
           IN  /\ r \in Seq(Intents)
               /\ \E k \in DOMAIN r :
                    /\ k \in DOMAIN q => q[k] = Hole
                    /\ \A m \in DOMAIN q : m < k => q[m] # Hole
                    /\ DOMAIN r = DOMAIN q \cup {k}
                    /\ \A n \in DOMAIN r : r[n] = IF n = k THEN i ELSE q[n]
<1> DEFINE holes == {n \in DOMAIN q : q[n] = Hole}
           r     == Placed(q, i)
<1>1. Len(q) \in Nat /\ DOMAIN q = 1 .. Len(q)
  BY LenProperties
<1>2. r = IF holes = {} THEN Append(q, i) ELSE [q EXCEPT ![Min(holes)] = i]
  BY DEF Placed
<1>3. CASE holes = {}
  <2>1. r = Append(q, i)
    BY <1>2, <1>3
  <2>2. /\ r \in Seq(Intents) /\ Len(r) = Len(q) + 1
        /\ \A n \in 1 .. Len(q) : r[n] = q[n]
        /\ r[Len(q) + 1] = i
    BY <2>1, AppendProperties
  <2>3. DOMAIN r = 1 .. Len(q) + 1
    BY <2>2, LenProperties
  <2> HIDE DEF r
  <2>4. Len(q) + 1 \in DOMAIN r /\ DOMAIN r = DOMAIN q \cup {Len(q) + 1}
    BY <1>1, <2>3
  <2>5. \A n \in DOMAIN r : r[n] = IF n = Len(q) + 1 THEN i ELSE q[n]
    BY <1>1, <2>2, <2>3
  <2>6. \A m \in DOMAIN q : q[m] # Hole
    BY <1>3
  <2>7. Len(q) + 1 \notin DOMAIN q
    BY <1>1
  <2>8. QED BY <2>2, <2>4, <2>5, <2>6, <2>7 DEF r
<1>4. CASE holes # {}
  <2>1. IsFiniteSet(holes) /\ holes \in SUBSET Nat
    <3>1. IsFiniteSet(1 .. Len(q))
      BY <1>1, FS_Interval
    <3>2. holes \subseteq 1 .. Len(q)
      BY <1>1
    <3> HIDE DEF holes
    <3>3. IsFiniteSet(holes)
      BY <3>1, <3>2, FS_Subset
    <3>4. QED BY <3>2, <3>3
  <2> DEFINE k == Min(holes)
  <2>2. k \in holes /\ \A n \in holes : k <= n
    <3> HIDE DEF holes
    <3>1. QED BY <1>4, <2>1, GreatestAndLeast DEF Min
  <2>3. r = [q EXCEPT ![k] = i] /\ k \in 1 .. Len(q)
    BY <1>1, <1>2, <1>4, <2>2
  <2> HIDE DEF k, r
  <2>4. \A m \in DOMAIN q : m < k => q[m] # Hole
    BY <1>1, <2>2
  <2>5. /\ r \in Seq(Intents)
        /\ \A n \in 1 .. Len(q) : r[n] = IF n = k THEN i ELSE q[n]
    BY <2>3, ExceptSeq
  <2>6. DOMAIN r = DOMAIN q
    BY <2>3
  <2>7. k \in DOMAIN q /\ q[k] = Hole
    BY <2>2
  <2>8. QED BY <1>1, <2>4, <2>5, <2>6, <2>7 DEF r
<1>5. QED BY <1>3, <1>4

LEMMA PlacedGrows ==
    ASSUME NEW q \in Seq(Intents), NEW i \in Intents, NEW S, i \in S
    PROVE  Grows(q, Placed(q, i), S)
<1> DEFINE r == Placed(q, i)
<1>1. PICK k \in DOMAIN r :
        /\ k \in DOMAIN q => q[k] = Hole
        /\ DOMAIN r = DOMAIN q \cup {k}
        /\ \A n \in DOMAIN r : r[n] = IF n = k THEN i ELSE q[n]
  BY PlacedShape
<1>2. r \in Seq(Intents)
  BY PlacedShape
<1>3. QED BY <1>1, <1>2 DEF Grows

(* A refused nonce is a hole or the end that is not there. *)
LEMMA ReleasedShape ==
    ASSUME NEW q \in Seq(Intents), NEW n \in DOMAIN q
    PROVE  LET r == Released(q, n)
           IN  /\ r \in Seq(Intents) /\ DOMAIN r \subseteq DOMAIN q
               /\ \A m \in DOMAIN q : m # n => m \in DOMAIN r
               /\ \A m \in DOMAIN r : r[m] = IF m = n THEN Hole ELSE q[m]
<1> DEFINE r == Released(q, n)
<1>1. Len(q) \in Nat /\ DOMAIN q = 1 .. Len(q)
  BY LenProperties
<1>2. CASE n = Len(q)
  <2>1. r = SubSeq(q, 1, Len(q) - 1)
    BY <1>2 DEF Released, Front
  <2>2. \A m \in 1 .. Len(q) - 1 : q[m] \in Intents
    BY <1>1, ElementOfSeq
  <2>3. /\ r \in Seq(Intents)
        /\ Len(r) = IF 1 <= Len(q) - 1 THEN Len(q) - 1 ELSE 0
        /\ \A m \in 1 .. Len(q) - 1 : r[m] = q[m]
    BY <1>1, <2>1, <2>2, SubSeqProperties
  <2>4. DOMAIN r = 1 .. Len(q) - 1
    <3>1. DOMAIN r = 1 .. Len(r)
      BY <2>3, LenProperties
    <3>2. Len(q) \in Nat \ {0}
      BY <1>1, <1>2
    <3>3. QED BY <2>3, <3>1, <3>2
  <2> HIDE DEF r
  <2>5. DOMAIN r = DOMAIN q \ {n} /\ \A m \in DOMAIN r : r[m] = q[m]
    <3>1. \A L \in Nat : 1 .. L - 1 = (1 .. L) \ {L}
      OBVIOUS
    <3>2. QED BY <1>1, <1>2, <2>3, <2>4, <3>1
  <2>6. QED BY <2>3, <2>5 DEF r
<1>3. CASE n # Len(q)
  <2>1. r = [q EXCEPT ![n] = Hole]
    BY <1>3 DEF Released
  <2>2. n \in 1 .. Len(q) /\ Hole \in Intents
    BY <1>1, IntentsTold
  <2>3. /\ r \in Seq(Intents)
        /\ \A m \in 1 .. Len(q) : r[m] = IF m = n THEN Hole ELSE q[m]
    BY <2>1, <2>2, ExceptSeq
  <2>4. DOMAIN r = DOMAIN q
    BY <2>1
  <2>5. QED BY <1>1, <2>3, <2>4
<1>4. QED BY <1>2, <1>3

(* A send of intents of S grows the queue by them; where it sends only one  *)
(* and the upstream refuses it, by nothing.                                *)
LEMMA TransmitGrows ==
    ASSUME queue \in Seq(Intents), NEW S \in SUBSET Intents,
           NEW intents \in Seq(S), Len(intents) <= 2, Transmit(intents)
    PROVE  Grows(queue, queue', S)
<1> DEFINE all == WithPlaced(intents)
<1>1. Grows(queue, all, S)
  <2>1. Len(intents) \in Nat /\ \A n \in 1 .. Len(intents) : intents[n] \in S
    BY LenProperties, ElementOfSeq
  <2>2. CASE Len(intents) = 0
    BY <2>2, GrowsByNone DEF WithPlaced
  <2>3. CASE Len(intents) = 1
    <3>1. all = Placed(queue, intents[1]) /\ intents[1] \in S
      BY <2>1, <2>3 DEF WithPlaced
    <3>2. QED BY <3>1, PlacedGrows
  <2>4. CASE Len(intents) = 2
    <3> DEFINE one == Placed(queue, intents[1])
    <3>1. all = Placed(one, intents[2]) /\ intents[1] \in S /\ intents[2] \in S
      BY <2>1, <2>4 DEF WithPlaced
    <3>2. Grows(queue, one, S) /\ one \in Seq(Intents)
      BY <3>1, PlacedGrows DEF Grows
    <3> HIDE DEF one
    <3>3. Grows(one, all, S)
      BY <3>1, <3>2, PlacedGrows
    <3>4. QED BY <3>2, <3>3, GrowsTwice
  <2>5. Len(intents) \in {0, 1, 2}
    <3>1. \A L \in Nat : L <= 2 => L \in {0, 1, 2}
      OBVIOUS
    <3>2. QED BY <2>1, <3>1
  <2>6. QED BY <2>2, <2>3, <2>4, <2>5
<1> HIDE DEF all
<1>2. CASE queue' = all
  BY <1>1, <1>2
<1>3. CASE \E n \in Filled(all) : queue' = Released(all, n)
  <2>1. PICK n \in Filled(all) : queue' = Released(all, n)
    BY <1>3
  <2>2. n \in DOMAIN all /\ all \in Seq(Intents)
    BY <1>1, <2>1 DEF Filled, Grows
  <2>3. /\ queue' \in Seq(Intents) /\ DOMAIN queue' \subseteq DOMAIN all
        /\ \A m \in DOMAIN all : m # n => m \in DOMAIN queue'
        /\ \A m \in DOMAIN queue' : queue'[m] = IF m = n THEN Hole ELSE all[m]
    BY <2>1, <2>2, ReleasedShape
  <2>4. \A m \in DOMAIN queue : queue[m] # Hole => m # n
    BY <1>1, <2>1 DEF Filled, Grows
  <2>5. QED BY <1>1, <2>3, <2>4 DEF Grows
<1>4. QED BY <1>2, <1>3 DEF Transmit, all

(* One intent takes the lowest hole or the end; refused, it leaves nothing. *)
LEMMA TransmitOne ==
    ASSUME queue \in Seq(Intents), NEW i \in Intents, Transmit(<<i>>)
    PROVE  \/ Grows(queue, queue', {})
           \/ /\ queue' \in Seq(Intents)
              /\ \E k \in DOMAIN queue' :
                   /\ k \in DOMAIN queue => queue[k] = Hole
                   /\ \A m \in DOMAIN queue : m < k => queue[m] # Hole
                   /\ DOMAIN queue' = DOMAIN queue \cup {k}
                   /\ \A n \in DOMAIN queue' : queue'[n] = IF n = k THEN i ELSE queue[n]
<1> DEFINE all == Placed(queue, i)
<1>1. WithPlaced(<<i>>) = all
  BY DEF WithPlaced
<1>2. all \in Seq(Intents)
  BY PlacedShape
<1>3. PICK k \in DOMAIN all :
        /\ k \in DOMAIN queue => queue[k] = Hole
        /\ \A m \in DOMAIN queue : m < k => queue[m] # Hole
        /\ DOMAIN all = DOMAIN queue \cup {k}
        /\ \A n \in DOMAIN all : all[n] = IF n = k THEN i ELSE queue[n]
  BY PlacedShape
<1> HIDE DEF all
<1>4. CASE queue' = all
  BY <1>2, <1>3, <1>4
<1>5. CASE \E n \in Filled(all) : queue' = Released(all, n)
  <2>1. PICK n \in Filled(all) : queue' = Released(all, n)
    BY <1>5
  <2>2. n = k
    BY <1>3, <2>1 DEF Filled
  <2>3. /\ queue' \in Seq(Intents) /\ DOMAIN queue' \subseteq DOMAIN all
        /\ \A m \in DOMAIN all : m # k => m \in DOMAIN queue'
        /\ \A m \in DOMAIN queue' : queue'[m] = IF m = k THEN Hole ELSE all[m]
    BY <1>2, <1>3, <2>1, <2>2, ReleasedShape
  <2>4. Grows(queue, queue', {})
    BY <1>3, <2>3 DEF Grows
  <2>5. QED BY <2>4
<1>6. QED BY <1>1, <1>4, <1>5 DEF Transmit

(* A send counts one refusal at most. *)
LEMMA TransmitCounts ==
    ASSUME refused \in Nat, NEW intents, Transmit(intents)
    PROVE  refused' \in Nat /\ (refused' = refused => queue' = WithPlaced(intents))
BY DEF Transmit

-----------------------------------------------------------------------------
(* What a cycle sends. *)

LEMMA ShortSequences ==
    ASSUME NEW S, NEW a \in S, NEW b \in S
    PROVE  /\ <<>> \in Seq(S) /\ <<a>> \in Seq(S) /\ <<a, b>> \in Seq(S)
           /\ Len(<<>>) = 0 /\ Len(<<a>>) = 1 /\ Len(<<a, b>>) = 2
OBVIOUS

LEMMA TwoJoined ==
    ASSUME NEW S, NEW a \in S, NEW b \in S
    PROVE  <<a>> \o <<b>> = <<a, b>>
<1> DEFINE s == <<a>> \o <<b>>
           t == <<a, b>>
<1>1. /\ s \in Seq(S) /\ Len(s) = 2
      /\ \A n \in 1 .. 2 : s[n] = IF n <= 1 THEN <<a>>[n] ELSE <<b>>[n - 1]
  BY ShortSequences, ConcatProperties
<1>2. t \in Seq(S) /\ Len(t) = 2 /\ t[1] = a /\ t[2] = b
  BY ShortSequences
<1>3. s[1] = a /\ s[2] = b
  BY <1>1
<1>4. \A n \in 1 .. 2 : s[n] = t[n]
  <2> HIDE DEF s, t
  <2>1. QED BY <1>2, <1>3
<1> HIDE DEF s, t
<1>5. s = t
  BY <1>1, <1>2, <1>4, SeqEqual
<1>6. QED BY <1>5 DEF s, t

(* The arbitration sends a row and an epoch together, or an epoch behind    *)
(* another ladder, each only where the other cannot be.                    *)
LEMMA BatchShape ==
    ASSUME LoopTypes, NEW heartbeat \in BOOLEAN
    PROVE  \/ /\ Batch(heartbeat) \in {<<>>, <<Row>>, <<EpochBehind(0)>>, <<Row, EpochBehind(0)>>}
              /\ withdrawn => Batch(heartbeat) \in {<<>>, <<Row>>}
              /\ ~DarkInView => Batch(heartbeat) # <<Row, EpochBehind(0)>>
           \/ /\ Batch(heartbeat) = <<EpochBehind(view.row)>>
              /\ ~withdrawn /\ ~DarkInView /\ view.row # 0
<1> DEFINE quotes == WantsQuote(heartbeat) /\ (DarkInView \/ ~WantsCapacity)
           arms   == WantsCapacity /\ (DarkInView \/ ~quotes)
           ladder == IF quotes THEN 0 ELSE view.row
           B      == Batch(heartbeat)
<1>1. B = (IF quotes THEN <<Row>> ELSE <<>>) \o (IF arms THEN <<EpochBehind(ladder)>> ELSE <<>>)
  BY DEF Batch
<1>2. WantsCapacity => GatesOpen /\ ~withdrawn
  BY DEF WantsCapacity
<1>3. GatesOpen /\ view.row # 0 => WantsQuote(heartbeat)
  BY DEF WantsQuote, Drifted
<1>4. Row \in Intents /\ EpochBehind(0) \in Intents /\ EpochBehind(view.row) \in Intents
  BY IntentsTold, EpochsTold, ZeroIsAPrice DEF LoopTypes
<1>5. CASE quotes /\ arms
  <2>1. B = <<Row>> \o <<EpochBehind(0)>>
    BY <1>1, <1>5
  <2>2. B = <<Row, EpochBehind(0)>>
    <3> HIDE DEF B
    <3>1. QED BY <1>4, <2>1, TwoJoined
  <2>3. DarkInView /\ ~withdrawn
    BY <1>2, <1>5
  <2>4. QED BY <2>2, <2>3
<1>6. CASE quotes /\ ~arms
  <2>1. B = <<Row>> \o <<>>
    BY <1>1, <1>6
  <2>2. B = <<Row>>
    <3> HIDE DEF B
    <3>1. QED BY <1>4, <2>1, ShortSequences, ConcatEmptySeq
  <2>3. <<Row>> # <<Row, EpochBehind(0)>>
    OBVIOUS
  <2>4. QED BY <2>2, <2>3
<1>7. CASE ~quotes /\ arms
  <2>1. B = <<>> \o <<EpochBehind(view.row)>>
    BY <1>1, <1>7
  <2>2. B = <<EpochBehind(view.row)>>
    <3> HIDE DEF B
    <3>1. QED BY <1>4, <2>1, ShortSequences, ConcatEmptySeq
  <2>3. ~withdrawn /\ (view.row # 0 => ~DarkInView)
    BY <1>2, <1>3, <1>7
  <2>4. <<EpochBehind(0)>> # <<Row, EpochBehind(0)>>
    OBVIOUS
  <2>5. CASE view.row = 0
    BY <2>2, <2>3, <2>4, <2>5
  <2>6. CASE view.row # 0
    BY <2>2, <2>3, <2>6
  <2>7. QED BY <2>5, <2>6
<1>8. CASE ~quotes /\ ~arms
  <2>1. B = <<>> \o <<>>
    BY <1>1, <1>8
  <2>2. B = <<>>
    <3> HIDE DEF B
    <3>1. QED BY <1>4, <2>1, ShortSequences, ConcatEmptySeq
  <2>3. <<>> # <<Row, EpochBehind(0)>>
    OBVIOUS
  <2>4. QED BY <2>2, <2>3
<1>9. QED BY <1>5, <1>6, <1>7, <1>8

(* A withdrawal is sent only to a pair that is withdrawn or latched and not  *)
(* yet dark; an epoch behind another ladder only to a lit pool, alone.     *)
LEMMA EvaluateSends ==
    ASSUME LoopTypes, CoolInv, Evaluate
    PROVE  \/ Grows(queue, queue', {Row})
           \/ /\ Grows(queue, queue', {Row, Zero})
              /\ withdrawn \/ halted
              /\ ~(withdrawn /\ cooled)
           \/ ~withdrawn /\ ~halted /\ Grows(queue, queue', {Row, EpochBehind(0)})
           \/ /\ ~withdrawn /\ ~halted /\ ~DarkInView /\ view.row # 0
              /\ Transmit(<<EpochBehind(view.row)>>)
<1> DEFINE first  == IF Reassert THEN <<Zero>> ELSE <<>>
           second(h) == IF halted THEN <<>> ELSE Batch(h)
           E0 == EpochBehind(0)
<1>1. PICK heartbeat \in BOOLEAN : Transmit(first \o second(heartbeat))
  BY DEF Evaluate
<1>2. queue \in Seq(Intents) /\ Zero \in Intents /\ Row \in Intents /\ E0 \in Intents
  BY IntentsTold, EpochsTold, ZeroIsAPrice DEF LoopTypes
<1>3. Reassert => ~DarkInView /\ (halted \/ withdrawn) /\ ~(withdrawn /\ cooled)
  BY DEF Reassert, DarkInView, CoolInv
<1> DEFINE l == second(heartbeat)
<1>4. \A S \in SUBSET Intents :
        /\ first \in Seq(S) /\ l \in Seq(S)
        /\ (Len(first) = 0 /\ Len(l) \in {0, 1, 2}) \/ (Len(first) = 1 /\ Len(l) \in {0, 1})
        => Grows(queue, queue', S)
  <2> SUFFICES ASSUME NEW S \in SUBSET Intents,
                      first \in Seq(S), l \in Seq(S),
                      (Len(first) = 0 /\ Len(l) \in {0, 1, 2}) \/ (Len(first) = 1 /\ Len(l) \in {0, 1})
               PROVE  Grows(queue, queue', S)
    OBVIOUS
  <2> HIDE DEF first, l
  <2>1. first \o l \in Seq(S) /\ Len(first \o l) = Len(first) + Len(l)
    BY ConcatProperties
  <2>2. Transmit(first \o l)
    BY <1>1 DEF l
  <2>3. \A a, b : (a = 0 /\ b \in {0, 1, 2}) \/ (a = 1 /\ b \in {0, 1}) => a + b <= 2
    OBVIOUS
  <2> DEFINE both == first \o l
  <2>4. both \in Seq(S) /\ Len(both) <= 2 /\ Transmit(both)
    BY <2>1, <2>2, <2>3
  <2> HIDE DEF both
  <2>5. QED BY <1>2, <2>4, TransmitGrows
<1>5. CASE Reassert
  <2>1. first = <<Zero>> /\ l \in {<<>>, <<Row>>, <<E0>>} /\ (withdrawn => l \in {<<>>, <<Row>>})
    <3>1. CASE halted
      BY <1>5, <3>1
    <3>2. CASE ~halted
      <4>1. withdrawn /\ l = Batch(heartbeat)
        BY <1>3, <1>5, <3>2
      <4>2. l \in {<<>>, <<Row>>}
        BY <4>1, BatchShape
      <4>3. QED BY <1>5, <4>2
    <3>3. QED BY <3>1, <3>2
  <2>2. l \in {<<>>, <<Row>>}
    BY <1>3, <1>5, <2>1
  <2> HIDE DEF first, l
  <2>3. first \in Seq({Row, Zero}) /\ Len(first) = 1
    BY <2>1, ShortSequences
  <2>4. l \in Seq({Row, Zero}) /\ Len(l) \in {0, 1}
    BY <2>2, ShortSequences
  <2>5. {Row, Zero} \in SUBSET Intents
    BY <1>2
  <2>6. Grows(queue, queue', {Row, Zero})
    BY <1>4, <2>3, <2>4, <2>5
  <2>7. QED BY <1>3, <1>5, <2>6
<1>6. CASE ~Reassert
  <2>1. first = <<>>
    BY <1>6
  <2>2. CASE l \in {<<>>, <<Row>>}
    <3> HIDE DEF first, l
    <3>1. first \in Seq({Row}) /\ Len(first) = 0
      BY <2>1, ShortSequences
    <3>2. l \in Seq({Row}) /\ Len(l) \in {0, 1}
      BY <2>2, ShortSequences
    <3>3. {Row} \in SUBSET Intents
      BY <1>2
    <3>4. QED BY <1>4, <3>1, <3>2, <3>3
  <2>3. CASE ~halted /\ ~withdrawn /\ l \in {<<E0>>, <<Row, E0>>}
    <3> HIDE DEF first, l
    <3>1. first \in Seq({Row, E0}) /\ Len(first) = 0
      BY <2>1, ShortSequences
    <3>2. l \in Seq({Row, E0}) /\ Len(l) \in {0, 1, 2}
      BY <2>3, ShortSequences
    <3>3. {Row, E0} \in SUBSET Intents
      BY <1>2
    <3>4. Grows(queue, queue', {Row, E0})
      BY <1>4, <3>1, <3>2, <3>3
    <3>5. QED BY <2>3, <3>4
  <2>4. CASE ~halted /\ ~withdrawn /\ l = <<EpochBehind(view.row)>> /\ ~DarkInView /\ view.row # 0
    <3>1. Transmit(<<>> \o <<EpochBehind(view.row)>>)
      BY <1>1, <2>1, <2>4
    <3>2. EpochBehind(view.row) \in Intents
      BY EpochsTold DEF LoopTypes
    <3>3. <<>> \o <<EpochBehind(view.row)>> = <<EpochBehind(view.row)>>
      BY <3>2, ShortSequences, ConcatEmptySeq
    <3>4. Transmit(<<EpochBehind(view.row)>>)
      BY <3>1, <3>3
    <3>5. QED BY <2>4, <3>4
  <2>5. \/ l \in {<<>>, <<Row>>}
        \/ ~halted /\ ~withdrawn /\ l \in {<<E0>>, <<Row, E0>>}
        \/ ~halted /\ ~withdrawn /\ l = <<EpochBehind(view.row)>> /\ ~DarkInView /\ view.row # 0
    <3>1. CASE halted
      BY <3>1
    <3>2. CASE ~halted
      <4>1. l = Batch(heartbeat)
        BY <3>2
      <4> HIDE DEF l
      <4>2. QED BY <3>2, <4>1, BatchShape
    <3>3. QED BY <3>1, <3>2
  <2>6. QED BY <2>2, <2>3, <2>4, <2>5
<1>7. QED BY <1>5, <1>6

-----------------------------------------------------------------------------
(* The invariant. *)

(* A send of fresh intents makes nothing stale that was not, and comes       *)
(* before nothing that is.                                                 *)
LEMMA GrowthKeepsStale ==
    ASSUME queue \in Seq(Intents), NEW S, \A i \in S : ~Stale(i),
           Grows(queue, queue', S), UNCHANGED depth, StaleInv
    PROVE  StaleInv'
<1> SUFFICES ASSUME NEW n \in DOMAIN queue', Stale(queue'[n])
             PROVE  /\ depth' # "zero"
                    /\ \A m \in DOMAIN queue' : m < n => queue'[m] \notin {Zero, Hole}
  BY DEF StaleInv, Stale
<1>1. n \in DOMAIN queue /\ Stale(queue[n]) /\ queue[n] = queue'[n]
  BY IntentsTold DEF Grows
<1>2. depth # "zero" /\ \A m \in DOMAIN queue : m < n => queue[m] \notin {Zero, Hole}
  BY <1>1 DEF StaleInv
<1>3. DOMAIN queue = 1 .. Len(queue) /\ DOMAIN queue' = 1 .. Len(queue')
      /\ Len(queue) \in Nat /\ Len(queue') \in Nat
  BY LenProperties DEF Grows
<1>4. ASSUME NEW m \in DOMAIN queue', m < n
      PROVE  queue'[m] \notin {Zero, Hole}
  <2>1. m \in DOMAIN queue
    BY <1>1, <1>3, <1>4
  <2>2. queue[m] \notin {Zero, Hole}
    BY <1>2, <1>4, <2>1
  <2>3. queue'[m] = queue[m]
    BY <2>1, <2>2 DEF Grows
  <2>4. QED BY <2>2, <2>3
<1>5. QED BY <1>2, <1>4

LEMMA ScanStep ==
    ASSUME LoopInv, Scan
    PROVE  LoopInv'
<1>1. /\ UNCHANGED <<row, depth, view, queue, refused, halted, ended>>
      /\ scanned' /\ ended = "no"
  BY DEF Scan, pool, Running
<1>2. LoopTypes /\ CoolInv /\ OpenInv /\ StaleInv /\ OwedInv
  BY DEF LoopInv
<1>3. StaleInv' /\ EndInv'
  BY <1>1, <1>2 DEF StaleInv, EndInv, Stale
<1>4. Running' /\ Running
  BY <1>1 DEF Running
<1>5. CASE Trip
  <2>1. withdrawn' = TRUE /\ cooled' = FALSE
    BY <1>5 DEF Trip
  <2>2. LoopTypes'
    BY <1>1, <1>2, <2>1 DEF LoopTypes
  <2>3. CoolInv' /\ OpenInv' /\ OwedInv'
    BY <1>1, <1>4, <2>1 DEF CoolInv, OpenInv, OwedInv
  <2>4. QED BY <1>3, <2>2, <2>3 DEF LoopInv
<1>6. CASE ~Trip
  <2>1. UNCHANGED <<cooled, owed>> /\ withdrawn' \in {withdrawn, FALSE} /\ (~cooled => withdrawn' = withdrawn)
    BY <1>6 DEF Scan, Observe, Contagion, detector
  <2>2. LoopTypes'
    BY <1>1, <1>2, <2>1 DEF LoopTypes
  <2>3. CoolInv' /\ OwedInv'
    <3>1. withdrawn \in BOOLEAN
      BY <1>2 DEF LoopTypes
    <3>2. withdrawn' => withdrawn
      BY <2>1, <3>1
    <3>3. ~cooled => withdrawn'
      BY <1>2, <2>1, <3>1 DEF CoolInv
    <3>4. CoolInv'
      BY <1>1, <1>2, <2>1, <3>2, <3>3 DEF CoolInv
    <3>5. OwedInv'
      BY <1>1, <1>2, <1>4, <2>1, <3>3 DEF OwedInv
    <3>6. QED BY <3>4, <3>5
  <2>4. OpenInv'
    <3>1. SUFFICES ASSUME ~withdrawn', ~halted' PROVE OpenInv'
      BY DEF OpenInv
    <3>2. CASE withdrawn
      <4>1. cooled
        BY <2>1, <3>1, <3>2
      <4>2. view.depth = "zero" /\ \A n \in DOMAIN queue : queue[n].kind # "zero"
        BY <1>2, <3>2, <4>1 DEF CoolInv
      <4>3. \A n \in DOMAIN queue : queue[n] # Zero
        BY <4>2, IntentsTold
      <4>4. QED BY <1>1, <4>2, <4>3 DEF OpenInv
    <3>3. CASE ~withdrawn
      BY <1>1, <1>2, <1>4, <3>1, <3>3 DEF OpenInv
    <3>4. QED BY <3>2, <3>3
  <2>5. QED BY <1>3, <2>2, <2>3, <2>4 DEF LoopInv
<1>7. QED BY <1>5, <1>6

(* The withdrawal a trip owes. *)
LEMMA WithdrawPairStep ==
    ASSUME LoopInv, WithdrawPair
    PROVE  LoopInv'
<1>1. /\ UNCHANGED <<withdrawn, cooled, row, depth, view, halted, scanned, ended>>
      /\ owed /\ owed' = FALSE /\ Transmit(<<Zero>>)
  BY DEF WithdrawPair, detector, pool
<1>2. LoopTypes /\ StaleInv /\ OwedInv /\ queue \in Seq(Intents)
  BY DEF LoopInv, LoopTypes
<1>3. withdrawn /\ ~cooled /\ ended = "no" /\ scanned
  BY <1>1, <1>2 DEF OwedInv, Running
<1>4. Grows(queue, queue', {Zero})
  <2>1. {Zero} \in SUBSET Intents
    BY IntentsTold
  <2>2. <<Zero>> \in Seq({Zero}) /\ Len(<<Zero>>) <= 2
    BY ShortSequences
  <2>3. QED BY <1>1, <1>2, <2>1, <2>2, TransmitGrows
<1>5. StaleInv'
  BY <1>1, <1>2, <1>4, IntentsTold, GrowthKeepsStale
<1>6. LoopTypes'
  <2>1. refused' \in Nat
    BY <1>1, <1>2, TransmitCounts DEF LoopTypes
  <2>2. QED BY <1>1, <1>2, <1>4, <2>1 DEF LoopTypes, Grows
<1>7. CoolInv' /\ OpenInv' /\ OwedInv' /\ EndInv'
  BY <1>1, <1>3 DEF CoolInv, OpenInv, OwedInv, EndInv, Running
<1>8. QED BY <1>5, <1>6, <1>7 DEF LoopInv

LEMMA EvaluateStep ==
    ASSUME LoopInv, Evaluate
    PROVE  LoopInv'
<1> DEFINE E0 == EpochBehind(0)
           E  == EpochBehind(view.row)
<1>1. /\ UNCHANGED <<withdrawn, cooled, row, depth, view, owed, ended>> /\ halted' \in {halted, TRUE}
      /\ ~owed /\ ~scanned' /\ refused' \in Nat
  <2>1. PICK heartbeat \in BOOLEAN :
          Transmit((IF Reassert THEN <<Zero>> ELSE <<>>) \o (IF halted THEN <<>> ELSE Batch(heartbeat)))
    BY DEF Evaluate
  <2>2. refused' \in Nat
    BY <2>1, TransmitCounts DEF LoopInv, LoopTypes
  <2>3. QED BY <2>2 DEF Evaluate, detector, pool
<1>2. /\ LoopTypes /\ CoolInv /\ OpenInv /\ StaleInv /\ queue \in Seq(Intents)
      /\ Running /\ Running'
  BY <1>1 DEF LoopInv, LoopTypes, OwedInv, Evaluate, Running
<1>10. OwedInv' /\ EndInv'
  BY <1>1, <1>2 DEF OwedInv, EndInv, Running
<1>3. /\ ~Stale(Row) /\ ~Stale(Zero) /\ ~Stale(E0)
      /\ Row \notin {Hole, Zero} /\ E0 \notin {Hole, Zero} /\ Hole # Zero
      /\ Row.kind = "row" /\ Hole.kind = "hole"
  BY IntentsTold, EpochsTold, ZeroIsAPrice
<1>4. ASSUME NEW S, Grows(queue, queue', S), \A i \in S : ~Stale(i),
             ~withdrawn /\ ~halted => Zero \notin S,
             withdrawn /\ cooled => S = {Row}
      PROVE  LoopInv'
  <2>1. StaleInv'
    BY <1>1, <1>2, <1>4, GrowthKeepsStale
  <2>2. LoopTypes'
    BY <1>1, <1>2, <1>4 DEF LoopTypes, Grows
  <2>3. CoolInv'
    <3>1. ASSUME withdrawn, cooled, NEW n \in DOMAIN queue'
          PROVE  queue'[n].kind \notin {"zero", "epoch"}
      <4>1. queue'[n] \in {Row, Hole} \/ (n \in DOMAIN queue /\ queue'[n] = queue[n])
        BY <1>4, <3>1 DEF Grows
      <4>2. QED BY <1>2, <1>3, <3>1, <4>1 DEF CoolInv
    <3>2. QED BY <1>1, <1>2, <3>1 DEF CoolInv
  <2>4. OpenInv'
    <3>1. ASSUME ~withdrawn, ~halted, NEW n \in DOMAIN queue'
          PROVE  queue'[n] # Zero
      BY <1>2, <1>3, <1>4, <3>1 DEF OpenInv, Grows
    <3>2. QED BY <1>1, <1>2, <3>1 DEF OpenInv
  <2>5. QED BY <1>10, <2>1, <2>2, <2>3, <2>4 DEF LoopInv
<1>5. CASE Grows(queue, queue', {Row})
  BY <1>3, <1>4, <1>5
<1>6. CASE Grows(queue, queue', {Row, Zero}) /\ (withdrawn \/ halted) /\ ~(withdrawn /\ cooled)
  BY <1>3, <1>4, <1>6
<1>7. CASE ~withdrawn /\ ~halted /\ Grows(queue, queue', {Row, E0})
  BY <1>3, <1>4, <1>7
<1>8. CASE ~withdrawn /\ ~halted /\ ~DarkInView /\ view.row # 0 /\ Transmit(<<E>>)
  <2>1. E \in Intents \ {Hole, Zero}
    BY <1>2, EpochsTold DEF LoopTypes
  <2>2. CASE Grows(queue, queue', {})
    BY <1>4, <1>8, <2>2
  <2>3. ASSUME queue' \in Seq(Intents), NEW k \in DOMAIN queue',
               k \in DOMAIN queue => queue[k] = Hole,
               \A m \in DOMAIN queue : m < k => queue[m] # Hole,
               DOMAIN queue' = DOMAIN queue \cup {k},
               \A n \in DOMAIN queue' : queue'[n] = IF n = k THEN E ELSE queue[n]
        PROVE  LoopInv'
    <3>1. depth # "zero" /\ \A n \in DOMAIN queue : queue[n] # Zero
      BY <1>2, <1>8 DEF OpenInv, DarkInView
    <3>2. LoopTypes' /\ CoolInv'
      BY <1>1, <1>2, <1>8, <2>3 DEF LoopTypes, CoolInv
    <3>3. OpenInv'
      BY <1>1, <2>1, <2>3, <3>1 DEF OpenInv
    <3>4. StaleInv'
      <4>1. SUFFICES ASSUME NEW n \in DOMAIN queue', Stale(queue'[n]),
                            NEW m \in DOMAIN queue', m < n
                     PROVE  queue'[m] \notin {Zero, Hole}
        BY <1>1, <3>1 DEF StaleInv, Stale
      <4>2. CASE m = k
        BY <2>1, <2>3, <4>2
      <4>3. CASE m # k /\ n = k
        BY <2>3, <3>1, <4>1, <4>3
      <4>4. CASE m # k /\ n # k
        BY <1>2, <2>3, <4>1, <4>4 DEF StaleInv
      <4>5. QED BY <4>2, <4>3, <4>4
    <3>5. QED BY <1>10, <3>2, <3>3, <3>4 DEF LoopInv
  <2>4. QED BY <1>2, <1>8, <2>1, <2>2, <2>3, TransmitOne
<1>9. QED BY <1>2, <1>5, <1>6, <1>7, <1>8, EvaluateSends

LEMMA ExecuteStep ==
    ASSUME LoopInv, Execute
    PROVE  LoopInv'
<1> DEFINE i == Head(queue)
<1>1. /\ queue # <<>> /\ queue' = Tail(queue) /\ i # Hole
      /\ row' = IF i.kind = "row" THEN i.at ELSE row
      /\ depth' = CASE i.kind = "zero" -> "zero" [] i.kind = "epoch" -> "full" [] OTHER -> depth
      /\ UNCHANGED <<withdrawn, cooled, view, refused, halted, scanned, owed, ended>>
  BY DEF Execute, detector, loop
<1>2. LoopTypes /\ CoolInv /\ OpenInv /\ StaleInv /\ OwedInv /\ EndInv /\ queue \in Seq(Intents)
  BY DEF LoopInv, LoopTypes
<1>3. /\ i \in Intents /\ i = queue[1] /\ 1 \in DOMAIN queue
      /\ queue' \in Seq(Intents)
      /\ \A n \in DOMAIN queue' : n \in Nat /\ n + 1 \in DOMAIN queue /\ queue'[n] = queue[n + 1]
  <2>1. /\ i \in Intents /\ Tail(queue) \in Seq(Intents)
        /\ Len(Tail(queue)) = Len(queue) - 1
        /\ \A n \in 1 .. Len(Tail(queue)) : Tail(queue)[n] = queue[n + 1]
    BY <1>1, <1>2, HeadTailProperties
  <2>2. /\ Len(queue) \in Nat \ {0} /\ DOMAIN queue = 1 .. Len(queue)
        /\ DOMAIN Tail(queue) = 1 .. Len(Tail(queue))
    BY <1>1, <1>2, <2>1, EmptySeq, LenProperties
  <2>3. i = queue[1]
    BY <1>1, <1>2
  <2>4. \A L \in Nat \ {0} : 1 \in 1 .. L /\ \A n \in 1 .. L - 1 : n \in Nat /\ n + 1 \in 1 .. L
    OBVIOUS
  <2>5. QED BY <1>1, <2>1, <2>2, <2>3, <2>4
<1> HIDE DEF i
<1>4. i.kind # "hole" /\ (i.kind = "zero" <=> i = Zero)
      /\ i.kind \in {"zero", "row", "epoch"} /\ (i.kind = "row" => i.at \in Prices)
  BY <1>1, <1>3, IntentsTold DEF Intents, Planned
<1>5. LoopTypes'
  <2>1. row' \in Prices
    BY <1>1, <1>2, <1>4 DEF LoopTypes
  <2>2. depth' \in Depths
    BY <1>1, <1>2, <1>4 DEF LoopTypes, Depths
  <2>3. QED BY <1>1, <1>2, <1>3, <2>1, <2>2 DEF LoopTypes
<1>6. CoolInv'
  <2>1. ASSUME withdrawn, cooled
        PROVE  depth' = "zero" /\ \A n \in DOMAIN queue' : queue'[n].kind \notin {"zero", "epoch"}
    <3>1. i.kind \notin {"zero", "epoch"} /\ depth = "zero"
      BY <1>2, <1>3, <2>1 DEF CoolInv
    <3>2. depth' = "zero"
      BY <1>1, <3>1
    <3>3. QED BY <1>2, <1>3, <2>1, <3>2 DEF CoolInv
  <2>2. QED BY <1>1, <1>2, <2>1 DEF CoolInv
<1>7. OpenInv'
  <2>1. SUFFICES ASSUME Running, ~withdrawn, ~halted
                 PROVE  /\ \A n \in DOMAIN queue' : queue'[n] # Zero
                        /\ depth' = "zero" => view.depth = "zero"
    BY <1>1 DEF OpenInv, Running
  <2>2. \A n \in DOMAIN queue : queue[n] # Zero
    BY <1>2, <2>1 DEF OpenInv
  <2>3. i.kind # "zero"
    BY <1>3, <1>4, <2>2
  <2>4. depth' = "zero" => depth = "zero"
    BY <1>1, <1>4, <2>3
  <2>5. QED BY <1>2, <1>3, <2>1, <2>2, <2>4 DEF OpenInv
<1>8. StaleInv'
  <2>1. SUFFICES ASSUME NEW n \in DOMAIN queue', Stale(queue'[n])
                 PROVE  /\ depth' # "zero"
                        /\ \A m \in DOMAIN queue' : m < n => queue'[m] \notin {Zero, Hole}
    BY DEF StaleInv, Stale
  <2>2. n \in Nat /\ n + 1 \in DOMAIN queue /\ Stale(queue[n + 1])
    BY <1>3, <2>1
  <2>3. depth # "zero" /\ \A m \in DOMAIN queue : m < n + 1 => queue[m] \notin {Zero, Hole}
    BY <1>2, <2>2 DEF StaleInv
  <2>4. i # Zero
    <3>1. 1 < n + 1
      <4>1. n \in 1 .. Len(queue')
        BY <1>3, <2>1, LenProperties
      <4>2. QED BY <2>2, <4>1
    <3>2. QED BY <1>3, <2>3, <3>1
  <2>5. depth' # "zero"
    BY <1>1, <1>4, <2>3, <2>4
  <2>6. ASSUME NEW m \in DOMAIN queue', m < n
        PROVE  queue'[m] \notin {Zero, Hole}
    <3>1. m \in Nat /\ m + 1 \in DOMAIN queue /\ queue'[m] = queue[m + 1]
      BY <1>3
    <3>2. m + 1 < n + 1
      BY <2>2, <2>6, <3>1
    <3>3. QED BY <2>3, <3>1, <3>2
  <2>7. QED BY <2>5, <2>6
<1>9. OwedInv'
  BY <1>1, <1>2 DEF OwedInv, Running
<1>10. EndInv'
  <2>1. SUFFICES ASSUME ended = "last"
                 PROVE  \/ \E n \in DOMAIN queue' : Parted(n)'
                        \/ depth' = "zero" /\ \A n \in DOMAIN queue' : queue'[n].kind # "epoch"
    BY <1>1 DEF EndInv
  <2>2. CASE \E n \in DOMAIN queue : Parted(n)
    <3>1. PICK n \in DOMAIN queue : Parted(n)
      BY <2>2
    <3>2. DOMAIN queue = 1 .. Len(queue) /\ Len(queue) \in Nat
      BY <1>2, LenProperties
    <3>3. CASE n = 1
      <4>1. depth' = "zero"
        BY <1>1, <1>3, <1>4, <3>1, <3>3 DEF Parted
      <4>2. ASSUME NEW m \in DOMAIN queue' PROVE queue'[m].kind # "epoch"
        <5>1. m \in Nat /\ m + 1 \in DOMAIN queue /\ queue'[m] = queue[m + 1]
          BY <1>3
        <5>2. m \in DOMAIN queue' /\ DOMAIN queue' = 1 .. Len(queue')
          BY <1>3, LenProperties
        <5>3. m + 1 > 1
          BY <5>1, <5>2
        <5>4. QED BY <3>1, <3>3, <5>1, <5>3 DEF Parted
      <4>3. QED BY <4>1, <4>2
    <3>4. CASE n # 1
      <4>1. n \in Nat /\ n > 1 /\ n <= Len(queue)
        BY <3>2, <3>4
      <4>2. Len(queue') = Len(queue) - 1 /\ DOMAIN queue' = 1 .. Len(queue')
        BY <1>1, <1>2, <1>3, HeadTailProperties, LenProperties
      <4>3. n - 1 \in DOMAIN queue' /\ queue'[n - 1] = queue[n]
        <5>1. n - 1 \in DOMAIN queue'
          BY <3>2, <4>1, <4>2
        <5>2. queue'[n - 1] = queue[(n - 1) + 1]
          BY <1>3, <5>1
        <5>3. (n - 1) + 1 = n
          BY <4>1
        <5>4. QED BY <5>1, <5>2, <5>3
      <4>4. ASSUME NEW m \in DOMAIN queue'
            PROVE  /\ m < n - 1 => queue'[m] # Hole
                   /\ m > n - 1 => queue'[m].kind # "epoch"
        <5>1. m \in Nat /\ m + 1 \in DOMAIN queue /\ queue'[m] = queue[m + 1]
          BY <1>3
        <5>2. (m < n - 1 => m + 1 < n) /\ (m > n - 1 => m + 1 > n)
          BY <4>1, <5>1
        <5>3. QED BY <3>1, <5>1, <5>2 DEF Parted
      <4>5. Parted(n - 1)'
        BY <3>1, <4>3, <4>4 DEF Parted
      <4>6. QED BY <4>3, <4>5
    <3>5. QED BY <3>3, <3>4
  <2>3. CASE depth = "zero" /\ \A n \in DOMAIN queue : queue[n].kind # "epoch"
    <3>1. depth' = "zero"
      BY <1>1, <1>3, <1>4, <2>3
    <3>2. QED BY <1>3, <2>3, <3>1
  <2>4. QED BY <1>2, <2>1, <2>2, <2>3 DEF EndInv
<1>11. QED BY <1>5, <1>6, <1>7, <1>8, <1>9, <1>10 DEF LoopInv

LEMMA MoveStep ==
    ASSUME LoopInv, Move
    PROVE  LoopInv'
<1>1. /\ row' = Behind(row)
      /\ view' = [view EXCEPT !.row = Behind(@)]
      /\ queue' = [n \in DOMAIN queue |-> Later(queue[n])]
      /\ UNCHANGED <<withdrawn, cooled, depth, refused, halted, scanned, owed, ended>>
      /\ Running
  BY DEF Move, loop
<1>2. LoopTypes /\ CoolInv /\ OpenInv /\ StaleInv /\ OwedInv /\ queue \in Seq(Intents)
  BY DEF LoopInv, LoopTypes
<1>3. Len(queue) \in Nat /\ DOMAIN queue = 1 .. Len(queue) /\ \A n \in DOMAIN queue : queue[n] \in Intents
  BY <1>2, LenProperties, ElementOfSeq
<1>4. \A n \in DOMAIN queue : /\ Later(queue[n]) \in Intents
                              /\ Later(queue[n]).kind = queue[n].kind
                              /\ Stale(Later(queue[n])) => Stale(queue[n])
  BY <1>3, LaterKeeps
<1>5. DOMAIN queue' = DOMAIN queue
  BY <1>1
<1>6. \A n \in DOMAIN queue : /\ queue'[n] \in Intents
                              /\ queue'[n].kind = queue[n].kind
                              /\ Stale(queue'[n]) => Stale(queue[n])
  BY <1>1, <1>4
<1>7. queue' \in Seq(Intents)
  <2>1. queue' \in [1 .. Len(queue) -> Intents]
    BY <1>1, <1>3, <1>4
  <2>2. QED BY <1>3, <2>1
<1>8. \A n \in DOMAIN queue : /\ queue'[n] = Zero <=> queue[n] = Zero
                              /\ queue'[n] = Hole <=> queue[n] = Hole
  BY <1>3, <1>6, IntentsTold
<1>9. LoopTypes'
  <2>1. row' \in Prices /\ view' \in [row : Prices, depth : Depths]
    BY <1>1, <1>2, BehindIsAPrice DEF LoopTypes
  <2>2. QED BY <1>1, <1>2, <1>7, <2>1 DEF LoopTypes
<1>10. view'.depth = view.depth
  BY <1>1, <1>2 DEF LoopTypes
<1>11. CoolInv' /\ OpenInv' /\ OwedInv' /\ EndInv'
  <2>1. CoolInv'
    BY <1>1, <1>2, <1>5, <1>6, <1>10 DEF CoolInv
  <2>2. OpenInv'
    BY <1>1, <1>2, <1>5, <1>8, <1>10 DEF OpenInv, Running
  <2>3. OwedInv' /\ EndInv'
    BY <1>1, <1>2 DEF OwedInv, EndInv, Running
  <2>4. QED BY <2>1, <2>2, <2>3
<1>12. StaleInv'
  <2>1. SUFFICES ASSUME NEW n \in DOMAIN queue', Stale(queue'[n])
                 PROVE  /\ depth' # "zero"
                        /\ \A m \in DOMAIN queue' : m < n => queue'[m] \notin {Zero, Hole}
    BY DEF StaleInv, Stale
  <2>2. Stale(queue[n]) /\ n \in DOMAIN queue
    BY <1>5, <1>6, <2>1
  <2>3. QED BY <1>1, <1>2, <1>5, <1>8, <2>2 DEF StaleInv
<1>13. QED BY <1>9, <1>11, <1>12 DEF LoopInv

(* A step that changes nothing the invariant speaks of. *)
LEMMA Standing ==
    ASSUME LoopInv,
           UNCHANGED <<withdrawn, cooled, row, depth, view, queue, refused, halted, scanned, owed, ended>>
    PROVE  LoopInv'
<1>1. LoopTypes' /\ CoolInv' /\ OwedInv' /\ OpenInv'
  BY DEF LoopInv, LoopTypes, CoolInv, OwedInv, OpenInv, Running
<1>2. StaleInv' /\ EndInv'
  BY DEF LoopInv, StaleInv, Stale, EndInv, Parted
<1>3. QED BY <1>1, <1>2 DEF LoopInv

(* The end of the process: one withdrawal more, and nothing it knew. *)
LEMMA EndStep ==
    ASSUME LoopInv, End
    PROVE  LoopInv'
<1>1. /\ UNCHANGED <<row, depth, scanned, owed>> /\ ~scanned /\ Running
      /\ Transmit(<<Zero>>) /\ ended' # "no"
      /\ ended' = "last" => refused' = refused /\ ~HoleBelowAnEpoch
      /\ withdrawn' = FALSE /\ cooled' = TRUE /\ halted' = FALSE
      /\ view' = [row |-> 0, depth |-> "zero"]
  BY DEF End, pool, Parting
<1>2. LoopTypes /\ StaleInv /\ OwedInv /\ queue \in Seq(Intents) /\ refused \in Nat
  BY DEF LoopInv, LoopTypes
<1>3. Grows(queue, queue', {Zero})
  <2>1. {Zero} \in SUBSET Intents
    BY IntentsTold
  <2>2. <<Zero>> \in Seq({Zero}) /\ Len(<<Zero>>) <= 2
    BY ShortSequences
  <2>3. QED BY <1>1, <1>2, <2>1, <2>2, TransmitGrows
<1>4. StaleInv'
  BY <1>1, <1>2, <1>3, IntentsTold, GrowthKeepsStale
<1>5. LoopTypes'
  <2>1. refused' \in Nat
    BY <1>1, <1>2, TransmitCounts
  <2>2. view' \in [row : Prices, depth : Depths]
    BY <1>1, ZeroIsAPrice DEF Depths
  <2>3. QED BY <1>1, <1>2, <1>3, <2>1, <2>2 DEF LoopTypes, Grows
<1>6. CoolInv' /\ OwedInv' /\ OpenInv'
  BY <1>1, <1>2 DEF CoolInv, OwedInv, OpenInv, Running
<1>7. EndInv'
  <2>1. SUFFICES ASSUME ended' = "last"
                 PROVE  \E n \in DOMAIN queue' : Parted(n)'
    BY DEF EndInv
  <2>2. queue' = Placed(queue, Zero)
    BY <1>1, <1>2, <2>1, TransmitCounts DEF WithPlaced
  <2>3. PICK k \in DOMAIN queue' :
          /\ k \in DOMAIN queue => queue[k] = Hole
          /\ \A m \in DOMAIN queue : m < k => queue[m] # Hole
          /\ DOMAIN queue' = DOMAIN queue \cup {k}
          /\ \A n \in DOMAIN queue' : queue'[n] = IF n = k THEN Zero ELSE queue[n]
    <3> DEFINE all == Placed(queue, Zero)
    <3>1. Zero \in Intents
      BY IntentsTold
    <3>2. \E k \in DOMAIN all :
             /\ k \in DOMAIN queue => queue[k] = Hole
             /\ \A m \in DOMAIN queue : m < k => queue[m] # Hole
             /\ DOMAIN all = DOMAIN queue \cup {k}
             /\ \A n \in DOMAIN all : all[n] = IF n = k THEN Zero ELSE queue[n]
      BY <1>2, <3>1, PlacedShape
    <3>3. queue' = all
      BY <2>2
    <3> HIDE DEF all
    <3>4. QED BY <3>2, <3>3
  <2>4. /\ DOMAIN queue = 1 .. Len(queue) /\ Len(queue) \in Nat
        /\ DOMAIN queue' = 1 .. Len(queue') /\ Len(queue') \in Nat
    BY <1>2, <1>3, LenProperties DEF Grows
  <2>5. ASSUME NEW m \in DOMAIN queue', m < k PROVE queue'[m] # Hole
    <3>1. m \in DOMAIN queue /\ m # k
      BY <2>3, <2>4, <2>5
    <3>2. QED BY <2>3, <2>5, <3>1
  <2>6. ASSUME NEW m \in DOMAIN queue', m > k PROVE queue'[m].kind # "epoch"
    <3>1. m \in DOMAIN queue /\ m # k
      BY <2>3, <2>4, <2>6
    <3>2. k \in DOMAIN queue
      BY <2>4, <2>6, <3>1
    <3>3. queue[k] = Hole /\ k < m
      BY <2>3, <2>4, <2>6, <3>2
    <3>4. queue[m].kind # "epoch"
      BY <1>1, <2>1, <3>1, <3>2, <3>3 DEF HoleBelowAnEpoch
    <3>5. QED BY <2>3, <3>1, <3>4
  <2>7. Parted(k)'
    BY <2>3, <2>5, <2>6 DEF Parted
  <2>8. QED BY <2>7
<1>8. QED BY <1>4, <1>5, <1>6, <1>7 DEF LoopInv

LEMMA LoopStep ==
    ASSUME LoopInv, [Next]_vars
    PROVE  LoopInv'
<1>1. CASE Scan
  BY <1>1, ScanStep
<1>2. CASE WithdrawPair
  BY <1>2, WithdrawPairStep
<1>3. CASE Evaluate
  BY <1>3, EvaluateStep
<1>4. CASE End
  BY <1>4, EndStep
<1>5. CASE Execute
  BY <1>5, ExecuteStep
<1>6. CASE Read
  <2>1. /\ view' = [row |-> row, depth |-> depth] /\ Running
        /\ UNCHANGED <<withdrawn, cooled, row, depth, queue, refused, halted, scanned, owed, ended>>
    BY <1>6 DEF Read, detector, pool, sender, loop
  <2>2. view'.depth = depth /\ view' \in [row : Prices, depth : Depths]
    BY <2>1 DEF LoopInv, LoopTypes
  <2>3. QED BY <2>1, <2>2 DEF LoopInv, LoopTypes, CoolInv, OwedInv, OpenInv, StaleInv, EndInv, Running
<1>7. CASE Take
  <2>1. /\ depth = "full" /\ depth' = "low" /\ Running
        /\ UNCHANGED <<withdrawn, cooled, row, view, queue, refused, halted, scanned, owed, ended>>
    BY <1>7 DEF Take, detector, sender, loop
  <2>2. depth # "zero" /\ depth' # "zero" /\ depth' \in Depths
    BY <2>1 DEF Depths
  <2>3. QED BY <2>1, <2>2 DEF LoopInv, LoopTypes, CoolInv, OwedInv, OpenInv, StaleInv, EndInv, Running
<1>8. CASE Venues
  <2>1. UNCHANGED <<withdrawn, cooled, row, depth, view, queue, refused, halted, scanned, owed, ended>>
    BY <1>8 DEF Venues, pool, sender, loop
  <2>2. QED BY <2>1, Standing
<1>9. CASE CoolOff
  <2>1. /\ view.depth = "zero" /\ depth = "zero" /\ cooled' = TRUE /\ Running /\ ~owed
        /\ \A n \in DOMAIN queue : queue[n].kind \notin {"zero", "epoch"}
        /\ UNCHANGED <<withdrawn, row, depth, view, queue, refused, halted, scanned, owed, ended>>
    BY <1>9 DEF CoolOff, DarkInView, pool, sender, loop
  <2>2. QED BY <2>1 DEF LoopInv, LoopTypes, CoolInv, OwedInv, OpenInv, StaleInv, EndInv, Running
<1>10. CASE Move
  BY <1>10, MoveStep
<1>11. CASE UNCHANGED vars
  <2>1. UNCHANGED <<withdrawn, cooled, row, depth, view, queue, refused, halted, scanned, owed, ended>>
    BY <1>11 DEF vars, detector, pool, sender, loop
  <2>2. QED BY <2>1, Standing
<1>12. QED
  BY <1>1, <1>2, <1>3, <1>4, <1>5, <1>6, <1>7, <1>8, <1>9, <1>10, <1>11 DEF Next, Cycle

LEMMA LoopStart == Init => LoopInv
<1> SUFFICES ASSUME Init PROVE LoopInv
  OBVIOUS
<1>1. /\ withdrawn = FALSE /\ cooled = TRUE /\ halted = FALSE /\ queue = <<>>
      /\ row \in Prices /\ depth \in Depths /\ view = [row |-> row, depth |-> depth]
  BY DEF Init
<1>2. DOMAIN queue = {} /\ queue \in Seq(Intents)
  BY <1>1
<1>3. refused = 0 /\ owed = FALSE /\ scanned = FALSE /\ ended = "no"
  BY DEF Init
<1>4. QED BY <1>1, <1>2, <1>3 DEF LoopInv, LoopTypes, CoolInv, OwedInv, OpenInv, StaleInv, EndInv, Running

LEMMA LoopSound == Spec => []LoopInv
<1>1. LoopInv /\ [Next]_vars => LoopInv'
  BY LoopStep
<1>2. QED BY <1>1, LoopStart, PTL DEF Spec

-----------------------------------------------------------------------------
(* From its withdrawal to its resume the pair's market is not offered to the  *)
(* RFQ endpoint: the withdrawal takes it away before anything is sent, and no *)
(* cycle publishes it before the detector has let go; between the trip and    *)
(* the withdrawal nothing is published either (main.rs 1393-1435,           *)
(* 2475-2518).                                                             *)
THEOREM NothingSignedWhileWithdrawn == Spec => []RfqSilentWhileWithdrawn
<1>1. Init => RfqSilentWhileWithdrawn
  BY DEF Init, RfqSilentWhileWithdrawn
<1>2. LoopInv /\ RfqSilentWhileWithdrawn /\ [Next]_vars => RfqSilentWhileWithdrawn'
  <2> SUFFICES ASSUME LoopInv, RfqSilentWhileWithdrawn, [Next]_vars
               PROVE  RfqSilentWhileWithdrawn'
    OBVIOUS
  <2>1. CASE Scan
    <3>1. ~scanned /\ rfq' = rfq
      BY <2>1 DEF Scan
    <3>2. ~owed
      BY <3>1 DEF LoopInv, OwedInv
    <3>3. (withdrawn' /\ owed') \/ (withdrawn' /\ withdrawn) \/ ~withdrawn'
      BY <2>1 DEF Scan, Observe, Contagion, Trip, detector
    <3>4. QED BY <3>1, <3>2, <3>3 DEF RfqSilentWhileWithdrawn
  <2>2. CASE Evaluate
    <3>1. UNCHANGED withdrawn /\ ~owed /\ rfq' = ((IF halted THEN rfq ELSE Publishes) /\ ~Reassert)
      BY <2>2 DEF Evaluate, detector
    <3>2. QED BY <3>1 DEF Publishes, RfqSilentWhileWithdrawn
  <2>3. CASE WithdrawPair
    BY <2>3 DEF WithdrawPair, RfqSilentWhileWithdrawn
  <2>4. CASE End
    BY <2>4 DEF End, RfqSilentWhileWithdrawn
  <2>5. CASE UNCHANGED <<withdrawn, rfq, owed>>
    BY <2>5 DEF RfqSilentWhileWithdrawn
  <2>6. Scan \/ Evaluate \/ WithdrawPair \/ End \/ UNCHANGED <<withdrawn, rfq, owed>>
    BY DEF Next, Cycle, Execute, Read, Take, Venues, CoolOff, Move, vars, detector, loop
  <2>7. QED BY <2>1, <2>2, <2>3, <2>4, <2>5, <2>6
<1>3. QED BY <1>1, <1>2, LoopSound, PTL DEF Spec

(* The withdrawal a process ends with, once accepted, darkens the pool and    *)
(* leaves nothing behind that arms it, unless it took a nonce below an epoch  *)
(* of its own process (main.rs 3121-3148, tx.rs 451-458).                    *)
THEOREM LastWithdrawalHolds == Spec => []EndsDark
<1>1. LoopInv => EndsDark
  <2> SUFFICES ASSUME LoopInv, ended = "last", queue = <<>> \/ Head(queue) = Hole
               PROVE  depth = "zero"
    BY DEF EndsDark, Dark
  <2>1. queue \in Seq(Intents) /\ EndInv
    BY DEF LoopInv, LoopTypes
  <2>2. CASE \E n \in DOMAIN queue : Parted(n)
    <3>1. PICK n \in DOMAIN queue : Parted(n)
      BY <2>2
    <3>2. DOMAIN queue = 1 .. Len(queue) /\ Len(queue) \in Nat
      BY <2>1, LenProperties
    <3>3. n \in Nat /\ 1 <= n /\ 1 \in DOMAIN queue
      BY <3>2
    <3>4. queue # <<>>
      BY <3>1
    <3>5. queue[1] = Hole
      BY <2>1, <3>3, <3>4
    <3>6. n # 1
      BY <3>1, <3>5, IntentsTold DEF Parted
    <3>7. 1 < n
      BY <3>3, <3>6
    <3>8. QED BY <3>1, <3>3, <3>5, <3>7 DEF Parted
  <2>3. QED BY <2>1, <2>2 DEF EndInv
<1>2. QED BY <1>1, LoopSound, PTL

(* An epoch that arms a dark pool does so on the ladder of the price it was  *)
(* planned at: one planned on another ladder was sent to a lit pool, and    *)
(* neither a withdrawal nor a refused send can come between (main.rs         *)
(* 2778-2784).                                                             *)
THEOREM ArmedAtItsOwnPrice == Spec => EpochBehindItsLadder
<1> DEFINE Kept == Arms /\ row = Head(queue).behind => row - Head(queue).at < JumpSteps
<1>1. LoopInv /\ [Next]_vars => [Kept]_vars
  <2> SUFFICES ASSUME LoopInv, Arms, row = Head(queue).behind
               PROVE  row - Head(queue).at < JumpSteps
    OBVIOUS
  <2>1. queue # <<>> /\ depth = "zero" /\ Head(queue).kind = "epoch" /\ queue \in Seq(Intents)
    BY DEF LoopInv, LoopTypes, Arms, Dark
  <2>2. 1 \in DOMAIN queue /\ Head(queue) = queue[1]
    <3>1. Len(queue) \in Nat \ {0} /\ DOMAIN queue = 1 .. Len(queue)
      BY <2>1, EmptySeq, LenProperties
    <3>2. \A L \in Nat \ {0} : 1 \in 1 .. L
      OBVIOUS
    <3>3. QED BY <2>1, <3>1, <3>2
  <2>3. ~Stale(queue[1])
    BY <2>1, <2>2 DEF LoopInv, StaleInv
  <2>4. Head(queue).at = row /\ row \in Int
    BY <2>1, <2>2, <2>3, ZeroIsAPrice DEF LoopInv, LoopTypes, Stale
  <2>5. QED BY <2>4, QuoteLoopAssumption
<1> HIDE DEF Kept
<1>2. Spec => [][Kept]_vars
  BY <1>1, LoopSound, PTL DEF Spec
<1>3. QED BY <1>2 DEF EpochBehindItsLadder, Kept
=============================================================================
