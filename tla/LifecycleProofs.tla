-------------------------- MODULE LifecycleProofs --------------------------
(***************************************************************************)
(* What TLAPS proves of Lifecycle, for every set of groups and pairs and    *)
(* every limit, over any sequence of processes, crashes and failed writes:  *)
(* types, that a spent budget is latched on disk with the loss that spent   *)
(* it, that no step of a process lowers that loss, and that what is latched *)
(* on disk is not quoted.  And of Startup, for every world a start may      *)
(* find: what an accepted configuration can still panic.                   *)
(***************************************************************************)
EXTENDS Lifecycle, Startup, NatSets, SequenceTheorems

(* A budget that is spent is latched, and not by a halt that heals itself.  *)
SpentIsLatched(s) ==
    s.loss >= LossBudget /\ ~Shadow => s.halted /\ s.cause # "liveness"

(* The latches in memory are ahead of the files: a failed write loses a     *)
(* latch or a loss, never what the file already held.  Only what a resume   *)
(* may clear is waiting for it.                                            *)
AheadOfDisk ==
    \A g \in Groups :
        /\ SpentIsLatched(mem[g])
        /\ mem[g].loss >= file[g].loss
        /\ file[g].halted => mem[g].halted

LatchInv ==
    /\ \A g \in Groups : SpentIsLatched(file[g])
    /\ phase # "down" => AheadOfDisk
    /\ phase = "resuming" => todo \subseteq LivenessGroups

LifecycleInv == LifecycleTypeOK /\ LatchInv

-----------------------------------------------------------------------------
(* The limits and the killswitch's own operators. *)

(* A latch never set is sound: the budget is not zero. *)
LEMMA FreshIsSound == FreshLatch \in Latches /\ SpentIsLatched(FreshLatch)
BY LimitsAssumption DEF FreshLatch, Latches, Causes, SpentIsLatched

(* A liveness halt of a sound latch keeps its loss and leaves it sound. *)
LEMMA HaltKeeps ==
    ASSUME NEW s \in Latches, SpentIsLatched(s)
    PROVE  LET t == Halted(s, "liveness")
           IN  t \in Latches /\ SpentIsLatched(t) /\ t.loss = s.loss /\ t.halted
BY DEF Halted, Latches, Causes, SpentIsLatched

(* So does clearing a halt that was for liveness only. *)
LEMMA ResumeKeeps ==
    ASSUME NEW s \in Latches, SpentIsLatched(s), IsLivenessOnly(s)
    PROVE  LET t == Resumed(s)
           IN  t \in Latches /\ SpentIsLatched(t) /\ t.loss = s.loss
BY LimitsAssumption DEF Resumed, IsLivenessOnly, Latches, Causes, SpentIsLatched

(* Counting a fill never lowers the loss. *)
LEMMA AccumulatedRises ==
    ASSUME NEW s \in Latches, NEW pnl \in Int
    PROVE  /\ Accumulated(s, pnl) \in Latches /\ Accumulated(s, pnl).loss >= s.loss
           /\ Accumulated(s, pnl).halted = s.halted
BY DEF Accumulated, Latches

(* A mark never lowers the loss, never clears a latch, and latches in the    *)
(* same step what it finds spent.                                          *)
LEMMA ObservedKeeps ==
    ASSUME NEW s \in Latches, SpentIsLatched(s), NEW pnl \in Int, NEW drawdown \in Nat
    PROVE  /\ Observed(s, FALSE, pnl, drawdown) \in Latches
           /\ SpentIsLatched(Observed(s, FALSE, pnl, drawdown))
           /\ Observed(s, FALSE, pnl, drawdown).loss >= s.loss
           /\ s.halted => Observed(s, FALSE, pnl, drawdown).halted
<1> DEFINE t == Observed(s, FALSE, pnl, drawdown)
           c == Accumulated(s, pnl)
           v == Verdict(c, drawdown)
<1>1. s.halted \in BOOLEAN /\ s.loss \in Nat
  BY DEF Latches
<1>2. CASE s.halted
  <2>1. t = s
    BY <1>2 DEF Observed
  <2> HIDE DEF t
  <2>2. t \in Latches /\ SpentIsLatched(t)
    BY <2>1
  <2>3. t.loss >= s.loss /\ t.halted
    BY <1>1, <1>2, <2>1
  <2>4. QED BY <2>2, <2>3 DEF t
<1>3. CASE ~s.halted
  <2>1. c \in Latches /\ c.loss >= s.loss /\ ~c.halted
    BY <1>3, AccumulatedRises
  <2>2. t = IF Shadow \/ v = "none" THEN c ELSE Halted(c, v)
    BY <1>3 DEF Observed
  <2>3. v \in {"none", "bleed", "budget"} /\ (v = "none" => ~(c.loss >= LossBudget))
    BY DEF Verdict
  <2> HIDE DEF c, v, t
  <2>4. CASE Shadow \/ v = "none"
    <3>1. t = c
      BY <2>2, <2>4
    <3>2. ~(c.loss >= LossBudget /\ ~Shadow)
      BY <2>3, <2>4
    <3>3. QED BY <1>3, <2>1, <3>1, <3>2 DEF SpentIsLatched, t
  <2>5. CASE ~(Shadow \/ v = "none")
    <3>1. t = [c EXCEPT !.halted = TRUE, !.cause = v]
      BY <2>1, <2>2, <2>5 DEF Halted
    <3>2. t \in Latches /\ t.loss = c.loss /\ t.halted /\ t.cause = v
      BY <2>1, <2>3, <2>5, <3>1 DEF Latches, Causes
    <3>3. v # "liveness" /\ t.loss >= s.loss
      BY <2>1, <2>3, <3>2
    <3>4. QED BY <1>3, <3>2, <3>3 DEF SpentIsLatched, t
  <2>6. QED BY <2>4, <2>5
<1>4. QED BY <1>2, <1>3

-----------------------------------------------------------------------------
(* Types. *)

LEMMA InitTyped == Init => LifecycleTypeOK
<1> SUFFICES ASSUME Init PROVE LifecycleTypeOK
  OBVIOUS
<1>1. file \in [Groups -> Latches] /\ mem \in [Groups -> Latches]
  BY FreshIsSound DEF Init
<1>2. life \in [Pairs -> 0 .. StaleAfter]
  BY LifecycleAssumption DEF Init
<1>3. /\ readAge \in 0 .. HaltAfter /\ blockAge \in 0 .. HaltAfter
      /\ troubles \in 0 .. MaxTroubles
  BY LifecycleAssumption DEF Init
<1>4. /\ answers \subseteq {"read", "write", "chain"} /\ phase \in Phases /\ todo \subseteq Groups \cup Pairs
      /\ sealed \in BOOLEAN /\ polled \in BOOLEAN /\ viewed \in BOOLEAN
  BY DEF Init, Phases
<1>5. arming \in [Pairs -> 0 .. FlightMax] /\ closing \subseteq Pairs
  <2>1. 0 \in 0 .. FlightMax
    BY LifecycleAssumption
  <2>2. QED BY <2>1 DEF Init
<1>6. QED BY <1>1, <1>2, <1>3, <1>4, <1>5 DEF LifecycleTypeOK

(* Entering the loop, or the withdrawals of a book that stays down. *)
LEMMA EnterLoopTyped ==
    ASSUME EnterLoop
    PROVE  /\ phase' \in {"running", "withdrawing"} /\ todo' \subseteq Pairs
           /\ readAge' \in 0 .. HaltAfter /\ blockAge' \in 0 .. HaltAfter
           /\ sealed' \in BOOLEAN /\ polled' \in BOOLEAN /\ viewed' \in BOOLEAN
<1>1. readAge' = 0 /\ blockAge' = 0 /\ 0 \in 0 .. HaltAfter
  BY LifecycleAssumption DEF EnterLoop
<1>2. QED BY <1>1 DEF EnterLoop

(* The files stay well-formed under a write, and under one that fails. *)
LEMMA WrittenTyped ==
    ASSUME LifecycleTypeOK, NEW g \in Groups, NEW t \in Latches, Written(g, t) \/ Unwritten
    PROVE  file' \in [Groups -> Latches] /\ troubles' \in 0 .. MaxTroubles
BY LifecycleAssumption DEF LifecycleTypeOK, Written, Unwritten, Trouble

(* The bound counter stays within its bound. *)
LEMMA TroubleTyped ==
    ASSUME LifecycleTypeOK, Trouble
    PROVE  troubles' \in 0 .. MaxTroubles
BY LifecycleAssumption DEF LifecycleTypeOK, Trouble

(* What is broadcast stays within the bound, and changes no pool yet. *)
LEMMA BroadcastTyped ==
    ASSUME LifecycleTypeOK, NEW quoted \in SUBSET Pairs, NEW withdrawn \in SUBSET Pairs,
           Broadcasts(quoted, withdrawn)
    PROVE  /\ life' = life /\ closing' \subseteq Pairs
           /\ arming' \in [Pairs -> 0 .. FlightMax]
           /\ \A p \in Pairs \ quoted : arming'[p] = arming[p]
BY LifecycleAssumption DEF LifecycleTypeOK, Broadcasts

(* A cycle changes no pool, and sends nothing that quotes for a latched group. *)
LEMMA CycleBroadcasts ==
    ASSUME LifecycleTypeOK, Cycle
    PROVE  \/ UNCHANGED pool
           \/ /\ life' = life /\ closing' \subseteq Pairs
              /\ arming' \in [Pairs -> 0 .. FlightMax]
              /\ \A p \in HaltedPairs : arming'[p] = arming[p]
<1>1. CASE Down
  BY <1>1 DEF Cycle
<1>2. CASE ~Down
  <2>1. PICK quoted \in SUBSET Quotable :
            \E withdrawn \in SUBSET HaltedPairs : Broadcasts(quoted, withdrawn)
    BY <1>2 DEF Cycle
  <2>2. PICK withdrawn \in SUBSET HaltedPairs : Broadcasts(quoted, withdrawn)
    BY <2>1
  <2>3. HaltedPairs \subseteq Pairs /\ Quotable \subseteq Pairs /\ Quotable \cap HaltedPairs = {}
    BY LifecycleAssumption DEF HaltedPairs, Pairs, Quotable
  <2>4. QED BY <2>2, <2>3, BroadcastTyped
<1>3. QED BY <1>1, <1>2

(* What lands leaves lives and flights in their ranges, and lengthens no life *)
(* but for a row or an epoch of that pair.                                  *)
LEMMA LandTyped ==
    ASSUME LifecycleTypeOK, NEW p \in Pairs, Land(p)
    PROVE  /\ life' \in [Pairs -> 0 .. StaleAfter] /\ closing' \subseteq Pairs
           /\ arming' \in [Pairs -> 0 .. FlightMax]
           /\ \A q \in Pairs : /\ arming'[q] <= arming[q]
                               /\ life'[q] > life[q] => arming'[q] < arming[q]
<1>1. /\ life \in [Pairs -> 0 .. StaleAfter] /\ arming \in [Pairs -> 0 .. FlightMax]
      /\ closing \subseteq Pairs /\ StaleAfter \in Nat /\ FlightMax \in Nat
  BY LifecycleAssumption DEF LifecycleTypeOK
<1>2. CASE /\ arming[p] > 0 /\ arming' = [arming EXCEPT ![p] = @ - 1]
           /\ life' \in {life, [life EXCEPT ![p] = StaleAfter]} /\ UNCHANGED closing
  <2>1. /\ life' \in [Pairs -> 0 .. StaleAfter]
        /\ \A q \in Pairs \ {p} : life'[q] = life[q]
    BY <1>1, <1>2
  <2>2. /\ arming' \in [Pairs -> 0 .. FlightMax]
        /\ arming'[p] = arming[p] - 1
        /\ \A q \in Pairs \ {p} : arming'[q] = arming[q]
    BY <1>1, <1>2
  <2>3. QED BY <1>1, <1>2, <2>1, <2>2
<1>3. CASE /\ p \in closing /\ closing' = closing \ {p}
           /\ life' \in {life, [life EXCEPT ![p] = 0]} /\ UNCHANGED arming
  <2>1. /\ life' \in [Pairs -> 0 .. StaleAfter]
        /\ \A q \in Pairs : life'[q] <= life[q]
    BY <1>1, <1>3
  <2>2. QED BY <1>1, <1>3, <2>1
<1>4. QED BY <1>2, <1>3 DEF Land

(* Time passes, and every counter stays in its range. *)
LEMMA TickTyped ==
    ASSUME LifecycleTypeOK, Tick
    PROVE  /\ readAge' \in 0 .. HaltAfter /\ blockAge' \in 0 .. HaltAfter
           /\ life' \in [Pairs -> 0 .. StaleAfter]
           /\ \A p \in Pairs : life'[p] <= life[p]
<1>1. /\ readAge \in 0 .. HaltAfter /\ blockAge \in 0 .. HaltAfter /\ HaltAfter \in Nat
      /\ life \in [Pairs -> 0 .. StaleAfter] /\ StaleAfter \in Nat
  BY LifecycleAssumption DEF LifecycleTypeOK
<1>2. readAge' = IF readAge + 1 <= HaltAfter THEN readAge + 1 ELSE HaltAfter
  BY <1>1, SmallerOfTwo DEF Tick
<1>3. blockAge' = IF blockAge + 1 <= HaltAfter THEN blockAge + 1 ELSE HaltAfter
  BY <1>1, SmallerOfTwo DEF Tick
<1>4. ASSUME NEW p \in Pairs
      PROVE  Max({life[p] - 1, 0}) = (IF life[p] - 1 >= 0 THEN life[p] - 1 ELSE 0)
  <2>1. life[p] - 1 \in Int
    BY <1>1
  <2>2. QED BY <2>1, LargerOfTwo
<1>5. life' = [p \in Pairs |-> Max({life[p] - 1, 0})]
  BY DEF Tick
<1>6. ASSUME NEW p \in Pairs
      PROVE  life'[p] \in 0 .. StaleAfter /\ life'[p] <= life[p]
  BY <1>1, <1>4, <1>5
<1>7. QED BY <1>1, <1>2, <1>3, <1>5, <1>6

-----------------------------------------------------------------------------
(* The latches. *)

(* A mark or a halt moves one latch forward in memory, and its file with it  *)
(* or not at all.                                                          *)
LEMMA LatchAdvances ==
    ASSUME LifecycleInv, phase # "down", NEW g \in Groups, NEW t \in Latches,
           SpentIsLatched(t), t.loss >= mem[g].loss, mem[g].halted => t.halted,
           mem' = [mem EXCEPT ![g] = t],
           Written(g, t) \/ Unwritten
    PROVE  /\ mem' \in [Groups -> Latches]
           /\ \A h \in Groups : SpentIsLatched(file'[h]) /\ file'[h].loss >= file[h].loss
           /\ AheadOfDisk'
<1>1. mem \in [Groups -> Latches] /\ file \in [Groups -> Latches]
  BY DEF LifecycleInv, LifecycleTypeOK
<1>2. AheadOfDisk /\ \A h \in Groups : SpentIsLatched(file[h])
  BY DEF LifecycleInv, LatchInv
<1>3. file' = file \/ file' = [file EXCEPT ![g] = t]
  BY DEF Written, Unwritten
<1>4. \A h \in Groups : /\ mem[h] \in Latches /\ mem[h].loss \in Nat /\ mem[h].halted \in BOOLEAN
                        /\ file[h].loss \in Nat /\ file[h].halted \in BOOLEAN
  BY <1>1 DEF Latches
<1>5. t.loss \in Nat /\ t.halted \in BOOLEAN
  BY DEF Latches
<1>6. mem' \in [Groups -> Latches]
  BY <1>1
<1>7. ASSUME NEW h \in Groups
      PROVE  /\ SpentIsLatched(mem'[h]) /\ mem'[h].loss >= file'[h].loss
             /\ file'[h].halted => mem'[h].halted
             /\ SpentIsLatched(file'[h]) /\ file'[h].loss >= file[h].loss
  <2>1. /\ SpentIsLatched(mem[h]) /\ SpentIsLatched(file[h])
        /\ mem[h].loss >= file[h].loss /\ (file[h].halted => mem[h].halted)
    BY <1>2 DEF AheadOfDisk
  <2>2. CASE h = g
    <3>1. mem'[h] = t /\ (file'[h] = file[h] \/ file'[h] = t)
      BY <1>1, <1>3, <2>2
    <3>2. t.loss >= file[h].loss /\ (file[h].halted => t.halted)
      BY <1>4, <1>5, <2>1, <2>2
    <3>3. CASE file'[h] = file[h]
      BY <1>4, <2>1, <3>1, <3>2, <3>3
    <3>4. CASE file'[h] = t
      <4>1. SpentIsLatched(mem'[h]) /\ SpentIsLatched(file'[h])
        BY <3>1, <3>4
      <4>2. t.loss >= t.loss
        BY <1>5
      <4>3. QED BY <3>1, <3>2, <3>4, <4>1, <4>2
    <3>5. QED BY <3>1, <3>3, <3>4
  <2>3. CASE h # g
    <3>1. mem'[h] = mem[h] /\ file'[h] = file[h]
      BY <1>1, <1>3, <2>3
    <3>2. file[h].loss >= file[h].loss
      BY <1>4
    <3>3. QED BY <2>1, <3>1, <3>2
  <2>4. QED BY <2>2, <2>3
<1>8. AheadOfDisk'
  BY <1>7 DEF AheadOfDisk, SpentIsLatched
<1>9. QED BY <1>6, <1>7, <1>8

(* A resume clears one latch, in the file first of all, or ends the process. *)
LEMMA ResumeClears ==
    ASSUME LifecycleInv, NEW g \in Groups, Resume(g)
    PROVE  /\ mem' \in [Groups -> Latches] /\ file' \in [Groups -> Latches]
           /\ \A h \in Groups : file'[h].loss >= file[h].loss
           /\ LatchInv'
<1> DEFINE t == Resumed(mem[g])
<1>1. phase = "resuming" /\ g \in todo /\ mem' = [mem EXCEPT ![g] = t]
  BY DEF Resume
<1>2. mem \in [Groups -> Latches] /\ file \in [Groups -> Latches]
  BY DEF LifecycleInv, LifecycleTypeOK
<1>3. AheadOfDisk /\ todo \subseteq LivenessGroups /\ \A h \in Groups : SpentIsLatched(file[h])
  BY <1>1 DEF LifecycleInv, LatchInv
<1>4. IsLivenessOnly(mem[g]) /\ mem[g] \in Latches /\ SpentIsLatched(mem[g])
  BY <1>1, <1>2, <1>3 DEF LivenessGroups, AheadOfDisk
<1>5. t \in Latches /\ SpentIsLatched(t) /\ t.loss = mem[g].loss
  BY <1>4, ResumeKeeps
<1> HIDE DEF t
<1>6. \A h \in Groups : /\ mem[h].loss \in Nat /\ file[h].loss \in Nat
                        /\ mem[h].halted \in BOOLEAN /\ file[h].halted \in BOOLEAN
  BY <1>2 DEF Latches
<1>7. mem' \in [Groups -> Latches] /\ mem'[g] = t
  BY <1>1, <1>2, <1>5
<1>8. CASE Written(g, mem'[g]) /\ todo' = todo \ {g} /\ UNCHANGED phase
  <2>1. file' = [file EXCEPT ![g] = t]
    BY <1>7, <1>8 DEF Written
  <2>2. ASSUME NEW h \in Groups
        PROVE  /\ SpentIsLatched(mem'[h]) /\ SpentIsLatched(file'[h])
               /\ mem'[h].loss >= file'[h].loss /\ file'[h].loss >= file[h].loss
               /\ file'[h].halted => mem'[h].halted
    <3>1. /\ SpentIsLatched(mem[h]) /\ SpentIsLatched(file[h])
          /\ mem[h].loss >= file[h].loss /\ (file[h].halted => mem[h].halted)
      BY <1>3 DEF AheadOfDisk
    <3>2. CASE h = g
      <4>1. mem'[h] = t /\ file'[h] = t /\ t.loss >= file[h].loss /\ t.loss \in Nat
        BY <1>2, <1>5, <1>6, <1>7, <2>1, <3>1, <3>2
      <4>2. SpentIsLatched(mem'[h]) /\ SpentIsLatched(file'[h])
        BY <1>5, <4>1
      <4>3. QED BY <4>1, <4>2
    <3>3. CASE h # g
      <4>1. mem'[h] = mem[h] /\ file'[h] = file[h]
        BY <1>1, <1>2, <2>1, <3>3
      <4>2. file[h].loss >= file[h].loss
        BY <1>6
      <4>3. QED BY <3>1, <4>1, <4>2
    <3>4. QED BY <3>2, <3>3
  <2>3. file' \in [Groups -> Latches]
    BY <1>2, <1>5, <2>1
  <2>4. todo' \subseteq LivenessGroups'
    <3>1. ASSUME NEW h \in todo' PROVE h \in LivenessGroups'
      <4>1. h \in LivenessGroups /\ h # g
        BY <1>3, <1>8
      <4>2. mem'[h] = mem[h] /\ h \in Groups
        BY <1>1, <1>2, <4>1 DEF LivenessGroups
      <4>3. QED BY <4>1, <4>2 DEF LivenessGroups, IsLivenessOnly
    <3>2. QED BY <3>1
  <2>5. AheadOfDisk' /\ \A h \in Groups : SpentIsLatched(file'[h])
    BY <2>2 DEF AheadOfDisk, SpentIsLatched
  <2>6. LatchInv'
    BY <2>4, <2>5 DEF LatchInv, SpentIsLatched
  <2>7. QED BY <1>7, <2>2, <2>3, <2>6
<1>9. CASE Unwritten /\ todo' = {} /\ phase' = "down"
  <2>1. file' = file
    BY <1>9 DEF Unwritten
  <2>2. LatchInv'
    BY <1>3, <1>9, <2>1 DEF LatchInv, SpentIsLatched
  <2>3. \A h \in Groups : file'[h].loss >= file[h].loss
    BY <1>6, <2>1
  <2>4. QED BY <1>2, <1>7, <2>1, <2>2, <2>3
<1>10. QED BY <1>8, <1>9 DEF Resume

(* A step that touches neither, and starts no process and no resume. *)
LEMMA LatchesIdle ==
    ASSUME LifecycleInv, UNCHANGED <<file, mem>>,
           phase' # "down" => phase # "down",
           phase' = "resuming" => todo' \subseteq LivenessGroups
    PROVE  LatchInv' /\ \A h \in Groups : file'[h].loss >= file[h].loss
<1>1. \A h \in Groups : file[h].loss \in Nat
  BY DEF LifecycleInv, LifecycleTypeOK, Latches
<1>2. LivenessGroups' = LivenessGroups
  BY DEF LivenessGroups, IsLivenessOnly
<1>3. AheadOfDisk => AheadOfDisk'
  BY DEF AheadOfDisk, SpentIsLatched
<1>4. (\A h \in Groups : SpentIsLatched(file[h])) => (\A h \in Groups : SpentIsLatched(file'[h]))
  OBVIOUS
<1>5. LatchInv'
  BY <1>2, <1>3, <1>4 DEF LifecycleInv, LatchInv, SpentIsLatched
<1>6. QED BY <1>1, <1>5

-----------------------------------------------------------------------------
(* Every step. *)

(* A mark's result, or a halt's, or neither. *)
LEMMA MarkKeeps ==
    ASSUME LifecycleInv, NEW g \in Groups, Mark(g)
    PROVE  LifecycleInv' /\ \A h \in Groups : file'[h].loss >= file[h].loss
<1>1. LifecycleTypeOK /\ phase = "marking"
  BY DEF LifecycleInv, Mark
<1>2. CASE UNCHANGED <<file, mem, troubles>>
  <2>1. LatchInv' /\ \A h \in Groups : file'[h].loss >= file[h].loss
    BY <1>1, <1>2, LatchesIdle DEF Mark
  <2>2. LifecycleTypeOK'
    BY <1>1, <1>2 DEF LifecycleTypeOK, Phases, Mark, health, pool, flights
  <2>3. QED BY <2>1, <2>2 DEF LifecycleInv
<1>3. CASE ~UNCHANGED <<file, mem, troubles>>
  <2>1. PICK pnl \in Pnls, drawdown \in {0, BleedLimit} :
            /\ mem' = [mem EXCEPT ![g] = Observed(@, FALSE, pnl, drawdown)]
            /\ Written(g, mem'[g]) \/ Unwritten
    BY <1>3 DEF Mark
  <2> DEFINE t == Observed(mem[g], FALSE, pnl, drawdown)
  <2>2. pnl \in Int /\ drawdown \in Nat
    BY LifecycleAssumption, LimitsAssumption
  <2>3. mem[g] \in Latches /\ SpentIsLatched(mem[g])
    BY <1>1 DEF LifecycleTypeOK, LifecycleInv, LatchInv, AheadOfDisk
  <2>4. t \in Latches /\ SpentIsLatched(t) /\ t.loss >= mem[g].loss /\ (mem[g].halted => t.halted)
    BY <2>2, <2>3, ObservedKeeps
  <2>5. mem' = [mem EXCEPT ![g] = t] /\ mem'[g] = t
    BY <1>1, <2>1 DEF LifecycleTypeOK
  <2> HIDE DEF t
  <2>6. Written(g, t) \/ Unwritten
    BY <2>1, <2>5
  <2>7. /\ mem' \in [Groups -> Latches] /\ AheadOfDisk'
        /\ \A h \in Groups : SpentIsLatched(file'[h]) /\ file'[h].loss >= file[h].loss
    BY <1>1, <2>4, <2>5, <2>6, LatchAdvances
  <2>8. file' \in [Groups -> Latches] /\ troubles' \in 0 .. MaxTroubles
    BY <1>1, <2>4, <2>6, WrittenTyped
  <2>9. LifecycleTypeOK'
    BY <1>1, <2>7, <2>8 DEF LifecycleTypeOK, Phases, Mark, health, pool, flights
  <2>10. LatchInv'
    BY <1>1, <2>7 DEF LatchInv, Mark, SpentIsLatched
  <2>11. QED BY <2>7, <2>9, <2>10 DEF LifecycleInv
<1>4. QED BY <1>2, <1>3

(* One group of the halt of a chain that is down. *)
LEMMA HaltStepKeeps ==
    ASSUME LifecycleInv, NEW g \in Groups, Halt(g)
    PROVE  LifecycleInv' /\ \A h \in Groups : file'[h].loss >= file[h].loss
<1> DEFINE t == Halted(mem[g], "liveness")
<1>1. LifecycleTypeOK /\ phase = "halting" /\ phase' = "halting" /\ mem' = [mem EXCEPT ![g] = t]
  BY DEF LifecycleInv, Halt
<1>2. mem[g] \in Latches /\ SpentIsLatched(mem[g])
  BY <1>1 DEF LifecycleTypeOK, LifecycleInv, LatchInv, AheadOfDisk
<1>3. t \in Latches /\ SpentIsLatched(t) /\ t.loss = mem[g].loss /\ t.halted
  BY <1>2, HaltKeeps
<1>4. mem'[g] = t
  BY <1>1 DEF LifecycleTypeOK
<1>5. CASE mem[g].halted
  <2>1. t = mem[g] /\ mem' = mem
    BY <1>1, <1>5 DEF Halted, LifecycleTypeOK
  <2>2. UNCHANGED <<file, mem, troubles>>
    BY <1>5, <2>1 DEF Halt
  <2>3. LatchInv' /\ \A h \in Groups : file'[h].loss >= file[h].loss
    BY <1>1, <2>2, LatchesIdle
  <2>4. LifecycleTypeOK'
    BY <1>1, <2>2 DEF LifecycleTypeOK, Phases, Halt, health, pool, flights
  <2>5. QED BY <2>3, <2>4 DEF LifecycleInv
<1>6. CASE ~mem[g].halted
  <2> HIDE DEF t
  <2>1. Written(g, t) \/ Unwritten
    BY <1>4, <1>6 DEF Halt
  <2>2. t.loss >= mem[g].loss
    BY <1>2, <1>3 DEF Latches
  <2>3. /\ mem' \in [Groups -> Latches] /\ AheadOfDisk'
        /\ \A h \in Groups : SpentIsLatched(file'[h]) /\ file'[h].loss >= file[h].loss
    BY <1>1, <1>3, <2>1, <2>2, LatchAdvances
  <2>4. file' \in [Groups -> Latches] /\ troubles' \in 0 .. MaxTroubles
    BY <1>1, <1>3, <2>1, WrittenTyped
  <2>5. LifecycleTypeOK'
    BY <1>1, <2>3, <2>4 DEF LifecycleTypeOK, Phases, Halt, health, pool, flights
  <2>6. LatchInv'
    BY <1>1, <2>3 DEF LatchInv, SpentIsLatched
  <2>7. QED BY <2>3, <2>5, <2>6 DEF LifecycleInv
<1>7. QED BY <1>5, <1>6

(* The operator removes a file: the only step that takes a loss away. *)
LEMMA ClearKeeps ==
    ASSUME LifecycleInv, NEW g \in Groups, Clear(g)
    PROVE  LifecycleInv' /\ phase = "down"
<1>1. LifecycleTypeOK /\ \A h \in Groups : SpentIsLatched(file[h])
  BY DEF LifecycleInv, LatchInv
<1>2. /\ phase = "down" /\ phase' = "down" /\ Trouble /\ file' = [file EXCEPT ![g] = FreshLatch]
      /\ UNCHANGED <<answers, life, arming, closing, mem, todo, readAge, blockAge, sealed, polled, viewed>>
  BY DEF Clear, process, health, pool, flights
<1>3. file' \in [Groups -> Latches] /\ \A h \in Groups : SpentIsLatched(file'[h])
  <2>1. file \in [Groups -> Latches]
    BY <1>1 DEF LifecycleTypeOK
  <2>2. file' \in [Groups -> Latches]
    BY <1>2, <2>1, FreshIsSound
  <2>3. ASSUME NEW h \in Groups PROVE SpentIsLatched(file'[h])
    <3>1. file'[h] = FreshLatch \/ file'[h] = file[h]
      BY <1>2, <2>1
    <3>2. QED BY <1>1, <3>1, FreshIsSound
  <2>4. QED BY <2>2, <2>3
<1>4. troubles' \in 0 .. MaxTroubles
  BY <1>1, <1>2, TroubleTyped
<1>5. LifecycleTypeOK'
  BY <1>1, <1>2, <1>3, <1>4 DEF LifecycleTypeOK, Phases
<1>6. LatchInv'
  BY <1>2, <1>3 DEF LatchInv, SpentIsLatched
<1>7. QED BY <1>2, <1>5, <1>6 DEF LifecycleInv

(* A new process has in memory what the files hold. *)
LEMMA StartKeeps ==
    ASSUME LifecycleInv, Start
    PROVE  LifecycleInv' /\ file' = file
<1>1. LifecycleTypeOK /\ (\A h \in Groups : SpentIsLatched(file[h]))
  BY DEF LifecycleInv, LatchInv
<1>2. phase' = "loaded" /\ mem' = file /\ file' = file
  BY DEF Start
<1>3. LifecycleTypeOK'
  BY <1>1 DEF LifecycleTypeOK, Phases, Start, health, pool, flights
<1>4. AheadOfDisk'
  <2>1. ASSUME NEW h \in Groups
        PROVE  SpentIsLatched(mem'[h]) /\ mem'[h].loss >= file'[h].loss /\ (file'[h].halted => mem'[h].halted)
    <3>1. mem'[h] = file[h] /\ file'[h] = file[h] /\ file[h].loss \in Nat
      BY <1>1, <1>2 DEF LifecycleTypeOK, Latches
    <3>2. SpentIsLatched(mem'[h])
      BY <1>1, <3>1
    <3>3. mem'[h].loss >= file'[h].loss
      BY <3>1
    <3>4. QED BY <3>1, <3>2, <3>3
  <2>2. QED BY <2>1 DEF AheadOfDisk, SpentIsLatched
<1>5. LatchInv'
  BY <1>1, <1>2, <1>4 DEF LatchInv, SpentIsLatched
<1>6. QED BY <1>2, <1>3, <1>5 DEF LifecycleInv

(* The steps that leave every latch and file alone. *)
QuietStep ==
    \/ StayDownOrProbe \/ Probe \/ Resumption \/ Cycle \/ CycleEnds \/ HaltEnds
    \/ (\E p \in Pairs : Withdraw(p)) \/ Exit \/ Poll \/ Tick \/ Signal \/ Crash
    \/ (\E p \in Pairs : Land(p))
    \/ (\E c \in {"read", "write", "chain"} : Fail(c) \/ Recover(c))

LEMMA QuietKeeps ==
    ASSUME LifecycleInv, QuietStep
    PROVE  LifecycleInv' /\ \A h \in Groups : file'[h].loss >= file[h].loss
<1>1. LifecycleTypeOK /\ LatchInv
  BY DEF LifecycleInv
<1>2. CASE StayDownOrProbe
  <2>1. LifecycleTypeOK'
    <3>1. /\ EnterLoop \/ (phase' = "probing" /\ UNCHANGED <<todo, health>>)
          /\ UNCHANGED <<answers, pool, file, mem, troubles>>
      <4>1. CASE MayHeal
        BY <1>2, <4>1 DEF StayDownOrProbe
      <4>2. CASE ~MayHeal
        BY <1>2, <4>2 DEF StayDownOrProbe
      <4>3. QED BY <4>1, <4>2
    <3>2. CASE EnterLoop
      <4>1. phase' \in Phases /\ todo' \subseteq Groups \cup Pairs
        BY <3>2, EnterLoopTyped DEF Phases
      <4>2. QED BY <1>1, <3>1, <3>2, <4>1, EnterLoopTyped DEF LifecycleTypeOK, pool, flights
    <3>3. CASE ~EnterLoop
      BY <1>1, <3>1, <3>3 DEF LifecycleTypeOK, Phases, health, pool, flights, LivenessGroups
    <3>4. QED BY <3>2, <3>3
  <2>2. UNCHANGED <<file, mem>> /\ (phase' # "down" => phase # "down")
    BY <1>2, EnterLoopTyped DEF StayDownOrProbe, health, pool, flights
  <2>3. phase' = "resuming" => todo' \subseteq LivenessGroups
    BY <1>1, <1>2, EnterLoopTyped DEF StayDownOrProbe, health, pool, flights
  <2>4. QED BY <2>1, <2>2, <2>3, LatchesIdle DEF LifecycleInv
<1>3. CASE Probe
  <2>1. LifecycleTypeOK'
    <3>1. /\ EnterLoop \/ (phase' = "resuming" /\ todo' = LivenessGroups /\ UNCHANGED health)
          /\ UNCHANGED <<answers, pool, file, mem, troubles>>
      <4>1. CASE {"read", "write"} \subseteq answers
        BY <1>3, <4>1 DEF Probe
      <4>2. CASE ~({"read", "write"} \subseteq answers)
        BY <1>3, <4>2 DEF Probe
      <4>3. QED BY <4>1, <4>2
    <3>2. CASE EnterLoop
      <4>1. phase' \in Phases /\ todo' \subseteq Groups \cup Pairs
        BY <3>2, EnterLoopTyped DEF Phases
      <4>2. QED BY <1>1, <3>1, <3>2, <4>1, EnterLoopTyped DEF LifecycleTypeOK, pool, flights
    <3>3. CASE ~EnterLoop
      BY <1>1, <3>1, <3>3 DEF LifecycleTypeOK, Phases, health, pool, flights, LivenessGroups
    <3>4. QED BY <3>2, <3>3
  <2>2. UNCHANGED <<file, mem>> /\ (phase' # "down" => phase # "down")
    BY <1>3, EnterLoopTyped DEF Probe, LivenessGroups, health, pool, flights
  <2>3. phase' = "resuming" => todo' \subseteq LivenessGroups
    BY <1>1, <1>3, EnterLoopTyped DEF Probe, LivenessGroups, health, pool, flights
  <2>4. QED BY <2>1, <2>2, <2>3, LatchesIdle DEF LifecycleInv
<1>4. CASE Resumption
  <2>1. LifecycleTypeOK'
    <3>1. EnterLoop /\ UNCHANGED <<answers, pool, file, mem, troubles>>
      BY <1>4 DEF Resumption
    <3>2. phase' \in Phases /\ todo' \subseteq Groups \cup Pairs
      BY <3>1, EnterLoopTyped DEF Phases
    <3>3. QED BY <1>1, <3>1, <3>2, EnterLoopTyped DEF LifecycleTypeOK, pool, flights
  <2>2. UNCHANGED <<file, mem>> /\ (phase' # "down" => phase # "down")
    BY <1>4, EnterLoopTyped DEF Resumption, health, pool, flights
  <2>3. phase' = "resuming" => todo' \subseteq LivenessGroups
    BY <1>1, <1>4, EnterLoopTyped DEF Resumption, health, pool, flights
  <2>4. QED BY <2>1, <2>2, <2>3, LatchesIdle DEF LifecycleInv
<1>5. CASE Cycle
  <2>1. LifecycleTypeOK'
    <3>1. life' \in [Pairs -> 0 .. StaleAfter] /\ arming' \in [Pairs -> 0 .. FlightMax] /\ closing' \subseteq Pairs
      BY <1>1, <1>5, CycleBroadcasts DEF LifecycleTypeOK, pool, flights
    <3>2. phase' \in Phases /\ todo' \subseteq Groups \cup Pairs
      BY <1>5 DEF Cycle, Phases
    <3>3. QED BY <1>1, <1>5, <3>1, <3>2 DEF LifecycleTypeOK, Cycle, health
  <2>2. UNCHANGED <<file, mem>> /\ (phase' # "down" => phase # "down")
    BY <1>5 DEF Cycle, health, pool, flights
  <2>3. phase' = "resuming" => todo' \subseteq LivenessGroups
    BY <1>1, <1>5 DEF Cycle, health, pool, flights
  <2>4. QED BY <2>1, <2>2, <2>3, LatchesIdle DEF LifecycleInv
<1>6. CASE CycleEnds
  <2>1. LifecycleTypeOK'
    BY <1>1, <1>6 DEF LifecycleTypeOK, Phases, CycleEnds, health, pool, flights
  <2>2. UNCHANGED <<file, mem>> /\ (phase' # "down" => phase # "down")
    BY <1>6 DEF CycleEnds, health, pool, flights
  <2>3. phase' = "resuming" => todo' \subseteq LivenessGroups
    BY <1>1, <1>6 DEF CycleEnds, health, pool, flights
  <2>4. QED BY <2>1, <2>2, <2>3, LatchesIdle DEF LifecycleInv
<1>7. CASE HaltEnds
  <2>1. LifecycleTypeOK'
    BY <1>1, <1>7 DEF LifecycleTypeOK, Phases, HaltEnds, health, pool, flights
  <2>2. UNCHANGED <<file, mem>> /\ (phase' # "down" => phase # "down")
    BY <1>7 DEF HaltEnds, health, pool, flights
  <2>3. phase' = "resuming" => todo' \subseteq LivenessGroups
    BY <1>1, <1>7 DEF HaltEnds, health, pool, flights
  <2>4. QED BY <2>1, <2>2, <2>3, LatchesIdle DEF LifecycleInv
<1>8. CASE \E p \in Pairs : Withdraw(p)
  <2>1. LifecycleTypeOK'
    <3>1. PICK p \in Pairs : Withdraw(p)
      BY <1>8
    <3>2. life' \in [Pairs -> 0 .. StaleAfter] /\ arming' \in [Pairs -> 0 .. FlightMax] /\ closing' \subseteq Pairs
      <4>1. Broadcasts({}, {p}) \/ UNCHANGED pool
        BY <3>1 DEF Withdraw
      <4>2. CASE Broadcasts({}, {p})
        BY <1>1, <4>2, BroadcastTyped DEF LifecycleTypeOK
      <4>3. CASE UNCHANGED pool
        BY <1>1, <4>3 DEF LifecycleTypeOK, pool, flights
      <4>4. QED BY <4>1, <4>2, <4>3
    <3>3. QED BY <1>1, <3>1, <3>2 DEF LifecycleTypeOK, Withdraw, health
  <2>2. UNCHANGED <<file, mem>> /\ (phase' # "down" => phase # "down")
    BY <1>8 DEF Withdraw, health, pool, flights
  <2>3. phase' = "resuming" => todo' \subseteq LivenessGroups
    BY <1>1, <1>8 DEF Withdraw, health, pool, flights
  <2>4. QED BY <2>1, <2>2, <2>3, LatchesIdle DEF LifecycleInv
<1>9. CASE Exit
  <2>1. LifecycleTypeOK'
    BY <1>1, <1>9 DEF LifecycleTypeOK, Phases, Exit, health, pool, flights
  <2>2. UNCHANGED <<file, mem>> /\ (phase' # "down" => phase # "down")
    BY <1>9 DEF Exit, health, pool, flights
  <2>3. phase' = "resuming" => todo' \subseteq LivenessGroups
    BY <1>1, <1>9 DEF Exit, health, pool, flights
  <2>4. QED BY <2>1, <2>2, <2>3, LatchesIdle DEF LifecycleInv
<1>10. CASE Poll
  <2>1. LifecycleTypeOK'
    <3>1. readAge' \in 0 .. HaltAfter /\ blockAge' \in 0 .. HaltAfter
      BY <1>1, <1>10, LifecycleAssumption DEF LifecycleTypeOK, Poll
    <3>2. sealed' \in BOOLEAN /\ viewed' \in BOOLEAN /\ polled' \in BOOLEAN
      BY <1>1, <1>10 DEF LifecycleTypeOK, Poll
    <3>3. QED BY <1>1, <1>10, <3>1, <3>2 DEF LifecycleTypeOK, Poll, process, pool, flights
  <2>2. UNCHANGED <<file, mem>> /\ (phase' # "down" => phase # "down")
    BY <1>10 DEF Poll, process
  <2>3. phase' = "resuming" => todo' \subseteq LivenessGroups
    BY <1>1, <1>10 DEF Poll, process, LatchInv, LifecycleInv
  <2>4. QED BY <2>1, <2>2, <2>3, LatchesIdle DEF LifecycleInv
<1>11. CASE Tick
  <2>1. LifecycleTypeOK'
    BY <1>1, <1>11, TickTyped DEF LifecycleTypeOK, Phases, Tick, process, flights
  <2>2. UNCHANGED <<file, mem>> /\ (phase' # "down" => phase # "down")
    BY <1>11 DEF Tick, process
  <2>3. phase' = "resuming" => todo' \subseteq LivenessGroups
    BY <1>1, <1>11 DEF Tick, process, LatchInv, LifecycleInv
  <2>4. QED BY <2>1, <2>2, <2>3, LatchesIdle DEF LifecycleInv
<1>12. CASE Signal
  <2>1. LifecycleTypeOK'
    BY <1>1, <1>12, TroubleTyped DEF LifecycleTypeOK, Phases, Signal, health, pool, flights
  <2>2. UNCHANGED <<file, mem>> /\ (phase' # "down" => phase # "down")
    BY <1>12 DEF Signal, health, pool, flights
  <2>3. phase' = "resuming" => todo' \subseteq LivenessGroups
    BY <1>1, <1>12 DEF Signal, health, pool, flights
  <2>4. QED BY <2>1, <2>2, <2>3, LatchesIdle DEF LifecycleInv
<1>13. CASE Crash
  <2>1. LifecycleTypeOK'
    BY <1>1, <1>13, TroubleTyped DEF LifecycleTypeOK, Phases, Crash, health, pool, flights
  <2>2. UNCHANGED <<file, mem>> /\ (phase' # "down" => phase # "down")
    BY <1>13 DEF Crash, health, pool, flights
  <2>3. phase' = "resuming" => todo' \subseteq LivenessGroups
    BY <1>1, <1>13 DEF Crash, health, pool, flights
  <2>4. QED BY <2>1, <2>2, <2>3, LatchesIdle DEF LifecycleInv
<1>14. CASE \E c \in {"read", "write", "chain"} : Fail(c) \/ Recover(c)
  <2>1. LifecycleTypeOK'
    BY <1>1, <1>14, TroubleTyped DEF LifecycleTypeOK, Phases, Fail, Recover, process, health, pool, flights
  <2>2. UNCHANGED <<file, mem>> /\ (phase' # "down" => phase # "down")
    BY <1>14 DEF Fail, Recover, process, health, pool, flights
  <2>3. phase' = "resuming" => todo' \subseteq LivenessGroups
    BY <1>1, <1>14 DEF Fail, Recover, process, health, pool, flights, LatchInv, LifecycleInv
  <2>4. QED BY <2>1, <2>2, <2>3, LatchesIdle DEF LifecycleInv
<1>15. CASE \E p \in Pairs : Land(p)
  <2>1. PICK p \in Pairs : Land(p)
    BY <1>15
  <2>2. /\ UNCHANGED <<answers, file, mem, phase, todo, readAge, blockAge, sealed, polled, viewed, troubles>>
    BY <2>1 DEF Land, process, health
  <2>3. LifecycleTypeOK'
    BY <1>1, <2>1, <2>2, LandTyped DEF LifecycleTypeOK
  <2>4. phase' = "resuming" => todo' \subseteq LivenessGroups
    BY <1>1, <2>2 DEF LatchInv
  <2>5. QED BY <2>2, <2>3, <2>4, LatchesIdle DEF LifecycleInv
<1>16. QED
  BY <1>2, <1>3, <1>4, <1>5, <1>6, <1>7, <1>8, <1>9, <1>10, <1>11, <1>12, <1>13, <1>14, <1>15 DEF QuietStep

(* A crash, a signal, a failed write or anything else the code does leaves   *)
(* types and latches as they must be, and lowers no loss unless nothing     *)
(* runs.                                                                   *)
LEMMA StepKeeps ==
    ASSUME LifecycleInv, [Next]_vars
    PROVE  /\ LifecycleInv'
           /\ phase # "down" => \A h \in Groups : file'[h].loss >= file[h].loss
<1>1. CASE UNCHANGED vars
  <2>1. UNCHANGED <<file, mem, phase, todo>>
    BY <1>1 DEF vars, process
  <2>2. LatchInv' /\ \A h \in Groups : file'[h].loss >= file[h].loss
    BY <2>1, LatchesIdle DEF LifecycleInv, LatchInv
  <2>3. LifecycleTypeOK'
    BY <1>1 DEF LifecycleInv, LifecycleTypeOK, Phases, vars, process, health, pool, flights
  <2>4. QED BY <2>2, <2>3 DEF LifecycleInv
<1>2. CASE Start
  <2>1. phase = "down"
    BY <1>2 DEF Start
  <2>2. QED BY <1>2, <2>1, StartKeeps
<1>3. CASE \E g \in Groups : Resume(g)
  <2>1. PICK g \in Groups : Resume(g)
    BY <1>3
  <2>2. /\ mem' \in [Groups -> Latches] /\ file' \in [Groups -> Latches]
        /\ LatchInv' /\ \A h \in Groups : file'[h].loss >= file[h].loss
    BY <2>1, ResumeClears
  <2>3. troubles' \in 0 .. MaxTroubles
    <3>1. UNCHANGED troubles \/ Trouble
      BY <2>1 DEF Resume, Written, Unwritten
    <3>2. QED BY <3>1, TroubleTyped DEF LifecycleInv, LifecycleTypeOK
  <2>4. LifecycleTypeOK'
    BY <2>1, <2>2, <2>3 DEF LifecycleInv, LifecycleTypeOK, Phases, Resume, health, pool, flights
  <2>5. QED BY <2>2, <2>4 DEF LifecycleInv
<1>4. CASE \E g \in Groups : Mark(g)
  BY <1>4, MarkKeeps
<1>5. CASE \E g \in Groups : Halt(g)
  BY <1>5, HaltStepKeeps
<1>6. CASE \E g \in Groups : Clear(g)
  BY <1>6, ClearKeeps
<1>7. CASE QuietStep
  BY <1>7, QuietKeeps
<1>8. QED
  BY <1>1, <1>2, <1>3, <1>4, <1>5, <1>6, <1>7 DEF Next, ProcessStep, QuietStep

LEMMA InitSound == Init => LifecycleInv
<1> SUFFICES ASSUME Init PROVE LifecycleInv
  OBVIOUS
<1>1. \A g \in Groups : SpentIsLatched(file[g])
  BY FreshIsSound DEF Init
<1>2. LatchInv
  BY <1>1 DEF Init, LatchInv
<1>3. QED BY <1>2, InitTyped DEF LifecycleInv

LEMMA Invariance == Spec => []LifecycleInv
<1>1. LifecycleInv /\ [Next]_vars => LifecycleInv'
  BY StepKeeps
<1>2. QED BY <1>1, InitSound, PTL DEF Spec

-----------------------------------------------------------------------------
(* The theorems. *)

(* Types: every counter of main.rs's process and of its reader stays in its  *)
(* range, and every latch file holds a latch.                               *)
THEOREM LifecycleTypeCorrect == Spec => []LifecycleTypeOK
<1>1. LifecycleInv => LifecycleTypeOK
  BY DEF LifecycleInv
<1>2. QED BY <1>1, Invariance, PTL

(* A loss that spent the budget is never on disk without its latch           *)
(* (risk.rs 416-494, 551-577), whatever crashed and whatever was not written. *)
THEOREM SpentBudgetIsLatched == Spec => []SpentBudgetStaysDown
<1>1. LifecycleInv => SpentBudgetStaysDown
  <2> SUFFICES ASSUME LifecycleInv, NEW g \in Groups, file[g].loss >= LossBudget
               PROVE  Latched(g) \/ Shadow
    BY DEF SpentBudgetStaysDown
  <2>1. SpentIsLatched(file[g])
    BY DEF LifecycleInv, LatchInv
  <2>2. QED BY <2>1 DEF SpentIsLatched, Latched
<1>2. QED BY <1>1, Invariance, PTL

(* No resume, halt, crash or failed write lowers the loss on disk           *)
(* (risk.rs 363-383, 510-529).                                             *)
THEOREM LossIsKept == Spec => BudgetNeverRefunded
<1> DEFINE Kept == \A g \in Groups : file'[g].loss < file[g].loss => phase = "down"
<1>1. LifecycleInv /\ [Next]_vars => [Kept]_vars
  <2> SUFFICES ASSUME LifecycleInv, [Next]_vars, NEW g \in Groups, phase # "down"
               PROVE  ~(file'[g].loss < file[g].loss)
    OBVIOUS
  <2>1. LifecycleInv' /\ file'[g].loss >= file[g].loss
    BY StepKeeps
  <2>2. file[g].loss \in Nat /\ file'[g].loss \in Nat
    BY <2>1 DEF LifecycleInv, LifecycleTypeOK, Latches
  <2>3. QED BY <2>1, <2>2
<1>2. QED BY <1>1, Invariance, PTL DEF Spec, BudgetNeverRefunded

(* While a group is latched on disk no process broadcasts a row or an epoch   *)
(* for its pools, and only one that was on its way before lengthens their     *)
(* lives (main.rs 2294-2312, 786-800, 2919-2998): the latch in memory is      *)
(* never behind the file.                                                   *)
THEOREM LatchedStopsQuoting == Spec => LatchedIsNotQuoted
<1> DEFINE Fades(p) == arming'[p] <= arming[p] /\ (life'[p] > life[p] => arming'[p] < arming[p])
           Stops == \A g \in Groups : Latched(g) =>
                      \A p \in PairsOf[g] : /\ arming'[p] <= arming[p]
                                            /\ life'[p] > life[p] => arming'[p] < arming[p]
<1>1. LifecycleInv /\ [Next]_vars => [Stops]_vars
  <2> SUFFICES ASSUME LifecycleInv, [Next]_vars,
                      NEW g \in Groups, Latched(g), NEW p \in PairsOf[g]
               PROVE  Fades(p)
    OBVIOUS
  <2>1. /\ LifecycleTypeOK /\ p \in Pairs
        /\ life[p] \in Nat /\ life \in [Pairs -> 0 .. StaleAfter]
        /\ arming[p] \in Nat /\ arming \in [Pairs -> 0 .. FlightMax]
    BY LifecycleAssumption DEF Pairs, LifecycleInv, LifecycleTypeOK
  <2>2. ASSUME life'[p] <= life[p], arming'[p] = arming[p], life'[p] \in Int PROVE Fades(p)
    BY <2>1, <2>2
  <2>3. CASE UNCHANGED pool
    <3>1. life'[p] = life[p] /\ arming'[p] = arming[p]
      BY <2>3 DEF pool, flights
    <3>2. QED BY <2>1, <3>1
  <2> HIDE DEF Fades
  <2>4. CASE Cycle
    <3>1. mem[g].halted
      BY <2>4 DEF LifecycleInv, LatchInv, AheadOfDisk, Latched, Cycle
    <3>2. p \in HaltedPairs
      BY <3>1 DEF HaltedPairs
    <3>3. CASE life' = life /\ arming'[p] = arming[p]
      BY <2>1, <2>2, <3>3
    <3>4. QED BY <2>1, <2>3, <2>4, <3>2, <3>3, CycleBroadcasts
  <2>5. CASE \E q \in Pairs : Withdraw(q)
    <3>1. PICK q \in Pairs : Withdraw(q)
      BY <2>5
    <3>2. CASE Broadcasts({}, {q})
      <4>1. life' = life /\ arming'[p] = arming[p]
        BY <2>1, <3>2, BroadcastTyped
      <4>2. QED BY <2>1, <2>2, <4>1
    <3>3. QED BY <2>3, <3>1, <3>2 DEF Withdraw
  <2>6. CASE Tick
    <3>1. life'[p] <= life[p] /\ life'[p] \in 0 .. StaleAfter /\ arming' = arming
      BY <2>1, <2>6, TickTyped DEF Tick, flights
    <3>2. QED BY <2>2, <3>1
  <2>7. CASE \E q \in Pairs : Land(q)
    BY <2>1, <2>7, LandTyped DEF Fades
  <2>8. QED
    BY <2>3, <2>4, <2>5, <2>6, <2>7
    DEF Next, ProcessStep, vars, process, Start, StayDownOrProbe, Probe, Resume, Resumption, Mark,
        CycleEnds, Halt, HaltEnds, Exit, Poll, Signal, Crash, Clear, Fail, Recover
<1> HIDE DEF Stops
<1>2. Spec => [][Stops]_vars
  BY <1>1, Invariance, PTL DEF Spec
<1>3. QED BY <1>2 DEF LatchedIsNotQuoted, Stops

----------------------------------------------------------------------------
(* One start: see Startup. *)

(* What a check of a range leaves. *)
LEMMA WithinBounds ==
    ASSUME NEW x, NEW least \in Int, NEW most \in Int, Within(x, least, most)
    PROVE  x \in Int /\ least <= x /\ x <= most
BY SMT DEF Within

(* The hundredths of a bp a float rounds to. *)
LEMMA RoundedSpread ==
    ASSUME NEW x \in Int \cup {NaN}, NEW most \in Nat, x <= 1000 * most, E2(x) # 0
    PROVE  x \in Int /\ E2(x) \in Nat /\ E2(x) <= 100 * most
<1>1. x \in Int /\ x # NaN
  BY DEF E2
<1>2. DEFINE q == (x + 5) \div 10
<1>3. q \in Int /\ 10 * q <= x + 5
  BY <1>1, Quotient
<1>4. E2(x) = IF 0 >= q THEN 0 ELSE q
  BY <1>1, <1>3, LargerOfTwo DEF E2
<1>5. QED BY <1>1, <1>3, <1>4

(* A coefficient in range is a natural number of hundredths. *)
LEMMA RoundedCoefficient ==
    ASSUME NEW x \in Int
    PROVE  E2(x) \in Nat
<1>1. x # NaN
  BY StartupAssumption
<1> DEFINE q == (x + 5) \div 10
<1>2. q \in Int
  BY Quotient
<1>3. E2(x) = IF 0 >= q THEN 0 ELSE q
  BY <1>1, <1>2, LargerOfTwo DEF E2
<1>4. QED BY <1>2, <1>3

(* The spread of a cycle is at least the configured one and at most the cap   *)
(* with the widening.                                                      *)
LEMMA SpreadWithin ==
    ASSUME NEW c, NEW p, NEW vol \in Nat, NEW degraded \in BOOLEAN,
           SpreadOk(c.spread), c.chain.degraded_extra_half_spread_bps \in Nat,
           E2(p.half_spread_bps) \in Nat,
           E2(p.half_spread_bps) <= 100 * c.spread.half_spread_bps_max,
           c.spread.half_spread_bps_max + c.chain.degraded_extra_half_spread_bps <= BpsMax
    PROVE  RowExpects(c, p, vol, degraded)
<1> DEFINE s0     == E2(p.half_spread_bps)
           term   == (E2(c.spread.vol_coefficient) * vol) \div 10000
           cap    == 100 * c.spread.half_spread_bps_max
           scaled == IF s0 + 10 * term > cap THEN Max({cap, s0}) ELSE s0 + 10 * term
           extra  == IF degraded THEN 100 * c.chain.degraded_extra_half_spread_bps ELSE 0
<1>1. s0 \in Nat /\ cap \in Nat /\ s0 <= cap /\ extra \in Nat /\ cap + extra < WholePrice
  <2>1. c.spread.half_spread_bps_max \in Int /\ 1 <= c.spread.half_spread_bps_max
    BY SMT, WithinBounds DEF SpreadOk, BpsMax
  <2>2. QED BY SMT, <2>1 DEF BpsMax, WholePrice
<1>2. term \in Nat
  <2>1. E2(c.spread.vol_coefficient) * vol \in Nat
    <3>1. c.spread.vol_coefficient \in Int
      BY SMT, WithinBounds DEF SpreadOk
    <3>2. QED BY SMT, <3>1, RoundedCoefficient, ProductIsNat
  <2> HIDE DEF term
  <2>2. QED BY SMT, <2>1, Quotient DEF term
<1>3. HalfSpread(c, p, vol, degraded) = Min({scaled + extra, WholePrice})
  BY DEF HalfSpread
<1> HIDE DEF s0, term, cap, extra
<1>4. scaled \in Nat /\ s0 <= scaled /\ scaled <= cap
  BY <1>1, <1>2, LargerOfTwo
<1> HIDE DEF scaled
<1>5. WholePrice \in Int
  BY SMT DEF WholePrice
<1>6. HalfSpread(c, p, vol, degraded) = scaled + extra
  BY <1>1, <1>3, <1>4, <1>5, SmallerOfTwo
<1>7. QED BY <1>1, <1>4, <1>5, <1>6 DEF RowExpects, s0

(* Whatever the parts assert of an accepted configuration as they start.     *)
LEMMA AcceptedStarts ==
    ASSUME NEW c, WellTyped(c), ConfigOk(c)
    PROVE  LatchesExpect(c) /\ WiringExpects(c) /\ \A v \in VenuesOf(c) : VenueExpects(c, v)
<1>1. PICK i \in DOMAIN c.pairs : TRUE
  <2>1. c.pairs \in Seq(Range(c.pairs)) /\ c.pairs # <<>>
    BY DEF ConfigOk, WellTyped
  <2>2. Len(c.pairs) \in Nat /\ Len(c.pairs) # 0 /\ DOMAIN c.pairs = 1..Len(c.pairs)
    BY <2>1, EmptySeq, LenProperties
  <2>3. QED BY <2>2
<1>2. \A j \in DOMAIN c.pairs : /\ PairIdentityOk(c.pairs[j], c.feed)
                                /\ PairPricingOk(c.pairs[j])
  BY DEF ConfigOk
<1>3. LatchesExpect(c)
  <2>1. RiskOk(c.risk)
    BY DEF ConfigOk
  <2>2. /\ c.risk.bleed_window_secs > 0
        /\ Scaled(c.risk.bleed_limit, c.risk.nav_decimals) # 0
        /\ Scaled(c.risk.loss_budget, c.risk.nav_decimals) # 0
    <3>1. Within(c.risk.bleed_window_secs, 1, Day) /\ LossLimitsOk(c.risk)
      BY <2>1 DEF RiskOk
    <3>2. Day \in Int
      BY SMT DEF Day
    <3>3. QED BY <3>1, <3>2, WithinBounds DEF LossLimitsOk
  <2>3. GroupsOf(c) # {}
    BY <1>1 DEF GroupsOf
  <2>4. QED BY <2>2, <2>3 DEF LatchesExpect
<1>4. /\ {c.feed.stale_after_ms, c.feed.poll_interval_ms, c.feed.read_timeout_ms} \subseteq Nat \ {0}
      /\ BackoffOk(c.feed.reconnect_initial_ms, c.feed.reconnect_max_ms)
      /\ {c.feed.reconnect_initial_ms, c.feed.reconnect_max_ms} \subseteq Nat
  <2>1. FeedOk(c.feed)
    BY DEF ConfigOk
  <2>2. /\ Within(c.feed.stale_after_ms, 100, 600000)
        /\ c.feed.poll_interval_ms # 0 /\ c.feed.read_timeout_ms >= c.feed.stale_after_ms
        /\ BackoffOk(c.feed.reconnect_initial_ms, c.feed.reconnect_max_ms)
    BY SMT, <2>1 DEF FeedOk
  <2>3. c.feed.stale_after_ms \in Int /\ 100 <= c.feed.stale_after_ms
    BY SMT, <2>2, WithinBounds
  <2>4. {c.feed.poll_interval_ms, c.feed.read_timeout_ms,
         c.feed.reconnect_initial_ms, c.feed.reconnect_max_ms} \subseteq Nat
    BY DEF WellTyped
  <2>5. QED BY SMT, <2>2, <2>3, <2>4
<1>5. \A v \in VenuesOf(c) : VenueExpects(c, v)
  BY <1>4 DEF VenueExpects, BackoffOk
<1>6. VenuesOf(c) # {}
  <2>1. Quorum(c.feed, c.pairs[i]) # 0 /\ Quorum(c.feed, c.pairs[i]) <= Cardinality(DOMAIN c.pairs[i].venues)
    BY <1>1, <1>2 DEF PairIdentityOk
  <2>2. Quorum(c.feed, c.pairs[i]) \in Nat
    BY <1>1 DEF Quorum, WellTyped
  <2>3. DOMAIN c.pairs[i].venues # {}
    BY <2>1, <2>2, FS_EmptySet
  <2>4. QED BY <1>1, <2>3 DEF VenuesOf
<1>7. \A j \in DOMAIN c.pairs :
         /\ c.pairs[j].symbol # ""
         /\ \A v \in DOMAIN c.pairs[j].venues : c.pairs[j].venues[v] # ""
  BY <1>2 DEF PairIdentityOk
<1>8. ASSUME NEW j \in DOMAIN c.pairs
      PROVE  JumpBounds(c.pairs[j]).floor <= JumpBounds(c.pairs[j]).ceiling
  <2> DEFINE p == c.pairs[j]
             half == (p.half_spread_bps + 999) \div 1000
             floor == 100 * (IF p.jump_floor_bps = Unset THEN half ELSE p.jump_floor_bps)
             atLeast == IF floor = 0 THEN 100 ELSE floor
             absorbed == 100 * half + 50 * p.width_bps
  <2>1. p.half_spread_bps \in Int
    <3>1. Within(E2(p.half_spread_bps), 1, WholePrice)
      BY <1>2 DEF PairPricingOk
    <3>2. E2(p.half_spread_bps) # 0
      BY SMT, <3>1, WithinBounds DEF WholePrice
    <3>3. p.half_spread_bps \in Int \cup {NaN}
      BY DEF WellTyped
    <3>4. QED BY <3>2, <3>3 DEF E2
  <2>2. half \in Int
    BY <2>1, Quotient
  <2>3. p.width_bps \in Nat /\ p.jump_floor_bps \in Nat \cup {Unset}
    BY DEF WellTyped
  <2>4. JumpBounds(p) = [floor |-> atLeast, ceiling |-> IF absorbed < atLeast THEN atLeast ELSE absorbed]
    BY DEF JumpBounds
  <2> HIDE DEF p, half
  <2>5. floor \in Int /\ absorbed \in Int
    BY <2>2, <2>3
  <2> HIDE DEF floor, absorbed
  <2>6. atLeast \in Int
    BY <2>5
  <2> HIDE DEF atLeast
  <2>7. JumpBounds(p).floor <= JumpBounds(p).ceiling
    BY <2>4, <2>5, <2>6
  <2>8. QED BY <2>7 DEF p
<1>9. /\ c.skew.vol_tau_ms > 0 /\ c.skew.vol_horizon_secs > 0
      /\ c.skew.vol_min_sample_ms < c.skew.vol_max_sample_ms
  <2>1. SkewOk(c.skew)
    BY DEF ConfigOk
  <2>2. QED BY SMT, <2>1, WithinBounds DEF SkewOk, Day
<1>10. QED
  BY <1>3, <1>4, <1>5, <1>6, <1>7, <1>8, <1>9 DEF WiringExpects

(* Of an accepted configuration a cycle's assertions fail only where the     *)
(* widest spread is the whole price.                                       *)
LEMMA AcceptedQuotes ==
    ASSUME NEW c, WellTyped(c), ConfigOk(c), NEW i \in DOMAIN c.pairs, NEW vol \in Nat, NEW degraded \in BOOLEAN,
           c.spread.half_spread_bps_max + c.chain.degraded_extra_half_spread_bps <= BpsMax
    PROVE  RowExpects(c, c.pairs[i], vol, degraded)
<1> DEFINE p == c.pairs[i]
           most == c.spread.half_spread_bps_max
<1>1. SpreadOk(c.spread) /\ PairPricingOk(p) /\ p.half_spread_bps <= most * 1000
  BY DEF ConfigOk
<1>2. p.half_spread_bps \in Int \cup {NaN} /\ c.chain.degraded_extra_half_spread_bps \in Nat
  BY DEF WellTyped
<1>3. Within(most, 1, BpsMax) /\ Within(E2(p.half_spread_bps), 1, WholePrice)
  BY <1>1 DEF SpreadOk, PairPricingOk
<1> HIDE DEF p, most
<1>4. most \in Nat /\ E2(p.half_spread_bps) \in Nat /\ E2(p.half_spread_bps) # 0
  <2>1. BpsMax \in Int /\ WholePrice \in Int
    BY SMT DEF BpsMax, WholePrice
  <2>2. most \in Int /\ 1 <= most
    BY <1>3, <2>1, WithinBounds
  <2>3. E2(p.half_spread_bps) \in Int /\ 1 <= E2(p.half_spread_bps)
    BY <1>3, <2>1, WithinBounds
  <2>4. QED BY <2>2, <2>3
<1>5. E2(p.half_spread_bps) <= 100 * most
  <2>1. p.half_spread_bps <= 1000 * most
    <3>1. most * 1000 = 1000 * most
      BY SMT, <1>4
    <3>2. QED BY SMT, <1>1, <3>1
  <2>2. QED BY <1>2, <1>4, <2>1, RoundedSpread
<1>6. QED BY <1>1, <1>2, <1>4, <1>5, SpreadWithin DEF p, most

(* What a start has accepted it keeps, and it panics nowhere else. *)
StartInv ==
    /\ world \in Worlds
    /\ stage \notin {"load", "refused"} => ConfigOk(cfg)
    /\ OnlyTheWholePricePanics

LEMMA StartStep == StartInv /\ [StartNext]_startVars => StartInv'
<1> SUFFICES ASSUME StartInv, [StartNext]_startVars PROVE StartInv'
  OBVIOUS
<1> DEFINE c == ConfigOf(world)
<1>1. WellTyped(c) /\ cfg = c /\ Vols \subseteq Nat
  BY StartupAssumption DEF StartInv, cfg
<1>2. world' = world /\ cfg' = c
  <2>1. world' = world
    BY DEF StartNext, startVars, Load, Verify, LoadKey, LoadLatches, Wire, WaitForFeed, WaitForFirstHead,
           StartHedge, QuoteCycle
  <2>2. QED BY <2>1 DEF cfg
<1> HIDE DEF c
<1>3. CASE UNCHANGED <<stage, dead>>
  BY <1>1, <1>2, <1>3 DEF StartInv, OnlyTheWholePricePanics
<1>4. CASE dead' = dead /\ stage \notin {"load", "refused", "panicked"} /\ stage' # "panicked"
  BY <1>1, <1>2, <1>4 DEF StartInv, OnlyTheWholePricePanics
<1>5. CASE Load
  BY <1>1, <1>2, <1>5 DEF StartInv, OnlyTheWholePricePanics, Load
<1>6. CASE LoadLatches
  <2>1. LatchesExpect(c)
    BY <1>1, <1>6, AcceptedStarts DEF StartInv, LoadLatches
  <2>2. dead' = dead /\ stage = "latches" /\ stage' # "panicked"
    BY <1>1, <1>6, <2>1 DEF LoadLatches
  <2>3. QED BY <1>4, <2>2
<1>7. CASE Wire
  <2>1. WiringExpects(c) /\ \A v \in VenuesOf(c) : VenueExpects(c, v)
    BY <1>1, <1>7, AcceptedStarts DEF StartInv, Wire
  <2>2. dead' = {} /\ stage = "wiring" /\ stage' # "panicked"
    BY <1>1, <1>7, <2>1 DEF Wire
  <2>3. QED BY <1>4, <2>2 DEF StartInv, OnlyTheWholePricePanics
<1>8. CASE QuoteCycle
  <2>1. PICK vol \in Vols, degraded \in BOOLEAN :
           stage' = IF \A i \in DOMAIN c.pairs : RowExpects(c, c.pairs[i], vol, degraded)
                    THEN "running" ELSE "panicked"
    BY <1>1, <1>8 DEF QuoteCycle
  <2>2. dead' = dead /\ stage = "running" /\ ConfigOk(c)
    BY <1>1, <1>8 DEF QuoteCycle, StartInv
  <2>3. CASE c.spread.half_spread_bps_max + c.chain.degraded_extra_half_spread_bps > BpsMax
    BY <1>1, <1>2, <2>2, <2>3 DEF StartInv, OnlyTheWholePricePanics
  <2>4. CASE c.spread.half_spread_bps_max + c.chain.degraded_extra_half_spread_bps <= BpsMax
    <3>1. stage' = "running"
      BY <1>1, <2>1, <2>2, <2>4, AcceptedQuotes
    <3>2. QED BY <1>4, <2>2, <3>1
  <2>5. c.spread.half_spread_bps_max + c.chain.degraded_extra_half_spread_bps \in Int /\ BpsMax \in Int
    <3>1. Within(c.spread.half_spread_bps_max, 1, BpsMax)
      BY <2>2 DEF ConfigOk, SpreadOk
    <3>2. c.chain.degraded_extra_half_spread_bps \in Nat
      BY <1>1 DEF WellTyped
    <3>3. BpsMax \in Int
      BY SMT DEF BpsMax
    <3>4. QED BY <3>1, <3>2, <3>3, WithinBounds
  <2>6. QED BY <2>3, <2>4, <2>5
<1>9. QED
  BY <1>3, <1>4, <1>5, <1>6, <1>7, <1>8
  DEF StartNext, startVars, Verify, LoadKey, WaitForFeed, WaitForFirstHead, StartHedge

(* A configuration that is accepted panics no task and no part of the        *)
(* process, whatever file, chain, keys and latches the start finds, but for   *)
(* a cap and a widening that come to the whole price (config.rs 463-525,     *)
(* main.rs 551-1021, 2535-2562).                                           *)
THEOREM AcceptedHardlyPanics == StartSpec => []OnlyTheWholePricePanics
<1>1. StartInit => StartInv
  BY DEF StartInit, StartInv, OnlyTheWholePricePanics
<1>2. StartInv => OnlyTheWholePricePanics
  BY DEF StartInv
<1>3. QED BY <1>1, <1>2, StartStep, PTL DEF StartSpec

=============================================================================
