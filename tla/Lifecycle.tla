------------------------------ MODULE Lifecycle ------------------------------
(***************************************************************************)
(* One dubu-updater process after another on the same latch files: start,  *)
(* stay down or resume, quote and mark, halt on a verdict or on a chain    *)
(* that stopped, withdraw, exit (main.rs run, quote_loop, run_cycle;       *)
(* chain/mod.rs ChainHealth; chain/view.rs run).  What a mark measures is  *)
(* any (trade result, drawdown) here; RiskMarks computes it.  What was     *)
(* broadcast lands later, in any order, or never, and outlives its process.*)
(***************************************************************************)
EXTENDS KillSwitch, FiniteSets, FiniteSetsExt

CONSTANTS
  Groups,        \* correlation groups, a latch file each
  PairsOf,       \* PairsOf[g]: the pairs configured in group g
  Pnls,          \* what the fills between two marks can come to
  HaltAfter,     \* chain.halt_after_secs, in ticks
  StaleAfter,    \* the pool's maxStaleSecs, in ticks
  FlightMax,     \* bound: batches of a pair on their way, of every process together
  Fed,           \* pairs whose venues agree on a price
  MaxTroubles    \* bound: failed writes, crashes, signals, clears and outages together

Pairs == UNION {PairsOf[g] : g \in Groups}

ASSUME LifecycleAssumption ==
  /\ Groups # {} /\ IsFiniteSet(Groups)
  /\ Pnls \subseteq Int
  /\ HaltAfter \in Nat \ {0} /\ StaleAfter \in Nat \ {0}
  /\ FlightMax \in Nat /\ Fed \subseteq Pairs
  /\ MaxTroubles \in Nat

VARIABLES
  answers,       \* which of "read", "write" (the pools) and "chain" (it seals) work
  life,          \* life[p]: ticks for which the pool still fills p if nobody sends; 0: dark
  arming,        \* arming[p]: rows and epochs of p broadcast and not landed
  closing,       \* pairs with a withdrawal broadcast and not landed
  file,          \* the latch files
  phase,         \* where the process is
  mem,           \* its latches
  todo,          \* groups or pairs the current phase has still to treat
  readAge, blockAge, \* ChainHealth: ticks since a read landed, since the block number grew
  sealed,        \* a block was sealed since the last read
  polled,        \* the reader polled in this tick
  viewed,        \* it has published a view
  troubles       \* bound counter

health == <<readAge, blockAge, sealed, polled, viewed>>
flights == <<arming, closing>>
pool == <<life, flights>>
process == <<phase, mem, todo>>
vars == <<answers, pool, file, process, health, troubles>>

Phases == {"down", "loaded", "probing", "resuming", "running", "marking", "halting", "withdrawing"}
\* The reader's task exists from the first cycle to the exit.
InLoop == phase \in {"running", "marking", "halting", "withdrawing"}

----------------------------------------------------------------------------
(* Faulty: the pairs stop with the whole book. *)
HaltedWithTheBook == IF \A g \in Groups : mem[g].halted THEN Pairs ELSE {}

HaltedPairs == UNION {PairsOf[g] : g \in {h \in Groups : mem[h].halted}}
AllHalted == \A g \in Groups : mem[g].halted
LatchedGroups == {g \in Groups : mem[g].halted}
LivenessGroups == {g \in Groups : IsLivenessOnly(mem[g])}

(* Faulty: the signal that answered last decides. *)
QuietForNewer == Min({readAge, blockAge})

\* The older of the two signals.
QuietFor == Max({readAge, blockAge})
Down == QuietFor >= HaltAfter

\* A write of g's file either replaces all of it or leaves what it held.
Written(g, s) == file' = [file EXCEPT ![g] = s] /\ UNCHANGED troubles
Trouble == troubles < MaxTroubles /\ troubles' = troubles + 1
Unwritten == Trouble /\ UNCHANGED file

----------------------------------------------------------------------------
Init ==
  /\ answers = {"read", "write", "chain"}
  /\ life = [p \in Pairs |-> 0] /\ arming = [p \in Pairs |-> 0] /\ closing = {}
  /\ file = [g \in Groups |-> FreshLatch]
  /\ phase = "down" /\ mem = file /\ todo = {}
  /\ readAge = 0 /\ blockAge = 0 /\ sealed = FALSE /\ polled = FALSE /\ viewed = FALSE
  /\ troubles = 0

\* run up to load_kills: verify_against_chain needs the write pool.
Start ==
  /\ phase = "down" /\ "write" \in answers
  /\ phase' = "loaded" /\ mem' = file
  /\ UNCHANGED <<answers, pool, file, todo, health, troubles>>

\* Every group still latched: withdraw and exit; otherwise into the loop, with a
\* new ChainHealth, to which the first block number it hears is progress.
EnterLoop ==
  /\ IF AllHalted THEN phase' = "withdrawing" /\ todo' = Pairs /\ polled' = TRUE
                  ELSE phase' = "running" /\ todo' = {} /\ polled' = FALSE
  /\ readAge' = 0 /\ blockAge' = 0 /\ sealed' = TRUE /\ viewed' = FALSE

(* Faulty: only part of a book heals. *)
MayHealPart == LivenessGroups # {} /\ LivenessGroups = LatchedGroups /\ ~AllHalted

MayHeal == LivenessGroups # {} /\ LivenessGroups = LatchedGroups

StayDownOrProbe ==
  /\ phase = "loaded"
  /\ IF MayHeal THEN phase' = "probing" /\ UNCHANGED <<todo, health>> ELSE EnterLoop
  /\ UNCHANGED <<answers, pool, file, mem, troubles>>

\* chain_is_answering: two heads from both pools, the second not below the
\* first; a chain that stopped answers the same number twice.
Probe ==
  /\ phase = "probing"
  /\ IF {"read", "write"} \subseteq answers
     THEN phase' = "resuming" /\ todo' = LivenessGroups /\ UNCHANGED health
     ELSE EnterLoop
  /\ UNCHANGED <<answers, pool, file, mem, troubles>>

\* One latch cleared; a clear that cannot be written ends the process.
Resume(g) ==
  /\ phase = "resuming" /\ g \in todo
  /\ mem' = [mem EXCEPT ![g] = Resumed(@)]
  /\ \/ Written(g, mem'[g]) /\ todo' = todo \ {g} /\ UNCHANGED phase
     \/ Unwritten /\ todo' = {} /\ phase' = "down"
  /\ UNCHANGED <<answers, pool, health>>

Resumption ==
  /\ phase = "resuming" /\ todo = {}
  /\ EnterLoop
  /\ UNCHANGED <<answers, pool, file, mem, troubles>>

\* view::run: a read that lands is published and heard by ChainHealth; only a
\* block number above the best one is progress.
Poll ==
  /\ InLoop /\ ~polled
  /\ polled' = TRUE
  /\ IF "read" \in answers
     THEN /\ readAge' = 0 /\ viewed' = TRUE /\ sealed' = FALSE
          /\ blockAge' = IF sealed THEN 0 ELSE blockAge
     ELSE UNCHANGED <<readAge, blockAge, sealed, viewed>>
  /\ UNCHANGED <<answers, pool, file, process, troubles>>

(* Faulty: a latched group is quoted like the others. *)
QuotesLatchedToo == Fed

\* run_cycle skips a latched group's pairs but for the withdrawal.
Quotable == Fed \ HaltedPairs

\* A broadcast needs the write pool alone.  A row, an epoch or both of a pair
\* count as one.
Broadcasts(quoted, withdrawn) ==
  /\ "write" \in answers \/ quoted \cup withdrawn = {}
  /\ \A p \in quoted : arming[p] < FlightMax
  /\ arming' = [p \in Pairs |-> IF p \in quoted THEN arming[p] + 1 ELSE arming[p]]
  /\ closing' = closing \cup {p \in withdrawn : life[p] > 0 \/ arming[p] > 0}
  /\ UNCHANGED life

\* The top of quote_loop: a chain that is down halts every group, otherwise run_cycle sends.
Cycle ==
  /\ phase = "running"
  /\ IF Down
     THEN phase' = "halting" /\ todo' = Groups /\ UNCHANGED pool
     ELSE /\ viewed /\ phase' = "marking" /\ todo' = {g \in Groups : ~mem[g].halted}
          /\ \E quoted \in SUBSET Quotable, withdrawn \in SUBSET HaltedPairs :
               Broadcasts(quoted, withdrawn)
  /\ UNCHANGED <<answers, file, mem, health, troubles>>

\* The sequencer executes something of p, or drops it.
Land(p) ==
  /\ "chain" \in answers
  /\ \/ /\ arming[p] > 0 /\ arming' = [arming EXCEPT ![p] = @ - 1]
        /\ life' \in {life, [life EXCEPT ![p] = StaleAfter]}
        /\ UNCHANGED closing
     \/ /\ p \in closing /\ closing' = closing \ {p}
        /\ life' \in {life, [life EXCEPT ![p] = 0]}
        /\ UNCHANGED arming
  /\ UNCHANGED <<answers, file, process, health, troubles>>

\* The end of run_cycle: a group without every price is skipped; an error of observe is logged.
Mark(g) ==
  /\ phase = "marking" /\ g \in todo
  /\ todo' = todo \ {g}
  /\ \/ UNCHANGED <<file, mem, troubles>>
     \/ \E pnl \in Pnls, drawdown \in {0, BleedLimit} :
          /\ mem' = [mem EXCEPT ![g] = Observed(@, FALSE, pnl, drawdown)]
          /\ Written(g, mem'[g]) \/ Unwritten
  /\ UNCHANGED <<answers, pool, phase, health>>

CycleEnds ==
  /\ phase = "marking" /\ todo = {}
  /\ IF AllHalted THEN phase' = "withdrawing" /\ todo' = Pairs
                  ELSE phase' = "running" /\ UNCHANGED todo
  /\ UNCHANGED <<answers, pool, file, mem, health, troubles>>

\* One group of the chain-down halt; a write that fails is ignored.
Halt(g) ==
  /\ phase = "halting" /\ g \in todo
  /\ mem' = [mem EXCEPT ![g] = Halted(@, "liveness")]
  /\ todo' = todo \ {g}
  /\ IF mem[g].halted THEN UNCHANGED <<file, troubles>> ELSE Written(g, mem'[g]) \/ Unwritten
  /\ UNCHANGED <<answers, pool, phase, health>>

HaltEnds ==
  /\ phase = "halting" /\ todo = {}
  /\ phase' = "withdrawing" /\ todo' = Pairs
  /\ UNCHANGED <<answers, pool, file, mem, health, troubles>>

\* SIGTERM reaches the loop between two cycles.
Signal ==
  /\ phase = "running"
  /\ Trouble
  /\ phase' = "withdrawing" /\ todo' = Pairs
  /\ UNCHANGED <<answers, pool, file, mem, health>>

\* withdraw_quotes: each pair once, best effort; nobody waits for it to land.
Withdraw(p) ==
  /\ phase = "withdrawing" /\ p \in todo
  /\ todo' = todo \ {p}
  /\ Broadcasts({}, {p}) \/ UNCHANGED pool
  /\ UNCHANGED <<answers, file, phase, mem, health, troubles>>

Exit ==
  /\ phase = "withdrawing" /\ todo = {}
  /\ phase' = "down"
  /\ UNCHANGED <<answers, pool, file, mem, todo, health, troubles>>

Crash ==
  /\ phase # "down"
  /\ Trouble
  /\ phase' = "down" /\ todo' = {}
  /\ UNCHANGED <<answers, pool, file, mem, health>>

\* The operator removes a latch file.
Clear(g) ==
  /\ phase = "down" /\ file[g].halted
  /\ Trouble
  /\ file' = [file EXCEPT ![g] = FreshLatch]
  /\ UNCHANGED <<answers, pool, process, health>>

Fail(s) ==
  /\ s \in answers
  /\ answers' = answers \ {s} /\ Trouble
  /\ UNCHANGED <<pool, file, process, health>>

Recover(s) ==
  /\ s \notin answers
  /\ answers' = answers \cup {s}
  /\ UNCHANGED <<pool, file, process, health, troubles>>

\* Time passes; the reader polls several times a tick.
Tick ==
  /\ InLoop => polled
  /\ polled' = FALSE
  /\ sealed' = (sealed \/ "chain" \in answers)
  /\ readAge' = Min({readAge + 1, HaltAfter}) /\ blockAge' = Min({blockAge + 1, HaltAfter})
  /\ life' = [p \in Pairs |-> Max({life[p] - 1, 0})]
  /\ UNCHANGED <<answers, flights, file, process, viewed, troubles>>

ProcessStep ==
  \/ StayDownOrProbe \/ Probe \/ (\E g \in Groups : Resume(g)) \/ Resumption
  \/ Cycle \/ (\E g \in Groups : Mark(g) \/ Halt(g)) \/ CycleEnds \/ HaltEnds
  \/ (\E p \in Pairs : Withdraw(p)) \/ Exit

Next ==
  \/ Start \/ ProcessStep \/ Poll \/ Tick \/ (\E p \in Pairs : Land(p))
  \/ Signal \/ Crash \/ (\E g \in Groups : Clear(g))
  \/ (\E s \in {"read", "write", "chain"} : Fail(s) \/ Recover(s))

\* The supervisor starts the process again; the loop, the reader and time go on.
Fairness ==
  /\ WF_vars(Start) /\ WF_vars(ProcessStep) /\ WF_vars(Poll) /\ WF_vars(Tick)
  /\ \A p \in Pairs : WF_vars(Land(p))

Spec == Init /\ [][Next]_vars /\ Fairness

----------------------------------------------------------------------------
\* The values each variable ranges over; health counters saturate at the limit.
LifecycleTypeOK ==
  /\ answers \subseteq {"read", "write", "chain"}
  /\ life \in [Pairs -> 0..StaleAfter]
  /\ arming \in [Pairs -> 0..FlightMax] /\ closing \subseteq Pairs
  /\ file \in [Groups -> Latches] /\ mem \in [Groups -> Latches]
  /\ phase \in Phases /\ todo \subseteq Groups \cup Pairs
  /\ sealed \in BOOLEAN /\ polled \in BOOLEAN /\ viewed \in BOOLEAN
  /\ readAge \in 0..HaltAfter /\ blockAge \in 0..HaltAfter
  /\ troubles \in 0..MaxTroubles

Latched(g) == file[g].halted
\* Latched by what the book lost: only an operator may clear it.
ByVerdict(g) == file[g].cause \in {"bleed", "budget"}
Live(g) == {p \in PairsOf[g] : life[p] > 0}

\* Nothing that quotes is broadcast for a group latched on disk, in this process
\* or any later one; what was on its way when it latched is all that can still
\* extend its pools' lives (main.rs 2293-2315, 777-797, 2919-2998).
LatchedIsNotQuoted ==
  [][\A g \in Groups : Latched(g) =>
       \A p \in PairsOf[g] :
         /\ arming'[p] <= arming[p]
         /\ life'[p] > life[p] => arming'[p] < arming[p]]_vars

\* The loss on disk falls only while no process runs, by the operator's hand:
\* not in a resume, a halt, a crash or a failed write (risk.rs 363-381, 510-528).
BudgetNeverRefunded ==
  [][\A g \in Groups : file'[g].loss < file[g].loss => phase = "down"]_vars

\* Whatever reached the disk, the total and its verdict reached it together: no
\* crash leaves a spent budget unlatched (risk.rs 416-494, 551-572).
SpentBudgetStaysDown ==
  \A g \in Groups : file[g].loss >= LossBudget => Latched(g) \/ Shadow

\* A group that stays latched on disk goes dark for good, though withdrawals fail,
\* processes crash and what was sent before lands late: the pool's own staleness
\* ends what nobody withdraws (main.rs 3121-3148).
LatchedGoesDark ==
  \A g \in Groups : Latched(g) ~> (~Latched(g) \/ [](Live(g) = {}))

Stalled == ~({"read", "chain"} \subseteq answers)

\* A chain that stays unread or unsealed brings the process down, whichever of
\* the two signals it is that stopped (chain/mod.rs 788-858, main.rs 1189-1240).
StallIsNoticed == Stalled ~> (~Stalled \/ phase = "down")

\* Once the outages are over for good the book quotes again by itself, unless a
\* verdict latched a group (main.rs 723-775).
OutageHeals ==
  <>[](answers = {"read", "write", "chain"})
    => <>[](phase \in {"running", "marking"} \/ \E g \in Groups : ByVerdict(g))
=============================================================================
