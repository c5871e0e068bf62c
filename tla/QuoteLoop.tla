------------------------------ MODULE QuoteLoop ------------------------------
(***************************************************************************)
(* One pair's quote cycle: the jump detector, the two decisions of the     *)
(* policy, the arbitration between ladder row and capacity epoch, the      *)
(* withdrawals and the RFQ market that follows them (dubu-updater main.rs  *)
(* run_cycle, jump_scan, withdraw_pair; policy.rs; jump.rs), against a     *)
(* pool that executes intents in nonce order and a reader that shows it    *)
(* late.  The pair's group may latch after any cycle while another group   *)
(* keeps the process running, and the process may end between two cycles.  *)
(* A price is how far the reference has gone since: 0 is the reference     *)
(* itself, one step is drift, JumpSteps a jump.                            *)
(* Chain, reader and pool pause, which gate the whole book, stay open here.*)
(***************************************************************************)
EXTENDS Integers, Sequences, SequencesExt, FiniteSetsExt

CONSTANTS
  NoAnchor,      \* the detector has observed nothing yet
  JumpSteps,     \* jump threshold, in steps of the reference
  InFlightMax,   \* tx.in_flight_max
  MaxRefused     \* bound: sends the upstream refuses

Prices == 0..JumpSteps   \* the last stands for anything further behind
Depths == {"zero", "low", "full"}
Kinds == {"zero", "row", "epoch", "hole"}

\* A nonce: what it does, the price it was planned at, the ladder it counts on.
Intent(kind, at, behind) == [kind |-> kind, at |-> at, behind |-> behind]
Hole == Intent("hole", 0, 0)
Zero == Intent("zero", 0, 0)

ASSUME QuoteLoopAssumption ==
  /\ JumpSteps \in Nat \ {0} /\ NoAnchor \notin Prices
  /\ InFlightMax \in Nat \ {0} /\ MaxRefused \in Nat

VARIABLES
  fair,          \* the venues agree on a reference
  anchor,        \* the detector's last observation
  withdrawn,     \* the detector's state
  cooled,        \* the cool-off since its last trip is over
  row, depth,    \* the pool: stored ladder, capacity epoch
  view,          \* what the reader last published of both
  queue,         \* the account's nonces from the next one to execute on
  done,          \* executed intents the sender has not heard of: how many, a withdrawal among them
  rfq,           \* the pair's market is published to the RFQ endpoint
  halted,        \* the killswitch of the pair's group
  scanned,       \* jump_scan has run in the cycle under way
  owed,          \* and this pair's withdrawal waits for another pair's
  ended,         \* "no", or how the process's last withdrawal went out
  refused        \* bound counter

detector == <<anchor, withdrawn, cooled>>
pool == <<row, depth>>
sender == <<queue, done, refused>>
loop == <<halted, scanned, owed, ended>>
vars == <<fair, detector, pool, view, sender, rfq, loop>>

----------------------------------------------------------------------------
Settled == [many |-> 0, withdrawal |-> FALSE]
InFlight == Cardinality({n \in DOMAIN queue : queue[n] # Hole}) + done.many
AtCapacity == InFlight >= InFlightMax
WithdrawalInFlight == Contains(queue, Zero) \/ done.withdrawal

\* Nonces::reserve: the lowest hole first, then the end of the sequence.
Placed(q, i) ==
  LET holes == {n \in DOMAIN q : q[n] = Hole}
  IN IF holes = {} THEN Append(q, i) ELSE [q EXCEPT ![Min(holes)] = i]

\* Nonces::release: a refused nonce is a hole, unless it was the last one.
Released(q, n) == IF n = Len(q) THEN Front(q) ELSE [q EXCEPT ![n] = Hole]

\* The nonces of q that this send has filled.
Filled(q) == {n \in DOMAIN q : n \notin DOMAIN queue \/ queue[n] # q[n]}

\* A cycle sends two intents at most.
WithPlaced(intents) ==
  CASE Len(intents) = 0 -> queue
    [] Len(intents) = 1 -> Placed(queue, intents[1])
    [] Len(intents) = 2 -> Placed(Placed(queue, intents[1]), intents[2])

\* A send of the intents, in this order: all of them accepted, or one refused.
Transmit(intents) ==
  LET all == WithPlaced(intents)
  IN \/ queue' = all /\ UNCHANGED refused
     \/ /\ refused < MaxRefused /\ refused' = refused + 1
        /\ \E n \in Filled(all) : queue' = Released(all, n)

----------------------------------------------------------------------------
Init ==
  /\ fair = TRUE /\ anchor = NoAnchor /\ withdrawn = FALSE /\ cooled = TRUE
  /\ row \in Prices /\ depth \in Depths
  /\ view = [row |-> row, depth |-> depth]
  /\ queue = <<>> /\ done = Settled /\ refused = 0
  /\ rfq = FALSE /\ halted = FALSE /\ scanned = FALSE /\ owed = FALSE /\ ended = "no"

\* A trip owes the pair a withdrawal, on its edge.
Trip ==
  /\ withdrawn' = TRUE /\ cooled' = FALSE
  /\ owed' = ~withdrawn

\* Detector::observe on a reference; the market decides whether it has settled.
Observe ==
  /\ fair
  /\ anchor' = 0
  /\ IF anchor = JumpSteps THEN Trip
     ELSE /\ withdrawn' \in IF anchor # NoAnchor /\ cooled THEN {withdrawn, FALSE} ELSE {withdrawn}
          /\ UNCHANGED <<cooled, owed>>

\* Another pair of the group jumped in the same scan.
Contagion == Trip /\ anchor' = IF fair THEN 0 ELSE anchor

Running == ended = "no"

\* The top of a cycle: settle what landed, then the loop of jump_scan over the pairs.
Scan ==
  /\ Running /\ ~scanned
  /\ scanned' = TRUE /\ done' = Settled
  /\ Observe \/ Contagion \/ (~fair /\ UNCHANGED <<detector, owed>>)
  /\ UNCHANGED <<fair, pool, view, queue, refused, rfq, halted, ended>>

\* withdraw_pair, once the withdrawals owed before this one were awaited: the RFQ
\* market first, then a zero epoch.
WithdrawPair ==
  /\ owed /\ owed' = FALSE
  /\ rfq' = FALSE
  /\ Transmit(<<Zero>>)
  /\ UNCHANGED <<fair, detector, pool, view, done, halted, scanned, ended>>

DarkInView == view.depth = "zero"

\* Context::gates, as far as this pair alone can shut them.
GatesOpen == fair /\ ~AtCapacity

\* drift: the row stored is not the one this reference asks for.
Drifted == view.row # 0

\* evaluate_quote: a stale ladder, or a heartbeat, which may repeat the same one.
WantsQuote(heartbeat) == GatesOpen /\ (Drifted \/ heartbeat)

\* evaluate_capacity: an epoch that is missing or used up, never in a cool-off.
WantsCapacity == GatesOpen /\ ~withdrawn /\ view.depth # "full"

Row == Intent("row", 0, 0)
EpochBehind(ladder) == Intent("epoch", 0, ladder)

(* Faulty: the epoch first whenever both are wanted. *)
BatchCapacityFirst(heartbeat) ==
  IF WantsCapacity THEN <<EpochBehind(view.row)>>
  ELSE IF WantsQuote(heartbeat) THEN <<Row>> ELSE <<>>

(* Faulty: one intent a cycle, the row first while dark. *)
BatchRowOnly(heartbeat) ==
  IF WantsQuote(heartbeat) /\ (DarkInView \/ ~WantsCapacity) THEN <<Row>>
  ELSE IF WantsCapacity THEN <<EpochBehind(view.row)>> ELSE <<>>

\* The arbitration: a dark pool gets its row and then its epoch, any other
\* pool one intent, the epoch before the row.
Batch(heartbeat) ==
  LET quotes == WantsQuote(heartbeat) /\ (DarkInView \/ ~WantsCapacity)
      arms == WantsCapacity /\ (DarkInView \/ ~quotes)
      ladder == IF quotes THEN 0 ELSE view.row
  IN (IF quotes THEN <<Row>> ELSE <<>>) \o (IF arms THEN <<EpochBehind(ladder)>> ELSE <<>>)

(* Faulty: a withdrawal is sent once. *)
ReassertNever == FALSE

\* A withdrawal the chain does not show is sent again.
Reassert ==
  /\ ~DarkInView /\ ~WithdrawalInFlight
  /\ halted \/ (withdrawn /\ ~AtCapacity)

(* Faulty: any reference publishes the market. *)
PublishesRegardless == fair

Publishes == fair /\ ~withdrawn

\* The pair's turn and the sends at the end of the cycle, whose marks may then
\* latch the group. A latched pair is skipped but for its withdrawal.
Evaluate ==
  /\ scanned /\ ~owed
  /\ scanned' = FALSE
  /\ rfq' = ((IF halted THEN rfq ELSE Publishes) /\ ~Reassert)
  /\ \E heartbeat \in BOOLEAN :
       Transmit((IF Reassert THEN <<Zero>> ELSE <<>>)
                \o (IF halted THEN <<>> ELSE Batch(heartbeat)))
  /\ halted' \in {halted, TRUE}
  /\ UNCHANGED <<fair, detector, pool, view, done, owed, ended>>

\* A nonce below one of the pair's own epochs is free.
HoleBelowAnEpoch ==
  \E m, n \in DOMAIN queue : m < n /\ queue[m] = Hole /\ queue[n].kind = "epoch"

(* Faulty: a pool the view shows dark is passed over. *)
PartingIfLit == IF DarkInView THEN <<>> ELSE <<Zero>>

\* withdraw_quotes: a zero epoch for every pair.
Parting == <<Zero>>

\* A signal, or a book that is halted as a whole: the withdrawals are sent once and
\* no receipt is awaited; what the process knew goes with it.
End ==
  /\ Running /\ ~scanned
  /\ Transmit(Parting)
  /\ ended' = IF refused' # refused THEN "refused"
              ELSE IF HoleBelowAnEpoch THEN "below" ELSE "last"
  /\ anchor' = NoAnchor /\ withdrawn' = FALSE /\ cooled' = TRUE /\ done' = Settled
  /\ view' = [row |-> 0, depth |-> "zero"] /\ rfq' = FALSE /\ halted' = FALSE
  /\ UNCHANGED <<fair, pool, scanned, owed>>

\* The pool executes the next nonce, unless it is a hole.
Execute ==
  /\ queue # <<>>
  /\ LET i == Head(queue)
     IN /\ i # Hole
        /\ row' = IF i.kind = "row" THEN i.at ELSE row
        /\ depth' = CASE i.kind = "zero" -> "zero" [] i.kind = "epoch" -> "full"
                      [] OTHER -> depth
        /\ done' = IF Running THEN [many |-> done.many + 1, withdrawal |-> done.withdrawal \/ i = Zero]
                    ELSE done
  /\ queue' = Tail(queue)
  /\ UNCHANGED <<fair, detector, view, refused, rfq, loop>>

Read ==
  /\ Running
  /\ view' = [row |-> row, depth |-> depth]
  /\ UNCHANGED <<fair, detector, pool, sender, rfq, loop>>

\* A taker uses the epoch up.
Take ==
  /\ Running /\ depth = "full"
  /\ depth' = "low"
  /\ UNCHANGED <<fair, detector, row, view, sender, rfq, loop>>

Behind(p) == Min({p + 1, JumpSteps})

\* What a price move leaves of an intent.
Later(i) ==
  CASE i.kind = "row" -> [i EXCEPT !.at = Behind(@)]
    [] i.kind = "epoch" -> [i EXCEPT !.at = Behind(@), !.behind = Behind(@)]
    [] OTHER -> i

\* The reference moves on a step, and leaves every price that was planned before
\* behind; a jump is several steps that no scan comes between.
Move ==
  /\ Running /\ fair
  /\ anchor' = IF anchor = NoAnchor THEN anchor ELSE Behind(anchor)
  /\ row' = Behind(row)
  /\ view' = [view EXCEPT !.row = Behind(@)]
  /\ queue' = [n \in DOMAIN queue |-> Later(queue[n])]
  /\ UNCHANGED <<fair, withdrawn, cooled, depth, done, refused, rfq, loop>>

\* The venues stop agreeing, or agree again; an observation that has grown older
\* than sample_max meanwhile is a jump whatever the price.
Lose == fair /\ fair' = FALSE /\ UNCHANGED anchor
Regain ==
  /\ ~fair /\ fair' = TRUE
  /\ anchor' \in IF anchor = NoAnchor THEN {anchor} ELSE {anchor, JumpSteps}
Venues ==
  /\ Running
  /\ Lose \/ Regain
  /\ UNCHANGED <<withdrawn, cooled, pool, view, sender, rfq, loop>>

\* A cool-off outlasts the sending and the landing of its withdrawal and a read of
\* what it left (jump.cooloff_secs is 30, chain.view_stale_secs 3).
CoolOff ==
  /\ Running /\ ~owed /\ ~cooled /\ DarkInView /\ depth = "zero"
  /\ \A n \in DOMAIN queue : queue[n].kind \notin {"zero", "epoch"}
  /\ cooled' = TRUE
  /\ UNCHANGED <<fair, anchor, withdrawn, pool, view, sender, rfq, loop>>

\* The steps of a cycle follow one another.
Cycle == Scan \/ WithdrawPair \/ Evaluate

Next ==
  Cycle \/ End \/ Execute \/ Read \/ Take \/ Move \/ Venues \/ CoolOff

\* The loop, the chain, the reader and time go on; takers and the market need not.
Fairness ==
  WF_vars(Cycle) /\ WF_vars(Execute) /\ WF_vars(Read) /\ WF_vars(CoolOff)

Spec == Init /\ [][Next]_vars /\ Fairness

----------------------------------------------------------------------------
Dark == depth = "zero"

\* Refused sends and late views notwithstanding, a withdrawn pair goes dark or
\* resumes first, and a latched one goes dark for good (main.rs 2293-2351).
WithdrawnGoesDark ==
  /\ withdrawn ~> (Dark \/ ~withdrawn)
  /\ halted ~> [](halted => Dark)

\* A pair that may quote is not left dark, however the reference keeps moving:
\* the row does not win the arbitration for ever (main.rs 2779-2784).
DarkPoolComesBack ==
  <>[](Running /\ fair /\ ~withdrawn /\ ~halted) => []<>~Dark

\* From the pair's withdrawal to its resume no order is signed for it, whatever the
\* cycles in between publish. From the trip it is not: while the scan awaits the
\* withdrawals it owes before this one, the market stays (main.rs 1393-1435, 2475-2518).
RfqSilentWhileWithdrawn == withdrawn /\ ~owed => ~rfq

\* The withdrawal a process ends with takes effect and stays, though nobody waits
\* for it: when nothing the account has sent can execute any more the pool is dark,
\* unless that withdrawal was refused or took a nonce below an epoch of its own
\* process that was still to execute (main.rs 3121-3148, tx.rs 451-458).
EndsDark == ended = "last" /\ (queue = <<>> \/ Head(queue) = Hole) => Dark

\* An epoch executes on a dark pool.
Arms == queue # <<>> /\ Dark /\ ~Dark' /\ Head(queue).kind = "epoch"

\* An epoch that lands behind the ladder it was sent for was never planned a jump
\* away from that ladder: no withdrawal is undone at the price that caused it,
\* nor any start behind an old ladder (main.rs 2778-2784).
EpochBehindItsLadder ==
  [][Arms /\ row = Head(queue).behind => row - Head(queue).at < JumpSteps]_vars
=============================================================================
