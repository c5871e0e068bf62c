------------------------------ MODULE RiskMarks ------------------------------
(***************************************************************************)
(* What the killswitches measure: every cycle each correlation group's     *)
(* share of the pool is marked at the cycle's reference prices, and the    *)
(* change since its last mark is split into what the prices did and what   *)
(* the fills did (risk.rs observe, called at the end of run_cycle in       *)
(* main.rs). The balances come from the view the reader published last,    *)
(* the prices from the venues now; fills go on meanwhile.                  *)
(***************************************************************************)
EXTENDS KillSwitch, FiniteSets, FiniteSetsExt

CONSTANTS
  Groups,         \* jump_group names
  PairsOf,        \* PairsOf[g]: the pairs configured in group g
  Fairs,          \* reference prices the venues can agree on
  NoFair,         \* the venues do not agree: no reference
  NoView,         \* nothing read since the process started
  Scale,          \* 10^price_scale_exp: what one unit of price divides by
  InitQuote, InitBase, InitFair,
  Costs,          \* what a taker pays or is paid for one unit of base
  BleedWindow,    \* risk.bleed_window_secs, in ticks
  MaxFills,       \* bound: fills
  MaxRestarts     \* bound: restarts of the process

Pairs == UNION {PairsOf[g] : g \in Groups}

ASSUME MarksAssumption ==
  /\ IsFiniteSet(Pairs) /\ Pairs # {}
  /\ \A g, h \in Groups : g # h => PairsOf[g] \cap PairsOf[h] = {}
  /\ Fairs \subseteq Nat \ {0} /\ InitFair \in Fairs /\ NoFair \notin Fairs
  /\ Scale \in Nat \ {0} /\ Costs \subseteq Nat
  /\ InitQuote \in Nat /\ InitBase \in Nat /\ BleedWindow \in Nat

VARIABLES
  quote, base,    \* the pool's balances: one quote token, one base per pair
  fair,           \* the reference each pair's venues agree on, or NoFair
  up,             \* a process is running
  view,           \* the balances the reader last published, or NoView
  mem,            \* each group's latch
  prev,           \* each group's last mark, or NoView before the first
  window,         \* window[g][a]: the highest NAV marked a ticks ago, 0 if none
  fills, restarts, \* bound counters
  live, still     \* history: pairs filled while a process ran; no price moved

world == <<quote, base, fair, fills>>
switch == <<mem, prev, window>>
vars == <<world, up, view, switch, restarts, live, still>>

----------------------------------------------------------------------------
\* risk::value: a flat ladder at the fair, rounded down.
Value(b, f) == (b * f) \div Scale

Share(q, g) == (q \div Cardinality(Pairs)) * Cardinality(PairsOf[g])

Nav(m) == m.share + MapThenSumSet(LAMBDA p : Value(m.base[p], m.fair[p]), DOMAIN m.base)

\* The balances of the last mark, at both marks' prices.
\* A pair without a price now keeps the one it had.
Revaluation(then, now) ==
  LET fairNow(p) == IF p \in DOMAIN now.fair THEN now.fair[p] ELSE then.fair[p]
  IN MapThenSumSet(LAMBDA p : Value(then.base[p], fairNow(p)) - Value(then.base[p], then.fair[p]),
                   DOMAIN then.base)

TradePnl(then, now) == Nav(now) - Nav(then) - Revaluation(then, now)

\* The pairs of g a cycle has a position for, and whether they are all of them.
Marked(g) == {p \in PairsOf[g] : fair[p] # NoFair}

Markable(g) == Marked(g) = PairsOf[g]

MarkOf(g) == [share |-> Share(view.quote, g),
              base  |-> [p \in Marked(g) |-> view.base[p]],
              fair  |-> [p \in Marked(g) |-> fair[p]]]

\* record_drawdown: the mark joins the window, then the peak is read from it.
Pushed(w, nav) == [w EXCEPT ![0] = Max({@, nav})]
Drawdown(w, nav) == Max({w[a] : a \in DOMAIN w}) - nav
EmptyWindow == [a \in 0..BleedWindow |-> 0]

----------------------------------------------------------------------------
Init ==
  /\ quote = InitQuote /\ base = [p \in Pairs |-> InitBase]
  /\ fair = [p \in Pairs |-> InitFair]
  /\ up = TRUE /\ view = NoView
  /\ mem = [g \in Groups |-> FreshLatch]
  /\ prev = [g \in Groups |-> NoView] /\ window = [g \in Groups |-> EmptyWindow]
  /\ fills = 0 /\ restarts = 0 /\ live = {} /\ still = TRUE

\* A taker sells the pool one unit of base for c (d = 1) or buys one for c (d = -1).
Fill(p, d, c) ==
  /\ fills < MaxFills
  /\ base[p] + d >= 0 /\ quote - d * c >= 0
  /\ base' = [base EXCEPT ![p] = @ + d]
  /\ quote' = quote - d * c
  /\ fills' = fills + 1
  /\ live' = IF up THEN live \cup {p} ELSE live
  /\ UNCHANGED <<fair, up, view, switch, restarts, still>>

Move(p, f) ==
  /\ f # fair[p]
  /\ fair' = [fair EXCEPT ![p] = f]
  /\ still' = (still /\ f \in {InitFair, NoFair})
  /\ UNCHANGED <<quote, base, fills, up, view, switch, restarts, live>>

\* The reader publishes what the pool holds now.
Read ==
  /\ up
  /\ view' = [quote |-> quote, base |-> base]
  /\ UNCHANGED <<world, up, switch, restarts, live, still>>

Observe(g) ==
  LET now == MarkOf(g)
      w == Pushed(window[g], Nav(now))
      seeded == prev[g] = NoView
      pnl == IF seeded THEN 0 ELSE TradePnl(prev[g], now)
  IN [mem |-> Observed(mem[g], seeded, pnl, Drawdown(w, Nav(now))), prev |-> now, window |-> w]

\* The end of a cycle: every group whose pairs all have a price is marked.
Mark ==
  /\ up /\ view # NoView
  /\ LET after == [g \in Groups |-> IF Markable(g) /\ ~mem[g].halted THEN Observe(g)
                     ELSE [mem |-> mem[g], prev |-> prev[g], window |-> window[g]]]
     IN /\ mem' = [g \in Groups |-> after[g].mem]
        /\ prev' = [g \in Groups |-> after[g].prev]
        /\ window' = [g \in Groups |-> after[g].window]
  /\ UNCHANGED <<world, up, view, restarts, live, still>>

\* A second passes: the window's marks age, the oldest drop out.
Tick ==
  /\ up
  /\ window' = [g \in Groups |->
       [a \in 0..BleedWindow |-> IF a = 0 THEN 0 ELSE window[g][a - 1]]]
  /\ UNCHANGED <<world, up, view, mem, prev, restarts, live, still>>

\* The process ends; what the latch file holds stays.
Stop ==
  /\ up
  /\ up' = FALSE
  /\ UNCHANGED <<world, view, switch, restarts, live, still>>

(* Faulty: the last mark survives the restart. *)
StartOnOldMark ==
  /\ ~up /\ restarts < MaxRestarts
  /\ \E g \in Groups : ~mem[g].halted
  /\ up' = TRUE /\ view' = NoView /\ restarts' = restarts + 1
  /\ window' = [g \in Groups |-> EmptyWindow]
  /\ UNCHANGED <<world, mem, prev, live, still>>

\* load: totals and latch come back from the file, prev and window do not.
Start ==
  /\ ~up /\ restarts < MaxRestarts
  /\ \E g \in Groups : ~mem[g].halted
  /\ up' = TRUE /\ view' = NoView /\ restarts' = restarts + 1
  /\ prev' = [g \in Groups |-> NoView] /\ window' = [g \in Groups |-> EmptyWindow]
  /\ UNCHANGED <<world, mem, live, still>>

Next ==
  \/ \E p \in Pairs, d \in {-1, 1}, c \in Costs : Fill(p, d, c)
  \/ \E p \in Pairs, f \in Fairs \cup {NoFair} : Move(p, f)
  \/ Read \/ Mark \/ Tick \/ Stop \/ Start

Spec == Init /\ [][Next]_vars

\* While nobody fills, whatever the prices do and whatever happened while no
\* process ran, the budget is untouched; and if no price moved either, no group
\* trips: a missing price, a partial group or a restart is neither a loss nor a
\* drawdown (risk.rs 9-13, 23-26; main.rs 2919-2952).
IdleBookIsFree ==
  live = {} => \A g \in Groups : mem[g].loss = 0 /\ (still => ~mem[g].halted)
=============================================================================
