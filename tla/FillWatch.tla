------------------------------ MODULE FillWatch ------------------------------
(***************************************************************************)
(* The Swap scan and the markout it feeds: chain/heads.rs reports the      *)
(* newest sealed head, chain/swaps.rs reads the pool's logs up to it and   *)
(* a little past it, markout.rs takes each fill off its queue once its     *)
(* last horizon has passed (scan_fills, at the end of every run_cycle in   *)
(* main.rs). A swap is first seen in the block being built, then sealed; a *)
(* node may show a log late, and a reorg may move it to the next block. A  *)
(* block's timestamp is its number; amounts, and the reference prices a    *)
(* fill is marked with, are left out.                                      *)
(***************************************************************************)
EXTENDS Integers, Sequences, FiniteSets, FiniteSetsExt, SequencesExt

CONSTANTS
  NoBlock,        \* no head, no sealed block
  Overlap,        \* OVERLAP_BLOCKS
  MaxRange,       \* MAX_RANGE_BLOCKS
  ChunksMax,      \* CHUNKS_PER_POLL_MAX
  Lookback,       \* MAX_LOOKBACK_BLOCKS
  SeenCap,        \* SEEN_CAPACITY
  Longest,        \* the last of HORIZONS_SECS
  Late,           \* how many blocks late a node may show a log
  MaxBlock,       \* bound: blocks
  MaxSwaps        \* bound: swaps

\* The head the first poll was given: the scan starts there, with nothing read.
FirstBlock == Overlap + 1

ASSUME ScanAssumption ==
  /\ {Overlap, Lookback, Longest, MaxBlock, MaxSwaps} \subseteq Nat
  /\ {MaxRange, ChunksMax, SeenCap} \subseteq Nat \ {0}
  /\ Overlap < MaxRange /\ Late \in 0..Overlap
  /\ NoBlock \notin Nat

VARIABLES
  sealed,         \* the newest sealed block
  landed,         \* swap i is log landed[i].index of block landed[i].block
  heard,          \* the newest head of the subscription under way
  shown,          \* the sealed block of the view the reader published last
  cursor,         \* highest block scanned
  seen,           \* the ring of log identities
  pending,        \* fills whose horizons have not all passed
  finished,       \* history: the logs that left the queue, or were dropped and counted
  lost,           \* history: the logs of polls that failed after reading them
  holes           \* history: blocks given up

chain == <<sealed, landed>>
heads == <<heard, shown>>
scan == <<cursor, seen, holes>>
markout == <<pending, finished, lost>>
scanVars == <<chain, heads, scan, markout>>

Log(i) == <<i, landed[i].index>>

----------------------------------------------------------------------------
ScanInit ==
  /\ sealed = FirstBlock /\ landed = <<>>
  /\ heard = NoBlock /\ shown = FirstBlock
  /\ cursor = FirstBlock /\ seen = <<>> /\ holes = {}
  /\ pending = <<>> /\ finished = {} /\ lost = {}

\* A taker trades: its log belongs to the block being built.
Swap ==
  /\ Len(landed) < MaxSwaps
  /\ landed' = Append(landed, [block |-> sealed + 1, index |-> 0, moved |-> FALSE])
  /\ UNCHANGED <<sealed, heads, scan, markout>>

Seal ==
  /\ sealed < MaxBlock
  /\ sealed' = sealed + 1
  /\ UNCHANGED <<landed, heads, scan, markout>>

\* The newest block is replaced: a swap in it moves on, its place in the block
\* may change with it. Once (a bound).
Reorg(i) ==
  /\ landed[i].block = sealed /\ sealed < MaxBlock
  /\ \A j \in DOMAIN landed : ~landed[j].moved
  /\ \E index \in {0, 1} :
       landed' = [landed EXCEPT ![i] = [block |-> sealed + 1, index |-> index, moved |-> TRUE]]
  /\ UNCHANGED <<sealed, heads, scan, markout>>

\* on_subscribed: whatever was heard before the outage is forgotten; until then
\* it stays, however long the socket is down.
Subscribe ==
  /\ heard # NoBlock
  /\ heard' = NoBlock
  /\ UNCHANGED <<chain, shown, scan, markout>>

\* record: a head at or below the newest one heard is dropped.
NewHead(n) ==
  /\ heard # NoBlock => n > heard
  /\ heard' = n
  /\ UNCHANGED <<chain, shown, scan, markout>>

\* The reader publishes a view; its sealed block is missing when that call failed.
Show ==
  /\ shown' \in {sealed, NoBlock}
  /\ UNCHANGED <<chain, heard, scan, markout>>

----------------------------------------------------------------------------
\* The head a scan is bounded to: the socket's, the reader's when there is none.
Confirmed == IF heard # NoBlock THEN heard ELSE shown

(* Faulty: each block is read once. *)
PlanNoOverlap(head) == Max({cursor + 1, head - Lookback})

\* plan_ranges: the overlap below the cursor, unless that is too far behind.
PlanFirst(head) == Max({cursor - Overlap, head - Lookback})

\* The chunks of one poll, and the block the first k of them reach.
Chunks(head) == Min({ChunksMax, (head - PlanFirst(head)) \div MaxRange + 1})
Reach(head, k) == Min({head, PlanFirst(head) + k * MaxRange - 1})

\* What a node may answer for the blocks from a to b: logs older than Late are in it.
Answers(a, b) ==
  LET inRange == {i \in DOMAIN landed : landed[i].block \in a..b}
      sure == {i \in inRange : landed[i].block <= sealed - Late}
  IN {sure \cup more : more \in SUBSET (inRange \ sure)}

Before(i, j) == landed[i].block < landed[j].block
                \/ (landed[i].block = landed[j].block /\ i < j)

\* By block, then by place in it: the n-th has n - 1 before it.
InOrder(swaps) ==
  [n \in 1..Cardinality(swaps) |->
     CHOOSE i \in swaps : Cardinality({j \in swaps : Before(j, i)}) = n - 1]

\* remember: the oldest identity makes room.
Remembered(ring, log) ==
  IF Len(ring) < SeenCap THEN Append(ring, log) ELSE Append(Tail(ring), log)

\* absorb: the ring and the fresh logs, after each log of an answer.
Absorbed(answer) ==
  LET order == InOrder(answer)
      got[n \in 0..Len(order)] ==
        IF n = 0 THEN [ring |-> seen, fresh |-> {}]
        ELSE IF Contains(got[n - 1].ring, Log(order[n])) THEN got[n - 1]
        ELSE [ring |-> Remembered(got[n - 1].ring, Log(order[n])),
              fresh |-> got[n - 1].fresh \cup {order[n]}]
  IN got[Len(order)]

\* Fills handed to the markout, with their block's time, or zero when unknown.
Stamped(swaps) == [n \in DOMAIN swaps |-> [log |-> Log(swaps[n]), at |-> landed[swaps[n]].block]]
Unstamped(swaps) == [n \in DOMAIN swaps |-> [log |-> Log(swaps[n]), at |-> 0]]

\* The blocks a jump gives up, once the cursor is past them.
Skipped(head) == (cursor - Overlap)..(head - Lookback - 1)

\* settle: from the front, until one is not due.
Settles(time, fills, dropped) ==
  LET n == Max({k \in 0..Len(fills) : \A j \in 1..k : time - fills[j].at >= Longest})
  IN /\ pending' = SubSeq(fills, n + 1, Len(fills))
     /\ finished' = finished \cup {fills[j].log : j \in 1..n} \cup dropped
     /\ UNCHANGED lost

\* Settled against the socket's clock alone.
Now == IF heard # NoBlock THEN heard ELSE 0

\* The poll hands these fills over, and the scan goes on to settle.
Hands(fills, dropped) == Settles(Now, pending \o fills, dropped)

\* The poll failed after absorbing: the scan returns, nothing is settled, and
\* what was fresh went with the answer, while the ring has it.
Fails(swaps) ==
  /\ lost' = lost \cup {Log(i) : i \in swaps}
  /\ UNCHANGED <<pending, finished>>

----------------------------------------------------------------------------
\* A head at or below the overlap: nothing is read.
Idle(head) == head <= cursor - Overlap /\ Hands(<<>>, {}) /\ UNCHANGED scan

Polls(head) == head > cursor - Overlap

\* A chunk fails: what the chunks before it brought is handed over as it is,
\* the cursor stays where they ended.
Interrupted(head, k) ==
  /\ Polls(head) /\ k < Chunks(head)
  /\ IF k = 0 THEN Hands(<<>>, {}) /\ UNCHANGED scan
     ELSE \E answer \in Answers(PlanFirst(head), Reach(head, k)) :
            /\ seen' = Absorbed(answer).ring
            /\ cursor' = Reach(head, k)
            /\ holes' = holes \cup Skipped(head)
            /\ LET fills == InOrder(Absorbed(answer).fresh)
               IN Hands(Stamped(fills), {}) \/ Hands(Unstamped(fills), {})

\* All chunks are read, then the blocks past the head, which leave the cursor
\* alone; last the timestamps the node left out. Either of these may fail, and
\* a fill whose block has no timestamp is dropped and counted.
ReadAll(head) ==
  /\ Polls(head)
  /\ cursor' = Reach(head, Chunks(head))
  /\ holes' = holes \cup Skipped(head)
  /\ \E answer \in Answers(PlanFirst(head), cursor') :
       \/ /\ seen' = Absorbed(answer).ring
          /\ Fails(Absorbed(answer).fresh)
       \/ \E ahead \in Answers(head + 1, sealed + 1) :
            LET got == Absorbed(answer \cup ahead)
            IN /\ seen' = got.ring
               /\ \/ Fails(got.fresh)
                  \/ \E dropped \in SUBSET got.fresh :
                       Hands(Stamped(InOrder(got.fresh \ dropped)), {Log(i) : i \in dropped})

\* Without a head there is no scan.
ScanFills ==
  /\ Confirmed # NoBlock
  /\ \/ Idle(Confirmed) \/ ReadAll(Confirmed)
     \/ \E k \in 0..ChunksMax : Interrupted(Confirmed, k)
  /\ UNCHANGED <<chain, heads>>

ScanNext ==
  \/ Swap \/ Seal \/ \E i \in DOMAIN landed : Reorg(i)
  \/ Subscribe \/ Show \/ \E n \in FirstBlock..sealed : NewHead(n)
  \/ ScanFills

ScanSpec == ScanInit /\ [][ScanNext]_scanVars

----------------------------------------------------------------------------
InMarkout == {pending[n].log : n \in DOMAIN pending}

HandedOnce ==
  /\ \A m, n \in DOMAIN pending : pending[m].log = pending[n].log => m = n
  /\ InMarkout \cap (finished \cup lost) = {} /\ finished \cap lost = {}

Scanned == {i \in DOMAIN landed : landed[i].block \in 1..(cursor - Late) \ holes}

NoneMissed ==
  \A i \in Scanned : \E log \in InMarkout \cup finished \cup lost : log[1] = i

\* Through overlaps, blocks read ahead of their sealing, late logs, failed chunks
\* and a head that falls back, one log is handed to the markout at most once, and
\* never after a poll has lost it; and once the cursor is Late blocks past a swap,
\* a poll has read it: a log of it is in the markout, settled, dropped and counted
\* as unresolved, or lost by that poll. Only blocks a jump gave up are missing
\* (swaps.rs 46-50, 240-296). A log is a transaction and an index: a reorg that
\* changes the index makes a second log of the swap.
EachSwapOnce == HandedOnce /\ NoneMissed

\* "A failed poll leaves the cursor put and the next poll re-reads the range"
\* (swaps.rs 3-5; main.rs 1967): whatever polls fail, a swap the cursor has passed
\* is in the markout, settled, or counted as unresolved. It is not where the poll
\* failed past its last chunk: run fills_found.
FailedPollIsReadAgain ==
  \A i \in Scanned : \E log \in InMarkout \cup finished : log[1] = i
=============================================================================
