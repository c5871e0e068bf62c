-------------------------------- MODULE Notify --------------------------------
(***************************************************************************)
(* The Telegram notifier (dubu-updater notify.rs). The quote loop hands    *)
(* events to a bounded queue and never waits; a task batches them inside a *)
(* window, folds repeated send failures into one report per class and      *)
(* quiet time, and posts each batch once. What an event says is left out:  *)
(* a fill, an alert (halts, latches, digests) or a failure of some class.  *)
(***************************************************************************)
EXTENDS Integers, Sequences, FiniteSets, FiniteSetsExt, SequencesExt, Functions

CONSTANTS
  Classes,        \* what classify tells failures apart by
  QueueCap,       \* QUEUE_CAPACITY
  FillsMax, AlertsMax, \* FILLS_SHOWN_MAX, ALERTS_SHOWN_MAX
  ClassesMax,     \* ERROR_CLASSES_MAX
  MaxEvents,      \* bound: events
  MaxFlushes      \* bound: flushes

ASSUME NotifyAssumption ==
  /\ {QueueCap, FillsMax, AlertsMax, ClassesMax} \subseteq Nat \ {0}
  /\ {MaxEvents, MaxFlushes} \subseteq Nat
  /\ Classes \cap {"fill", "alert", "flush"} = {}

Events == {"fill", "alert"} \cup Classes

VARIABLES
  inbox,          \* the channel
  dropped,        \* the counter both sides share
  batch,          \* what the next message is made of, counted
  ledger,         \* ledger[c]: failures waiting behind a class's quiet time
  hushed,         \* classes whose quiet time is running
  overflow,       \* failures of classes past the bound
  batching,       \* a batch window is open
  limited,        \* a 429's silence is running
  posting,        \* a message is on its way
  life,           \* "open" while a Notifier exists, then "left", then "ended"
  given, told, flushes \* history: events handed over, events in messages; bound counter

books == <<batch, ledger, hushed, overflow>>
quietness == <<batching, limited, posting>>
alertVars == <<inbox, dropped, books, quietness, life, given, told, flushes>>

EmptyBatch == [alerts |-> 0, moreAlerts |-> 0, fills |-> 0, moreFills |-> 0, errors |-> 0]

Counted(b) == SumFunction(b)

----------------------------------------------------------------------------
AlertInit ==
  /\ inbox = <<>> /\ dropped = 0
  /\ batch = EmptyBatch /\ ledger = <<>> /\ hushed = {} /\ overflow = 0
  /\ batching = FALSE /\ limited = FALSE /\ posting = FALSE
  /\ life = "open" /\ given = 0 /\ told = 0 /\ flushes = 0

\* Notifier::send: what does not fit is dropped and counted.
Give(e) ==
  /\ life = "open" /\ given < MaxEvents
  /\ given' = given + 1
  /\ IF Len(inbox) < QueueCap THEN inbox' = Append(inbox, e) /\ UNCHANGED dropped
     ELSE dropped' = dropped + 1 /\ UNCHANGED inbox
  /\ UNCHANGED <<books, quietness, life, told, flushes>>

\* Notifier::flush: given up when the queue is full.
Flush ==
  /\ life = "open" /\ flushes < MaxFlushes /\ Len(inbox) < QueueCap
  /\ inbox' = Append(inbox, "flush") /\ flushes' = flushes + 1
  /\ UNCHANGED <<dropped, books, quietness, life, given, told>>

\* The quote loop has returned.
Leave ==
  /\ life = "open" /\ life' = "left"
  /\ UNCHANGED <<inbox, dropped, books, quietness, given, told, flushes>>

----------------------------------------------------------------------------
Capped(b, shown, more, max) ==
  IF b[shown] < max THEN [b EXCEPT ![shown] = @ + 1] ELSE [b EXCEPT ![more] = @ + 1]

\* ErrorLedger::record: a class is reported when it is new, or not hushed.
Record(c) ==
  IF c \notin DOMAIN ledger /\ Cardinality(DOMAIN ledger) >= ClassesMax
  THEN overflow' = overflow + 1 /\ UNCHANGED <<batch, ledger, hushed>>
  ELSE LET waiting == IF c \in DOMAIN ledger THEN ledger[c] + 1 ELSE 1
           speaks == c \notin hushed
       IN /\ ledger' = [d \in DOMAIN ledger \cup {c} |->
                          IF d # c THEN ledger[d] ELSE IF speaks THEN 0 ELSE waiting]
          /\ hushed' = hushed \cup {c}
          /\ batch' = IF speaks THEN [batch EXCEPT !.errors = @ + waiting] ELSE batch
          /\ UNCHANGED overflow

\* Batch::absorb.
Absorb(e) ==
  IF e \in Classes THEN Record(e)
  ELSE /\ batch' = IF e = "fill" THEN Capped(batch, "fills", "moreFills", FillsMax)
                   ELSE Capped(batch, "alerts", "moreAlerts", AlertsMax)
       /\ UNCHANGED <<ledger, hushed, overflow>>

\* The first event opens the window.
Take ==
  /\ ~posting /\ inbox # <<>> /\ Head(inbox) # "flush"
  /\ Absorb(Head(inbox))
  /\ inbox' = Tail(inbox) /\ batching' = TRUE
  /\ UNCHANGED <<dropped, limited, posting, life, given, told, flushes>>

\* ErrorLedger::due: the classes that owe a report.
Owing == {c \in DOMAIN ledger \ hushed : ledger[c] > 0}

Owed == MapThenSumSet(LAMBDA c : ledger[c], Owing)

(* Faulty: the counter is taken before the silence is looked at. *)
DeliverCounterFirst(full) ==
  LET idle == Counted(full) = 0 /\ dropped = 0
  IN /\ dropped' = 0
     /\ IF idle \/ limited
        THEN batch' = full /\ UNCHANGED <<posting, told>>
        ELSE /\ posting' = TRUE
             /\ told' = told + Counted(full) + dropped
             /\ batch' = EmptyBatch

\* deliver: nothing to say, or silenced, and the batch is kept; otherwise it
\* leaves with the counter, and is forgotten whatever becomes of it.
Deliver(full) ==
  LET idle == Counted(full) = 0 /\ dropped = 0
  IN IF idle \/ limited
     THEN batch' = full /\ UNCHANGED <<dropped, posting, told>>
     ELSE /\ posting' = TRUE
          /\ told' = told + Counted(full) + dropped
          /\ batch' = EmptyBatch /\ dropped' = 0

\* close: what the ledger owes joins the batch.
CloseWindow ==
  /\ Deliver([batch EXCEPT !.errors = @ + Owed])
  /\ ledger' = [c \in DOMAIN ledger |-> IF c \in Owing THEN 0 ELSE ledger[c]]
  /\ hushed' = hushed \cup Owing
  /\ batching' = FALSE
  /\ UNCHANGED <<overflow, limited, given, flushes>>

\* The window ends.
Expire == ~posting /\ batching /\ life # "ended" /\ CloseWindow /\ UNCHANGED <<inbox, life>>

Flushed ==
  /\ ~posting /\ inbox # <<>> /\ Head(inbox) = "flush"
  /\ CloseWindow /\ inbox' = Tail(inbox) /\ UNCHANGED life

\* Every Notifier is gone and the queue is drained: the last batch leaves.
LastClose ==
  /\ ~posting /\ life = "left" /\ inbox = <<>>
  /\ CloseWindow /\ life' = "ended" /\ UNCHANGED inbox

\* Sent, failed, or refused with a 429, which silences the next ones. No retry.
Posted ==
  /\ posting
  /\ posting' = FALSE /\ limited' \in BOOLEAN
  /\ UNCHANGED <<inbox, dropped, books, batching, life, given, told, flushes>>

\* Quiet times run out.
Unhush(c) ==
  /\ c \in hushed
  /\ hushed' = hushed \ {c}
  /\ UNCHANGED <<inbox, dropped, batch, ledger, overflow, quietness, life, given, told, flushes>>

Unlimit ==
  /\ limited
  /\ limited' = FALSE
  /\ UNCHANGED <<inbox, dropped, books, batching, posting, life, given, told, flushes>>

AlertNext ==
  \/ \E e \in Events : Give(e)
  \/ Flush \/ Leave \/ Take \/ Expire \/ Flushed \/ LastClose \/ Posted \/ Unlimit
  \/ \E c \in Classes : Unhush(c)

AlertSpec == AlertInit /\ [][AlertNext]_alertVars

----------------------------------------------------------------------------
Waiting == Cardinality({n \in DOMAIN inbox : inbox[n] # "flush"})

\* Whatever the queue, the caps, the ledger, a flush and a 429 do to an event, it
\* is in exactly one place: queued, in the batch, behind its class, or in a
\* message, listed or counted; a full queue is said in the next message that
\* leaves (notify.rs 305-311, 514-518, 887-900).
Accounted ==
  given = Waiting + dropped + Counted(batch) + SumFunction(ledger) + overflow + told
=============================================================================
