------------------------------- MODULE Feeds --------------------------------
(***************************************************************************)
(* From the sockets to the reference price: the driver of one venue's       *)
(* websocket (feed/ws.rs), the ticks it leaves for the quote loop           *)
(* (feed/mod.rs), and what a cycle of the loop does with them and with the  *)
(* other venues' (main.rs 2353-2418): the cross-section and the volatility  *)
(* estimator's returns (skew.rs).                                          *)
(*                                                                         *)
(* The other venues are the same code; here they hand the cycle any price   *)
(* or none.  The kernel takes what is sent on a socket whose peer is gone.  *)
(***************************************************************************)
EXTENDS Reference

CONSTANTS
    Venue, Others,        \* the venue in detail, and the rest
    Prices,               \* what the rest may print
    Prints,               \* what this one may
    MaxId,                \* bound: update ids
    Keepalives,           \* periods of the venues' keepalives; 0 for none
    Hourly,               \* NO_KEEPALIVE: the ticker's period where there is none
    ReadTimeout,          \* a read that takes longer is given up
    StaleAfter,           \* a tick older than this is not priced from
    SampleMin, SampleMax  \* returns over less, or over more, are not taken

ASSUME FeedsAssumption ==
    /\ Venue \notin Others /\ IsFiniteSet(Others)
    /\ Prices \cup Prints \subseteq Nat \ {0} /\ Keepalives \subseteq Nat
    /\ {Hourly, MaxId, ReadTimeout, StaleAfter, SampleMin, SampleMax} \subseteq Nat \ {0}
    /\ ReadTimeout >= StaleAfter /\ SampleMin < SampleMax

VARIABLES
    keepalive,  \* this venue's period
    link,       \* up or down
    peer,       \* alive, or gone without a word
    quiet,      \* time since the venue's last frame
    reading,    \* time since the read in progress began
    due,        \* time since the connection's ticker last fired
    tick,       \* the stored tick, or nothing
    newest,     \* the newest id received since the last connection or reset
    anchor,     \* age of the estimator's anchor, or NoAnchor
    gap,        \* whether a cycle without a price followed the anchor
    section,    \* if this step was a cycle, its cross-section
    folded      \* if this step was a cycle, the return it took, if any

socketVars == <<keepalive, link, peer, quiet, reading, due>>
tickVars   == <<tick, newest>>
loopVars   == <<anchor, gap>>
cycleVars  == <<section, folded>>
feedsVars  == <<socketVars, tickVars, loopVars, cycleVars>>

NoAnchor == -1
Broken   == 0    \* a book that is crossed, or empty on a side

(* The loop is not touched, and no cycle ran. *)
LoopIdle == section' = <<>> /\ folded' = <<>> /\ UNCHANGED loopVars

FeedsInit ==
    /\ keepalive \in Keepalives /\ link = "down" /\ peer = "alive"
    /\ quiet = 0 /\ reading = 0 /\ due = 0
    /\ tick = <<>> /\ newest = 0
    /\ anchor = NoAnchor /\ gap = FALSE
    /\ section = <<>> /\ folded = <<>>

-----------------------------------------------------------------------------
(* The socket. *)

(* Faulty: what the last connection left stays readable. *)
KeptTick == tick

(* on_connected clears the prices with the ids. *)
ClearedTick == <<>>

Connect ==
    /\ link = "down"
    /\ link' = "up" /\ peer' = "alive" /\ quiet' = 0 /\ reading' = 0 /\ due' = 0
    /\ tick' = ClearedTick /\ newest' = 0
    /\ LoopIdle /\ UNCHANGED keepalive

(* on_disconnected leaves the last tick where it is. *)
Disconnect ==
    /\ link' = "down" /\ peer' = "alive" /\ quiet' = 0 /\ reading' = 0 /\ due' = 0
    /\ LoopIdle /\ UNCHANGED <<keepalive, tickVars>>

(* Closed by the peer, a read error, or a keepalive that could not be sent. *)
Closed == link = "up" /\ Disconnect

(* Faulty: one unit too late. *)
TimesOutLate == link = "up" /\ reading > ReadTimeout

TimesOut == link = "up" /\ reading >= ReadTimeout

(* The ticker runs on every venue, once an hour where nothing is to be sent. *)
Period == IF keepalive > 0 THEN keepalive ELSE Hourly
TickerDue == link = "up" /\ due >= Period

(* The select is biased: the ticker is looked at before the read. *)
ReadTimesOut == TimesOut /\ ~TickerDue /\ Disconnect

(* The ticker wins the select: the read begins again, with its timeout. *)
Keepalive ==
    /\ TickerDue
    /\ reading' = 0 /\ due' = 0
    /\ LoopIdle /\ UNCHANGED <<keepalive, link, peer, quiet, tickVars>>

PeerGoes ==
    /\ link = "up" /\ peer' = "gone"
    /\ LoopIdle /\ UNCHANGED <<keepalive, link, quiet, reading, due, tickVars>>

Frame ==
    /\ link = "up" /\ peer = "alive"
    /\ quiet' = 0 /\ reading' = 0
    /\ LoopIdle /\ UNCHANGED <<keepalive, link, peer, due>>

Printed(id, price) == [id |-> id, price |-> price, age |-> 0]

(* record: an id at or below the stored one is dropped. *)
Book(id, price) ==
    /\ Frame
    /\ tick' = IF tick # <<>> /\ id <= tick.id THEN tick ELSE Printed(id, price)
    /\ newest' = Max({newest, id})

(* record_reset: the venue says its book starts over. *)
Snapshot(id, price) == Frame /\ tick' = Printed(id, price) /\ newest' = id

(* A pong, an acknowledgement, or something unreadable. *)
OtherFrame == Frame /\ UNCHANGED tickVars

-----------------------------------------------------------------------------
(* A cycle of the quote loop. *)

Status ==
    CASE link = "down"            -> "disconnected"
      [] link = "up" /\ tick = <<>> -> "no_data"
      [] OTHER -> IF tick.age <= StaleAfter THEN "live" ELSE "stale"

(* live, then VenueQuote::new: a broken book is no quote. *)
OwnQuote == IF Status = "live" /\ tick.price # Broken THEN {Venue} ELSE {}

(* Faulty: a missing price leaves the anchor. *)
ForgottenAnchor == anchor

(* Volatility::reset. *)
Forgotten == NoAnchor

(* Volatility::observe. *)
TooSoon == anchor # NoAnchor /\ anchor < SampleMin
Outage  == anchor = NoAnchor \/ anchor > SampleMax

Observe ==
    IF TooSoon THEN folded' = <<>> /\ UNCHANGED <<anchor, gap>>
    ELSE /\ anchor' = 0 /\ gap' = FALSE
         /\ folded' = IF Outage THEN <<>> ELSE [span |-> anchor, gap |-> gap]

Cycle ==
    /\ \E seen \in SUBSET Others : \E others \in [seen -> Prices] :
       \E q \in {[v \in seen \cup OwnQuote |-> IF v = Venue THEN tick.price ELSE others[v]]} :
          /\ section' = q
          /\ IF Combined(q) # NoPrice THEN Observe
             ELSE anchor' = Forgotten /\ gap' = TRUE /\ folded' = <<>>
    /\ UNCHANGED <<socketVars, tickVars>>

(* Time passes, but not past a timer that is due. *)
Older(age, limit) == IF age > limit THEN age ELSE age + 1

Elapse ==
    /\ ~TimesOut /\ ~TickerDue
    /\ IF link = "up"
       THEN quiet' = Older(quiet, 2 * ReadTimeout) /\ reading' = reading + 1 /\ due' = due + 1
       ELSE UNCHANGED <<quiet, reading, due>>
    /\ tick' = IF tick = <<>> THEN tick ELSE [tick EXCEPT !.age = Older(@, StaleAfter)]
    /\ anchor' = IF anchor = NoAnchor THEN anchor ELSE Older(anchor, SampleMax)
    /\ section' = <<>> /\ folded' = <<>>
    /\ UNCHANGED <<keepalive, link, peer, newest, gap>>

FeedsNext ==
    \/ Connect \/ Closed \/ ReadTimesOut \/ Keepalive \/ PeerGoes \/ OtherFrame
    \/ \E id \in 1 .. MaxId, price \in Prints \cup {Broken} : Book(id, price) \/ Snapshot(id, price)
    \/ Cycle \/ Elapse

FeedsSpec == FeedsInit /\ [][FeedsNext]_feedsVars

-----------------------------------------------------------------------------
(* What a venue contributes is the newest print it sent on the connection   *)
(* it has now, and recent, whatever the socket went through before          *)
(* (feed/mod.rs 371-477): a reconnect whose ids start lower, a book that    *)
(* starts over, a peer that is gone while the socket looks up.             *)
QuoteIsCurrent ==
    Venue \in OwnQuote => tick.id = newest /\ tick.age <= StaleAfter

(* Venues that are a minority of three or more cannot take the reference    *)
(* out of the others' range by more than the threshold's own ceiling        *)
(* (fair_value.rs 461-597), whatever they print: the median is between the  *)
(* others' prices, and the disagreement is capped before it is multiplied.  *)
Slack == Max({(DispersionMax * KTenths) \div 10, Floor}) + 1

FewCannotMoveIt ==
    \A honest \in SUBSET DOMAIN section :
        LET fair  == Combined(section)
            range == {section[v] : v \in honest}
        IN  (fair # NoPrice /\ Size(section) >= 3 /\ 2 * Cardinality(honest) > Size(section)) =>
                /\ fair * Parts >= Min(range) * Parts - Slack * Max(range)
                /\ fair * Parts <= Max(range) * (Parts + Slack)

(* A return joins two references with no cycle between them that had none,  *)
(* over an interval in the sampled range (skew.rs 134-203, main.rs          *)
(* 2403-2408): an outage is not one enormous return.                       *)
NoReturnAcrossGap ==
    folded # <<>> => ~folded.gap /\ folded.span \in SampleMin .. SampleMax

(* Where the read timeout is shorter than the ticker's period, a socket that *)
(* has gone silent is given up within twice the timeout: the ticker can start *)
(* the read again once, not twice (ws.rs 280-313, biased). Elsewhere nothing  *)
(* ends the silence: see QuietSocketDropped.                                 *)
SilenceEnds == ReadTimeout < Period => quiet <= 2 * ReadTimeout

(* "A socket that produces no frame at all for read_timeout_ms is dead       *)
(* regardless of what TCP believes. Forces a reconnect." (ws.rs 12-14.) It   *)
(* does not: every tick of the keepalive starts the timeout again, and on a  *)
(* venue whose keepalive is shorter it never runs out (run feeds_found).     *)
QuietSocketDropped == quiet <= ReadTimeout

=============================================================================
