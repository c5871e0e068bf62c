------------------------------ MODULE Startup -------------------------------
(***************************************************************************)
(* One start of dubu-updater, from its command line to the quote loop: the  *)
(* environment and the config file (config.rs), what the chain says of it   *)
(* (chain/mod.rs verify_against_chain), the keys, the latches, the tasks    *)
(* and what they assert of their configuration, the waits for a feed and a  *)
(* head, the hedge venue (main.rs run), and the spread a cycle asks for.    *)
(*                                                                         *)
(* A float of the file is in thousandths, an amount is its digits and how   *)
(* many of them are decimals, an URL its scheme and the variables its       *)
(* template names.  A world is everything a start finds: arguments,         *)
(* variables, file, keys, latch files and chain.  Lifecycle has the latches *)
(* over many starts, Hedge and Feeds what the tasks do afterwards.          *)
(***************************************************************************)
EXTENDS Integers, Sequences, FiniteSets, FiniteSetsExt, Functions, TLC

CONSTANTS
  Worlds,         \* what the starts find
  Vols,           \* the volatilities a cycle may measure, in millibps
  FeedDeadline,   \* the patience of wait_for_feed, in looks
  HeadDeadline,   \* and that of wait_for_first_head
  AmountMax,      \* the largest uint96
  UnitMax,        \* the largest u128
  NaN,            \* a float that is not finite, a string that is no amount or no address
  Unset           \* an optional field the file does not have

Schemes == [http |-> {"http", "https"}, ws |-> {"ws", "wss"}]
BpsMax == 9999
WholePrice == 999999     \* BPS_E2_MAX, in hundredths of a bp
Day == 86400

----------------------------------------------------------------------------
(* What the file says, and what it leaves to the defaults.                  *)

ChainDefaults ==
  [read_rpc_urls |-> {}, write_rpc_urls |-> {}, submit_rpc_url |-> {},
   block_time_ms |-> 1000, head_stale_blocks |-> 10,
   ws_reconnect_initial_ms |-> 500, ws_reconnect_max_ms |-> 30000,
   fallback_poll_interval_ms |-> 2000, request_timeout_ms |-> 8000,
   requests_per_sec |-> 25000, request_burst |-> 50000,
   rate_limit_backoff_initial_ms |-> 2000, rate_limit_backoff_max_ms |-> 120000,
   degraded_after_secs |-> 30, halt_after_secs |-> 600, view_stale_secs |-> 20,
   degraded_extra_half_spread_bps |-> 25]

\* VenueId, and how each is read: the scheme of its public endpoint.
VenueScheme ==
  [v \in {"binance", "okx", "bybit", "coinbase", "hyperliquid", "pyth"} |->
     IF v = "pyth" THEN "https" ELSE "wss"]
Transport(v) == IF v = "pyth" THEN "http" ELSE "ws"

FeedDefaults ==
  [urls |-> VenueScheme, stale_after_ms |-> 5000, poll_interval_ms |-> 1000,
   reconnect_initial_ms |-> 500, reconnect_max_ms |-> 30000, read_timeout_ms |-> 45000,
   venues_min |-> 2, mad_k |-> 4000, mad_floor_bps |-> 2000, dispersion_bps_max |-> 25000]

SkewDefaults ==
  [vol_tau_ms |-> 60000, vol_horizon_secs |-> 300, vol_min_sample_ms |-> 100,
   vol_max_sample_ms |-> 10000, gamma |-> 1000000, positive_bps_max |-> 30, negative_bps_max |-> 10]

SpreadDefaults == [vol_coefficient |-> 500, half_spread_bps_max |-> 30]

JumpDefaults ==
  [sigma_k |-> 6000, cooloff_secs |-> 30, scan_interval_ms |-> 200,
   withdraw_priority_fee |-> [digits |-> 5, frac |-> 1],
   withdraw_max_fee |-> [digits |-> 20, frac |-> 1]]

TxDefaults ==
  [transmit_allowed |-> FALSE, private_key_env |-> Unset, private_key_file |-> Unset,
   gas_limit |-> 400000, max_fee |-> [digits |-> 5, frac |-> 2],
   max_priority_fee |-> [digits |-> 5, frac |-> 3], pending_timeout_secs |-> 120]

RiskDefaults == [nav_decimals |-> 6]

PairDefaults == [venues_min |-> Unset, jump_group |-> "", jump_floor_bps |-> Unset]

Optional(f, key) == IF key \in DOMAIN f THEN {f[key]} ELSE {}

\* Config as deserialized; --dry-run can only take the transmit switch away.
ConfigOf(w) ==
  LET f == w.file
      tx == f.tx @@ TxDefaults
  IN  [chain  |-> f.chain @@ ChainDefaults,
       feed   |-> f.feed @@ FeedDefaults,
       tx     |-> IF w.args = "dry run" THEN [tx EXCEPT !.transmit_allowed = FALSE] ELSE tx,
       skew   |-> f.skew @@ SkewDefaults,
       spread |-> f.spread @@ SpreadDefaults,
       jump   |-> f.jump @@ JumpDefaults,
       risk   |-> f.risk @@ RiskDefaults,
       rfq    |-> Optional(f, "rfq"),
       hedge  |-> Optional(f, "hedge"),
       pairs  |-> [i \in DOMAIN f.pairs |-> f.pairs[i] @@ PairDefaults]]

\* What serde makes of the fields: the unsigned ones are naturals.
WellTyped(c) ==
  /\ c.chain.degraded_extra_half_spread_bps \in Nat
  /\ {c.feed.reconnect_initial_ms, c.feed.reconnect_max_ms, c.feed.read_timeout_ms,
      c.feed.poll_interval_ms, c.feed.venues_min} \subseteq Nat
  /\ {c.skew.vol_min_sample_ms, c.skew.vol_max_sample_ms} \subseteq Nat
  /\ c.pairs \in Seq(Range(c.pairs))
  /\ \A i \in DOMAIN c.pairs :
       /\ c.pairs[i].half_spread_bps \in Int \cup {NaN}
       /\ c.pairs[i].width_bps \in Nat
       /\ {c.pairs[i].jump_floor_bps, c.pairs[i].venues_min} \subseteq Nat \cup {Unset}
       /\ IsFiniteSet(DOMAIN c.pairs[i].venues)

ASSUME StartupAssumption ==
  /\ {FeedDeadline, HeadDeadline, AmountMax, UnitMax} \subseteq Nat /\ Vols \subseteq Nat
  /\ NaN \notin Int /\ Unset \notin Int
  /\ \A w \in Worlds : WellTyped(ConfigOf(w))

\* A variable is what the first of the environment, the working directory's .env
\* and the config directory's .env says of it, were it nothing.
Defined(w, name) ==
  LET said == SelectSeq(w.env[name], LAMBDA v : v # "absent")
  IN  said # <<>> /\ Head(said) = "set"

\* expand_env: every reference is closed and names a variable with a value.
Resolves(w, url) == url.closed /\ \A name \in url.vars : Defined(w, name)

Parses(w) ==
  /\ w.args # "unknown"
  /\ w.readable /\ w.wellformed
  /\ LET c == ConfigOf(w).chain
     IN  \A url \in {c.ws_url, c.rpc_url, c.flashblocks_rpc_url}
                      \cup c.read_rpc_urls \cup c.write_rpc_urls \cup c.submit_rpc_url :
            Resolves(w, url)

----------------------------------------------------------------------------
(* Numbers.                                                                *)

\* parse_fixed
Scaled(amount, scale) ==
  IF amount = NaN THEN NaN
  ELSE IF amount.frac > scale \/ scale > 38 THEN NaN
  ELSE IF amount.digits > UnitMax \div 10^(scale - amount.frac) THEN NaN
  ELSE amount.digits * 10^(scale - amount.frac)

Finite(x) == x # NaN

Within(x, least, most) == x \in least..most

\* Faulty: a zero delay passes.
NeverShrinks(initial, most) == most >= initial

\* A retry delay that doubles up to its ceiling.
BackoffOk(initial, most) == initial # 0 /\ most >= initial

\* bps_e2: thousandths of a bp to hundredths, the nearest; a NaN casts to zero.
E2(x) == IF x = NaN THEN 0 ELSE Max({0, (x + 5) \div 10})

\* Venues that must agree before a pair has a price.
Quorum(feed, p) == IF p.venues_min = Unset THEN feed.venues_min ELSE p.venues_min

----------------------------------------------------------------------------
(* Config::validate.                                                       *)

ChainEndpointsOk(c) ==
  /\ c.rpc_url.scheme \in Schemes.http /\ c.flashblocks_rpc_url.scheme \in Schemes.http
  /\ c.ws_url.scheme \in Schemes.ws
  /\ c.chain_id # 0 /\ c.pool # 0 /\ c.multicall3 # 0

ChainCadenceOk(c) ==
  /\ Within(c.block_time_ms, 100, 60000)
  /\ c.head_stale_blocks >= 2
  /\ Within(c.fallback_poll_interval_ms, 250, 600000)
  /\ c.fallback_poll_interval_ms >= c.block_time_ms
  /\ Within(c.request_timeout_ms, 500, 120000)

ChainBudgetOk(c) ==
  /\ Finite(c.requests_per_sec) /\ c.requests_per_sec > 0 /\ c.requests_per_sec <= 1000000
  /\ Finite(c.request_burst) /\ c.request_burst >= 1000 /\ c.request_burst <= 2000000
  /\ BackoffOk(c.ws_reconnect_initial_ms, c.ws_reconnect_max_ms)
  /\ BackoffOk(c.rate_limit_backoff_initial_ms, c.rate_limit_backoff_max_ms)

\* head_stale_after, in seconds.
Watchdog(c) == (c.block_time_ms * c.head_stale_blocks) \div 1000

ChainLivenessOk(c) ==
  /\ c.degraded_after_secs # 0 /\ c.halt_after_secs > c.degraded_after_secs
  /\ Watchdog(c) < c.halt_after_secs
  /\ c.view_stale_secs # 0
  /\ c.degraded_extra_half_spread_bps <= BpsMax

FeedOk(f) ==
  /\ \A v \in DOMAIN VenueScheme : (f.urls @@ VenueScheme)[v] \in Schemes[Transport(v)]
  /\ Within(f.stale_after_ms, 100, 600000)
  /\ f.poll_interval_ms # 0 /\ f.poll_interval_ms <= f.stale_after_ms
  /\ BackoffOk(f.reconnect_initial_ms, f.reconnect_max_ms)
  /\ f.read_timeout_ms >= f.stale_after_ms
  /\ f.venues_min >= 2 /\ f.venues_min <= Cardinality(DOMAIN VenueScheme)
  /\ Finite(f.mad_k) /\ f.mad_k > 0 /\ f.mad_k <= 100000
  /\ Finite(f.mad_floor_bps) /\ f.mad_floor_bps > 0
  /\ Finite(f.dispersion_bps_max) /\ f.dispersion_bps_max > f.mad_floor_bps

\* "0x" stands for any name that begins so, or is as long as a key.
PlausibleName(name) == name \notin {"", "0x"}
KeySources(s) == {s.private_key_env, s.private_key_file} \ {Unset}

FeesOk(most, tip) ==
  /\ NaN \notin {Scaled(most, 9), Scaled(tip, 9)}
  /\ Scaled(most, 9) # 0 /\ Scaled(tip, 9) <= Scaled(most, 9)

TxOk(t) ==
  /\ Cardinality(KeySources(t)) <= 1
  /\ t.transmit_allowed => KeySources(t) # {}
  /\ PlausibleName(t.private_key_env)
  /\ Within(t.gas_limit, 21000, 30000000)
  /\ FeesOk(t.max_fee, t.max_priority_fee)
  /\ Within(t.pending_timeout_secs, 5, 3600)

SkewOk(s) ==
  /\ Within(s.vol_tau_ms, 1000, 3600000) /\ Within(s.vol_horizon_secs, 1, Day)
  /\ s.vol_min_sample_ms # 0 /\ s.vol_min_sample_ms < s.vol_max_sample_ms
  /\ Finite(s.gamma) /\ s.gamma > 0 /\ s.gamma <= 100000000
  /\ s.positive_bps_max <= BpsMax /\ s.negative_bps_max <= s.positive_bps_max

SpreadOk(s) ==
  /\ Finite(s.vol_coefficient) /\ Within(s.vol_coefficient, 0, 100000)
  /\ Within(s.half_spread_bps_max, 1, BpsMax)

JumpOk(j, chain) ==
  /\ Finite(j.sigma_k) /\ Within(j.sigma_k, 0, 1000000)
  /\ j.cooloff_secs >= (chain.block_time_ms + 999) \div 1000 /\ j.cooloff_secs <= 3600
  /\ Within(j.scan_interval_ms, 20, 10000) /\ j.scan_interval_ms <= chain.block_time_ms
  /\ FeesOk(j.withdraw_max_fee, j.withdraw_priority_fee)

\* The loss that latches: per window, and in all.
LossLimitsOk(r) ==
  LET bleed == Scaled(r.bleed_limit, r.nav_decimals)
      budget == Scaled(r.loss_budget, r.nav_decimals)
  IN  NaN \notin {bleed, budget} /\ 0 \notin {bleed, budget} /\ bleed <= budget

RiskOk(r) ==
  /\ r.state_path # "" /\ r.nav_decimals <= 30
  /\ Within(r.bleed_window_secs, 1, Day)
  /\ LossLimitsOk(r)

\* "ETH/USDT" stands for any symbol with more than letters and digits,
\* "TSLA.ON" for any Pyth feed of one session (DEPRECATED_SUFFIXES).
PairIdentityOk(p, feed) ==
  /\ p.pair_id # 0
  /\ p.symbol \notin {"", "ETH/USDT"}
  /\ Quorum(feed, p) # 0 /\ Quorum(feed, p) <= Cardinality(DOMAIN p.venues)
  /\ \A v \in DOMAIN p.venues : p.venues[v] \notin {"", " "}
  /\ "pyth" \in DOMAIN p.venues => p.venues["pyth"] # "TSLA.ON"
  /\ p.base_decimals <= 30 /\ p.quote_decimals <= 30

PairPricingOk(p) ==
  /\ Within(E2(p.half_spread_bps), 1, WholePrice)
  /\ p.width_bps <= BpsMax
  /\ Finite(p.target_base_share_pct) /\ Within(p.target_base_share_pct, 0, 100000)

PairSizesOk(p) ==
  LET units(x) == Scaled(x, p.base_decimals)
      caps == {units(p.bid_capacity), units(p.ask_capacity)}
  IN  /\ NaN \notin caps \cup {units(p.capture)} /\ 0 \notin caps \cup {units(p.capture)}
      /\ \A cap \in caps : cap <= AmountMax /\ units(p.capture) <= cap

PairTriggersOk(p) ==
  /\ p.heartbeat_secs # 0
  /\ Finite(p.adverse_drift_bps) /\ Finite(p.favourable_drift_bps)
  /\ p.adverse_drift_bps > 0 /\ p.adverse_drift_bps <= p.favourable_drift_bps
  /\ Within(p.capacity_divergence_pct, 1, 100)

ConfigOk(c) ==
  /\ ChainEndpointsOk(c.chain) /\ ChainCadenceOk(c.chain)
  /\ ChainBudgetOk(c.chain) /\ ChainLivenessOk(c.chain)
  /\ FeedOk(c.feed) /\ TxOk(c.tx) /\ SkewOk(c.skew) /\ SpreadOk(c.spread)
  /\ JumpOk(c.jump, c.chain) /\ RiskOk(c.risk)
  /\ c.pairs # <<>>
  /\ \A i \in DOMAIN c.pairs :
       LET p == c.pairs[i]
       IN  /\ PairIdentityOk(p, c.feed) /\ PairPricingOk(p) /\ PairSizesOk(p) /\ PairTriggersOk(p)
           /\ p.half_spread_bps <= c.spread.half_spread_bps_max * 1000
           /\ \A j \in 1..(i - 1) : c.pairs[j].pair_id # p.pair_id /\ c.pairs[j].symbol # p.symbol

----------------------------------------------------------------------------
(* verify_against_chain: what is deployed agrees with what is configured.   *)
Agrees(c, chain) ==
  /\ \A i \in DOMAIN c.pairs : c.pairs[i].pair_id \in DOMAIN chain.pairs
  /\ \A i \in DOMAIN c.pairs :
       LET p == c.pairs[i]
           on == chain.pairs[p.pair_id]
       IN  /\ chain.decimals[on.base] = p.base_decimals
           /\ chain.decimals[on.quote] = p.quote_decimals
           /\ p.heartbeat_secs < on.max_stale_secs
           /\ on.quote = chain.pairs[c.pairs[1].pair_id].quote
           /\ chain.decimals[on.quote] = c.risk.nav_decimals

\* Whoever broadcasts must hold the pool's updater key; a dry run needs none.
HoldsKey(c, keys) == c.tx.transmit_allowed => \A src \in KeySources(c.tx) : keys[src] = "updater"

GroupsOf(c) == {c.pairs[i].jump_group : i \in DOMAIN c.pairs}

\* The venues some pair names, and what one of them is asked for.
VenuesOf(c) == UNION {DOMAIN c.pairs[i].venues : i \in DOMAIN c.pairs}

\* A venue's client keeps one pair for each of its markets, the last that names it.
Carries(c, v, i) ==
  /\ v \in DOMAIN c.pairs[i].venues
  /\ \A j \in (i + 1)..Len(c.pairs) :
       v \in DOMAIN c.pairs[j].venues => c.pairs[j].venues[v] # c.pairs[i].venues[v]

\* start_rfq: what is present must be right.
RfqOk(c, keys) ==
  \A r \in c.rfq :
    /\ r.pmm_settle # NaN
    /\ Cardinality(KeySources(r)) = 1 /\ PlausibleName(r.private_key_env)
    /\ \A src \in KeySources(r) : keys[src] # "none"
    /\ Scaled(r.notional_per_order_max, r.quote_decimals) # NaN

\* start_hedge: the pairs with a route, on venue or on paper.
Routed(c, keys, venues) ==
  UNION {{id \in DOMAIN h.pairs : h.pairs[id] \in venues}
           : h \in {k \in c.hedge : keys[k.key_env] # "none" /\ keys[k.secret_env] # "none"}}
    \cap {c.pairs[i].pair_id : i \in DOMAIN c.pairs}

----------------------------------------------------------------------------
(* What the parts assert of their configuration; a failed assertion is a    *)
(* panic of the task it happens in.                                        *)

\* KillSwitch::load
LatchesExpect(c) ==
  /\ GroupsOf(c) # {}
  /\ c.risk.bleed_window_secs > 0
  /\ Scaled(c.risk.bleed_limit, c.risk.nav_decimals) # 0
  /\ Scaled(c.risk.loss_budget, c.risk.nav_decimals) # 0

\* The trip bounds of a pair's jump detector, in hundredths of a bp.
JumpBounds(p) ==
  LET half == (p.half_spread_bps + 999) \div 1000
      floor == 100 * (IF p.jump_floor_bps = Unset THEN half ELSE p.jump_floor_bps)
      atLeast == IF floor = 0 THEN 100 ELSE floor
      absorbed == 100 * half + 50 * p.width_bps
  IN  [floor |-> atLeast, ceiling |-> IF absorbed < atLeast THEN atLeast ELSE absorbed]

\* spawn_feeds with each venue's Client::new, VenueFeeds::new, Volatility::new and
\* build_jump_book, all in the process itself.
WiringExpects(c) ==
  /\ VenuesOf(c) # {}
  /\ c.feed.stale_after_ms # 0
  /\ c.skew.vol_tau_ms > 0 /\ c.skew.vol_horizon_secs > 0
  /\ c.skew.vol_min_sample_ms < c.skew.vol_max_sample_ms
  /\ \A i \in DOMAIN c.pairs :
       /\ c.pairs[i].symbol # ""
       /\ \A v \in DOMAIN c.pairs[i].venues : c.pairs[i].venues[v] # ""
       /\ JumpBounds(c.pairs[i]).floor <= JumpBounds(c.pairs[i]).ceiling

\* ws::run and pyth::run, the venue's own task.
VenueExpects(c, v) ==
  /\ c.feed.reconnect_initial_ms # 0
  /\ c.feed.reconnect_initial_ms <= c.feed.reconnect_max_ms
  /\ IF Transport(v) = "ws" THEN c.feed.read_timeout_ms # 0 ELSE c.feed.poll_interval_ms # 0

\* spread::compute: s0 + s1 * sigma up to the cap, then the widening of a chain
\* view that cannot be refreshed, all of it below the whole price.
HalfSpread(c, p, vol, degraded) ==
  LET s0 == E2(p.half_spread_bps)
      wanted == s0 + 10 * ((E2(c.spread.vol_coefficient) * vol) \div 10000)
      cap == 100 * c.spread.half_spread_bps_max
      scaled == IF wanted > cap THEN Max({cap, s0}) ELSE wanted
      extra == IF degraded THEN 100 * c.chain.degraded_extra_half_spread_bps ELSE 0
  IN  Min({scaled + extra, WholePrice})

\* run_cycle, on the spread it is about to post.
RowExpects(c, p, vol, degraded) ==
  LET half == HalfSpread(c, p, vol, degraded)
  IN  E2(p.half_spread_bps) <= half /\ half < WholePrice

----------------------------------------------------------------------------
VARIABLES
  world,     \* what this start finds
  stage,     \* how far it has come, or how it ended
  dead,      \* the venues whose task has panicked
  waited,    \* looks taken at the feeds, then at the head
  hedged     \* the pairs the hedge leg serves

startVars == <<world, stage, dead, waited, hedged>>
cfg == ConfigOf(world)

Stages == {"load", "verify", "keys", "latches", "wiring", "feed", "head", "hedge", "running"}
Ends == {"refused", "halted", "panicked"}

StartInit ==
  /\ world \in Worlds
  /\ stage = "load" /\ dead = {} /\ waited = 0 /\ hedged = {}

Load ==
  /\ stage = "load"
  /\ stage' = IF Parses(world) /\ ConfigOk(cfg) THEN "verify" ELSE "refused"
  /\ UNCHANGED <<world, dead, waited, hedged>>

\* The canonical endpoints may not answer.
Verify ==
  /\ stage = "verify"
  /\ \E reachable \in BOOLEAN :
       stage' = IF reachable /\ Agrees(cfg, world.chain) THEN "keys" ELSE "refused"
  /\ UNCHANGED <<world, dead, waited, hedged>>

LoadKey ==
  /\ stage = "keys"
  /\ stage' = IF HoldsKey(cfg, world.keys) THEN "latches" ELSE "refused"
  /\ UNCHANGED <<world, dead, waited, hedged>>

\* load_kills, and what is latched: outages alone are cleared when both pools
\* answer, which may fail at the file; a book that is latched whole is
\* withdrawn once more and left.
LoadLatches ==
  /\ stage = "latches"
  /\ LET held(kind) == {g \in GroupsOf(cfg) : world.latches[g] = kind}
         mayHeal == held("liveness") # {} /\ held("loss") = {}
         latched == held("liveness") \cup held("loss") = GroupsOf(cfg)
     IN  IF ~LatchesExpect(cfg) THEN stage' = "panicked"
         ELSE IF held("corrupt") # {} THEN stage' = "refused"
         ELSE \/ stage' = IF latched THEN "halted" ELSE "wiring"
              \/ mayHeal /\ stage' \in {"wiring", "refused"}
  /\ UNCHANGED <<world, dead, waited, hedged>>

\* The nonce, the venues' tasks, the head subscription, the RFQ leg, the reader,
\* the estimators and detectors. Only the RFQ leg can refuse.
Wire ==
  /\ stage = "wiring"
  /\ stage' = IF ~WiringExpects(cfg) THEN "panicked"
              ELSE IF RfqOk(cfg, world.keys) THEN "feed" ELSE "refused"
  /\ dead' = {v \in VenuesOf(cfg) : ~VenueExpects(cfg, v)}
  /\ UNCHANGED <<world, waited, hedged>>

\* A look at the feeds: live are the venues that deliver just now. Every pair
\* has its quorum, or the deadline is reached.
WaitForFeed ==
  /\ stage = "feed"
  /\ \E live \in SUBSET (VenuesOf(cfg) \ dead) :
       LET ready == \A i \in DOMAIN cfg.pairs :
             Cardinality({v \in live : Carries(cfg, v, i)}) >= Quorum(cfg.feed, cfg.pairs[i])
       IN  IF ready \/ waited >= FeedDeadline
           THEN stage' = "head" /\ waited' = 0
           ELSE stage' = stage /\ waited' = waited + 1
  /\ UNCHANGED <<world, dead, hedged>>

WaitForFirstHead ==
  /\ stage = "head"
  /\ \E live \in BOOLEAN :
       IF live \/ waited >= HeadDeadline
       THEN stage' = "hedge" /\ waited' = 0
       ELSE stage' = stage /\ waited' = waited + 1
  /\ UNCHANGED <<world, dead, hedged>>

\* The signed venue is asked for its clock and balance; without an answer its
\* pairs, and only its pairs, go unhedged.
StartHedge ==
  /\ stage = "hedge"
  /\ \E reachable \in BOOLEAN :
       hedged' = Routed(cfg, world.keys,
                        {"hyperliquid_paper", "binance_paper"} \cup IF reachable THEN {"binance"} ELSE {})
  /\ stage' = "running"
  /\ UNCHANGED <<world, dead, waited>>

\* The spreads of one cycle, whatever the volatility and the view.
QuoteCycle ==
  /\ stage = "running"
  /\ \E vol \in Vols, degraded \in BOOLEAN :
       stage' = IF \A i \in DOMAIN cfg.pairs : RowExpects(cfg, cfg.pairs[i], vol, degraded)
                THEN "running" ELSE "panicked"
  /\ UNCHANGED <<world, dead, waited, hedged>>

StartNext ==
  \/ Load \/ Verify \/ LoadKey \/ LoadLatches \/ Wire
  \/ WaitForFeed \/ WaitForFirstHead \/ StartHedge \/ QuoteCycle

StartSpec == StartInit /\ [][StartNext]_startVars

----------------------------------------------------------------------------
StartTypeOK ==
  /\ world \in Worlds
  /\ stage \in Stages \cup Ends
  /\ dead \subseteq VenuesOf(cfg)
  /\ waited \in Nat
  /\ IsFiniteSet(hedged)

(* config.rs refuses at load whatever the parts assert of their settings when *)
(* they start or quote: a file that is accepted panics no venue's task, and   *)
(* the process itself only where the widest spread, the cap and what a        *)
(* degraded view adds to it, comes to the whole price.                       *)
OnlyTheWholePricePanics ==
  /\ dead = {}
  /\ stage = "panicked" =>
       cfg.spread.half_spread_bps_max + cfg.chain.degraded_extra_half_spread_bps > BpsMax

(* "A bad config has to fail at startup rather than at 3am" (config.rs 3):     *)
(* what is accepted never panics. It does: run startup_found.                 *)
AcceptedNeverPanics == stage # "panicked"

=============================================================================
