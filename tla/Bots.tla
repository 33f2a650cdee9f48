-------------------------------- MODULE Bots --------------------------------
(***************************************************************************)
(* The trading bots of one symbol (sim/strategy/bots.hpp) and the queue    *)
(* through which BotManager passes their orders to the snapshot thread.    *)
(* The thread's turn is: on_snapshot of every registered bot, in the order *)
(* of registration, then pop_order_for_symbol until the queue is empty.    *)
(*                                                                         *)
(* The random numbers are choices.  Prices are integers; a mid price is    *)
(* kept as bid + ask, twice its value, so that the mean reversion bot's    *)
(* comparison of a z-score, which is one of doubles, is exact.             *)
(***************************************************************************)
EXTENDS Integers, SequencesExt, FiniteSetsExt

CONSTANTS
    Parties,       \* the sequences of bots that may be registered
    Views,         \* pairs <<best bid, best ask>> that a snapshot may show
    INT64_MAX,     \* best ask of a book without asks
    MaxOpen,       \* m_max_open_orders: 3
    Ttl,           \* m_order_ttl: 1000 snapshots
    SpikeTtl,      \* m_spike_ttl: 1500
    Cooldown,      \* m_spike_cooldown_default: 2000
    Period,        \* snapshots per check of the market maker: 10
    BasePrice, MakerSpread,   \* the market maker's: 10000 and 100
    SpreadThreshold, MomentumThreshold,   \* 5 and 15
    Lookback, ZThreshold,     \* 20 and 2
    FirstId,       \* m_order_id of each kind of bot before its first order
    Capacity,      \* of the order queue: 65536
    MaxTurns       \* bound on the snapshots of a run

Kinds == {"MarketMaker", "Spread", "RandomWalk", "MeanReversion", "Momentum"}

(* main registers at most one bot of a kind for a symbol.  The kinds begin *)
(* to count at 50000, 10000, 20000, 30000 and 40000.                       *)
ASSUME BotsAssumption ==
    /\ {MaxOpen, Ttl, SpikeTtl, Cooldown, Period, Lookback} \subseteq Nat \ {0}
    /\ Ttl <= SpikeTtl
    /\ INT64_MAX \in Nat /\ Capacity \in Nat /\ MaxTurns \in Nat
    /\ \A p \in Parties : p \in Seq(Kinds) /\ \A i, j \in DOMAIN p : p[i] = p[j] => i = j
    /\ FirstId \in [Kinds -> Nat] /\ \A k, l \in Kinds : FirstId[k] = FirstId[l] => k = l

VARIABLES
    party,     \* m_bots_by_symbol for the symbol
    bot,       \* the members of each registered bot
    updates,   \* MarketMakerBot's static update_count, modulo Period
    queue,     \* the symbol's OrderQueue
    view,      \* the snapshot of this turn
    next,      \* place of the next bot in this turn; 0 before a snapshot
    turn,      \* number of the snapshot
    ids,       \* ids of all orders submitted
    sides,     \* sides that an order was submitted for
    clash,     \* has an id been submitted twice?
    recent,    \* turns and ids of each bot's last MaxOpen + 1 submissions
    spikes     \* turns of the last two spikes

vars == <<party, bot, updates, queue, view, next, turn, ids, sides, clash, recent, spikes>>

(* A bot's members: the counter of ids, the countdowns of its open orders  *)
(* (a vector whose order nothing depends on, here a function of the ids),  *)
(* the value it keeps from earlier snapshots, and those of one kind only.  *)
NewBot(k) ==
    [id |-> FirstId[k], ttls |-> << >>, last |-> IF k = "MarketMaker" THEN BasePrice ELSE 0,
     prices |-> << >>, cooldown |-> 0]

(* register_bot, for each bot of the symbol.                               *)
Init ==
    /\ party \in Parties
    /\ bot = [k \in ToSet(party) |-> NewBot(k)]
    /\ updates = 0
    /\ queue = << >>
    /\ view = << >>
    /\ next = 0
    /\ turn = 0
    /\ ids = {}
    /\ sides = {}
    /\ clash = FALSE
    /\ recent = [k \in ToSet(party) |-> << >>]
    /\ spikes = << >>

-----------------------------------------------------------------------------
(* What capture_snapshot makes of the best prices.                         *)
TwoSided(v) == v[1] # 0 /\ v[2] # INT64_MAX
Spread(v)   == IF TwoSided(v) THEN v[2] - v[1] ELSE 0
TwiceMid(v) == IF TwoSided(v) THEN v[1] + v[2] ELSE 0

(* Division of a double by two and its conversion to int64_t.              *)
Half(x) == IF x >= 0 THEN x \div 2 ELSE -((-x) \div 2)

(* A mutant of Expire: an order counts as expired one snapshot early.      *)
ExpireEarly(r) ==
    [r EXCEPT !.ttls = [i \in {j \in DOMAIN r.ttls : r.ttls[j] - 1 > 1} |-> r.ttls[i] - 1]]

(* Every bot but the market maker begins with this.                        *)
Expire(r) ==
    [r EXCEPT !.ttls = [i \in {j \in DOMAIN r.ttls : r.ttls[j] - 1 > 0} |-> r.ttls[i] - 1]]

Limit(r, side, price) == [id |-> r.id + 1, side |-> side, type |-> "LIMIT", price |-> price]

(* An outcome of on_snapshot: the bot afterwards and what it has submitted. *)
Outcome(r, orders) == [bot |-> r, orders |-> orders]

Open(r) == DOMAIN r.ttls

MayOpen(r) == Cardinality(Open(r)) < MaxOpen

PushBack(ttls, id, ttl) == [i \in DOMAIN ttls \cup {id} |-> IF i = id THEN ttl ELSE ttls[i]]

Tracked(r, ttl) == [r EXCEPT !.id = r.id + 1, !.ttls = PushBack(r.ttls, r.id + 1, ttl)]

(* The id is taken whether or not the order is submitted.                  *)
Signal(r, side, price) ==
    IF MayOpen(r) THEN Outcome(Tracked(r, Ttl), <<Limit(r, side, price)>>)
    ELSE Outcome([r EXCEPT !.id = @ + 1], << >>)

Buy(r, v)  == Signal(r, "BUY", v[2])
Sell(r, v) == Signal(r, "SELL", v[1])

(* MarketMakerBot: no limit on open orders, and a quote only every Period  *)
(* snapshots that any market maker of the program has seen.                *)
MarketMaker(r, v) ==
    LET half == MakerSpread \div 2
        bids == IF v[1] >= r.last - half THEN << >> ELSE <<Limit(r, "BUY", r.last - half)>>
        after == [r EXCEPT !.id = @ + Len(bids)]
        asks == IF v[2] <= r.last + half THEN << >> ELSE <<Limit(after, "SELL", r.last + half)>>
    IN  IF (updates + 1) % Period # 0 THEN {Outcome(r, << >>)}
        ELSE {Outcome([after EXCEPT !.id = @ + Len(asks),
                                    !.last = IF TwiceMid(v) > 0 THEN Half(TwiceMid(v)) ELSE @],
                     bids \o asks)}

SpreadBot(r, v) ==
    LET s == [r EXCEPT !.last = Spread(v)]
    IN  IF r.last = 0 THEN {Outcome(s, << >>)}
        ELSE IF Spread(v) - r.last > SpreadThreshold THEN {Buy(s, v)}
        ELSE IF Spread(v) - r.last < -SpreadThreshold THEN {Sell(s, v)}
        ELSE {Outcome(s, << >>)}

Cool(r) == IF r.cooldown > 0 THEN [r EXCEPT !.cooldown = @ - 1] ELSE r

(* A mutant of Spiked: the market order goes out under the last id.        *)
SpikedSameId(r) == [r EXCEPT !.ttls = PushBack(@, r.id, SpikeTtl), !.cooldown = Cooldown]

Spiked(r) == [Tracked(r, SpikeTtl) EXCEPT !.cooldown = Cooldown]

RandomWalk(r, v) ==
    LET quiet == {Outcome(Cool(r), << >>)}
        trade == IF MayOpen(r)
                 THEN {Outcome(Cool(Tracked(r, Ttl)), <<Limit(r, "BUY", v[2])>>),
                       Outcome(Cool(Tracked(r, Ttl)), <<Limit(r, "SELL", v[1])>>)}
                 ELSE {}
        spike == IF r.cooldown = 0 /\ Open(r) = {}
                 THEN {Outcome(Cool(Spiked(r)),
                               <<[id |-> Spiked(r).id, side |-> s, type |-> "MARKET", price |-> 0]>>)
                          : s \in {"BUY", "SELL"}}
                 ELSE {}
    IN  quiet \cup trade \cup spike

(* The window of mid prices, and its sum and sum of squared deviations,    *)
(* the latter times Lookback squared.                                      *)
Window(r, v) ==
    LET w == Append(r.prices, TwiceMid(v))
    IN  IF Len(w) > Lookback THEN Tail(w) ELSE w

Total(w) == FoldLeft(LAMBDA x, y : x + y, 0, w)
Deviation(w, p) == Lookback * p - Total(w)
Squares(w) == FoldLeft(LAMBDA x, p : x + Deviation(w, p) * Deviation(w, p), 0, w)

(* z-score * z-score > ZThreshold * ZThreshold                             *)
FarOff(w, p) == Lookback * Deviation(w, p) * Deviation(w, p) > ZThreshold * ZThreshold * Squares(w)

MeanReversion(r, v) ==
    LET w == Window(r, v)
        s == [r EXCEPT !.prices = w]
        d == Deviation(w, TwiceMid(v))
    IN  IF Len(w) < Lookback \/ Squares(w) = 0 \/ ~FarOff(w, TwiceMid(v)) THEN {Outcome(s, << >>)}
        ELSE IF d > 0 THEN {Sell(s, v)} ELSE {Buy(s, v)}

Momentum(r, v) ==
    LET change == Half(TwiceMid(v) - 2 * r.last)
        s == [r EXCEPT !.last = Half(TwiceMid(v))]
    IN  IF r.last = 0 THEN {Outcome(s, << >>)}
        ELSE IF change > MomentumThreshold THEN {Buy(s, v)}
        ELSE IF change < -MomentumThreshold THEN {Sell(s, v)}
        ELSE {Outcome(s, << >>)}

Outcomes(k, v) ==
    CASE k = "MarketMaker"   -> MarketMaker(bot[k], v)
      [] k = "Spread"        -> SpreadBot(Expire(bot[k]), v)
      [] k = "RandomWalk"    -> RandomWalk(Expire(bot[k]), v)
      [] k = "MeanReversion" -> MeanReversion(Expire(bot[k]), v)
      [] k = "Momentum"      -> Momentum(Expire(bot[k]), v)

-----------------------------------------------------------------------------
(* The thread has a valid snapshot for the bots.                           *)
TakeSnapshot(v) ==
    /\ next = 0
    /\ turn < MaxTurns
    /\ turn' = turn + 1
    /\ view' = v
    /\ next' = 1
    /\ UNCHANGED <<party, bot, updates, queue, ids, sides, clash, recent, spikes>>

Room == Capacity - Len(queue)

LastOf(seq, n) == IF Len(seq) <= n THEN seq ELSE SubSeq(seq, Len(seq) - n + 1, Len(seq))

(* on_snapshot of the next bot; push_order of what it submits.  The orders *)
(* that find the queue full are dropped.                                   *)
OnSnapshot ==
    LET k == party[next]
    IN  /\ next > 0 /\ next <= Len(party)
        /\ \E out \in Outcomes(k, view) :
              LET sent == {out.orders[i].id : i \in DOMAIN out.orders}
              IN  /\ bot' = [bot EXCEPT ![k] = out.bot]
                  /\ queue' = queue \o SubSeq(out.orders, 1, Min({Room, Len(out.orders)}))
                  /\ ids' = ids \cup sent
                  /\ sides' = sides \cup {out.orders[i].side : i \in DOMAIN out.orders}
                  /\ clash' = (clash \/ sent \cap ids # {} \/ Cardinality(sent) < Len(out.orders))
                  /\ recent' = IF out.orders = << >> THEN recent
                               ELSE [recent EXCEPT ![k] = LastOf(Append(@, [turn |-> turn, id |-> out.bot.id]),
                                                            MaxOpen + 1)]
                  /\ spikes' = IF out.orders # << >> /\ out.orders[1].type = "MARKET"
                               THEN LastOf(Append(spikes, turn), 2) ELSE spikes
        /\ updates' = IF k = "MarketMaker" THEN (updates + 1) % Period ELSE updates
        /\ next' = next + 1
        /\ UNCHANGED <<party, view, turn>>

(* The market makers of the other symbols count in the same variable, each *)
(* on its own thread and without a lock: by the time this symbol's maker   *)
(* reads it, it may have any value.                                        *)
OtherMaker ==
    /\ "MarketMaker" \in ToSet(party)
    /\ next = 0
    /\ updates' = (updates + 1) % Period
    /\ UNCHANGED <<party, bot, queue, view, next, turn, ids, sides, clash, recent, spikes>>

(* The loop over pop_order_for_symbol.                                     *)
PopOrders ==
    /\ next > Len(party)
    /\ queue' = << >>
    /\ next' = 0
    /\ UNCHANGED <<party, bot, updates, view, turn, ids, sides, clash, recent, spikes>>

Next ==
    \/ \E v \in Views : TakeSnapshot(v)
    \/ OnSnapshot
    \/ OtherMaker
    \/ PopOrders

Spec == Init /\ [][Next]_vars

-----------------------------------------------------------------------------
(* The countdowns limit how fast the bots that have m_max_open_orders, all *)
(* but the market maker, submit orders: of MaxOpen + 1 orders in a row,    *)
(* the last comes at least Ttl snapshots after the first.  The market      *)
(* orders of the random walk are rarer still, never two within Cooldown    *)
(* snapshots, whatever its limit orders do in between.  This does not say  *)
(* how many of a bot's orders are active (ActiveOrdersLimited).            *)
RateLimited ==
    /\ \A k \in DOMAIN bot \ {"MarketMaker"} :
          Len(recent[k]) = MaxOpen + 1 => Last(recent[k]).turn - Head(recent[k]).turn >= Ttl
    /\ Len(spikes) = 2 => spikes[2] - spikes[1] >= Cooldown

(* The bots of a symbol number their orders from counters of their own.    *)
(* No id comes twice until some bot's counter reaches another's range.     *)
OutOfRange(k, l) == FirstId[k] < FirstId[l] /\ bot[k].id > FirstId[l]

IdsDistinct == clash => \E k, l \in DOMAIN bot : OutOfRange(k, l)

(* The orders that a bot has submitted.                                    *)
Submitted(k) == {i \in ids : FirstId[k] < i /\ i <= bot[k].id}

(* "Each bot can only have 3 active orders at once": as long as all orders *)
(* are on one side nothing trades, and every order submitted is active; no *)
(* code cancels an order of a bot when its countdown ends.                 *)
ActiveOrdersLimited ==
    Cardinality(sides) <= 1 => \A k \in DOMAIN bot : Cardinality(Submitted(k)) <= MaxOpen
=============================================================================
