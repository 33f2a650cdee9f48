----------------------------- MODULE BotsProofs ------------------------------
(***************************************************************************)
(* Proofs about Bots: the countdowns bound the rate at which the bots, all *)
(* but the market maker, submit orders, and ids are distinct as long as no *)
(* counter leaves its range, for any bots, views, limits and number of     *)
(* snapshots.                                                              *)
(***************************************************************************)
EXTENDS Bots, FiniteSetTheorems, SequenceTheorems, TLAPS

(* What is kept of a submission.                                           *)
Entry == [turn : Nat, id : Nat]

(* A bot's members, and its countdowns.                                    *)
Fields == {"id", "ttls", "last", "prices", "cooldown"}

IsBot(r) ==
    /\ DOMAIN r = Fields
    /\ r.id \in Nat /\ r.cooldown \in Nat
    /\ IsFiniteSet(Open(r)) /\ \A i \in Open(r) : r.ttls[i] \in Nat

(* The bots that this turn's snapshot has not reached yet, and the last    *)
(* turn that a bot has seen.                                               *)
Waiting == IF next = 0 THEN {} ELSE {party[i] : i \in next .. Len(party)}

Seen(k) == IF k \in Waiting THEN turn - 1 ELSE turn

(* What the variables hold.                                                *)
BotsTypes ==
    /\ party \in Parties
    /\ DOMAIN bot = {party[i] : i \in 1 .. Len(party)} /\ DOMAIN recent = DOMAIN bot
    /\ turn \in Nat /\ next \in 0 .. Len(party) + 1
    /\ \A k \in DOMAIN bot : IsBot(bot[k]) /\ (k # "MarketMaker" => recent[k] \in Seq(Entry))
    /\ spikes \in Seq(Nat) /\ ids \subseteq Nat

(* The submissions rec of a bot r that has seen turn now: ids and turns    *)
(* grow, one that is younger than Ttl still has its countdown, and the     *)
(* first of MaxOpen + 1 is not.                                            *)
Remembered(r, rec, now) ==
    /\ Len(rec) <= MaxOpen + 1
    /\ \A i \in 1 .. Len(rec) : rec[i].id <= r.id /\ rec[i].turn <= now
    /\ \A i, j \in 1 .. Len(rec) : i < j => rec[i].id < rec[j].id /\ rec[i].turn <= rec[j].turn
    /\ \A i \in 1 .. Len(rec) :
          rec[i].turn + Ttl > now => /\ rec[i].id \in Open(r)
                                     /\ r.ttls[rec[i].id] >= rec[i].turn + Ttl - now
    /\ Len(rec) = MaxOpen + 1 => rec[MaxOpen + 1].turn - rec[1].turn >= Ttl

(* The cooldown that is left of the last spike.                            *)
Cooled ==
    /\ Len(spikes) <= 2 /\ (Len(spikes) = 2 => spikes[2] - spikes[1] >= Cooldown)
    /\ spikes # << >> =>
          /\ "RandomWalk" \in DOMAIN bot
          /\ bot["RandomWalk"].cooldown >= Cooldown - 1 - (Seen("RandomWalk") - spikes[Len(spikes)])

(* Every id is from the range that one of the counters has passed.         *)
Numbered ==
    /\ \A k \in DOMAIN bot : bot[k].id >= FirstId[k]
    /\ \A i \in ids : \E k \in DOMAIN bot : FirstId[k] < i /\ i <= bot[k].id

(* The inductive invariant.                                                *)
BInv ==
    /\ BotsTypes
    /\ \A k \in DOMAIN bot \ {"MarketMaker"} : Remembered(bot[k], recent[k], Seen(k))
    /\ Cooled
    /\ Numbered
    /\ IdsDistinct

-----------------------------------------------------------------------------
(* What the proofs use of the constants.                                   *)
LEMMA Constants ==
    /\ MaxOpen \in Nat \ {0} /\ Ttl \in Nat \ {0} /\ SpikeTtl \in Nat \ {0} /\ Cooldown \in Nat \ {0}
    /\ Ttl <= SpikeTtl
    /\ FirstId \in [Kinds -> Nat] /\ \A k, l \in Kinds : FirstId[k] = FirstId[l] => k = l
    /\ \A p \in Parties : /\ p \in Seq(Kinds) /\ Len(p) \in Nat
                          /\ \A i \in 1 .. Len(p) : p[i] \in Kinds
                          /\ \A i, j \in 1 .. Len(p) : p[i] = p[j] => i = j
<1>1. \A p \in Parties : p \in Seq(Kinds) /\ \A i, j \in DOMAIN p : p[i] = p[j] => i = j
  BY BotsAssumption
<1>2. ASSUME NEW p \in Parties
      PROVE  /\ p \in Seq(Kinds) /\ Len(p) \in Nat
             /\ \A i \in 1 .. Len(p) : p[i] \in Kinds
             /\ \A i, j \in 1 .. Len(p) : p[i] = p[j] => i = j
  <2>1. p \in Seq(Kinds) /\ DOMAIN p = 1 .. Len(p)
    BY <1>1
  <2> QED BY <1>1, <2>1
<1> QED BY <1>2, BotsAssumption

(* What is remembered has a turn and an id.                                *)
LEMMA Entries ==
    ASSUME NEW rec \in Seq(Entry)
    PROVE  Len(rec) \in Nat /\ \A i \in 1 .. Len(rec) : rec[i].turn \in Nat /\ rec[i].id \in Nat
<1>1. Len(rec) \in Nat /\ \A i \in 1 .. Len(rec) : rec[i] \in Entry
  OBVIOUS
<1>2. \A e \in Entry : e.turn \in Nat /\ e.id \in Nat
  BY DEF Entry
<1> QED BY <1>1, <1>2

(* The last n elements t of a sequence of at most n, and of an element e   *)
(* that has been appended.                                                 *)
Grown(S, seq, e, n, t) ==
    /\ t \in Seq(S) /\ t[Len(t)] = e
    /\ IF Len(seq) = n THEN Len(t) = n /\ \A i \in 1 .. n - 1 : t[i] = seq[i + 1]
       ELSE Len(t) = Len(seq) + 1 /\ \A i \in 1 .. Len(seq) : t[i] = seq[i]

LEMMA LastAppended ==
    ASSUME NEW S, NEW seq \in Seq(S), NEW e \in S, NEW n \in Nat \ {0}, Len(seq) <= n
    PROVE  Grown(S, seq, e, n, LastOf(Append(seq, e), n))
<1> DEFINE u == Append(seq, e)
           m == Len(seq)
<1>1. /\ u \in Seq(S) /\ m \in Nat /\ Len(u) = m + 1 /\ u[m + 1] = e
      /\ \A i \in 1 .. m : u[i] = seq[i]
  OBVIOUS
<1> HIDE DEF u
<1>2. CASE m < n
  <2>1. LastOf(u, n) = u
    BY <1>1, <1>2 DEF LastOf
  <2> QED BY <1>1, <1>2, <2>1 DEF u, Grown
<1>3. CASE m = n
  <2>1. LastOf(u, n) = SubSeq(u, 2, m + 1)
    <3>1. ~(Len(u) <= n) /\ Len(u) - n + 1 = 2
      BY <1>1, <1>3
    <3> QED BY <1>1, <3>1 DEF LastOf
  <2>2. /\ SubSeq(u, 2, m + 1) \in Seq(S) /\ Len(SubSeq(u, 2, m + 1)) = m
        /\ \A i \in 1 .. m : SubSeq(u, 2, m + 1)[i] = u[i + 1]
    <3>1. 2 \in 1 .. Len(u) + 1 /\ m + 1 \in 1 .. Len(u) /\ m >= 1
      BY <1>1, <1>3
    <3> DEFINE w == SubSeq(u, 2, m + 1)
    <3>2. /\ w \in Seq(S) /\ Len(w) = IF 2 <= m + 1 THEN m + 1 - 2 + 1 ELSE 0
          /\ \A i \in 1 .. m + 1 - 2 + 1 : w[i] = u[2 + i - 1]
      BY <1>1, <3>1, SubSeqProperties
    <3> HIDE DEF w
    <3>3. Len(w) = m /\ m + 1 - 2 + 1 = m
      BY <1>1, <3>1, <3>2
    <3>4. \A i \in 1 .. m : w[i] = u[i + 1]
      <4> SUFFICES ASSUME NEW i \in 1 .. m PROVE w[i] = u[i + 1]
        OBVIOUS
      <4>1. 2 + i - 1 = i + 1
        OBVIOUS
      <4> QED BY <3>2, <3>3, <4>1
    <3> QED BY <3>2, <3>3, <3>4 DEF w
  <2> DEFINE w == SubSeq(u, 2, m + 1)
  <2> HIDE DEF w
  <2>3. /\ w \in Seq(S) /\ Len(w) = n /\ w[n] = e
        /\ \A i \in 1 .. n - 1 : w[i] = seq[i + 1]
    <3>1. n \in 1 .. m /\ \A i \in 1 .. n - 1 : i \in 1 .. m /\ i + 1 \in 1 .. m
      BY <1>1, <1>3
    <3> QED BY <1>1, <1>3, <2>2, <3>1 DEF w
  <2>4. Grown(S, seq, e, n, w)
    BY <1>3, <2>3 DEF Grown
  <2> QED BY <2>1, <2>4 DEF u, w
<1> QED BY <1>1, <1>2, <1>3
-----------------------------------------------------------------------------
(* One countdown less for each open order.                                 *)
LEMMA Expiring ==
    ASSUME NEW r, IsBot(r)
    PROVE  LET s == Expire(r)
           IN  /\ IsBot(s) /\ s.id = r.id /\ s.cooldown = r.cooldown
               /\ \A i : i \in Open(s) <=> i \in Open(r) /\ r.ttls[i] > 1
               /\ \A i \in Open(s) : s.ttls[i] = r.ttls[i] - 1
<1> DEFINE D == {j \in Open(r) : r.ttls[j] - 1 > 0}
           f == [i \in D |-> r.ttls[i] - 1]
           s == Expire(r)
<1>1. s = [r EXCEPT !.ttls = f]
  BY DEF Expire, Open
<1>2. DOMAIN r = Fields /\ "ttls" \in Fields /\ "id" \in Fields /\ "cooldown" \in Fields
  BY DEF IsBot, Fields
<1> HIDE DEF f, s
<1>3. DOMAIN s = Fields /\ s.ttls = f /\ s.id = r.id /\ s.cooldown = r.cooldown
  BY <1>1, <1>2
<1>4. Open(s) = D
  BY <1>3 DEF Open, f
<1>5. IsFiniteSet(D) /\ \A i \in Open(r) : r.ttls[i] \in Nat
  <2>1. D \subseteq Open(r)
    OBVIOUS
  <2> HIDE DEF D
  <2> QED BY <2>1, FS_Subset DEF IsBot
<1>6. \A i \in D : f[i] = r.ttls[i] - 1 /\ f[i] \in Nat
  BY <1>5 DEF f
<1>7. IsBot(s)
  BY <1>3, <1>4, <1>5, <1>6 DEF IsBot
<1>8. \A i : i \in D <=> i \in Open(r) /\ r.ttls[i] > 1
  BY <1>5
<1> QED BY <1>3, <1>4, <1>6, <1>7, <1>8 DEF s

(* An order that is opened.                                                *)
LEMMA Tracking ==
    ASSUME NEW r, IsBot(r), NEW ttl \in Nat
    PROVE  LET s == Tracked(r, ttl)
           IN  /\ IsBot(s) /\ s.id = r.id + 1 /\ s.cooldown = r.cooldown
               /\ Open(s) = Open(r) \cup {r.id + 1} /\ s.ttls = PushBack(r.ttls, r.id + 1, ttl)
<1> DEFINE f == PushBack(r.ttls, r.id + 1, ttl)
           s == Tracked(r, ttl)
<1>1. s = [r EXCEPT !.id = r.id + 1, !.ttls = f]
  BY DEF Tracked
<1>2. DOMAIN r = Fields /\ "ttls" \in Fields /\ "id" \in Fields /\ "cooldown" \in Fields
  BY DEF IsBot, Fields
<1> HIDE DEF f, s
<1>3. DOMAIN s = Fields /\ s.ttls = f /\ s.id = r.id + 1 /\ s.cooldown = r.cooldown
  BY <1>1, <1>2
<1>4. Open(s) = Open(r) \cup {r.id + 1}
  BY <1>3 DEF Open, f, PushBack
<1>5. IsFiniteSet(Open(r) \cup {r.id + 1})
  BY FS_AddElement DEF IsBot
<1>6. \A i \in Open(r) \cup {r.id + 1} : f[i] = IF i = r.id + 1 THEN ttl ELSE r.ttls[i]
  BY DEF f, PushBack, Open
<1>7. IsBot(s)
  BY <1>3, <1>4, <1>5, <1>6 DEF IsBot
<1> QED BY <1>3, <1>4, <1>7 DEF s, f

-----------------------------------------------------------------------------
(* What a turn of a bot other than the market maker may do: nothing, or    *)
(* take an id for nothing; or submit one order, if fewer than MaxOpen are  *)
(* open.                                                                   *)
Idles(r, out) ==
    /\ out.orders = << >>
    /\ out.bot.ttls = r.ttls /\ out.bot.id \in {r.id, r.id + 1}

Submits(r, out) ==
    /\ Cardinality(Open(r)) < MaxOpen
    /\ out.bot.id = r.id + 1
    /\ \E ttl \in {Ttl, SpikeTtl} : out.bot.ttls = PushBack(r.ttls, r.id + 1, ttl)
    /\ \E o : out.orders = <<o>> /\ o.id = r.id + 1 /\ o.type \in {"LIMIT", "MARKET"}

(* The type of what is submitted; a market order has waited for the        *)
(* cooldown and begins another.                                            *)
NoSpike(out) == out.orders # << >> => out.orders[1].type = "LIMIT"

Spike(r, out) ==
    /\ out.orders # << >> /\ out.orders[1].type = "MARKET"
    /\ r.cooldown = 0 /\ out.bot.cooldown = Cooldown - 1

TakesTurn(r, out) == IsBot(out.bot) /\ (Idles(r, out) \/ Submits(r, out))

(* A member that the order limit does not read.                            *)
LEMMA Keeping ==
    ASSUME NEW r, IsBot(r), NEW s, NEW x, s = [r EXCEPT !.last = x] \/ s = [r EXCEPT !.prices = x]
    PROVE  /\ IsBot(s) /\ s.id = r.id /\ s.cooldown = r.cooldown
           /\ s.ttls = r.ttls /\ Open(s) = Open(r)
<1>1. DOMAIN r = Fields /\ {"ttls", "id", "cooldown", "last", "prices"} \subseteq DOMAIN r
  BY DEF IsBot, Fields
<1>2. /\ DOMAIN s = Fields /\ s.ttls = r.ttls /\ s.id = r.id /\ s.cooldown = r.cooldown
  BY <1>1
<1>3. Open(s) = Open(r)
  BY <1>2 DEF Open
<1> QED BY <1>2, <1>3 DEF IsBot

(* An id that is taken.                                                    *)
LEMMA Taking ==
    ASSUME NEW r, IsBot(r)
    PROVE  LET s == [r EXCEPT !.id = @ + 1]
           IN  IsBot(s) /\ s.id = r.id + 1 /\ s.cooldown = r.cooldown /\ s.ttls = r.ttls
<1> DEFINE s == [r EXCEPT !.id = @ + 1]
<1>1. DOMAIN r = Fields /\ {"ttls", "id", "cooldown", "last", "prices"} \subseteq DOMAIN r
  BY DEF IsBot, Fields
<1>2. DOMAIN s = Fields /\ s.ttls = r.ttls /\ s.id = r.id + 1 /\ s.cooldown = r.cooldown
  BY <1>1
<1>3. Open(s) = Open(r)
  BY <1>2 DEF Open
<1> HIDE DEF s
<1>4. IsBot(s)
  BY <1>2, <1>3 DEF IsBot
<1> QED BY <1>2, <1>4 DEF s

LEMMA Signalling ==
    ASSUME NEW r, IsBot(r), NEW side, NEW price
    PROVE  LET out == Signal(r, side, price)
           IN  TakesTurn(r, out) /\ NoSpike(out) /\ out.bot.cooldown = r.cooldown
<1> DEFINE out == Signal(r, side, price)
<1>1. CASE MayOpen(r)
  <2> DEFINE o == Limit(r, side, price)
             s == Tracked(r, Ttl)
  <2>1. IsBot(s) /\ s.id = r.id + 1 /\ s.cooldown = r.cooldown /\ s.ttls = PushBack(r.ttls, r.id + 1, Ttl)
    BY Tracking, Constants
  <2>2. out.bot = s /\ out.orders = <<o>>
    BY <1>1 DEF Signal, Outcome
  <2>3. o.id = r.id + 1 /\ o.type = "LIMIT"
    BY DEF Limit
  <2> HIDE DEF out, s, o
  <2>4. Submits(r, out)
    BY <1>1, <2>1, <2>2, <2>3 DEF Submits, MayOpen
  <2> QED BY <2>1, <2>2, <2>3, <2>4 DEF TakesTurn, NoSpike, out
<1>2. CASE ~MayOpen(r)
  <2> DEFINE s == [r EXCEPT !.id = @ + 1]
  <2>1. IsBot(s) /\ s.id = r.id + 1 /\ s.cooldown = r.cooldown /\ s.ttls = r.ttls
    BY Taking
  <2>2. out.bot = s /\ out.orders = << >>
    BY <1>2 DEF Signal, Outcome
  <2> HIDE DEF out, s
  <2> QED BY <2>1, <2>2 DEF TakesTurn, Idles, NoSpike, out
<1> QED BY <1>1, <1>2

(* The bots that send a signal when what they watch has moved enough.      *)
LEMMA Quiet ==
    ASSUME NEW r, IsBot(r)
    PROVE  LET out == Outcome(r, << >>)
           IN  TakesTurn(r, out) /\ NoSpike(out) /\ out.bot.cooldown = r.cooldown
BY DEF Outcome, TakesTurn, Idles, NoSpike, IsBot

LEMMA Signallers ==
    ASSUME NEW r, IsBot(r), NEW v,
           NEW outs, outs \in {SpreadBot(r, v), MeanReversion(r, v), Momentum(r, v)}, NEW out \in outs
    PROVE  TakesTurn(r, out) /\ NoSpike(out) /\ out.bot.cooldown = r.cooldown
<1>1. \E s : /\ \E x : s = [r EXCEPT !.last = x] \/ s = [r EXCEPT !.prices = x]
             /\ out \in {Outcome(s, << >>), Buy(s, v), Sell(s, v)}
  <2>1. CASE outs = SpreadBot(r, v)
    <3> DEFINE s == [r EXCEPT !.last = Spread(v)]
    <3>1. out \in {Outcome(s, << >>), Buy(s, v), Sell(s, v)}
      BY <2>1 DEF SpreadBot
    <3> QED BY <3>1
  <2>2. CASE outs = MeanReversion(r, v)
    <3> DEFINE s == [r EXCEPT !.prices = Window(r, v)]
    <3>1. out \in {Outcome(s, << >>), Buy(s, v), Sell(s, v)}
      BY <2>2 DEF MeanReversion
    <3> QED BY <3>1
  <2>3. CASE outs = Momentum(r, v)
    <3> DEFINE s == [r EXCEPT !.last = Half(TwiceMid(v))]
    <3>1. out \in {Outcome(s, << >>), Buy(s, v), Sell(s, v)}
      BY <2>3 DEF Momentum
    <3> QED BY <3>1
  <2> QED BY <2>1, <2>2, <2>3
<1>2. PICK s : /\ \E x : s = [r EXCEPT !.last = x] \/ s = [r EXCEPT !.prices = x]
               /\ out \in {Outcome(s, << >>), Buy(s, v), Sell(s, v)}
  BY <1>1
<1>3. IsBot(s) /\ s.id = r.id /\ s.cooldown = r.cooldown /\ s.ttls = r.ttls /\ Open(s) = Open(r)
  BY <1>2, Keeping
<1>4. TakesTurn(s, out) /\ NoSpike(out) /\ out.bot.cooldown = s.cooldown
  BY <1>2, <1>3, Quiet, Signalling DEF Buy, Sell
<1> QED BY <1>3, <1>4 DEF TakesTurn, Idles, Submits

(* One turn less of the cooldown.                                          *)
LEMMA Cooling ==
    ASSUME NEW r, IsBot(r)
    PROVE  LET s == Cool(r)
           IN  /\ IsBot(s) /\ s.id = r.id /\ s.ttls = r.ttls
               /\ s.cooldown = IF r.cooldown > 0 THEN r.cooldown - 1 ELSE r.cooldown
<1> DEFINE s == Cool(r)
<1>1. DOMAIN r = Fields /\ {"ttls", "id", "cooldown", "last", "prices"} \subseteq DOMAIN r
  BY DEF IsBot, Fields
<1>2. CASE r.cooldown > 0
  <2>1. s = [r EXCEPT !.cooldown = r.cooldown - 1]
    BY <1>2 DEF Cool
  <2>2. DOMAIN s = Fields /\ s.ttls = r.ttls /\ s.id = r.id /\ s.cooldown = r.cooldown - 1
    BY <1>1, <2>1
  <2>3. Open(s) = Open(r)
    BY <2>2 DEF Open
  <2> HIDE DEF s
  <2>4. IsBot(s)
    BY <1>2, <2>2, <2>3 DEF IsBot
  <2> QED BY <1>2, <2>2, <2>4 DEF s
<1>3. CASE ~(r.cooldown > 0)
  BY <1>3 DEF Cool
<1> QED BY <1>2, <1>3

LEMMA Walking ==
    ASSUME NEW r, IsBot(r), NEW v, NEW out \in RandomWalk(r, v)
    PROVE  /\ TakesTurn(r, out) /\ out.bot.cooldown >= r.cooldown - 1
           /\ NoSpike(out) \/ Spike(r, out)
<1> DEFINE limit(side, price) == Limit(r, side, price)
           market(side) == [id |-> Spiked(r).id, side |-> side, type |-> "MARKET", price |-> 0]
<1>1. \/ out = Outcome(Cool(r), << >>)
      \/ /\ MayOpen(r)
         /\ \E side, price : out = Outcome(Cool(Tracked(r, Ttl)), <<limit(side, price)>>)
      \/ /\ r.cooldown = 0 /\ Open(r) = {}
         /\ \E side : out = Outcome(Cool(Spiked(r)), <<market(side)>>)
  <2>1. \/ out \in {Outcome(Cool(r), << >>)}
        \/ /\ MayOpen(r)
           /\ out \in {Outcome(Cool(Tracked(r, Ttl)), <<Limit(r, "BUY", v[2])>>),
                       Outcome(Cool(Tracked(r, Ttl)), <<Limit(r, "SELL", v[1])>>)}
        \/ /\ r.cooldown = 0 /\ Open(r) = {}
           /\ out \in {Outcome(Cool(Spiked(r)), <<market(side)>>) : side \in {"BUY", "SELL"}}
    BY Zenon DEF RandomWalk
  <2> QED BY <2>1
<1>2. CASE out = Outcome(Cool(r), << >>)
  <2>1. out.bot = Cool(r) /\ out.orders = << >>
    BY <1>2 DEF Outcome
  <2> QED BY <2>1, Cooling DEF TakesTurn, Idles, NoSpike, IsBot
<1>3. CASE MayOpen(r) /\ \E side, price : out = Outcome(Cool(Tracked(r, Ttl)), <<limit(side, price)>>)
  <2>1. PICK side, price : out = Outcome(Cool(Tracked(r, Ttl)), <<limit(side, price)>>)
    BY <1>3
  <2> DEFINE o == limit(side, price)
             s == Tracked(r, Ttl)
  <2>2. IsBot(s) /\ s.id = r.id + 1 /\ s.cooldown = r.cooldown /\ s.ttls = PushBack(r.ttls, r.id + 1, Ttl)
    BY Tracking, Constants
  <2>3. o.id = r.id + 1 /\ o.type = "LIMIT"
    BY DEF Limit
  <2>4. out.bot = Cool(s) /\ out.orders = <<o>>
    BY <2>1 DEF Outcome
  <2> HIDE DEF s, o
  <2>5. /\ IsBot(out.bot) /\ out.bot.id = r.id + 1 /\ out.bot.ttls = PushBack(r.ttls, r.id + 1, Ttl)
        /\ out.bot.cooldown = IF r.cooldown > 0 THEN r.cooldown - 1 ELSE r.cooldown
    BY <2>2, <2>4, Cooling
  <2>6. Submits(r, out)
    BY <1>3, <2>3, <2>4, <2>5 DEF Submits, MayOpen
  <2> QED BY <2>3, <2>4, <2>5, <2>6 DEF TakesTurn, NoSpike, IsBot
<1>4. CASE r.cooldown = 0 /\ Open(r) = {} /\ \E side : out = Outcome(Cool(Spiked(r)), <<market(side)>>)
  <2>1. PICK side : out = Outcome(Cool(Spiked(r)), <<market(side)>>)
    BY <1>4
  <2> DEFINE o == market(side)
             s == Tracked(r, SpikeTtl)
             z == Spiked(r)
  <2>2. IsBot(s) /\ s.id = r.id + 1 /\ s.ttls = PushBack(r.ttls, r.id + 1, SpikeTtl)
    BY Tracking, Constants
  <2>3. /\ IsBot(z) /\ z.id = r.id + 1 /\ z.ttls = PushBack(r.ttls, r.id + 1, SpikeTtl)
        /\ z.cooldown = Cooldown
    <3>1. z = [s EXCEPT !.cooldown = Cooldown]
      BY DEF Spiked
    <3> HIDE DEF s, z
    <3>2. DOMAIN s = Fields /\ {"ttls", "id", "cooldown"} \subseteq DOMAIN s
      BY <2>2 DEF IsBot, Fields
    <3>3. DOMAIN z = Fields /\ z.ttls = s.ttls /\ z.id = s.id /\ z.cooldown = Cooldown
      BY <3>1, <3>2
    <3>4. Open(z) = Open(s)
      BY <3>3 DEF Open
    <3> QED BY <2>2, <3>3, <3>4, Constants DEF IsBot
  <2>4. o.id = z.id /\ o.type = "MARKET"
    OBVIOUS
  <2>5. out.bot = Cool(z) /\ out.orders = <<o>>
    BY <2>1 DEF Outcome
  <2> HIDE DEF s, o, z
  <2>6. /\ IsBot(out.bot) /\ out.bot.id = r.id + 1 /\ out.bot.ttls = PushBack(r.ttls, r.id + 1, SpikeTtl)
        /\ out.bot.cooldown = Cooldown - 1
    BY <2>3, <2>5, Cooling, Constants
  <2>7. Cardinality(Open(r)) < MaxOpen
    BY <1>4, FS_EmptySet, Constants
  <2>8. Submits(r, out)
    BY <2>3, <2>4, <2>5, <2>6, <2>7 DEF Submits
  <2> QED BY <1>4, <2>4, <2>5, <2>6, <2>8, Constants DEF TakesTurn, Spike
<1> QED BY <1>1, <1>2, <1>3, <1>4

(* The same of the bots as they are when the snapshot comes.               *)
LEMMA Turns ==
    ASSUME NEW k \in Kinds \ {"MarketMaker"}, IsBot(bot[k]), NEW v, NEW out \in Outcomes(k, v)
    PROVE  LET s == Expire(bot[k])
           IN  /\ IsBot(s) /\ TakesTurn(s, out) /\ out.bot.cooldown >= s.cooldown - 1
               /\ NoSpike(out) \/ (k = "RandomWalk" /\ Spike(s, out))
<1> DEFINE s == Expire(bot[k])
<1>1. IsBot(s) /\ s.cooldown \in Nat
  BY Expiring DEF IsBot
<1>2. out \in (CASE k = "Spread" -> SpreadBot(s, v)
              [] k = "RandomWalk" -> RandomWalk(s, v)
              [] k = "MeanReversion" -> MeanReversion(s, v)
              [] k = "Momentum" -> Momentum(s, v))
  <2>1. CASE k = "Spread"        BY <2>1 DEF Outcomes
  <2>2. CASE k = "RandomWalk"    BY <2>2 DEF Outcomes
  <2>3. CASE k = "MeanReversion" BY <2>3 DEF Outcomes
  <2>4. CASE k = "Momentum"      BY <2>4 DEF Outcomes
  <2> QED BY <2>1, <2>2, <2>3, <2>4 DEF Kinds
<1> HIDE DEF s
<1>3. CASE k = "RandomWalk"
  BY <1>1, <1>2, <1>3, Walking DEF s
<1>4. CASE k # "RandomWalk"
  <2>1. out \in SpreadBot(s, v) \/ out \in MeanReversion(s, v) \/ out \in Momentum(s, v)
    BY <1>2, <1>4 DEF Kinds
  <2>2. TakesTurn(s, out) /\ NoSpike(out) /\ out.bot.cooldown = s.cooldown
    BY <1>1, <2>1, Signallers
  <2> QED BY <1>1, <2>2 DEF s
<1> QED BY <1>3, <1>4

(* The market maker's quotes: at most one a side, numbered in a row.       *)
LEMMA Quoting ==
    ASSUME NEW r, IsBot(r), NEW v, NEW out \in MarketMaker(r, v)
    PROVE  /\ IsBot(out.bot) /\ DOMAIN out.orders = 1 .. Len(out.orders)
           /\ Len(out.orders) \in 0 .. 2 /\ out.bot.id = r.id + Len(out.orders)
           /\ \A i \in 1 .. Len(out.orders) :
                 out.orders[i].id = r.id + i /\ out.orders[i].type = "LIMIT"
<1> DEFINE half == MakerSpread \div 2
           bids == IF v[1] >= r.last - half THEN << >> ELSE <<Limit(r, "BUY", r.last - half)>>
           after == [r EXCEPT !.id = @ + Len(bids)]
           asks == IF v[2] <= r.last + half THEN << >> ELSE <<Limit(after, "SELL", r.last + half)>>
           base == IF TwiceMid(v) > 0 THEN Half(TwiceMid(v)) ELSE r.last
           s == [after EXCEPT !.id = @ + Len(asks), !.last = base]
<1>1. DOMAIN r = Fields /\ {"ttls", "id", "cooldown", "last", "prices"} \subseteq DOMAIN r /\ r.id \in Nat
  BY DEF IsBot, Fields
<1>2. CASE (updates + 1) % Period # 0
  <2>1. out = Outcome(r, << >>)
    BY <1>2 DEF MarketMaker
  <2>2. out.bot = r /\ out.orders = << >>
    BY <2>1 DEF Outcome
  <2> QED BY <1>1, <2>2
<1>3. CASE (updates + 1) % Period = 0
  <2>1. \E b, a : /\ bids = b /\ asks = a
                  /\ b = << >> \/ (\E o : b = <<o>> /\ o.id = r.id + 1 /\ o.type = "LIMIT")
                  /\ a = << >> \/ (\E o : a = <<o>> /\ o.id = after.id + 1 /\ o.type = "LIMIT")
    <3>1. bids = << >> \/ (\E o : bids = <<o>> /\ o.id = r.id + 1 /\ o.type = "LIMIT")
      BY DEF Limit
    <3> HIDE DEF after
    <3>2. asks = << >> \/ (\E o : asks = <<o>> /\ o.id = after.id + 1 /\ o.type = "LIMIT")
      BY DEF Limit
    <3> QED BY <3>1, <3>2
  <2>2. out = Outcome(s, bids \o asks)
    <3>1. out \in {Outcome([after EXCEPT !.id = @ + Len(asks),
                                         !.last = IF TwiceMid(v) > 0 THEN Half(TwiceMid(v)) ELSE @],
                           bids \o asks)}
      BY <1>3, Zenon DEF MarketMaker
    <3>2. after.last = r.last
      BY <1>1
    <3> QED BY <3>1, <3>2
  <2> HIDE DEF bids
  <2>3. DOMAIN after = Fields /\ after.id = r.id + Len(bids)
    BY <1>1
  <2>10. after.ttls = r.ttls /\ after.cooldown = r.cooldown
    BY <1>1
  <2> HIDE DEF after, asks
  <2>4. DOMAIN s = Fields /\ s.id = after.id + Len(asks) /\ s.ttls = r.ttls /\ s.cooldown = r.cooldown
    BY <2>3, <2>10, <1>1
  <2>5. Open(s) = Open(r)
    BY <2>4 DEF Open
  <2>6. out.bot = s /\ out.orders = bids \o asks
    BY <2>2 DEF Outcome
  <2> HIDE DEF s, base
  <2>7. /\ DOMAIN out.orders = 1 .. Len(out.orders)
        /\ Len(out.orders) \in 0 .. 2 /\ Len(out.orders) = Len(bids) + Len(asks) /\ Len(bids) \in Nat
        /\ Len(asks) \in Nat
        /\ \A i \in 1 .. Len(out.orders) : out.orders[i].id = r.id + i /\ out.orders[i].type = "LIMIT"
    <3>1. PICK b, a : /\ bids = b /\ asks = a
                      /\ b = << >> \/ (\E o : b = <<o>> /\ o.id = r.id + 1 /\ o.type = "LIMIT")
                      /\ a = << >> \/ (\E o : a = <<o>> /\ o.id = after.id + 1 /\ o.type = "LIMIT")
      BY <2>1
    <3>2. out.orders = b \o a /\ after.id = r.id + Len(b)
      BY <2>3, <2>6, <3>1
    <3>3. CASE b = << >> /\ a = << >>
      BY <1>1, <3>1, <3>2, <3>3
    <3>4. CASE b = << >> /\ a # << >>
      BY <1>1, <3>1, <3>2, <3>4
    <3>5. CASE b # << >> /\ a = << >>
      BY <1>1, <3>1, <3>2, <3>5
    <3>6. CASE b # << >> /\ a # << >>
      <4>1. PICK o, p : b = <<o>> /\ a = <<p>> /\ o.id = r.id + 1 /\ p.id = after.id + 1
                        /\ o.type = "LIMIT" /\ p.type = "LIMIT"
        BY <3>1, <3>6
      <4> DEFINE S == {o, p}
      <4>2. b \in Seq(S) /\ Len(b) = 1 /\ b[1] = o /\ a \in Seq(S) /\ Len(a) = 1 /\ a[1] = p
        BY <4>1
      <4> HIDE DEF S
      <4>3. /\ b \o a \in Seq(S) /\ Len(b \o a) = Len(b) + Len(a)
            /\ \A i \in 1 .. Len(b) + Len(a) : (b \o a)[i] = IF i <= Len(b) THEN b[i] ELSE a[i - Len(b)]
        BY <4>2, ConcatProperties
      <4>4. p.id = r.id + 2
        BY <1>1, <3>2, <4>1, <4>2
      <4>5. ASSUME NEW c, c = b \o a
            PROVE  /\ Len(c) = 2 /\ DOMAIN c = 1 .. Len(c)
                   /\ \A i \in 1 .. Len(c) : c[i].id = r.id + i /\ c[i].type = "LIMIT"
        <5>1. Len(c) = 2 /\ DOMAIN c = 1 .. Len(c) /\ c[1] = o /\ c[2] = p
          BY <4>2, <4>3, <4>5
        <5> QED BY <4>1, <4>4, <5>1
      <4>6. Len(bids) = 1 /\ Len(asks) = 1
        BY <3>1, <4>2
      <4>7. out.orders = b \o a
        BY <3>2
      <4>8. /\ Len(out.orders) = 2 /\ DOMAIN out.orders = 1 .. Len(out.orders)
            /\ \A i \in 1 .. Len(out.orders) : out.orders[i].id = r.id + i /\ out.orders[i].type = "LIMIT"
        BY <4>5, <4>7
      <4> QED BY <4>6, <4>8
    <3> QED BY <3>3, <3>4, <3>5, <3>6
  <2>8. out.bot.id = r.id + Len(out.orders)
    BY <1>1, <2>3, <2>4, <2>6, <2>7
  <2>9. IsBot(out.bot)
    BY <1>1, <2>3, <2>4, <2>5, <2>6, <2>7 DEF IsBot
  <2> QED BY <2>7, <2>8, <2>9
<1> QED BY <1>2, <1>3

(* What every bot submits: orders numbered in a row from its counter on.   *)
Sent(out) == {out.orders[i].id : i \in DOMAIN out.orders}

LEMMA Sending ==
    ASSUME NEW k \in Kinds, IsBot(bot[k]), NEW v, NEW out \in Outcomes(k, v)
    PROVE  /\ IsBot(out.bot) /\ out.bot.id >= bot[k].id
           /\ \A i \in Sent(out) : i \in Nat /\ bot[k].id < i /\ i <= out.bot.id
           /\ Cardinality(Sent(out)) = Len(out.orders) /\ Len(out.orders) \in Nat
           /\ k = "MarketMaker" => NoSpike(out)
<1> DEFINE sent == Sent(out)
           a == bot[k].id
<1>1. /\ IsBot(out.bot) /\ Len(out.orders) \in Nat /\ DOMAIN out.orders = 1 .. Len(out.orders)
      /\ a \in Nat /\ out.bot.id \in Nat /\ out.bot.id >= a + Len(out.orders)
      /\ \A i \in 1 .. Len(out.orders) : out.orders[i].id = a + i
      /\ k = "MarketMaker" => NoSpike(out)
  <2>1. CASE k = "MarketMaker"
    <3>1. out \in MarketMaker(bot[k], v)
      BY <2>1 DEF Outcomes
    <3>2. /\ IsBot(out.bot) /\ DOMAIN out.orders = 1 .. Len(out.orders)
          /\ Len(out.orders) \in 0 .. 2 /\ out.bot.id = a + Len(out.orders)
          /\ \A i \in 1 .. Len(out.orders) : out.orders[i].id = a + i /\ out.orders[i].type = "LIMIT"
      <4> DEFINE r == bot[k]
      <4>1. IsBot(r) /\ out \in MarketMaker(r, v)
        BY <3>1
      <4> HIDE DEF r
      <4>2. /\ IsBot(out.bot) /\ DOMAIN out.orders = 1 .. Len(out.orders)
            /\ Len(out.orders) \in 0 .. 2 /\ out.bot.id = r.id + Len(out.orders)
            /\ \A i \in 1 .. Len(out.orders) : out.orders[i].id = r.id + i /\ out.orders[i].type = "LIMIT"
        BY <4>1, Quoting
      <4> QED BY <4>2 DEF r
    <3>3. NoSpike(out)
      BY <3>2 DEF NoSpike
    <3> QED BY <3>2, <3>3 DEF IsBot
  <2>2. CASE k # "MarketMaker"
    <3> DEFINE s == Expire(bot[k])
    <3>1. IsBot(s) /\ TakesTurn(s, out) /\ s.id = a
      BY <2>2, Turns, Expiring
    <3> HIDE DEF s
    <3>2. CASE Idles(s, out)
      BY <2>2, <3>1, <3>2 DEF Idles, TakesTurn, IsBot
    <3>3. CASE Submits(s, out)
      <4>1. PICK o : out.orders = <<o>> /\ o.id = a + 1
        BY <3>1, <3>3 DEF Submits
      <4> QED BY <2>2, <3>1, <3>3, <4>1 DEF Submits, TakesTurn, IsBot
    <3> QED BY <3>1, <3>2, <3>3 DEF TakesTurn
  <2> QED BY <2>1, <2>2
<1> DEFINE n == Len(out.orders)
<1>2. sent = (a + 1) .. (a + n)
  <2>1. ASSUME NEW i \in (a + 1) .. (a + n) PROVE i \in sent
    <3>1. i - a \in 1 .. n /\ a + (i - a) = i
      BY <1>1
    <3> QED BY <1>1, <3>1 DEF Sent
  <2>2. ASSUME NEW i \in sent PROVE i \in (a + 1) .. (a + n)
    BY <1>1 DEF Sent
  <2> QED BY <2>1, <2>2
<1>3. Cardinality(sent) = n
  <2>1. a + 1 \in Int /\ a + n \in Int
    BY <1>1
  <2> HIDE DEF n, sent
  <2>2. Cardinality((a + 1) .. (a + n)) = IF a + 1 > a + n THEN 0 ELSE (a + n) - (a + 1) + 1
    BY <2>1, FS_Interval
  <2> QED BY <1>1, <1>2, <2>2 DEF n
<1>4. \A i \in sent : i \in Nat /\ bot[k].id < i /\ i <= out.bot.id
  <2> HIDE DEF sent
  <2> QED BY <1>1, <1>2
<1> QED BY <1>1, <1>3, <1>4

-----------------------------------------------------------------------------
(* A snapshot makes every submission a turn older.                         *)
LEMMA Aging ==
    ASSUME NEW r, IsBot(r), NEW rec \in Seq(Entry), NEW now \in Int, Remembered(r, rec, now)
    PROVE  Remembered(Expire(r), rec, now + 1)
<1> DEFINE s == Expire(r)
<1>1. /\ s.id = r.id /\ r.id \in Nat
      /\ \A i : i \in Open(s) <=> i \in Open(r) /\ r.ttls[i] > 1
      /\ \A i \in Open(s) : s.ttls[i] = r.ttls[i] - 1
      /\ \A i \in Open(r) : r.ttls[i] \in Nat
  BY Expiring DEF IsBot
<1>2. Len(rec) \in Nat /\ \A i \in 1 .. Len(rec) : rec[i].turn \in Nat /\ rec[i].id \in Nat
  BY Entries
<1> HIDE DEF s
<1>3. ASSUME NEW i \in 1 .. Len(rec), rec[i].turn + Ttl > now + 1
      PROVE  rec[i].id \in Open(s) /\ s.ttls[rec[i].id] >= rec[i].turn + Ttl - (now + 1)
  <2>1. rec[i].turn + Ttl > now /\ rec[i].turn + Ttl - now > 1 /\ rec[i].turn + Ttl - now \in Int
    BY <1>2, <1>3, Constants
  <2>2. rec[i].id \in Open(r) /\ r.ttls[rec[i].id] >= rec[i].turn + Ttl - now
    BY <2>1 DEF Remembered
  <2> DEFINE j == rec[i].id
             x == rec[i].turn + Ttl
  <2>3. j \in Open(r) /\ r.ttls[j] >= x - now /\ x \in Int /\ x - now > 1
    BY <1>2, <2>1, <2>2, Constants
  <2> HIDE DEF j, x
  <2>4. r.ttls[j] \in Nat
    BY <1>1, <2>3
  <2>5. r.ttls[j] > 1
    BY <2>3, <2>4
  <2>6. j \in Open(s) /\ s.ttls[j] = r.ttls[j] - 1
    BY <1>1, <2>3, <2>5
  <2>7. s.ttls[j] >= x - (now + 1)
    BY <2>3, <2>4, <2>6
  <2> QED BY <1>2, <2>3, <2>4, <2>6, <2>7, Constants DEF j, x
<1>4. \A i \in 1 .. Len(rec) : rec[i].id <= s.id /\ rec[i].turn <= now + 1
  BY <1>1, <1>2 DEF Remembered
<1> QED BY <1>3, <1>4 DEF Remembered, s

(* So many orders younger than Ttl are open at once.                       *)
LEMMA YoungAreOpen ==
    ASSUME NEW s, IsBot(s), NEW rec \in Seq(Entry), NEW now \in Int, Remembered(s, rec, now),
           NEW d \in Nat, NEW n \in Nat \ {0}, d + n = Len(rec), rec[d + 1].turn + Ttl > now
    PROVE  Cardinality(Open(s)) >= n
<1>1. Len(rec) \in Nat /\ \A i \in 1 .. Len(rec) : rec[i].turn \in Nat /\ rec[i].id \in Nat
  BY Entries
<1>2. ASSUME NEW i \in 1 .. n PROVE rec[i + d].id \in Open(s) /\ i + d \in 1 .. Len(rec)
  <2>1. i + d \in 1 .. Len(rec) /\ d + 1 \in 1 .. Len(rec) /\ (d + 1 < i + d \/ d + 1 = i + d)
    BY <1>1
  <2>2. rec[d + 1].turn <= rec[i + d].turn
    BY <1>1, <2>1 DEF Remembered
  <2>3. rec[i + d].turn + Ttl > now
    BY <1>1, <2>1, <2>2, Constants
  <2> QED BY <2>1, <2>3 DEF Remembered
<1> DEFINE f == [i \in 1 .. n |-> rec[i + d].id]
<1>3. f \in [1 .. n -> Open(s)]
  BY <1>2
<1>4. ASSUME NEW i \in 1 .. n, NEW j \in 1 .. n, i # j PROVE f[i] # f[j]
  <2>1. i + d \in 1 .. Len(rec) /\ j + d \in 1 .. Len(rec) /\ (i + d < j + d \/ j + d < i + d)
    BY <1>2, <1>4
  <2>2. rec[i + d].id < rec[j + d].id \/ rec[j + d].id < rec[i + d].id
    BY <2>1 DEF Remembered
  <2> QED BY <1>1, <2>1, <2>2
<1>5. IsFiniteSet(1 .. n) /\ Cardinality(1 .. n) = n
  BY FS_Interval
<1>6. IsFiniteSet(Open(s)) /\ Cardinality(Open(s)) \in Nat
  BY FS_CardinalityType DEF IsBot
<1> HIDE DEF f
<1> SUFFICES ASSUME Cardinality(Open(s)) < n PROVE FALSE
  BY <1>6
<1>7. \E i, j \in 1 .. n : i # j /\ f[i] = f[j]
  BY <1>3, <1>5, <1>6, FS_PigeonHole
<1> QED BY <1>4, <1>7

(* A submission is remembered as long as it counts.                        *)
LEMMA Remembering ==
    ASSUME NEW s, IsBot(s), NEW rec \in Seq(Entry), NEW now \in Nat, Remembered(s, rec, now),
           NEW out, TakesTurn(s, out)
    PROVE  LET new == IF out.orders = << >> THEN rec
                      ELSE LastOf(Append(rec, [turn |-> now, id |-> out.bot.id]), MaxOpen + 1)
           IN  new \in Seq(Entry) /\ Remembered(out.bot, new, now)
<1>1. Len(rec) \in Nat /\ \A i \in 1 .. Len(rec) : rec[i].turn \in Nat /\ rec[i].id \in Nat
  BY Entries
<1>2. CASE Idles(s, out)
  <2>1. out.orders = << >> /\ out.bot.ttls = s.ttls /\ out.bot.id >= s.id /\ s.id \in Nat /\ out.bot.id \in Nat
    BY <1>2 DEF Idles, TakesTurn, IsBot
  <2>2. Open(out.bot) = Open(s)
    BY <2>1 DEF Open
  <2>3. \A i \in 1 .. Len(rec) : rec[i].id <= out.bot.id /\ rec[i].turn <= now
    BY <1>1, <2>1 DEF Remembered
  <2>4. Remembered(out.bot, rec, now)
    BY <2>1, <2>2, <2>3 DEF Remembered
  <2> QED BY <2>1, <2>4
<1>3. CASE Submits(s, out)
  <2> DEFINE e == [turn |-> now, id |-> out.bot.id]
             t == LastOf(Append(rec, e), MaxOpen + 1)
             d == IF Len(rec) = MaxOpen + 1 THEN 1 ELSE 0
             z == out.bot
  <2>1. /\ Cardinality(Open(s)) < MaxOpen /\ z.id = s.id + 1 /\ s.id \in Nat /\ out.orders # << >>
        /\ IsBot(z)
    BY <1>3 DEF Submits, TakesTurn, IsBot
  <2>2. PICK ttl \in {Ttl, SpikeTtl} : z.ttls = PushBack(s.ttls, s.id + 1, ttl)
    BY <1>3 DEF Submits
  <2>3. ttl \in Nat /\ ttl >= Ttl
    BY Constants
  <2>4. /\ Open(z) = Open(s) \cup {s.id + 1} /\ z.ttls[s.id + 1] = ttl
        /\ \A i \in Open(s) : i # s.id + 1 => z.ttls[i] = s.ttls[i]
    BY <2>2 DEF Open, PushBack
  <2>5. /\ t \in Seq(Entry) /\ Len(t) = Len(rec) + 1 - d /\ Len(t) \in 1 .. MaxOpen + 1
        /\ t[Len(t)] = e
        /\ \A i \in 1 .. Len(t) - 1 : i + d \in 1 .. Len(rec) /\ t[i] = rec[i + d]
    <3>1. e \in Entry /\ MaxOpen + 1 \in Nat \ {0} /\ Len(rec) <= MaxOpen + 1
      BY <2>1, Constants DEF Entry, Remembered
    <3> DEFINE n == MaxOpen + 1
    <3> HIDE DEF e, n
    <3>2. Grown(Entry, rec, e, n, t)
      BY <3>1, LastAppended DEF n
    <3> HIDE DEF t
    <3>3. CASE Len(rec) = n
      <4>1. d = 1 /\ Len(t) = n /\ \A i \in 1 .. n - 1 : t[i] = rec[i + 1]
        BY <3>2, <3>3 DEF Grown, n
      <4> QED BY <3>1, <3>2, <3>3, <4>1 DEF Grown, n
    <3>4. CASE Len(rec) # n
      <4>1. d = 0 /\ Len(t) = Len(rec) + 1 /\ \A i \in 1 .. Len(rec) : t[i] = rec[i]
        BY <3>2, <3>4 DEF Grown, n
      <4> QED BY <1>1, <3>1, <3>2, <3>4, <4>1 DEF Grown, n
    <3> QED BY <3>3, <3>4
  <2>6. e.turn = now /\ e.id = s.id + 1 /\ d \in {0, 1}
    BY <2>1
  <2> HIDE DEF e, t, d, z
  <2>7. \A i \in 1 .. Len(rec) : rec[i].id <= s.id /\ rec[i].turn <= now
    BY DEF Remembered
  <2>8. \A i \in 1 .. Len(t) : t[i].id <= z.id /\ t[i].turn <= now
    <3> SUFFICES ASSUME NEW i \in 1 .. Len(t) PROVE t[i].id <= z.id /\ t[i].turn <= now
      OBVIOUS
    <3>1. CASE i = Len(t)
      BY <2>1, <2>5, <2>6, <3>1
    <3>2. CASE i \in 1 .. Len(t) - 1
      <4>1. i + d \in 1 .. Len(rec) /\ t[i] = rec[i + d]
        BY <2>5, <3>2
      <4> QED BY <1>1, <2>1, <2>7, <4>1
    <3> QED BY <2>5, <3>1, <3>2
  <2>9. \A i, j \in 1 .. Len(t) : i < j => t[i].id < t[j].id /\ t[i].turn <= t[j].turn
    <3> SUFFICES ASSUME NEW i \in 1 .. Len(t), NEW j \in 1 .. Len(t), i < j
                 PROVE  t[i].id < t[j].id /\ t[i].turn <= t[j].turn
      OBVIOUS
    <3>1. i \in 1 .. Len(t) - 1 /\ i + d \in 1 .. Len(rec) /\ t[i] = rec[i + d]
      BY <2>5
    <3>2. CASE j = Len(t)
      <4>1. t[j] = e
        BY <2>5, <3>2
      <4> QED BY <1>1, <2>1, <2>6, <2>7, <3>1, <4>1
    <3>3. CASE j \in 1 .. Len(t) - 1
      <4>1. j + d \in 1 .. Len(rec) /\ t[j] = rec[j + d] /\ i + d < j + d
        BY <2>5, <2>6, <3>3
      <4> QED BY <3>1, <4>1 DEF Remembered
    <3> QED BY <2>5, <3>2, <3>3
  <2>10. \A i \in 1 .. Len(t) :
            t[i].turn + Ttl > now => t[i].id \in Open(z) /\ z.ttls[t[i].id] >= t[i].turn + Ttl - now
    <3> SUFFICES ASSUME NEW i \in 1 .. Len(t), t[i].turn + Ttl > now
                 PROVE  t[i].id \in Open(z) /\ z.ttls[t[i].id] >= t[i].turn + Ttl - now
      OBVIOUS
    <3>1. CASE i = Len(t)
      <4>1. t[i] = e
        BY <2>5, <3>1
      <4> QED BY <2>3, <2>4, <2>6, <4>1, Constants
    <3>2. CASE i \in 1 .. Len(t) - 1
      <4>1. i + d \in 1 .. Len(rec) /\ t[i] = rec[i + d]
        BY <2>5, <3>2
      <4>2. rec[i + d].id \in Open(s) /\ s.ttls[rec[i + d].id] >= rec[i + d].turn + Ttl - now
        BY <4>1 DEF Remembered
      <4>3. rec[i + d].id # s.id + 1
        BY <1>1, <2>1, <2>7, <4>1
      <4> QED BY <2>4, <4>1, <4>2, <4>3
    <3> QED BY <2>5, <3>1, <3>2
  <2>11. ASSUME Len(t) = MaxOpen + 1 PROVE t[MaxOpen + 1].turn - t[1].turn >= Ttl
    <3>1. t[MaxOpen + 1].turn = now
      BY <2>5, <2>6, <2>11
    <3>2. 1 + d \in 1 .. Len(rec) /\ t[1] = rec[1 + d] /\ d + MaxOpen = Len(rec)
      BY <1>1, <2>5, <2>6, <2>11, Constants
    <3>3. d + 1 = 1 + d /\ rec[d + 1].turn \in Nat /\ d \in Nat
      BY <1>1, <2>6, <3>2
    <3>4. ASSUME rec[d + 1].turn + Ttl > now PROVE FALSE
      <4>1. Cardinality(Open(s)) >= MaxOpen
        BY <3>2, <3>3, <3>4, YoungAreOpen, Constants
      <4>2. Cardinality(Open(s)) \in Nat
        BY FS_CardinalityType DEF IsBot
      <4> QED BY <2>1, <4>1, <4>2, Constants
    <3> QED BY <3>1, <3>2, <3>3, <3>4, Constants
  <2>12. Remembered(z, t, now)
    BY <2>5, <2>8, <2>9, <2>10, <2>11 DEF Remembered
  <2> QED BY <2>1, <2>5, <2>12 DEF z, t, e
<1> QED BY <1>2, <1>3 DEF TakesTurn

-----------------------------------------------------------------------------
(* The bots when none has been reached: those of main, fresh.              *)
LEMMA InitBInv == Init => BInv
<1> SUFFICES ASSUME Init PROVE BInv
  OBVIOUS
<1>1. /\ party \in Parties /\ Len(party) \in Nat /\ party \in Seq(Kinds)
      /\ \A i \in 1 .. Len(party) : party[i] \in Kinds
  BY Constants DEF Init
<1>2. ToSet(party) = {party[i] : i \in 1 .. Len(party)}
  <2>1. DOMAIN party = 1 .. Len(party)
    BY <1>1
  <2> QED BY <2>1, Zenon DEF ToSet
<1>3. /\ DOMAIN bot = {party[i] : i \in 1 .. Len(party)} /\ DOMAIN recent = DOMAIN bot
      /\ \A k \in DOMAIN bot : bot[k] = NewBot(k) /\ recent[k] = << >> /\ k \in Kinds
  BY <1>1, <1>2 DEF Init
<1>4. ASSUME NEW k \in Kinds PROVE IsBot(NewBot(k)) /\ NewBot(k).id = FirstId[k] /\ FirstId[k] \in Nat
  <2> DEFINE r == NewBot(k)
  <2>1. /\ DOMAIN r = Fields /\ r.id = FirstId[k] /\ r.ttls = << >> /\ r.cooldown = 0
    BY DEF NewBot, Fields
  <2>2. FirstId[k] \in Nat
    BY Constants
  <2> HIDE DEF r
  <2>3. Open(r) = {}
    BY <2>1 DEF Open
  <2>4. IsBot(r)
    BY <2>1, <2>2, <2>3, FS_EmptySet DEF IsBot
  <2> QED BY <2>1, <2>2, <2>4 DEF r
<1>5. BotsTypes
  BY <1>1, <1>3, <1>4 DEF Init, BotsTypes
<1>6. \A k \in DOMAIN bot \ {"MarketMaker"} : Remembered(bot[k], recent[k], Seen(k))
  <2> SUFFICES ASSUME NEW k \in DOMAIN bot PROVE Remembered(bot[k], recent[k], Seen(k))
    OBVIOUS
  <2>1. recent[k] = << >> /\ Len(<< >>) = 0 /\ 0 # MaxOpen + 1 /\ 0 <= MaxOpen + 1
    BY <1>3, Constants
  <2> QED BY <2>1 DEF Remembered
<1>7. Cooled
  BY DEF Init, Cooled
<1>8. Numbered
  BY <1>3, <1>4 DEF Init, Numbered
<1>9. IdsDistinct
  BY DEF Init, IdsDistinct
<1> QED BY <1>5, <1>6, <1>7, <1>8, <1>9 DEF BInv

(* A step that no bot sees.                                                *)
LEMMA UnseenStep ==
    ASSUME BInv, UNCHANGED <<party, bot, ids, clash, recent, spikes>>,
           turn' \in Nat, next' \in 0 .. Len(party) + 1,
           \A k \in DOMAIN bot : Seen(k)' = Seen(k)
    PROVE  BInv'
<1>1. BotsTypes'
  BY DEF BInv, BotsTypes
<1>2. (\A k \in DOMAIN bot \ {"MarketMaker"} : Remembered(bot[k], recent[k], Seen(k)))'
  BY DEF BInv
<1>3. Cooled'
  BY DEF BInv, Cooled
<1>4. Numbered'
  BY DEF BInv, Numbered
<1>5. IdsDistinct'
  BY DEF BInv, IdsDistinct, OutOfRange
<1> QED BY <1>1, <1>2, <1>3, <1>4, <1>5 DEF BInv

LEMMA TakeSnapshotStep == ASSUME BInv, NEW v \in Views, TakeSnapshot(v) PROVE BInv'
<1>1. turn \in Nat /\ DOMAIN bot = {party[i] : i \in 1 .. Len(party)} /\ Len(party) \in Nat
  BY Constants DEF BInv, BotsTypes
<1>2. next = 0 /\ next' = 1 /\ turn' = turn + 1 /\ party' = party
  BY DEF TakeSnapshot
<1>3. Waiting = {} /\ Waiting' = DOMAIN bot
  BY <1>1, <1>2 DEF Waiting
<1>4. \A k \in DOMAIN bot : Seen(k)' = Seen(k)
  BY <1>1, <1>2, <1>3 DEF Seen
<1>5. UNCHANGED <<party, bot, ids, clash, recent, spikes>> /\ turn' \in Nat /\ next' \in 0 .. Len(party) + 1
  BY <1>1, <1>2 DEF TakeSnapshot
<1> QED BY <1>4, <1>5, UnseenStep

LEMMA PopOrdersStep == ASSUME BInv, PopOrders PROVE BInv'
<1>1. /\ turn \in Nat /\ Len(party) \in Nat /\ next \in 0 .. Len(party) + 1
      /\ next > Len(party) /\ next' = 0 /\ party' = party /\ turn' = turn
  BY Constants DEF BInv, BotsTypes, PopOrders
<1>2. Waiting = {} /\ Waiting' = {}
  <2>1. next .. Len(party) = {}
    BY <1>1
  <2> QED BY <1>1, <2>1 DEF Waiting
<1>3. \A k \in DOMAIN bot : Seen(k)' = Seen(k)
  BY <1>1, <1>2 DEF Seen
<1>4. UNCHANGED <<party, bot, ids, clash, recent, spikes>> /\ turn' \in Nat /\ next' \in 0 .. Len(party) + 1
  BY <1>1 DEF PopOrders
<1> QED BY <1>3, <1>4, UnseenStep

LEMMA StutterStep ==
    ASSUME BInv, UNCHANGED <<party, bot, view, next, turn, ids, clash, recent, spikes>> PROVE BInv'
<1>1. turn' \in Nat /\ next' \in 0 .. Len(party) + 1
  BY DEF BInv, BotsTypes
<1>2. \A k \in DOMAIN bot : Seen(k)' = Seen(k)
  BY DEF Seen, Waiting
<1> QED BY <1>1, <1>2, UnseenStep

-----------------------------------------------------------------------------
(* on_snapshot of the bot k, with an outcome out.                          *)
OnSnapshotOf(k, out) ==
    /\ k = party[next] /\ next > 0 /\ next <= Len(party)
    /\ out \in Outcomes(k, view)
    /\ bot' = [bot EXCEPT ![k] = out.bot]
    /\ ids' = ids \cup Sent(out)
    /\ clash' = (clash \/ Sent(out) \cap ids # {} \/ Cardinality(Sent(out)) < Len(out.orders))
    /\ recent' = IF out.orders = << >> THEN recent
                 ELSE [recent EXCEPT ![k] = LastOf(Append(@, [turn |-> turn, id |-> out.bot.id]),
                                              MaxOpen + 1)]
    /\ spikes' = IF out.orders # << >> /\ out.orders[1].type = "MARKET"
                 THEN LastOf(Append(spikes, turn), 2) ELSE spikes
    /\ next' = next + 1
    /\ UNCHANGED <<party, view, turn>>

(* Whose turn it is, and who still waits.                                  *)
LEMMA WhoseTurn ==
    ASSUME BInv, NEW k, NEW out, OnSnapshotOf(k, out)
    PROVE  /\ k \in Kinds /\ k \in DOMAIN bot /\ DOMAIN bot \subseteq Kinds
           /\ IsBot(bot[k]) /\ turn \in Nat
           /\ Seen(k) = turn - 1 /\ Seen(k)' = turn
           /\ \A l \in DOMAIN bot \ {k} : Seen(l)' = Seen(l)
<1>1. /\ party \in Parties /\ turn \in Nat /\ Len(party) \in Nat /\ next \in 1 .. Len(party)
      /\ DOMAIN bot = {party[i] : i \in 1 .. Len(party)} /\ k = party[next]
      /\ \A i \in 1 .. Len(party) : party[i] \in Kinds
      /\ \A i, j \in 1 .. Len(party) : party[i] = party[j] => i = j
      /\ next' = next + 1 /\ party' = party /\ turn' = turn
  <2>1. party \in Parties /\ turn \in Nat /\ next \in 0 .. Len(party) + 1
        /\ DOMAIN bot = {party[i] : i \in 1 .. Len(party)}
    BY DEF BInv, BotsTypes
  <2>2. /\ k = party[next] /\ next > 0 /\ next <= Len(party)
        /\ next' = next + 1 /\ party' = party /\ turn' = turn
    BY DEF OnSnapshotOf
  <2>3. /\ Len(party) \in Nat /\ \A i \in 1 .. Len(party) : party[i] \in Kinds
        /\ \A i, j \in 1 .. Len(party) : party[i] = party[j] => i = j
    BY <2>1, Constants
  <2>4. next \in 1 .. Len(party)
    BY <2>1, <2>2, <2>3
  <2> QED BY <2>1, <2>2, <2>3, <2>4
<1>2. Waiting = {party[i] : i \in next .. Len(party)} /\ Waiting' = {party[i] : i \in next + 1 .. Len(party)}
  BY <1>1 DEF Waiting
<1>3. k \in Waiting
  BY <1>1, <1>2
<1>4. k \notin Waiting'
  <2> SUFFICES ASSUME NEW i \in next + 1 .. Len(party), party[i] = k PROVE FALSE
    BY <1>2
  <2>1. i \in 1 .. Len(party) /\ i # next
    BY <1>1
  <2> QED BY <1>1, <2>1
<1>5. ASSUME NEW l, l # k PROVE l \in Waiting' <=> l \in Waiting
  <2>1. ASSUME NEW i \in next .. Len(party), l = party[i] PROVE i \in next + 1 .. Len(party)
    BY <1>1, <1>5, <2>1
  <2>2. next + 1 .. Len(party) \subseteq next .. Len(party)
    BY <1>1
  <2> QED BY <1>2, <2>1, <2>2
<1>6. Seen(k) = turn - 1 /\ Seen(k)' = turn
  BY <1>1, <1>3, <1>4 DEF Seen
<1>7. \A l \in DOMAIN bot \ {k} : Seen(l)' = Seen(l)
  BY <1>1, <1>5 DEF Seen
<1>8. k \in Kinds /\ k \in DOMAIN bot /\ DOMAIN bot \subseteq Kinds
  BY <1>1
<1>9. IsBot(bot[k])
  BY <1>8 DEF BInv, BotsTypes
<1> QED BY <1>1, <1>6, <1>7, <1>8, <1>9

(* What the bot k and the record of its submissions are afterwards.        *)
LEMMA TypesStep ==
    ASSUME BInv, NEW k, NEW out, OnSnapshotOf(k, out)
    PROVE  /\ DOMAIN bot' = DOMAIN bot /\ bot'[k] = out.bot
           /\ \A l \in DOMAIN bot \ {k} : bot'[l] = bot[l] /\ recent'[l] = recent[l]
           /\ recent'[k] = IF out.orders = << >> THEN recent[k]
                           ELSE LastOf(Append(recent[k], [turn |-> turn, id |-> out.bot.id]), MaxOpen + 1)
           /\ DOMAIN recent' = DOMAIN recent
BY WhoseTurn DEF BInv, BotsTypes, OnSnapshotOf

LEMMA RememberedStep ==
    ASSUME BInv, NEW k, NEW out, OnSnapshotOf(k, out), k # "MarketMaker"
    PROVE  recent'[k] \in Seq(Entry) /\ Remembered(bot'[k], recent'[k], Seen(k)')
<1> DEFINE s == Expire(bot[k])
<1>1. /\ IsBot(bot[k]) /\ recent[k] \in Seq(Entry) /\ turn \in Nat /\ Seen(k) = turn - 1 /\ Seen(k)' = turn
      /\ Remembered(bot[k], recent[k], turn - 1) /\ k \in Kinds
  BY WhoseTurn DEF BInv, BotsTypes
<1>2. IsBot(s) /\ TakesTurn(s, out)
  BY <1>1, Turns DEF OnSnapshotOf
<1>3. Remembered(s, recent[k], turn)
  <2>1. turn - 1 \in Int /\ turn - 1 + 1 = turn
    BY <1>1
  <2>2. Remembered(s, recent[k], turn - 1 + 1)
    BY <1>1, <2>1, Aging
  <2> QED BY <2>1, <2>2
<1> HIDE DEF s
<1>4. LET new == IF out.orders = << >> THEN recent[k]
                 ELSE LastOf(Append(recent[k], [turn |-> turn, id |-> out.bot.id]), MaxOpen + 1)
      IN  new \in Seq(Entry) /\ Remembered(out.bot, new, turn)
  BY <1>1, <1>2, <1>3, Remembering
<1> QED BY <1>1, <1>4, TypesStep

(* Of the last n, the one before the appended element was the last.        *)
LEMMA LastButOne ==
    ASSUME NEW S, NEW seq \in Seq(S), NEW e, NEW n \in Nat \ {0}, Len(seq) <= n,
           NEW t, Grown(S, seq, e, n, t)
    PROVE  /\ Len(t) \in 1 .. n /\ t[Len(t)] = e
           /\ Len(t) > 1 => seq # << >> /\ t[Len(t) - 1] = seq[Len(seq)]
<1> DEFINE m == Len(seq)
           l == Len(t)
<1>1. t \in Seq(S) /\ l \in 1 .. n /\ t[l] = e
  BY DEF Grown
<1>2. m \in Nat /\ (m # 0 => seq # << >>)
  OBVIOUS
<1>3. CASE m = n
  <2>1. l = n /\ \A i \in 1 .. n - 1 : t[i] = seq[i + 1]
    BY <1>3 DEF Grown
  <2> HIDE DEF l, m
  <2>2. ASSUME l > 1 PROVE t[l - 1] = seq[m] /\ m # 0
    <3>1. l - 1 \in 1 .. n - 1 /\ (l - 1) + 1 = m
      BY <1>1, <1>2, <1>3, <2>1, <2>2
    <3>2. t[l - 1] = seq[(l - 1) + 1]
      BY <2>1, <3>1
    <3> QED BY <1>3, <3>1, <3>2
  <2> QED BY <1>1, <1>2, <2>2 DEF l, m
<1>4. CASE m # n
  <2>1. l = m + 1 /\ \A i \in 1 .. m : t[i] = seq[i]
    BY <1>4 DEF Grown
  <2> HIDE DEF l, m
  <2>2. ASSUME l > 1 PROVE t[l - 1] = seq[m] /\ m # 0
    BY <1>1, <1>2, <2>1, <2>2
  <2> QED BY <1>1, <1>2, <2>2 DEF l, m
<1> QED BY <1>3, <1>4

LEMMA CooledStep ==
    ASSUME BInv, NEW k, NEW out, OnSnapshotOf(k, out)
    PROVE  Cooled' /\ spikes' \in Seq(Nat)
<1> DEFINE W == "RandomWalk"
           s == Expire(bot[k])
<1>1. /\ k \in Kinds /\ k \in DOMAIN bot /\ IsBot(bot[k]) /\ turn \in Nat /\ Seen(k) = turn - 1 /\ Seen(k)' = turn
      /\ \A l \in DOMAIN bot \ {k} : Seen(l)' = Seen(l)
      /\ DOMAIN bot' = DOMAIN bot /\ bot'[k] = out.bot
      /\ \A l \in DOMAIN bot \ {k} : bot'[l] = bot[l]
      /\ spikes \in Seq(Nat) /\ Cooled
      /\ out \in Outcomes(k, view)
  BY WhoseTurn, TypesStep DEF BInv, BotsTypes, OnSnapshotOf
<1>2. Len(spikes) \in Nat /\ (spikes # << >> => Len(spikes) >= 1 /\ spikes[Len(spikes)] \in Nat)
  BY <1>1
<1>3. IsBot(out.bot) /\ out.bot.cooldown \in Nat /\ bot[k].cooldown \in Nat
  BY <1>1, Sending DEF IsBot
<1>4. CASE NoSpike(out)
  <2>1. spikes' = spikes
    BY <1>4 DEF OnSnapshotOf, NoSpike
  <2>2. CASE spikes = << >>
    BY <1>1, <2>1, <2>2 DEF Cooled
  <2>3. CASE spikes # << >> /\ k # W
    <3>1. bot'[W] = bot[W] /\ Seen(W)' = Seen(W) /\ W \in DOMAIN bot
      BY <1>1, <2>3 DEF Cooled
    <3> QED BY <1>1, <2>1, <2>3, <3>1 DEF Cooled
  <2>4. CASE spikes # << >> /\ k = W
    <3>1. s.cooldown = bot[k].cooldown /\ out.bot.cooldown >= s.cooldown - 1
      BY <1>1, <2>4, Turns, Expiring
    <3>2. bot[k].cooldown >= Cooldown - 1 - (turn - 1 - spikes[Len(spikes)])
      BY <1>1, <2>4 DEF Cooled
    <3>3. out.bot.cooldown >= Cooldown - 1 - (turn - spikes[Len(spikes)])
      <4> DEFINE x == spikes[Len(spikes)]
                 c == out.bot.cooldown
                 b == bot[k].cooldown
      <4>1. /\ x \in Nat /\ c \in Nat /\ b \in Nat /\ turn \in Nat /\ Cooldown \in Nat
            /\ c >= b - 1 /\ b >= Cooldown - 1 - (turn - 1 - x)
        BY <1>1, <1>2, <1>3, <2>4, <3>1, <3>2, Constants
      <4> HIDE DEF x, c, b
      <4>2. c >= Cooldown - 1 - (turn - x)
        BY <4>1
      <4> QED BY <4>2 DEF x, c
    <3> QED BY <1>1, <2>1, <2>4, <3>3 DEF Cooled
  <2> QED BY <1>1, <2>1, <2>2, <2>3, <2>4
<1>5. CASE ~NoSpike(out)
  <2>1. k = W /\ Spike(s, out) /\ s.cooldown = bot[k].cooldown
    <3>1. k # "MarketMaker"
      BY <1>1, <1>5, Sending
    <3> QED BY <1>1, <1>5, <3>1, Turns, Expiring
  <2>2. /\ spikes' = LastOf(Append(spikes, turn), 2) /\ bot[W].cooldown = 0
        /\ bot'[W].cooldown = Cooldown - 1 /\ Seen(W)' = turn /\ Seen(W) = turn - 1
    BY <1>1, <2>1 DEF OnSnapshotOf, Spike
  <2> DEFINE n == 2
             t == LastOf(Append(spikes, turn), n)
  <2>3. spikes \in Seq(Nat) /\ turn \in Nat /\ Len(spikes) <= n /\ spikes' = t
    BY <1>1, <1>2, <2>2 DEF Cooled
  <2>4. n \in Nat \ {0}
    OBVIOUS
  <2> HIDE DEF n
  <2>10. Grown(Nat, spikes, turn, n, t)
    BY <2>3, <2>4, LastAppended
  <2> HIDE DEF t
  <2> DEFINE l == Len(t)
             x == spikes[Len(spikes)]
  <2>11. l \in 1 .. n /\ t[l] = turn /\ (l > 1 => spikes # << >> /\ t[l - 1] = x)
    BY <2>3, <2>4, <2>10, LastButOne
  <2>5. t \in Seq(Nat)
    BY <2>10 DEF Grown
  <2> HIDE DEF l
  <2>12. l <= 2
    BY <2>11 DEF n
  <2>6. l = 2 => t[2] - t[1] >= Cooldown
    <3> SUFFICES ASSUME l = 2 PROVE t[2] - t[1] >= Cooldown
      OBVIOUS
    <3>1. l > 1 /\ l - 1 = 1
      OBVIOUS
    <3>2. spikes # << >> /\ t[1] = x /\ t[2] = turn
      BY <2>11, <3>1
    <3>3. 0 >= Cooldown - 1 - (turn - 1 - x) /\ x \in Nat
      BY <1>1, <1>2, <2>2, <3>2 DEF Cooled
    <3> HIDE DEF x
    <3>4. turn - x >= Cooldown
      <4>1. turn \in Nat /\ Cooldown \in Nat
        BY <1>1, Constants
      <4> QED BY <3>3, <4>1
    <3> QED BY <3>2, <3>4
  <2>7. bot'[W].cooldown >= Cooldown - 1 - (Seen(W)' - t[l]) /\ W \in DOMAIN bot'
    BY <1>1, <2>1, <2>2, <2>11, Constants
  <2>8. Cooled'
    BY <2>3, <2>6, <2>7, <2>12 DEF Cooled, l
  <2> QED BY <2>3, <2>5, <2>8
<1> QED BY <1>4, <1>5

(* Counters only grow, and an id comes from the counter of its bot.        *)
LEMMA NumberedStep ==
    ASSUME BInv, NEW k, NEW out, OnSnapshotOf(k, out)
    PROVE  Numbered' /\ IdsDistinct' /\ ids' \subseteq Nat
<1> DEFINE sent == Sent(out)
<1>1. /\ k \in Kinds /\ k \in DOMAIN bot /\ DOMAIN bot \subseteq Kinds /\ DOMAIN bot' = DOMAIN bot
      /\ bot'[k] = out.bot /\ \A l \in DOMAIN bot \ {k} : bot'[l] = bot[l]
  BY WhoseTurn, TypesStep
<1>2. /\ IsBot(out.bot) /\ out.bot.id >= bot[k].id
      /\ \A i \in sent : i \in Nat /\ bot[k].id < i /\ i <= out.bot.id
      /\ Cardinality(sent) = Len(out.orders) /\ Len(out.orders) \in Nat
  BY <1>1, WhoseTurn, Sending DEF OnSnapshotOf
<1>3. /\ ids' = ids \cup sent
      /\ clash' = (clash \/ sent \cap ids # {} \/ Cardinality(sent) < Len(out.orders))
  BY DEF OnSnapshotOf
<1> HIDE DEF sent
<1>4. \A l \in DOMAIN bot : /\ bot[l].id \in Nat /\ bot'[l].id \in Nat /\ bot'[l].id >= bot[l].id
                            /\ FirstId[l] \in Nat /\ bot[l].id >= FirstId[l]
  <2> SUFFICES ASSUME NEW l \in DOMAIN bot
               PROVE  /\ bot[l].id \in Nat /\ bot'[l].id \in Nat /\ bot'[l].id >= bot[l].id
                      /\ FirstId[l] \in Nat /\ bot[l].id >= FirstId[l]
    OBVIOUS
  <2>1. IsBot(bot[l]) /\ bot[l].id >= FirstId[l]
    BY DEF BInv, BotsTypes, Numbered
  <2>2. bot[l].id \in Nat /\ out.bot.id \in Nat /\ FirstId[l] \in Nat
    BY <1>1, <1>2, <2>1, Constants DEF IsBot
  <2> QED BY <1>1, <1>2, <2>1, <2>2
<1>5. \A i \in ids : \E l \in DOMAIN bot : FirstId[l] < i /\ i <= bot[l].id
  BY DEF BInv, Numbered
<1>6. Numbered'
  <2>1. ASSUME NEW i \in ids \cup sent PROVE \E l \in DOMAIN bot : FirstId[l] < i /\ i <= bot'[l].id
    <3>1. CASE i \in sent
      <4>1. FirstId[k] < i /\ i <= bot'[k].id
        BY <1>1, <1>2, <1>4, <3>1
      <4> QED BY <1>1, <4>1
    <3>2. CASE i \in ids
      <4>1. PICK l \in DOMAIN bot : FirstId[l] < i /\ i <= bot[l].id
        BY <1>5, <3>2
      <4>2. i \in Int
        <5>1. ids \subseteq Nat
          BY DEF BInv, BotsTypes
        <5> QED BY <3>2, <5>1
      <4>3. i <= bot'[l].id
        BY <1>4, <4>1, <4>2
      <4> QED BY <4>1, <4>3
    <3> QED BY <2>1, <3>1, <3>2
  <2>2. \A l \in DOMAIN bot : bot'[l].id >= FirstId[l]
    BY <1>4
  <2> QED BY <1>1, <1>3, <2>1, <2>2 DEF Numbered
<1>7. ASSUME clash' PROVE \E l, m \in DOMAIN bot : OutOfRange(l, m)'
  <2>1. CASE clash
    <3>1. PICK l, m \in DOMAIN bot : FirstId[l] < FirstId[m] /\ bot[l].id > FirstId[m]
      BY <2>1 DEF BInv, IdsDistinct, OutOfRange
    <3>2. bot'[l].id > FirstId[m]
      BY <1>4, <3>1
    <3> QED BY <3>1, <3>2 DEF OutOfRange
  <2>2. CASE sent \cap ids # {}
    <3>1. PICK i \in sent : i \in ids
      BY <2>2
    <3>2. PICK l \in DOMAIN bot : FirstId[l] < i /\ i <= bot[l].id
      BY <1>5, <3>1
    <3>3. i \in Nat /\ bot[k].id < i /\ i <= bot'[k].id
      BY <1>1, <1>2, <3>1
    <3>4. l # k
      BY <1>4, <3>2, <3>3
    <3>5. FirstId[l] # FirstId[k]
      BY <1>1, <3>4, Constants
    <3>6. CASE FirstId[k] < FirstId[l]
      <4>1. bot'[k].id > FirstId[l]
        BY <1>1, <1>4, <3>2, <3>3
      <4> QED BY <1>1, <3>6, <4>1 DEF OutOfRange
    <3>7. CASE FirstId[l] < FirstId[k]
      <4>1. bot'[l].id > FirstId[k]
        BY <1>1, <1>4, <3>2, <3>3, <3>4
      <4> QED BY <1>1, <3>7, <4>1 DEF OutOfRange
    <3> QED BY <1>1, <1>4, <3>5, <3>6, <3>7
  <2>3. ~(Cardinality(sent) < Len(out.orders))
    BY <1>2
  <2> QED BY <1>3, <1>7, <2>1, <2>2, <2>3
<1>8. IdsDistinct'
  BY <1>1, <1>7 DEF IdsDistinct
<1>9. ids' \subseteq Nat
  BY <1>2, <1>3 DEF BInv, BotsTypes
<1> QED BY <1>6, <1>8, <1>9

LEMMA OnSnapshotStep == ASSUME BInv, OnSnapshot PROVE BInv'
<1> DEFINE k == party[next]
<1>1. PICK out \in Outcomes(k, view) :
         LET sent == {out.orders[i].id : i \in DOMAIN out.orders}
         IN  /\ bot' = [bot EXCEPT ![k] = out.bot]
             /\ ids' = ids \cup sent
             /\ clash' = (clash \/ sent \cap ids # {} \/ Cardinality(sent) < Len(out.orders))
             /\ recent' = IF out.orders = << >> THEN recent
                          ELSE [recent EXCEPT ![k] = LastOf(Append(@, [turn |-> turn, id |-> out.bot.id]),
                                                       MaxOpen + 1)]
             /\ spikes' = IF out.orders # << >> /\ out.orders[1].type = "MARKET"
                          THEN LastOf(Append(spikes, turn), 2) ELSE spikes
  BY Zenon DEF OnSnapshot
<1>2. OnSnapshotOf(k, out)
  BY <1>1, Zenon DEF OnSnapshot, OnSnapshotOf, Sent
<1> HIDE DEF k
<1>3. BotsTypes'
  <2>1. /\ party' = party /\ turn' = turn /\ next' = next + 1 /\ next \in 0 .. Len(party) + 1
        /\ next <= Len(party) /\ next > 0 /\ party \in Parties /\ turn \in Nat
    BY <1>2 DEF BInv, BotsTypes, OnSnapshotOf
  <2>2. Len(party) \in Nat
    BY <2>1, Constants
  <2>3. DOMAIN bot' = DOMAIN bot /\ DOMAIN recent' = DOMAIN recent /\ bot'[k] = out.bot
        /\ \A l \in DOMAIN bot \ {k} : bot'[l] = bot[l] /\ recent'[l] = recent[l]
    BY <1>2, TypesStep
  <2>4. IsBot(out.bot)
    BY <1>1, <1>2, WhoseTurn, Sending
  <2>5. k # "MarketMaker" => recent'[k] \in Seq(Entry)
    BY <1>2, RememberedStep
  <2>6. spikes' \in Seq(Nat) /\ ids' \subseteq Nat
    BY <1>2, CooledStep, NumberedStep
  <2>7. \A l \in DOMAIN bot : IsBot(bot'[l]) /\ (l # "MarketMaker" => recent'[l] \in Seq(Entry))
    BY <2>3, <2>4, <2>5 DEF BInv, BotsTypes
  <2>8. /\ DOMAIN bot' = {party'[i] : i \in 1 .. Len(party')} /\ DOMAIN recent' = DOMAIN bot'
        /\ party' \in Parties /\ turn' \in Nat
    BY <2>1, <2>3 DEF BInv, BotsTypes
  <2>9. next' \in 0 .. Len(party') + 1
    BY <2>1, <2>2
  <2> QED BY <2>3, <2>6, <2>7, <2>8, <2>9 DEF BotsTypes
<1>4. (\A l \in DOMAIN bot \ {"MarketMaker"} : Remembered(bot[l], recent[l], Seen(l)))'
  <2> SUFFICES ASSUME NEW l \in DOMAIN bot, l # "MarketMaker"
               PROVE  Remembered(bot'[l], recent'[l], Seen(l)')
    BY <1>2, TypesStep
  <2>1. CASE l = k
    BY <1>2, <2>1, RememberedStep
  <2>2. CASE l # k
    <3>1. bot'[l] = bot[l] /\ recent'[l] = recent[l] /\ Seen(l)' = Seen(l)
      BY <1>2, <2>2, WhoseTurn, TypesStep
    <3> QED BY <3>1 DEF BInv
  <2> QED BY <2>1, <2>2
<1> QED BY <1>2, <1>3, <1>4, CooledStep, NumberedStep DEF BInv

LEMMA NextBInv == BInv /\ [Next]_vars => BInv'
<1> SUFFICES ASSUME BInv, [Next]_vars PROVE BInv'
  OBVIOUS
<1>1. CASE \E v \in Views : TakeSnapshot(v)
  BY <1>1, TakeSnapshotStep
<1>2. CASE OnSnapshot
  BY <1>2, OnSnapshotStep
<1>3. CASE OtherMaker
  BY <1>3, StutterStep DEF OtherMaker
<1>4. CASE PopOrders
  BY <1>4, PopOrdersStep
<1>5. CASE UNCHANGED vars
  BY <1>5, StutterStep DEF vars
<1> QED BY <1>1, <1>2, <1>3, <1>4, <1>5 DEF Next

(* The invariant that the two properties follow from holds of any bots.    *)
THEOREM BotsInvariant == Spec => []BInv
BY InitBInv, NextBInv, PTL DEF Spec

(* m_open_order_ttls: of MaxOpen + 1 orders in a row that a bot other than *)
(* the market maker submits, the last comes at least Ttl snapshots after   *)
(* the first; market orders of the random walk come at least Cooldown      *)
(* snapshots after each other.  It is a bound on submissions: how many     *)
(* orders are active at once is not bounded by the code.                   *)
THEOREM OrdersAreRateLimited == Spec => []RateLimited
<1>1. BInv => RateLimited
  <2> SUFFICES ASSUME BInv PROVE RateLimited
    OBVIOUS
  <2>1. Len(spikes) = 2 => spikes[2] - spikes[1] >= Cooldown
    BY DEF BInv, Cooled
  <2>2. ASSUME NEW k \in DOMAIN bot \ {"MarketMaker"}, Len(recent[k]) = MaxOpen + 1
        PROVE  Last(recent[k]).turn - Head(recent[k]).turn >= Ttl
    <3>1. recent[k] \in Seq(Entry) /\ recent[k][MaxOpen + 1].turn - recent[k][1].turn >= Ttl
      BY <2>2 DEF BInv, BotsTypes, Remembered
    <3>2. Last(recent[k]) = recent[k][MaxOpen + 1] /\ Head(recent[k]) = recent[k][1]
      BY <2>2, <3>1, Constants DEF Last
    <3> QED BY <3>1, <3>2
  <2> QED BY <2>1, <2>2 DEF RateLimited
<1> QED BY <1>1, BotsInvariant, PTL

(* The counters of the bots give out no id twice before one of them has    *)
(* counted into the range of another.                                      *)
THEOREM IdsStayDistinct == Spec => []IdsDistinct
<1>1. BInv => IdsDistinct
  BY DEF BInv
<1> QED BY <1>1, BotsInvariant, PTL
==============================================================================
