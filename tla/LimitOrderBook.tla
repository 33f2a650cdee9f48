--------------------------- MODULE LimitOrderBook ---------------------------
(***************************************************************************)
(* What an order book promises, without rings, levels, indexes or lazy     *)
(* deletion: a set of resting orders and at most one order that is being   *)
(* executed.  An arriving order trades, one trade at a time, with the best *)
(* resting order of the other side, best price first and oldest first at   *)
(* one price, for as long as the two prices cross; what is left of it then *)
(* rests.                                                                  *)
(***************************************************************************)
EXTENDS Integers, FiniteSetsExt

CONSTANTS Orders, Prices, Quantities

VARIABLES
    book,    \* the resting orders
    taker,   \* {} or the one order that is being executed
    last     \* the youngest order that ever arrived

lobVars == <<book, taker, last>>

Rec(o, s, p, q) == [id |-> o, side |-> s, price |-> p, qty |-> q]

Crosses(t, r) ==
    /\ t.side # r.side
    /\ IF t.side = "BUY" THEN r.price <= t.price ELSE r.price >= t.price

(* r has priority over every other resting order of its side.              *)
IsFirst(r) ==
    \A x \in book \ {r} :
        x.side = r.side =>
            \/ x.price # r.price /\ (IF r.side = "BUY" THEN r.price > x.price
                                                        ELSE r.price < x.price)
            \/ x.price = r.price /\ r.id < x.id

Less(r, q) == [r EXCEPT !.qty = @ - q]

Init == book = {} /\ taker = {} /\ last = 0

Arrive(o, s, p, q) ==
    /\ last' = o
    /\ o > last
    /\ taker = {}
    /\ taker' = IF q = 0 THEN {} ELSE {Rec(o, s, p, q)}
    /\ UNCHANGED book

(* An order that crosses nothing can be put in the book without matching.  *)
Post(o, s, p, q) ==
    /\ last' = o
    /\ o > last
    /\ taker = {}
    /\ q > 0
    /\ \A r \in book : ~Crosses(Rec(o, s, p, q), r)
    /\ book' = book \cup {Rec(o, s, p, q)}
    /\ UNCHANGED taker

Trade(t, r) ==
    LET q == Min({t.qty, r.qty})
    IN  /\ t.qty > 0
        /\ Crosses(t, r)
        /\ IsFirst(r)
        /\ taker' = {Less(t, q)}
        /\ book' = (book \ {r}) \cup (IF q = r.qty THEN {} ELSE {Less(r, q)})
        /\ UNCHANGED last

Settle(t) ==
    /\ t.qty = 0 \/ \A r \in book : ~Crosses(t, r)
    /\ taker' = {}
    /\ book' = IF t.qty = 0 THEN book ELSE book \cup {t}
    /\ UNCHANGED last

Cancel(r) ==
    /\ taker = {}
    /\ book' = book \ {r}
    /\ UNCHANGED <<taker, last>>

Next ==
    \/ \E o \in Orders, s \in {"BUY", "SELL"}, p \in Prices, q \in Quantities :
          Arrive(o, s, p, q) \/ Post(o, s, p, q)
    \/ \E t \in taker : Settle(t) \/ \E r \in book : Trade(t, r)
    \/ \E r \in book : Cancel(r)

Spec == Init /\ [][Next]_lobVars
=============================================================================
