-------------------------- MODULE PositionManager ---------------------------
(***************************************************************************)
(* Position keeping (risk/position_manager.cpp): update_position as a      *)
(* function from a Position record to the one it leaves.  The symbol's     *)
(* record is made on first use with all members zero.                      *)
(*                                                                         *)
(* net_position, realized_pnl and avg_entry_price are int64_t, the totals  *)
(* uint32_t.  The average is computed in uint64_t arithmetic, because the  *)
(* old total is loaded into a uint64_t.                                    *)
(***************************************************************************)
EXTENDS Integers

CONSTANTS
    INT64_MAX,   \* largest int64_t
    WORD         \* number of values of a uint32_t

TwoTo64 == 2 * (INT64_MAX + 1)

UInt64(x) == x % TwoTo64

Int64(x) == ((x + INT64_MAX + 1) % TwoTo64) - (INT64_MAX + 1)

NewPosition == [net |-> 0, pnl |-> 0, avg |-> 0, bought |-> 0, sold |-> 0]

(* A mutant of AverageEntry: divided by the shares of earlier fills.       *)
AverageOfEarlier(pos, q, price) ==
    IF pos.bought = 0 THEN price
    ELSE Int64(UInt64(UInt64(pos.avg * pos.bought) + UInt64(price * q)) \div pos.bought)

(* The weighted average of all shares ever bought.                         *)
AverageEntry(pos, q, price) ==
    IF pos.bought = 0 THEN price
    ELSE Int64(UInt64(UInt64(pos.avg * pos.bought) + UInt64(price * q)) \div (pos.bought + q))

UpdatePosition(pos, side, q, price) ==
    IF q = 0 THEN pos
    ELSE IF side = "BUY"
    THEN [pos EXCEPT !.net = @ + q, !.avg = AverageEntry(pos, q, price),
                     !.bought = (@ + q) % WORD]
    ELSE [pos EXCEPT !.net = @ - q, !.pnl = Int64(@ + (price - pos.avg) * q),
                     !.sold = (@ + q) % WORD]
=============================================================================
