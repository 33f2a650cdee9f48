---------------------------- MODULE RiskManager -----------------------------
(***************************************************************************)
(* The pre-trade risk check (risk/risk_manager.cpp): a position slot per   *)
(* hashed symbol with uint32 counters of bought and sold shares, a limit,  *)
(* and one circuit breaker for all symbols.                                *)
(*                                                                         *)
(* update_position has no caller: the counters are read by every check and *)
(* never written, so that the limit is one on each order and not on the    *)
(* position.  set_position_limit is called by tests only, before the first *)
(* order: DEFAULT_LIMIT is the limit that is in force.                     *)
(***************************************************************************)
EXTENDS Integers, SequencesExt

CONSTANTS
    Symbols,        \* symbols with engines, as sequences of character codes
    WORD,           \* number of values of a uint32_t
    DEFAULT_LIMIT   \* the limit of every slot

VARIABLES
    position,   \* m_positions
    breaker     \* m_circuit_breaker

(* hash_symbol.  Reducing modulo 256 in every turn gives the same slot as  *)
(* reducing the 32-bit hash at the end.                                    *)
HashSymbol(sym) == FoldLeft(LAMBDA h, c : (h * 31 + c) % 256, 0, sym)

(* The slots in use, of the 256 there are.                                 *)
Slots == {HashSymbol(sym) : sym \in Symbols}

FreshSlot == [long |-> 0, short |-> 0, limit |-> DEFAULT_LIMIT]

(* uint32 addition and subtraction *)
Plus(a, b) == (a + b) % WORD

Minus(a, b) == (a - b) % WORD

(* A mutant of CheckPosition: the check leaves out the order itself.       *)
CheckPositionBefore(slot, side, q) ==
    side = "BUY" => Minus(slot.long, slot.short) <= slot.limit

(* check_position.  The sell side compares an unsigned difference, widened *)
(* to int64, with the negated limit.                                       *)
CheckPosition(slot, side, q) ==
    IF side = "BUY"
    THEN Minus(Plus(slot.long, q), slot.short) <= slot.limit
    ELSE Minus(slot.long, Plus(slot.short, q)) >= -slot.limit

(* check_order *)
CheckOrder(sym, side, price, q) ==
    /\ ~breaker
    /\ q # 0
    /\ price >= 0
    /\ CheckPosition(position[HashSymbol(sym)], side, q)

-----------------------------------------------------------------------------
Init ==
    /\ position = [k \in Slots |-> FreshSlot]
    /\ breaker = FALSE

ActivateCircuitBreaker == breaker' = TRUE /\ UNCHANGED position

ResetCircuitBreaker == breaker' = FALSE /\ UNCHANGED position
=============================================================================
