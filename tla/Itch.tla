-------------------------------- MODULE Itch --------------------------------
(***************************************************************************)
(* Market data messages as bytes: what create_itch writes and what the     *)
(* feed handler reads.  A message starts with its length, two bytes, then  *)
(* its type, one, and the time, eight; numbers have their high byte first. *)
(* Offsets count from 0, as in the code; numbers are below 2^31.           *)
(***************************************************************************)
EXTENDS Integers, SequencesExt

(* The types' letters.                                                     *)
A == 65
B == 66
C == 67
E == 69
F == 70
S == 83
U == 85
X == 88
Space == 32

Zeros(n) == [i \in 1 .. n |-> 0]
Word32(n) == <<n \div 16777216, (n \div 65536) % 256, (n \div 256) % 256, n % 256>>
Word64(n) == Zeros(4) \o Word32(n)

Time == Zeros(4) \o <<11, 139, 139, 0>>

Header(length, type) == <<0, length, type>> \o Time

(* A mutant of WriteAddOrder: quantity before price, as in a replace.      *)
WriteQuantityFirst(m) ==
    Header(35, A) \o Word64(m.id) \o m.symbol \o Zeros(6 - Len(m.symbol))
        \o <<IF m.side = "BUY" THEN B ELSE S>> \o Word32(m.quantity) \o Word32(m.price) \o <<0>>

WriteAddOrder(m) ==
    Header(35, A) \o Word64(m.id) \o m.symbol \o Zeros(6 - Len(m.symbol))
        \o <<IF m.side = "BUY" THEN B ELSE S>> \o Word32(m.price) \o Word32(m.quantity) \o <<0>>

WriteCancelOrder(m) == Header(23, X) \o Word64(m.id) \o Word32(100)

(* Replacements, executions and other messages come from the exchange.     *)
WriteReplace(m)  == Header(35, U) \o Word64(m.id) \o Zeros(8) \o Word32(m.quantity) \o Word32(m.price)
WriteExecuted(m) == Header(27, E) \o Word64(m.id) \o Word32(m.quantity) \o Zeros(4)
WriteOther(m)    == Header(12, S) \o <<0>>

Encode(m) ==
    CASE m.kind = "add"     -> WriteAddOrder(m)
      [] m.kind = "cancel"  -> WriteCancelOrder(m)
      [] m.kind = "modify"  -> WriteReplace(m)
      [] m.kind = "trade"   -> WriteExecuted(m)
      [] m.kind = "other"   -> WriteOther(m)

-----------------------------------------------------------------------------
(* parse_price, parse_timestamp and the loops that read ids and quantities. *)
Number(data, offset, n) ==
    FoldLeft(LAMBDA x, y : 256 * x + y, 0, SubSeq(data, offset + 1, offset + n))

(* strncpy of six characters, which ends at a zero, then the trailing      *)
(* spaces, if no zero has ended it.                                        *)
Symbol(field) ==
    LET zeros  == {i \in 1 .. 6 : field[i] = 0}
        solid  == {i \in 1 .. 6 : field[i] # Space}
    IN  IF zeros # {} THEN SubSeq(field, 1, (CHOOSE i \in zeros : \A j \in zeros : i <= j) - 1)
        ELSE SubSeq(field, 1, IF solid = {} THEN 0 ELSE CHOOSE i \in solid : \A j \in solid : i >= j)

ParseAddOrder(data) ==
    [kind |-> "add", id |-> Number(data, 11, 8), symbol |-> Symbol(SubSeq(data, 20, 25)),
     side |-> IF data[26] = B THEN "BUY" ELSE "SELL",
     price |-> Number(data, 26, 4), quantity |-> Number(data, 30, 4)]

ParseOrderCancel(data) == [kind |-> "cancel", id |-> Number(data, 11, 8)]

ParseOrderReplace(data) ==
    [kind |-> "modify", id |-> Number(data, 11, 8), quantity |-> Number(data, 27, 4),
     price |-> Number(data, 31, 4)]

ParseOrderExecuted(data) ==
    [kind |-> "trade", id |-> Number(data, 11, 8), quantity |-> Number(data, 19, 4)]

(* The shortest message of each type that is parsed; others are skipped.   *)
MinLength == [t \in {A, F, X, U, E, C} |->
    CASE t \in {A, F, U} -> 35 [] t = X -> 23 [] t \in {E, C} -> 27]

Parse(type, data) ==
    CASE type \in {A, F} -> ParseAddOrder(data)
      [] type = X -> ParseOrderCancel(data)
      [] type = U -> ParseOrderReplace(data)
      [] type \in {E, C} -> ParseOrderExecuted(data)
=============================================================================
