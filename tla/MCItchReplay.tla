---------------------------- MODULE MCItchReplay ----------------------------
(* Instances of ItchReplay for TLC: the .cfg files give the bounds.        *)
EXTENDS ItchReplay

CONSTANT MaxMessages

Add(id, symbol, side) ==
    [kind |-> "add", id |-> id, symbol |-> symbol, side |-> side, price |-> 10050, quantity |-> 200]

(* Orders for two engines and for none, the second with a symbol of full   *)
(* length, and one message of each other type.                             *)
MCMessages == {
    Add(1001, <<65, 66>>, "BUY"), Add(70001, <<65, 66, 67, 68, 69, 70>>, "SELL"),
    Add(2001, <<66>>, "SELL"),
    [kind |-> "cancel", id |-> 1001], [kind |-> "other"],
    [kind |-> "modify", id |-> 1001, quantity |-> 2, price |-> 258],
    [kind |-> "trade", id |-> 1001, quantity |-> 50]}

MCFiles == UNION {[1 .. n -> MCMessages] : n \in 1 .. MaxMessages}

MCSymbols == {<<65, 66>>, <<65, 66, 67, 68, 69, 70>>}
=============================================================================
