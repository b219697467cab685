--------------------------- MODULE ClientHandler ---------------------------
(***************************************************************************)
(* How a request is read (src/api, and the handler of main): the command   *)
(* and its arguments are extracted from a stream of tokens separated by    *)
(* blanks or line ends, and checked.                                       *)
(*                                                                         *)
(* A token is the text it shows as a word and the number it shows to an    *)
(* extraction of a number.                                                 *)
(***************************************************************************)
EXTENDS Integers, Sequences

CONSTANTS Text,     \* what clients write between two blanks, but for numbers
          Garbage,  \* numbers that may be found in a variable never given a value
          NaN       \* the price that is no number

\* NaN stands in for what no comparison with 0 refuses: it is put above every number.
ASSUME TextAssumption == "" \in Text
ASSUME NaNAssumption == NaN \in Nat \ {0}
ASSUME GarbageAssumption == Garbage \subseteq {v \in Int : v < NaN} /\ Garbage # {}

Word(w) == [text |-> w, number |-> FALSE, value |-> 0]

Number(v) == [text |-> "", number |-> TRUE, value |-> v]

\* To an extraction of a number, a word is 0, "nan" too.
Token ==
    {t \in [text : Text, number : BOOLEAN, value : Int] :
        t.value < NaN /\ (t.number \/ t.value = 0)}

\* The beginning of a token: what has arrived of it when a connection breaks off.
Beginning(token) == IF token.number THEN Number(token.value \div 10) ELSE Word("")

\* to_upper, for the words that occur in lower case.
UpperCase == [add |-> "ADD", buy |-> "BUY", sell |-> "SELL", peers |-> "PEERS"]

to_upper(w) == IF w \in DOMAIN UpperCase THEN UpperCase[w] ELSE w

\* ss >> word, upper-cased; empty at the end of the stream.
WordAt(tokens, i) == IF i \in DOMAIN tokens THEN to_upper(tokens[i].text) ELSE ""

\* ss >> number, from a stream that is still good or not: a token that is no number
\* gives 0; without a token, or after a failure, the variable is not written.
NumbersAt(tokens, i, good, unwritten) ==
    IF good /\ i \in DOMAIN tokens THEN {tokens[i].value} ELSE unwritten

\* price is a double: what is found in it may be no number.
PricesAt(tokens, i) == NumbersAt(tokens, i, TRUE, Garbage \cup {NaN})

QuantitiesAt(tokens, i, good) == NumbersAt(tokens, i, good, Garbage)

Extracted(tokens, i) == i \in DOMAIN tokens /\ tokens[i].number

Error(what) == [call |-> "none", status |-> what]

\* The quantity is not checked.
AddCall_slip(side, price, quantity) ==
    IF price <= 0 THEN Error("ERROR invalid_params")
    ELSE [call |-> "local_add_order", side |-> side, price |-> price, quantity |-> quantity]

\* price <= 0 is false of NaN, which is let through.
AddCall(side, price, quantity) ==
    IF price <= 0 \/ quantity <= 0 THEN Error("ERROR invalid_params")
    ELSE [call |-> "local_add_order", side |-> side, price |-> price, quantity |-> quantity]

MarketCall(side, quantity) ==
    IF quantity <= 0 THEN Error("ERROR invalid_quantity")
    ELSE [call |-> "local_market_order", side |-> side, quantity |-> quantity]

\* depth is 10 unless a positive number follows.
BookDepth(tokens) ==
    IF Extracted(tokens, 2) /\ tokens[2].value > 0 THEN tokens[2].value ELSE 10

\* The call a request leads to: one, or any of several if a variable it
\* depends on was never written.
handle(tokens) ==
    LET cmd    == WordAt(tokens, 1)
        side   == WordAt(tokens, 2)
        sided  == side \in {"BUY", "SELL"}
    IN  CASE cmd \in {"ADD", "MARKET"} /\ ~sided -> {Error("ERROR invalid_side")}
          [] cmd = "ADD" /\ sided ->
                {AddCall(side, price, quantity) :
                    price \in PricesAt(tokens, 3),
                    quantity \in QuantitiesAt(tokens, 4, Extracted(tokens, 3))}
          [] cmd = "MARKET" /\ sided ->
                {MarketCall(side, quantity) : quantity \in QuantitiesAt(tokens, 3, TRUE)}
          [] cmd = "CANCEL" ->
                IF 2 \notin DOMAIN tokens THEN {Error("ERROR missing_order_id")}
                ELSE {[call |-> "local_cancel_order", order_id |-> tokens[2].value]}
          [] cmd = "BOOK" -> {[call |-> "get_snapshot", depth |-> BookDepth(tokens)]}
          [] cmd = "STATUS" -> {[call |-> "STATUS"]}
          [] cmd = "METRICS" -> {[call |-> "METRICS"]}
          [] cmd = "PEERS" -> {Error("ERROR peers_not_available_here")}
          [] OTHER -> {Error("ERROR unknown_command")}

\* main looks for PEERS, in capitals, before it passes the request on.
handler(tokens) ==
    IF tokens # <<>> /\ tokens[1].text = "PEERS" THEN {[call |-> "get_peers"]} ELSE handle(tokens)

=============================================================================
