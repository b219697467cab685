-------------------------- MODULE TCPServer_proofs --------------------------
(***************************************************************************)
(* Proofs about TCPServer and ClientHandler, for any number of clients and *)
(* whatever they send.                                                     *)
(***************************************************************************)
EXTENDS TCPServer, CRDTOrderBook_proofs, SequenceTheorems

\* Clients may give any positive number as a price or a quantity.
AnyNumber ==
    Price = Nat \ {0} /\ Quantity = Nat \ {0} /\ MarketQuantity = Nat \ {0}

-----------------------------------------------------------------------------
(* The handler.                                                            *)

\* What the handler may ask of the book.
ValidCall(what) ==
    /\ what.call = "local_add_order" =>
          /\ what.side \in Side /\ what.price \in Nat \ {0} /\ what.quantity \in Nat \ {0}
    /\ what.call = "local_market_order" => what.side \in Side /\ what.quantity \in Nat \ {0}
    /\ what.call = "local_cancel_order" => what.order_id \in Int
    /\ what.call = "none" => what.status # "OK"

\* Extractions give numbers, of a token or of what was there before.
LEMMA NumbersAreInts ==
    ASSUME NEW tokens \in Seq(Token), NEW i \in Nat, NEW good
    PROVE  PricesAt(tokens, i) \subseteq Int /\ QuantitiesAt(tokens, i, good) \subseteq Int
  <1>1. \A t \in Token : t.value \in Int
    BY DEF Token
  <1>2. i \in DOMAIN tokens => tokens[i] \in Token
    OBVIOUS
  <1>3. Garbage \subseteq Int /\ NaN \in Int
    BY GarbageAssumption, NaNAssumption
  <1>4. ASSUME NEW unwritten, unwritten \subseteq Int, NEW b
        PROVE  NumbersAt(tokens, i, b, unwritten) \subseteq Int
    BY <1>1, <1>2, <1>4 DEF NumbersAt
  <1>5. Garbage \cup {NaN} \subseteq Int
    BY <1>3
  <1>. QED
    BY <1>3, <1>4, <1>5 DEF PricesAt, QuantitiesAt

\* The error answers are no OK.
LEMMA ErrorsAreValid ==
    /\ \A what : what # "OK" => ValidCall(Error(what))
    /\ \A what : Error(what).call = "none"
  BY DEF Error, ValidCall

\* Whatever is in the request or in a variable nobody wrote, a call of the book has a
\* side, and a price and a quantity above zero, as which NaN counts.
LEMMA CallsAreValid ==
    ASSUME NEW tokens \in Seq(Token), NEW what \in handler(tokens)
    PROVE  ValidCall(what)
  <1>. DEFINE cmd   == WordAt(tokens, 1)
              side  == WordAt(tokens, 2)
              sided == side \in {"BUY", "SELL"}
  <1>1. ASSUME NEW price \in Int, NEW quantity \in Int, sided
        PROVE  ValidCall(AddCall(side, price, quantity))
    <2>1. CASE price <= 0 \/ quantity <= 0
      BY <2>1, ErrorsAreValid DEF AddCall
    <2>2. CASE ~(price <= 0 \/ quantity <= 0)
      BY <1>1, <2>2 DEF AddCall, ValidCall, Side
    <2>. QED
      BY <2>1, <2>2
  <1>2. ASSUME NEW quantity \in Int, sided
        PROVE  ValidCall(MarketCall(side, quantity))
    <2>1. CASE quantity <= 0
      BY <2>1, ErrorsAreValid DEF MarketCall
    <2>2. CASE ~(quantity <= 0)
      BY <1>2, <2>2 DEF MarketCall, ValidCall, Side
    <2>. QED
      BY <2>1, <2>2
  <1>3. \A i \in Nat : \A good :
            PricesAt(tokens, i) \subseteq Int /\ QuantitiesAt(tokens, i, good) \subseteq Int
    BY NumbersAreInts
  <1>4. \A i \in DOMAIN tokens : tokens[i].value \in Int
    BY DEF Token
  <1>. DEFINE prices     == PricesAt(tokens, 3)
              quantities == QuantitiesAt(tokens, 4, Extracted(tokens, 3))
              adds    == {AddCall(side, price, quantity) :
                            price \in prices, quantity \in quantities}
              markets == {MarketCall(side, quantity) : quantity \in QuantitiesAt(tokens, 3, TRUE)}
              cancels == IF 2 \notin DOMAIN tokens THEN {Error("ERROR missing_order_id")}
                         ELSE {[call |-> "local_cancel_order", order_id |-> tokens[2].value]}
              books   == {[call |-> "get_snapshot", depth |-> BookDepth(tokens)]}
  <1>5. handle(tokens) =
          CASE cmd \in {"ADD", "MARKET"} /\ ~sided -> {Error("ERROR invalid_side")}
            [] cmd = "ADD" /\ sided -> adds
            [] cmd = "MARKET" /\ sided -> markets
            [] cmd = "CANCEL" -> cancels
            [] cmd = "BOOK" -> books
            [] cmd = "STATUS" -> {[call |-> "STATUS"]}
            [] cmd = "METRICS" -> {[call |-> "METRICS"]}
            [] cmd = "PEERS" -> {Error("ERROR peers_not_available_here")}
            [] OTHER -> {Error("ERROR unknown_command")}
    BY SMT DEF handle
  <1>13. prices \subseteq Int /\ quantities \subseteq Int
    <2>1. \A good : QuantitiesAt(tokens, 4, good) \subseteq Int
      BY <1>3
    <2>. QED
      BY <1>3, <2>1, Zenon
  <1>7. ASSUME NEW x \in adds, sided PROVE ValidCall(x)
    <2>. HIDE DEF prices, quantities
    <2>2. PICK price \in prices, quantity \in quantities : x = AddCall(side, price, quantity)
      OBVIOUS
    <2>. QED
      BY <1>1, <1>7, <1>13, <2>2
  <1>8. \A x \in markets : sided => ValidCall(x)
    BY <1>2, <1>3
  <1>9. \A x \in cancels : ValidCall(x)
    <2>1. \A v \in Int : ValidCall([call |-> "local_cancel_order", order_id |-> v])
      BY DEF ValidCall
    <2>. QED
      BY <1>4, <2>1, ErrorsAreValid
  <1>10. \A x \in books : ValidCall(x)
    BY DEF ValidCall
  <1>11. ValidCall([call |-> "STATUS"]) /\ ValidCall([call |-> "METRICS"])
    BY DEF ValidCall
  <1>. HIDE DEF adds, markets, cancels, books, cmd, side
  <1>12. ASSUME what \in handle(tokens) PROVE ValidCall(what)
    <2>1. \/ sided /\ what \in adds \cup markets
          \/ what \in cancels \cup books \cup {[call |-> "STATUS"], [call |-> "METRICS"]}
          \/ what \in {Error("ERROR invalid_side"), Error("ERROR peers_not_available_here"),
                       Error("ERROR unknown_command")}
      BY <1>5, <1>12
    <2>. QED
      BY <1>7, <1>8, <1>9, <1>10, <1>11, <2>1, ErrorsAreValid
  <1>6. CASE what = [call |-> "get_peers"]
    BY <1>6 DEF ValidCall
  <1>. QED
    BY <1>6, <1>12 DEF handler

-----------------------------------------------------------------------------
(* The connections.                                                        *)

\* What is known of a connection, whatever its client does: it has read a part of the
\* script, and until it is answered nobody has written its answer.
States == {"none", "backlog", "reading", "handling", "closed", "STATUS", "METRICS"}

IsConn(k) ==
    /\ k \in [state : States, script : Seq(Token), sent : BOOLEAN, hung_up : BOOLEAN,
              request : Seq(Token), answer : {k.answer}]
    /\ Len(k.request) <= Len(k.script)
    /\ k.state \in {"none", "backlog", "reading", "handling"} => k.answer = NoConn.answer
    /\ k.state \in {"none", "backlog"} => k.request = <<>>
    /\ k.state # "none" => HasLineEnd(k.script)
    /\ k.state \in {"reading", "handling"} /\ ~k.hung_up =>
          k.request = SubSeq(k.script, 1, Len(k.request))
    /\ k.state = "handling" /\ ~k.hung_up => HasLineEnd(k.request)

ConnInv == conn = [c \in Conn |-> conn[c]] /\ \A c \in Conn : IsConn(conn[c])

\* Setting one connection.
LEMMA OneConn ==
    ASSUME ConnInv, NEW c \in Conn, NEW k, IsConn(k), conn' = [conn EXCEPT ![c] = k]
    PROVE  ConnInv' /\ conn'[c] = k /\ \A d \in Conn \ {c} : conn'[d] = conn[d]
  <1>1. conn'[c] = k /\ \A d \in Conn \ {c} : conn'[d] = conn[d]
    BY DEF ConnInv
  <1>2. conn' = [d \in Conn |-> conn'[d]]
    BY DEF ConnInv
  <1>. HIDE DEF IsConn
  <1>3. \A d \in Conn : IsConn(conn'[d])
    BY <1>1 DEF ConnInv
  <1>. QED
    BY <1>1, <1>2, <1>3 DEF ConnInv, IsConn

\* A token that broke off is a token.
LEMMA BeginningIsToken == \A t \in Token : Beginning(t) \in Token
  <1>1. \A v \in Int : v < NaN => Number(v) \in Token
    BY TextAssumption DEF Token, Number
  <1>2. Word("") \in Token
    <2>1. ASSUME NEW w \in Text PROVE Word(w) \in Token
      <3>1. /\ Word(w) \in [text : Text, number : BOOLEAN, value : Int] /\ Word(w).value = 0
            /\ 0 < NaN
        BY NaNAssumption DEF Word
      <3>. QED
        BY <3>1 DEF Token
    <2>. QED
      BY <2>1, TextAssumption, Zenon
  <1>3. \A t \in Token : t.value \div 10 \in Int /\ t.value \div 10 < NaN
    <2>1. \A v \in Int : v < NaN => v \div 10 \in Int /\ v \div 10 < NaN
      BY NaNAssumption
    <2>2. \A t \in Token : t.value \in Int /\ t.value < NaN
      BY DEF Token
    <2>. QED
      BY <2>1, <2>2
  <1>. QED
    BY <1>1, <1>2, <1>3, Zenon DEF Beginning

\* What has been read is the beginning of the script.
LEMMA BeginningOfScript ==
    ASSUME NEW s \in Seq(Token), NEW k \in 0..Len(s)
    PROVE  /\ SubSeq(s, 1, k) \in Seq(Token) /\ Len(SubSeq(s, 1, k)) = k
           /\ \A i \in 1..k : SubSeq(s, 1, k)[i] = s[i]
  OBVIOUS

-----------------------------------------------------------------------------
(* What a step of the server does.                                         *)

\* Connections come and are read: nobody gets an answer, and nobody starts a report.
Quiet ==
    /\ UNCHANGED vars
    /\ \A c \in Conn :
          \/ conn'[c] = conn[c]
          \/ /\ conn[c].state \in {"none", "backlog", "reading"}
             /\ conn'[c].state \notin DOMAIN Report
             /\ conn'[c].answer = NoConn.answer

\* The request of c is answered, or its report begins.
Answered(c) ==
    /\ conn[c].state = "handling"
    /\ \/ Request(c) = <<>> /\ Answer(c, NoConn.answer) /\ UNCHANGED vars
       \/ Request(c) # <<>> /\ \E what \in handler(Request(c)) : Call(c, what)

\* Setting a connection that is not answered is such a step.
LEMMA QuietlySet ==
    ASSUME ConnInv, NEW c \in Conn, NEW k, IsConn(k), conn' = [conn EXCEPT ![c] = k],
           UNCHANGED vars, conn[c].state \in {"none", "backlog", "reading"},
           k.state \in {"backlog", "reading", "handling"}
    PROVE  ConnInv' /\ Quiet
  <1>1. ConnInv' /\ conn'[c] = k /\ \A d \in Conn \ {c} : conn'[d] = conn[d]
    BY OneConn
  <1>2. k.answer = NoConn.answer
    BY DEF IsConn
  <1>3. k.state \notin DOMAIN Report
    BY DEF Report
  <1>. QED
    BY <1>1, <1>2, <1>3 DEF Quiet

LEMMA ConnectKeeps ==
    ASSUME ConnInv, NEW c \in Conn, connect(c)
    PROVE  ConnInv' /\ Quiet
  <1>1. PICK s \in Scripts[c] :
            conn' = [conn EXCEPT ![c] = [conn[c] EXCEPT !.state = "backlog", !.script = s]]
    BY DEF connect
  <1>. DEFINE k == [conn[c] EXCEPT !.state = "backlog", !.script = s]
  <1>2. s \in Seq(Token) /\ HasLineEnd(s)
    BY ScriptsAssumption DEF HasLineEnd
  <1>3. IsConn(conn[c]) /\ conn[c].state = "none" /\ UNCHANGED vars
    BY DEF ConnInv, connect
  <1>4. Len(<<>>) = 0 /\ Len(s) \in Nat
    BY <1>2
  <1>5. /\ k.state = "backlog" /\ k.script = s /\ k.request = <<>>
        /\ k.hung_up = conn[c].hung_up /\ k.answer = NoConn.answer
        /\ k \in [state : States, script : Seq(Token), sent : BOOLEAN, hung_up : BOOLEAN,
                  request : Seq(Token), answer : {k.answer}]
    BY <1>2, <1>3 DEF IsConn, States
  <1>6. conn' = [conn EXCEPT ![c] = k]
    BY <1>1
  <1>. HIDE DEF k
  <1>7. IsConn(k)
    BY <1>2, <1>4, <1>5 DEF IsConn
  <1>. QED
    BY <1>3, <1>5, <1>6, <1>7, QuietlySet

LEMMA ClientDoneKeeps ==
    ASSUME ConnInv, NEW c \in Conn, client_done(c)
    PROVE  ConnInv' /\ Quiet
  <1>. DEFINE k == [conn[c] EXCEPT !.sent = TRUE]
  <1>1. /\ IsConn(conn[c]) /\ conn[c].state \in {"backlog", "reading"}
        /\ conn' = [conn EXCEPT ![c] = k] /\ UNCHANGED vars
    BY DEF ConnInv, client_done
  <1>2. /\ k.state = conn[c].state /\ k.script = conn[c].script /\ k.request = conn[c].request
        /\ k.hung_up = conn[c].hung_up /\ k.answer = conn[c].answer
        /\ k \in [state : States, script : Seq(Token), sent : BOOLEAN, hung_up : BOOLEAN,
                  request : Seq(Token), answer : {k.answer}]
    BY <1>1 DEF IsConn
  <1>. HIDE DEF k
  <1>3. IsConn(k)
    BY <1>1, <1>2 DEF IsConn
  <1>. QED
    BY <1>1, <1>2, <1>3, QuietlySet

LEMMA HangUpKeeps ==
    ASSUME ConnInv, NEW c \in Conn, hang_up(c)
    PROVE  ConnInv' /\ Quiet
  <1>. DEFINE r    == conn[c].request
              next == Len(r) + 1
              set(q) == [conn[c] EXCEPT !.hung_up = TRUE, !.request = q]
  <1>1. IsConn(conn[c]) /\ conn[c].state = "reading" /\ UNCHANGED vars
    BY DEF ConnInv, hang_up
  <1>2. \/ conn' = [conn EXCEPT ![c] = set(r)]
        \/ /\ next \in DOMAIN conn[c].script
           /\ conn' = [conn EXCEPT ![c] = set(Append(r, Beginning(conn[c].script[next])))]
    BY DEF hang_up
  <1>3. r \in Seq(Token) /\ conn[c].script \in Seq(Token) /\ Len(r) <= Len(conn[c].script)
    BY <1>1 DEF IsConn
  <1>4. ASSUME NEW q \in Seq(Token), Len(q) <= Len(conn[c].script),
               conn' = [conn EXCEPT ![c] = set(q)]
        PROVE  ConnInv' /\ Quiet
    <2>. DEFINE k == set(q)
    <2>1. /\ k.state = "reading" /\ k.script = conn[c].script /\ k.request = q
          /\ k.hung_up = TRUE /\ k.answer = conn[c].answer
          /\ k \in [state : States, script : Seq(Token), sent : BOOLEAN, hung_up : BOOLEAN,
                    request : Seq(Token), answer : {k.answer}]
      BY <1>1 DEF IsConn
    <2>2. conn' = [conn EXCEPT ![c] = k]
      BY <1>4
    <2>. HIDE DEF k
    <2>3. IsConn(k)
      BY <1>1, <1>4, <2>1 DEF IsConn
    <2>. QED
      BY <1>1, <2>1, <2>2, <2>3, QuietlySet
  <1>5. ASSUME next \in DOMAIN conn[c].script
        PROVE  /\ Append(r, Beginning(conn[c].script[next])) \in Seq(Token)
               /\ Len(Append(r, Beginning(conn[c].script[next]))) <= Len(conn[c].script)
    <2>1. Beginning(conn[c].script[next]) \in Token
      BY <1>3, <1>5, BeginningIsToken
    <2>. QED
      BY <1>3, <1>5, <2>1
  <1>. HIDE DEF r, next, set
  <1>. QED
    BY <1>2, <1>3, <1>4, <1>5

LEMMA AcceptKeeps ==
    ASSUME ConnInv, NEW c \in Conn, accept(c)
    PROVE  ConnInv' /\ Quiet
  <1>. DEFINE k == [conn[c] EXCEPT !.state = "reading"]
  <1>1. /\ IsConn(conn[c]) /\ conn[c].state = "backlog"
        /\ conn' = [conn EXCEPT ![c] = k] /\ UNCHANGED vars
    BY DEF ConnInv, accept
  <1>2. /\ k.state = "reading" /\ k.script = conn[c].script /\ k.request = <<>>
        /\ k.hung_up = conn[c].hung_up /\ k.answer = conn[c].answer
        /\ k \in [state : States, script : Seq(Token), sent : BOOLEAN, hung_up : BOOLEAN,
                  request : Seq(Token), answer : {k.answer}]
    BY <1>1 DEF IsConn, States
  <1>3. conn[c].script \in Seq(Token)
    BY <1>1 DEF IsConn
  <1>. HIDE DEF k
  <1>4. SubSeq(k.script, 1, Len(k.request)) = <<>>
    BY <1>2, <1>3, Len(<<>>) = 0
  <1>5. IsConn(k)
    BY <1>1, <1>2, <1>4 DEF IsConn
  <1>. QED
    BY <1>1, <1>2, <1>5, QuietlySet

LEMMA RecvKeeps ==
    ASSUME ConnInv, NEW c \in Conn, recv(c)
    PROVE  ConnInv' /\ Quiet
  <1>. DEFINE s == conn[c].script
  <1>1. IsConn(conn[c]) /\ conn[c].state = "reading" /\ UNCHANGED vars /\ ~conn[c].hung_up
    BY DEF ConnInv, recv
  <1>2. s \in Seq(Token) /\ conn[c].request \in Seq(Token)
    BY <1>1 DEF IsConn
  <1>3. PICK q \in Longer(c) :
           conn' = [conn EXCEPT ![c] = [conn[c] EXCEPT !.request = q,
                        !.state = IF HasLineEnd(q) THEN "handling" ELSE conn[c].state]]
    BY DEF recv
  <1>4. PICK m \in 0..Len(s) : q = SubSeq(s, 1, m)
    BY <1>2, <1>3 DEF Longer
  <1>5. q \in Seq(Token) /\ Len(q) = m /\ m <= Len(s) /\ Len(s) \in Nat
    BY <1>2, <1>4, BeginningOfScript
  <1>. DEFINE k == [conn[c] EXCEPT !.request = q,
                        !.state = IF HasLineEnd(q) THEN "handling" ELSE conn[c].state]
  <1>6. /\ k.state = IF HasLineEnd(q) THEN "handling" ELSE "reading"
        /\ k.script = s /\ k.request = q
        /\ k.hung_up = conn[c].hung_up /\ k.answer = conn[c].answer
        /\ k \in [state : States, script : Seq(Token), sent : BOOLEAN, hung_up : BOOLEAN,
                  request : Seq(Token), answer : {k.answer}]
    BY <1>1, <1>5 DEF IsConn, States
  <1>7. conn' = [conn EXCEPT ![c] = k]
    BY <1>3
  <1>. HIDE DEF k
  <1>8. IsConn(k)
    BY <1>1, <1>4, <1>5, <1>6 DEF IsConn
  <1>. QED
    BY <1>1, <1>6, <1>7, <1>8, QuietlySet

LEMMA RecvEndKeeps ==
    ASSUME ConnInv, NEW c \in Conn, recv_end(c)
    PROVE  ConnInv' /\ Quiet
  <1>. DEFINE k == [conn[c] EXCEPT !.state = "handling"]
  <1>1. /\ IsConn(conn[c]) /\ conn[c].state = "reading" /\ conn[c].hung_up
        /\ conn' = [conn EXCEPT ![c] = k] /\ UNCHANGED vars
    BY DEF ConnInv, recv_end
  <1>2. /\ k.state = "handling" /\ k.script = conn[c].script /\ k.request = conn[c].request
        /\ k.hung_up = conn[c].hung_up /\ k.answer = conn[c].answer
        /\ k \in [state : States, script : Seq(Token), sent : BOOLEAN, hung_up : BOOLEAN,
                  request : Seq(Token), answer : {k.answer}]
    BY <1>1 DEF IsConn, States
  <1>. HIDE DEF k
  <1>3. IsConn(k)
    BY <1>1, <1>2 DEF IsConn
  <1>. QED
    BY <1>1, <1>2, <1>3, QuietlySet

\* A connection is closed with an answer, and all else about it is forgotten.
LEMMA ClosedIsConn ==
    ASSUME NEW k, IsConn(k), NEW answer
    PROVE  /\ Closed(k, answer).state = "closed" /\ Closed(k, answer).answer = answer
           /\ Closed(k, answer).script = k.script /\ Closed(k, answer).hung_up = k.hung_up
           /\ k.state # "none" => IsConn(Closed(k, answer))
  <1>. DEFINE l == Closed(k, answer)
  <1>1. /\ k \in [state : States, script : Seq(Token), sent : BOOLEAN, hung_up : BOOLEAN,
                   request : Seq(Token), answer : {k.answer}]
        /\ "closed" \in States /\ <<>> \in Seq(Token) /\ FALSE \in BOOLEAN
    BY DEF IsConn, States
  <1>2. l = [k EXCEPT !.state = "closed", !.answer = answer, !.request = <<>>, !.sent = FALSE]
    BY Zenon DEF Closed
  <1>. HIDE DEF l
  <1>3. /\ l.state = "closed" /\ l.script = k.script /\ l.request = <<>>
        /\ l.hung_up = k.hung_up /\ l.answer = answer
        /\ l \in [state : States, script : Seq(Token), sent : BOOLEAN, hung_up : BOOLEAN,
                  request : Seq(Token), answer : {l.answer}]
    BY <1>1, <1>2
  <1>4. Len(l.request) <= Len(l.script)
    BY <1>1, <1>3, Len(<<>>) = 0
  <1>5. k.state # "none" => IsConn(l)
    BY <1>3, <1>4 DEF IsConn
  <1>. QED
    BY <1>3, <1>5 DEF l

LEMMA AnswerKeeps ==
    ASSUME ConnInv, NEW c \in Conn, NEW answer, Answer(c, answer), conn[c].state # "none"
    PROVE  /\ ConnInv'
           /\ conn'[c].state = "closed" /\ conn'[c].answer = answer
           /\ conn'[c].script = conn[c].script /\ conn'[c].hung_up = conn[c].hung_up
           /\ \A d \in Conn \ {c} : conn'[d] = conn[d]
  <1>1. IsConn(conn[c]) /\ conn' = [conn EXCEPT ![c] = Closed(conn[c], answer)]
    BY DEF ConnInv, Answer
  <1>2. PICK k : k = Closed(conn[c], answer) /\ IsConn(k)
    BY <1>1, ClosedIsConn
  <1>3. ConnInv' /\ conn'[c] = k /\ \A d \in Conn \ {c} : conn'[d] = conn[d]
    BY <1>1, <1>2, OneConn
  <1>. QED
    BY <1>1, <1>2, <1>3, ClosedIsConn

\* A report begins, or goes on.
LEMMA ReportKeeps ==
    ASSUME ConnInv, NEW c \in Conn, NEW state \in DOMAIN Report, NEW answer,
           conn[c].state # "none",
           conn' = [conn EXCEPT ![c] = [conn[c] EXCEPT !.state = state, !.answer = answer]]
    PROVE  /\ ConnInv'
           /\ conn'[c].state = state /\ conn'[c].answer = answer
           /\ conn'[c].script = conn[c].script /\ conn'[c].hung_up = conn[c].hung_up
           /\ \A d \in Conn \ {c} : conn'[d] = conn[d]
  <1>. DEFINE k == [conn[c] EXCEPT !.state = state, !.answer = answer]
  <1>0. state \in {"STATUS", "METRICS"}
    BY DEF Report
  <1>1. IsConn(conn[c]) /\ conn' = [conn EXCEPT ![c] = k]
    BY DEF ConnInv
  <1>2. /\ k.state = state /\ k.script = conn[c].script /\ k.request = conn[c].request
        /\ k.hung_up = conn[c].hung_up /\ k.answer = answer
        /\ k \in [state : States, script : Seq(Token), sent : BOOLEAN, hung_up : BOOLEAN,
                  request : Seq(Token), answer : {k.answer}]
    BY <1>0, <1>1 DEF IsConn, States
  <1>. HIDE DEF k
  <1>3. IsConn(k)
    BY <1>0, <1>1, <1>2 DEF IsConn
  <1>. QED
    BY <1>1, <1>2, <1>3, OneConn

\* Handling a request answers it without figures, or begins its report.
Begins(c, state) ==
    /\ UNCHANGED vars
    /\ conn' = [conn EXCEPT ![c] = [conn[c] EXCEPT !.state = state, !.answer = [status |-> state]]]

LEMMA CallCases ==
    ASSUME NEW c \in Conn, NEW what, Call(c, what)
    PROVE  \/ \E answer : /\ Answer(c, answer)
                          /\ DOMAIN answer \subseteq {"status", "order_id", "fills", "levels"}
           \/ what.call \in DOMAIN Report /\ Begins(c, what.call)
  <1>1. \A x, y : /\ DOMAIN [status |-> x, order_id |-> y] = {"status", "order_id"}
                  /\ DOMAIN [status |-> x, fills |-> y] = {"status", "fills"}
                  /\ DOMAIN [status |-> x, levels |-> y] = {"status", "levels"}
                  /\ DOMAIN [status |-> x] = {"status"}
    OBVIOUS
  <1>2. \/ \E x, y : \/ Answer(c, [status |-> x, order_id |-> y])
                     \/ Answer(c, [status |-> x, fills |-> y])
                     \/ Answer(c, [status |-> x, levels |-> y])
                     \/ Answer(c, [status |-> x])
        \/ what.call \in DOMAIN Report /\ Begins(c, what.call)
    BY DEF Call, Begins
  <1>. QED
    BY <1>1, <1>2

\* Everything a step of the server can do to the connections.
LEMMA ServerSteps ==
    ASSUME ConnInv, [ServerNext]_<<vars, server>>
    PROVE  /\ ConnInv'
           /\ \/ Quiet
              \/ \E c \in Conn : Answered(c)
              \/ \E c \in Conn : report(c)
  <1>1. ASSUME NEW c \in Conn, handle_client(c) PROVE ConnInv' /\ Answered(c)
    <2>1. Answered(c)
      BY <1>1 DEF handle_client, Answered
    <2>2. conn[c].state # "none" /\ IsConn(conn[c])
      BY <1>1 DEF handle_client, ConnInv
    <2>3. \/ \E answer : Answer(c, answer)
          \/ \E state \in DOMAIN Report : Begins(c, state)
      BY <2>1, CallCases DEF Answered
    <2>. QED
      BY <2>1, <2>2, <2>3, AnswerKeeps, ReportKeeps DEF Begins
  <1>2. ASSUME NEW c \in Conn, report(c) PROVE ConnInv'
    <2>1. /\ conn[c].state \in DOMAIN Report /\ conn[c].state # "none"
          /\ \E answer : \/ Answer(c, answer)
                         \/ conn' = [conn EXCEPT ![c] = [conn[c] EXCEPT !.answer = answer]]
      BY <1>2 DEF report, Report
    <2>2. ASSUME NEW answer, conn' = [conn EXCEPT ![c] = [conn[c] EXCEPT !.answer = answer]]
          PROVE  ConnInv'
      <3>1. conn[c] \in [state : States, script : Seq(Token), sent : BOOLEAN, hung_up : BOOLEAN,
                         request : Seq(Token), answer : {conn[c].answer}]
        BY DEF ConnInv, IsConn
      <3>2. [conn[c] EXCEPT !.answer = answer]
              = [conn[c] EXCEPT !.state = conn[c].state, !.answer = answer]
        BY <3>1
      <3>. QED
        BY <2>1, <2>2, <3>2, ReportKeeps
    <2>. QED
      BY <2>1, <2>2, AnswerKeeps
  <1>3. CASE tcp_shutdown
    <2>1. ASSUME NEW c \in Conn, conn[c].state = "backlog"
          PROVE  LET k == Closed(conn[c], NoConn.answer)
                 IN  IsConn(k) /\ k.state = "closed" /\ k.answer = NoConn.answer
      BY <2>1, ClosedIsConn DEF ConnInv
    <2>2. conn' = [c \in Conn |-> IF conn[c].state = "backlog"
                                  THEN Closed(conn[c], NoConn.answer) ELSE conn[c]]
          /\ UNCHANGED vars
      BY <1>3 DEF tcp_shutdown
    <2>4. ASSUME NEW c \in Conn, conn[c].state = "backlog"
          PROVE  conn'[c].state \notin DOMAIN Report /\ conn'[c].answer = NoConn.answer
      <3>1. "closed" \notin DOMAIN Report
        BY DEF Report
      <3>. QED
        BY <2>1, <2>2, <2>4, <3>1
    <2>5. Quiet
      BY <2>2, <2>4 DEF Quiet
    <2>6. \A c \in Conn : IsConn(conn'[c])
      BY <2>1, <2>2 DEF ConnInv
    <2>7. conn' = [c \in Conn |-> conn'[c]]
      BY <2>2
    <2>. QED
      BY <2>5, <2>6, <2>7 DEF ConnInv, IsConn
  <1>4. CASE \/ UNCHANGED <<vars, server>> \/ accept_fails \/ signal \/ main_loop
             \/ gossip_stopped \/ tcp_stopped
    <2>1. conn' = conn /\ UNCHANGED vars
      BY <1>4 DEF server, accept_fails, signal, main_loop, gossip_stopped, tcp_stopped
    <2>. QED
      BY <2>1 DEF Quiet, ConnInv, IsConn
  <1>. QED
    BY <1>1, <1>2, <1>3, <1>4, ConnectKeeps, ClientDoneKeeps, HangUpKeeps, AcceptKeeps, RecvKeeps,
       RecvEndKeeps DEF ServerNext, Thread, AcceptNext, MainNext

-----------------------------------------------------------------------------
(* The book.                                                               *)

\* The one node.
LEMMA SelfIsTheNode == Node = {self}
  <1>1. PICK n : Node = {n}
    BY OneNodeAssumption, NodeAssumption, FS_Singleton
  <1>. QED
    BY <1>1 DEF self

\* What is read of a request is tokens.
LEMMA RequestIsTokens ==
    ASSUME ConnInv, NEW c \in Conn
    PROVE  Request(c) \in Seq(Token)
  <1>. DEFINE r == conn[c].request
              P == {i \in DOMAIN r : r[i] # NEWLINE}
  <1>1. r \in Seq(Token)
    BY DEF ConnInv, IsConn
  <1>2. P \in SUBSET (DOMAIN r)
    OBVIOUS
  <1>3. Request(c) = Entries(r, P)
    BY Zenon DEF Request
  <1>. HIDE DEF r, P
  <1>4. PICK pos \in [1..Cardinality(P) -> P] :
           Entries(r, P) = [i \in 1..Cardinality(P) |-> r[pos[i]]]
    BY <1>1, <1>2, EntriesKeepOrder
  <1>5. Cardinality(P) \in Nat
    <2>1. IsFiniteSet(DOMAIN r)
      BY <1>1, FS_Interval, Len(r) \in Nat, DOMAIN r = 1..Len(r)
    <2>. QED
      BY <1>2, <2>1, FS_Subset, FS_CardinalityType
  <1>6. \A i \in 1..Cardinality(P) : r[pos[i]] \in Token
    BY <1>1, <1>2
  <1>. QED
    BY <1>3, <1>4, <1>5, <1>6

\* A call of the book is a step of the replicated order book.
LEMMA AnswerIsBookStep ==
    ASSUME AnyNumber, ConnInv, TypeOK, NEW c \in Conn, Answered(c)
    PROVE  [Next]_vars
  <1>1. CASE UNCHANGED vars
    BY <1>1
  <1>2. CASE \E what \in handler(Request(c)) : Call(c, what)
    <2>1. PICK what \in handler(Request(c)) : Call(c, what)
      BY <1>2
    <2>2. ValidCall(what)
      BY CallsAreValid, RequestIsTokens
    <2>3. self \in Node
      BY SelfIsTheNode
    <2>4. CASE what.call = "local_add_order" /\
               local_add_order(self, what.side, what.price, what.quantity)
      BY <2>2, <2>3, <2>4 DEF ValidCall, AnyNumber, Next, LocalOperation
    <2>5. CASE what.call = "local_cancel_order" /\ local_cancel_order(self, what.order_id)
      <3>1. CASE ~has_order(book[self], what.order_id)
        BY <2>5, <3>1 DEF local_cancel_order
      <3>2. CASE has_order(book[self], what.order_id)
        <4>1. what.order_id \in 1..issued /\ issued < MaxOps /\ issued \in Nat
          BY <2>3, <2>5, <3>2 DEF local_cancel_order, has_order, TypeOK
        <4>2. what.order_id \in 1..MaxOps
          BY <4>1, BoundAssumption
        <4>. QED
          BY <2>3, <2>5, <4>2 DEF Next, LocalOperation
      <3>. QED
        BY <3>1, <3>2
    <2>6. CASE what.call = "local_market_order" /\
               local_market_order(self, what.side, what.quantity)
      BY <2>2, <2>3, <2>6 DEF ValidCall, AnyNumber, Next, LocalOperation
    <2>. QED
      BY <1>1, <2>1, <2>4, <2>5, <2>6 DEF Call
  <1>. QED
    BY <1>1, <1>2 DEF Answered

\* A step of the server is a step of the replicated order book, or leaves it alone.
LEMMA ServerIsBookStep ==
    ASSUME AnyNumber, ConnInv, TypeOK, [ServerNext]_<<vars, server>>
    PROVE  [Next]_vars
  <1>1. CASE Quiet
    BY <1>1 DEF Quiet
  <1>2. ASSUME NEW c \in Conn, report(c) PROVE [Next]_vars
    BY <1>2 DEF report
  <1>. QED
    BY <1>1, <1>2, ServerSteps, AnswerIsBookStep

LEMMA ConnInitially == ServerInit => ConnInv
  <1>. SUFFICES ASSUME ServerInit PROVE ConnInv
    OBVIOUS
  <1>1. conn = [c \in Conn |-> NoConn]
    BY DEF ServerInit
  <1>2. /\ NoConn.state = "none" /\ NoConn.request = <<>> /\ NoConn.script = <<>>
        /\ NoConn \in [state : States, script : Seq(Token), sent : BOOLEAN, hung_up : BOOLEAN,
                       request : Seq(Token), answer : {NoConn.answer}]
    BY DEF NoConn, States
  <1>3. Len(<<>>) <= Len(<<>>)
    BY Len(<<>>) = 0
  <1>4. IsConn(NoConn)
    BY <1>2, <1>3 DEF IsConn
  <1>. QED
    BY <1>1, <1>4 DEF ConnInv, IsConn

\* The connections and the book together keep their shape.
LEMMA ServerInvariant ==
    ASSUME AnyNumber
    PROVE  /\ ServerInit => ConnInv /\ Shape /\ IdsIssued
           /\ ConnInv /\ Shape /\ IdsIssued /\ [ServerNext]_<<vars, server>>
                => (ConnInv /\ Shape /\ IdsIssued)' /\ [Next]_vars
  <1>1. ServerInit => ConnInv /\ Shape /\ IdsIssued
    BY ConnInitially, TypesInitially DEF ServerInit
  <1>2. ASSUME ConnInv, Shape, IdsIssued, [ServerNext]_<<vars, server>>
        PROVE  (ConnInv /\ Shape /\ IdsIssued)' /\ [Next]_vars
    <2>1. [Next]_vars
      BY <1>2, TypesFromShape, ServerIsBookStep
    <2>. QED
      BY <1>2, <2>1, ServerSteps, TypesPreserved
  <1>. QED
    BY <1>1, <1>2

\* Whatever clients send, and however it arrives, breaks off or is left out: as long as
\* no order is taken whose price is no number, the book behind the server takes only the
\* steps of a CRDTOrderBook.  The handler never asks for an order, a cancel or a trade
\* that the book's own specification does not allow.
THEOREM ServerKeepsABook ==
    ASSUME AnyNumber
    PROVE  ServerSpec /\ []~Undefined => Spec
  <1>. DEFINE I == ConnInv /\ Shape /\ IdsIssued
  <1>1. ServerInit => I
    BY ServerInvariant
  <1>2. I /\ [ServerNext]_<<vars, server>> => I' /\ [Next]_vars
    BY ServerInvariant
  <1>3. ServerInit => Init
    BY DEF ServerInit
  <1>. HIDE DEF I
  <1>. QED
    BY <1>1, <1>2, <1>3, PTL DEF ServerSpec, Spec

\* Every reachable state of the server has its types.
THEOREM ServerTypeCorrect ==
    ASSUME AnyNumber
    PROVE  ServerSpec => []ServerTypeOK
  <1>. DEFINE Flags == /\ accepting \in BOOLEAN /\ running \in BOOLEAN
                       /\ listening \in BOOLEAN /\ g_running \in BOOLEAN
                       /\ main \in {"running", "gossip.stop", "tcp.stop", "returned"}
              I == ConnInv /\ Shape /\ IdsIssued /\ Flags
  <1>1. ServerInit => Flags
    BY DEF ServerInit
  <1>2. ASSUME Flags, [ServerNext]_<<vars, server>> PROVE Flags'
    <2>1. CASE UNCHANGED <<vars, server>>
      BY <1>2, <2>1 DEF server
    <2>2. CASE \E c \in Conn : connect(c) \/ client_done(c) \/ hang_up(c) \/ Thread(c)
      BY <1>2, <2>2 DEF connect, client_done, hang_up, Thread, recv, recv_end, handle_client, report
    <2>3. CASE AcceptNext
      BY <1>2, <2>3 DEF AcceptNext, accept, accept_fails, accept_loop
    <2>4. CASE signal \/ MainNext
      BY <1>2, <2>4 DEF signal, MainNext, main_loop, gossip_stopped, tcp_shutdown, tcp_stopped
    <2>. QED
      BY <1>2, <2>1, <2>2, <2>3, <2>4 DEF ServerNext
  <1>3. I => ServerTypeOK
    <2>1. ASSUME ConnInv, NEW c \in Conn
          PROVE  /\ conn[c].state \in {"none", "backlog", "reading", "handling", "closed"}
                                        \cup DOMAIN Report
                 /\ Len(conn[c].request) <= Len(conn[c].script)
      BY <2>1 DEF ConnInv, IsConn, States, Report
    <2>. QED
      BY <2>1, TypesFromShape DEF ServerTypeOK
  <1>. HIDE DEF Flags
  <1>4. ServerInit => I
    BY <1>1, ServerInvariant
  <1>5. I /\ [ServerNext]_<<vars, server>> => I'
    BY <1>2, ServerInvariant
  <1>. HIDE DEF I
  <1>. QED
    BY <1>3, <1>4, <1>5, PTL DEF ServerSpec

-----------------------------------------------------------------------------
(* The reports.                                                            *)

Log == op_log[self]

\* The adds among the first k operations.
AddsAmong(k) == {i \in 1..k : Log[i].type = "ADD_ORDER"}

\* The figures of an answer, read at whatever times, go together.
FiguresAgree(answer) ==
    LET Has(field) == field \in DOMAIN answer
    IN  /\ Has("op_log") => answer.op_log \in 0..Len(Log)
        /\ Has("clock") => answer.clock \in Clock /\ at(answer.clock, self) <= at(clock[self], self)
        /\ Has("clock") /\ Has("op_log") => \A i \in DOMAIN Log :
              at(Log[i].clock, self) <= at(answer.clock, self) => i <= answer.op_log
        /\ Has("orders") => answer.orders \in Nat
        /\ Has("orders") /\ Has("op_log") => answer.orders <= Cardinality(AddsAmong(answer.op_log))
        /\ Has("orders") /\ ~Has("op_log") => answer.orders <= Cardinality(AddsAmong(Len(Log)))

\* The fields that a report has got, in the order in which it gets them.
FieldsGot(k) ==
    /\ k.state = "STATUS" => DOMAIN k.answer \in
          {{"status"}, {"status", "clock"}, {"status", "clock", "orders"}}
    /\ k.state = "METRICS" => DOMAIN k.answer \in
          {{"status"}, {"status", "orders"}, {"status", "orders", "op_log"}}

ReportInv ==
    \A c \in Conn : FiguresAgree(conn[c].answer) /\ FieldsGot(conn[c])

\* The log of the node.
LEMMA LogType ==
    ASSUME Shape
    PROVE  /\ Log \in Seq(Operation) /\ Len(Log) \in Nat /\ DOMAIN Log = 1..Len(Log)
           /\ clock[self] \in Clock
           /\ \A i \in DOMAIN Log : Log[i] \in Operation /\ Log[i].clock \in Clock
  <1>1. Log \in Seq(Operation) /\ clock[self] \in Clock
    BY SelfIsTheNode DEF Shape, Log
  <1>2. \A op \in Operation : op.clock \in Clock
    BY DEF Operation, AddOperation, CancelOperation
  <1>. HIDE DEF Log
  <1>. QED
    BY <1>1, <1>2

\* A step of the book leaves what is in the log, and what it adds counts an operation
\* that the clock did not count before.
LEMMA LogGrows ==
    ASSUME Shape, IdsIssued, [Next]_vars
    PROVE  /\ Len(Log) <= Len(Log)'
           /\ \A i \in DOMAIN Log : i \in DOMAIN Log' /\ Log'[i] = Log[i]
           /\ \A i \in DOMAIN Log' \ DOMAIN Log : at(Log'[i].clock, self) > at(clock[self], self)
           /\ at(clock'[self], self) >= at(clock[self], self)
  <1>1. /\ Len(Log) \in Nat /\ DOMAIN Log = 1..Len(Log) /\ IsClock(clock[self], Node)
        /\ at(clock[self], self) \in Nat /\ self \in Node
    BY LogType, CountIsNat, ClockType, SelfIsTheNode
  <1>2. /\ IsClock(tick(clock[self], self), Node)
        /\ at(tick(clock[self], self), self) = at(clock[self], self) + 1
    BY <1>1, TickCounts
  <1>3. CASE UNCHANGED vars
    BY <1>1, <1>3 DEF vars, Log
  <1>4. ASSUME NEW b, OnlyTicks(self, b) PROVE UNCHANGED Log /\ clock'[self] = tick(clock[self], self)
    BY <1>1, <1>4 DEF OnlyTicks, Log, Shape
  <1>5. ASSUME NEW op \in Operation, Issues(self, op)
        PROVE  /\ Len(Log)' = Len(Log) + 1 /\ DOMAIN Log' = 1..(Len(Log) + 1)
               /\ \A i \in DOMAIN Log : Log'[i] = Log[i]
               /\ Log'[Len(Log) + 1].clock = tick(clock[self], self)
               /\ clock'[self] = tick(clock[self], self)
    <2>1. /\ op_log' \in [Node -> Seq(Operation)]
          /\ DOMAIN Log' = 1..(Len(Log) + 1)
          /\ \A i \in DOMAIN Log : Log'[i] = Log[i]
          /\ Log'[Len(Log) + 1] = op
      BY <1>1, <1>5, RecordEffect DEF Issues, Log
    <2>2. Log' \in Seq(Operation)
      BY <1>1, <2>1 DEF Log
    <2>3. op.clock = tick(clock[self], self) /\ clock'[self] = op.clock
      BY <1>1, <1>5 DEF Issues, Shape
    <2>. HIDE DEF Log
    <2>4. Len(Log)' = Len(Log) + 1
      BY <1>1, <2>1, <2>2
    <2>. QED
      BY <2>1, <2>3, <2>4
  <1>. HIDE DEF Log
  <1>6. \/ UNCHANGED vars
        \/ \E op \in Operation : Issues(self, op)
        \/ \E b : OnlyTicks(self, b)
    BY StepCases, TypesFromShape, SelfIsTheNode
  <1>7. CASE UNCHANGED Log /\ clock'[self] = tick(clock[self], self)
    BY <1>1, <1>2, <1>7
  <1>8. CASE \E op \in Operation : Issues(self, op)
    BY <1>1, <1>2, <1>5, <1>8
  <1>. QED
    BY <1>3, <1>4, <1>6, <1>7, <1>8

\* The adds among the operations of a log, as far as it was counted, are not moved and
\* never become fewer.
LEMMA AddsGrow ==
    ASSUME Shape, IdsIssued, [Next]_vars, NEW k \in 0..Len(Log)
    PROVE  /\ AddsAmong(k)' = AddsAmong(k)
           /\ Cardinality(AddsAmong(k)) \in Nat
           /\ Cardinality(AddsAmong(k)) <= Cardinality(AddsAmong(Len(Log)))'
  <1>1. /\ Shape' /\ Len(Log) \in Nat /\ Len(Log)' \in Nat /\ Len(Log) <= Len(Log)'
        /\ DOMAIN Log = 1..Len(Log) /\ k <= Len(Log)
        /\ \A i \in DOMAIN Log : Log'[i] = Log[i]
    <2>1. Shape'
      BY TypesPreserved
    <2>2. Log' \in Seq(Operation)
      BY <2>1, SelfIsTheNode DEF Shape, Log
    <2>. QED
      BY <2>1, <2>2, LogType, LogGrows
  <1>. HIDE DEF Log
  <1>2. \A i \in 1..k : Log'[i] = Log[i]
    BY <1>1
  <1>3. AddsAmong(k)' = AddsAmong(k)
    BY <1>2 DEF AddsAmong
  <1>4. AddsAmong(k) \subseteq AddsAmong(Len(Log))'
    BY <1>1, <1>2 DEF AddsAmong
  <1>5. IsFiniteSet(AddsAmong(Len(Log))')
    <2>1. IsFiniteSet(1..Len(Log)') /\ AddsAmong(Len(Log))' \subseteq 1..Len(Log)'
      BY <1>1, FS_Interval DEF AddsAmong
    <2>. QED
      BY <2>1, FS_Subset
  <1>. QED
    BY <1>3, <1>4, <1>5, FS_Subset, FS_CardinalityType

\* The book holds no more orders than the log has adds.
LEMMA OrdersAreAdds ==
    ASSUME Shape, IdsIssued, BookFollowsLog
    PROVE  /\ Cardinality(Resting(book[self])) \in Nat
           /\ Cardinality(Resting(book[self])) <= Cardinality(AddsAmong(Len(Log)))
  <1>. DEFINE A    == AddsAmong(Len(Log))
              f    == [i \in A |-> Log[i].order.order_id]
              ids  == {f[i] : i \in A}
  <1>1. /\ Len(Log) \in Nat /\ DOMAIN Log = 1..Len(Log) /\ self \in Node
    BY LogType, SelfIsTheNode
  <1>2. IsFiniteSet(A)
    <2>1. IsFiniteSet(1..Len(Log)) /\ A \subseteq 1..Len(Log)
      BY <1>1, FS_Interval DEF AddsAmong
    <2>. QED
      BY <2>1, FS_Subset
  <1>3. IsFiniteSet(ids) /\ Cardinality(ids) <= Cardinality(A)
    <2>1. \A x \in ids : \E i \in A : f[i] = x
      OBVIOUS
    <2>2. f \in Surjection(A, ids)
      BY <2>1 DEF Surjection
    <2>. HIDE DEF A, f, ids
    <2>. QED
      BY <1>2, <2>2, FS_Surjection
  <1>4. book[self].known = ids
    <2>1. \A id \in book[self].known : id \in ids
      BY <1>1 DEF BookFollowsLog, Ops, Log, AddsAmong
    <2>2. ASSUME NEW i \in A PROVE Log[i].order.order_id \in book[self].known
      <3>1. i \in DOMAIN Log /\ Log[i].type = "ADD_ORDER"
        BY <1>1 DEF AddsAmong
      <3>2. Log[i] \in {o \in Ops(self) : o.type = "ADD_ORDER"}
        BY <3>1 DEF Ops, Log
      <3>. QED
        BY <1>1, <3>2 DEF BookFollowsLog
    <2>. QED
      BY <2>1, <2>2
  <1>5. Resting(book[self]) \subseteq ids
    BY <1>1, <1>4 DEF IdsIssued
  <1>. HIDE DEF A, ids
  <1>6. Cardinality(Resting(book[self])) \in Nat /\ Cardinality(ids) \in Nat /\ Cardinality(A) \in Nat
        /\ Cardinality(Resting(book[self])) <= Cardinality(ids)
    BY <1>2, <1>3, <1>5, FS_Subset, FS_CardinalityType
  <1>. QED
    BY <1>3, <1>6 DEF A

\* Figures that agree go on agreeing,
LEMMA FiguresKept ==
    ASSUME Shape, IdsIssued, [Next]_vars, NEW answer, FiguresAgree(answer)
    PROVE  FiguresAgree(answer)'
  <1>1. /\ Len(Log) \in Nat /\ Len(Log)' \in Nat /\ Len(Log) <= Len(Log)'
        /\ DOMAIN Log = 1..Len(Log) /\ DOMAIN Log' = 1..Len(Log)'
        /\ \A i \in DOMAIN Log : Log'[i] = Log[i]
        /\ \A i \in DOMAIN Log' \ DOMAIN Log : at(Log'[i].clock, self) > at(clock[self], self)
        /\ at(clock'[self], self) >= at(clock[self], self)
        /\ clock[self] \in Clock /\ clock'[self] \in Clock
        /\ \A i \in DOMAIN Log' : Log'[i].clock \in Clock
    <2>1. Shape'
      BY TypesPreserved
    <2>2. /\ Log' \in Seq(Operation) /\ clock'[self] \in Clock
      BY <2>1, SelfIsTheNode DEF Shape, Log
    <2>3. \A op \in Operation : op.clock \in Clock
      BY DEF Operation, AddOperation, CancelOperation
    <2>. HIDE DEF Log
    <2>4. /\ Len(Log)' \in Nat /\ DOMAIN Log' = 1..Len(Log)'
          /\ \A i \in DOMAIN Log' : Log'[i].clock \in Clock
      BY <2>2, <2>3
    <2>. QED
      BY <2>2, <2>4, LogType, LogGrows
  <1>2. at(clock[self], self) \in Nat /\ at(clock'[self], self) \in Nat
        /\ \A i \in DOMAIN Log' : at(Log'[i].clock, self) \in Nat
    BY <1>1, CountIsNat
  <1>. DEFINE Has(field) == field \in DOMAIN answer
  <1>. HIDE DEF Log
  <1>3. Has("op_log") => answer.op_log \in 0..Len(Log)'
    BY <1>1 DEF FiguresAgree
  <1>4. Has("clock") => /\ answer.clock \in Clock
                        /\ at(answer.clock, self) <= at(clock'[self], self)
                        /\ at(answer.clock, self) <= at(clock[self], self)
                        /\ at(answer.clock, self) \in Nat
    BY <1>1, <1>2, CountIsNat DEF FiguresAgree
  <1>5. ASSUME Has("clock"), Has("op_log"), NEW i \in DOMAIN Log',
               at(Log'[i].clock, self) <= at(answer.clock, self)
        PROVE  i <= answer.op_log
    <2>1. CASE i \in DOMAIN Log
      BY <1>1, <1>5, <2>1 DEF FiguresAgree
    <2>2. CASE i \notin DOMAIN Log
      BY <1>1, <1>2, <1>4, <1>5, <2>2
    <2>. QED
      BY <2>1, <2>2
  <1>6. Has("orders") => answer.orders \in Nat
    BY DEF FiguresAgree
  <1>7. ASSUME Has("orders"), Has("op_log")
        PROVE  answer.orders <= Cardinality(AddsAmong(answer.op_log)')
    <2>1. answer.op_log \in 0..Len(Log) /\ answer.orders <= Cardinality(AddsAmong(answer.op_log))
      BY <1>7 DEF FiguresAgree
    <2>2. AddsAmong(answer.op_log)' = AddsAmong(answer.op_log)
      BY <2>1, AddsGrow
    <2>. QED
      BY <2>1, <2>2
  <1>8. ASSUME Has("orders"), ~Has("op_log")
        PROVE  answer.orders <= Cardinality(AddsAmong(Len(Log)))'
    <2>1. answer.orders \in Nat /\ answer.orders <= Cardinality(AddsAmong(Len(Log)))
      BY <1>8 DEF FiguresAgree
    <2>2. /\ Len(Log) \in 0..Len(Log)
          /\ Cardinality(AddsAmong(Len(Log))) \in Nat
          /\ Cardinality(AddsAmong(Len(Log))) <= Cardinality(AddsAmong(Len(Log)))'
      BY <1>1, AddsGrow
    <2>3. Cardinality(AddsAmong(Len(Log)))' \in Nat
      <3>1. IsFiniteSet(1..Len(Log)') /\ AddsAmong(Len(Log))' \subseteq 1..Len(Log)'
        BY <1>1, FS_Interval DEF AddsAmong
      <3>. QED
        BY <3>1, FS_Subset, FS_CardinalityType
    <2>. QED
      BY <2>1, <2>2, <2>3
  <1>. QED
    BY <1>3, <1>4, <1>5, <1>6, <1>7, <1>8 DEF FiguresAgree

\* and so they do when the next one is read: the clock and the orders before the log,
\* which has only grown when it is counted.
LEMMA Figures ==
    /\ Figure("clock") = clock[self]
    /\ Figure("orders") = Cardinality(Resting(book[self]))
    /\ Figure("op_log") = Len(op_log[self])
  <1>1. Figure("clock") = clock[self]
    BY Zenon DEF Figure
  <1>2. Figure("orders") = Cardinality(Resting(book[self]))
    BY Zenon DEF Figure
  <1>3. Figure("op_log") = Len(op_log[self])
    BY Zenon DEF Figure
  <1>. QED
    BY <1>1, <1>2, <1>3

LEMMA FigureAgrees ==
    ASSUME Shape, IdsIssued, BookFollowsLog, NEW a, FiguresAgree(a),
           NEW field \in {"clock", "orders", "op_log", "levels"},
           field \in {"clock", "orders"} => "op_log" \notin DOMAIN a
    PROVE  FiguresAgree(With(a, field, Figure(field)))
  <1>. DEFINE b == With(a, field, Figure(field))
  <1>. SUFFICES FiguresAgree(b)
    OBVIOUS
  <1>1. /\ DOMAIN b = DOMAIN a \cup {field} /\ b[field] = Figure(field)
        /\ \A f \in DOMAIN a \ {field} : b[f] = a[f]
    BY DEF With
  <1>2. /\ Len(Log) \in Nat /\ DOMAIN Log = 1..Len(Log) /\ clock[self] \in Clock
        /\ at(clock[self], self) \in Nat
    BY LogType, CountIsNat
  <1>. HIDE DEF b, Log
  <1>3. CASE field = "clock"
    <2>1. b.clock = clock[self]
      BY <1>1, <1>3, Figures
    <2>. QED
      BY <1>1, <1>2, <1>3, <2>1 DEF FiguresAgree
  <1>4. CASE field = "orders"
    <2>1. b.orders = Cardinality(Resting(book[self]))
      BY <1>1, <1>4, Figures
    <2>. QED
      BY <1>1, <1>2, <1>4, <2>1, OrdersAreAdds DEF FiguresAgree
  <1>5. CASE field = "op_log"
    <2>1. b.op_log = Len(Log)
      BY <1>1, <1>5, Figures DEF Log
    <2>2. CASE "op_log" \in DOMAIN a
      <3>1. a.op_log \in 0..Len(Log)
        BY <2>2 DEF FiguresAgree
      <3>2. "orders" \in DOMAIN a => a.orders <= Cardinality(AddsAmong(Len(Log)))
        <4>1. AddsAmong(a.op_log) \subseteq AddsAmong(Len(Log))
          BY <1>2, <3>1 DEF AddsAmong
        <4>2. IsFiniteSet(AddsAmong(Len(Log)))
          <5>1. IsFiniteSet(1..Len(Log)) /\ AddsAmong(Len(Log)) \subseteq 1..Len(Log)
            BY <1>2, FS_Interval DEF AddsAmong
          <5>. QED
            BY <5>1, FS_Subset
        <4>3. /\ Cardinality(AddsAmong(a.op_log)) <= Cardinality(AddsAmong(Len(Log)))
              /\ Cardinality(AddsAmong(a.op_log)) \in Nat /\ Cardinality(AddsAmong(Len(Log))) \in Nat
          BY <4>1, <4>2, FS_Subset, FS_CardinalityType
        <4>. QED
          BY <2>2, <4>3 DEF FiguresAgree
      <3>. QED
        BY <1>1, <1>2, <1>5, <2>1, <2>2, <3>2 DEF FiguresAgree
    <2>3. CASE "op_log" \notin DOMAIN a
      BY <1>1, <1>2, <1>5, <2>1, <2>3 DEF FiguresAgree
    <2>. QED
      BY <2>2, <2>3
  <1>6. CASE field = "levels"
    BY <1>1, <1>6 DEF FiguresAgree
  <1>. QED
    BY <1>3, <1>4, <1>5, <1>6

\* The figures come in the order of Report.
LEMMA ReportGoesOn ==
    ASSUME Shape, IdsIssued, BookFollowsLog, ConnInv, ReportInv, NEW c \in Conn, report(c)
    PROVE  /\ UNCHANGED vars
           /\ \E answer :
                 /\ FiguresAgree(answer)
                 /\ answer.status = conn[c].answer.status /\ "order_id" \notin DOMAIN answer
                 /\ \/ Answer(c, answer)
                    \/ /\ conn' = [conn EXCEPT ![c] = [conn[c] EXCEPT !.answer = answer]]
                       /\ FieldsGot([conn[c] EXCEPT !.answer = answer])
  <1>. DEFINE a    == conn[c].answer
              D    == DOMAIN a
              next == Cardinality(D)
              k(answer) == [conn[c] EXCEPT !.answer = answer]
              fields == Report[conn[c].state]
              b == With(a, fields[next], Figure(fields[next]))
  <1>1. /\ UNCHANGED vars /\ conn[c].state \in {"STATUS", "METRICS"}
        /\ IF next = Len(fields) THEN Answer(c, b)
           ELSE conn' = [conn EXCEPT ![c] = k(b)]
    BY DEF report, Report
  <1>2. FiguresAgree(a) /\ FieldsGot(conn[c])
    BY DEF ReportInv
  <1>3. \A answer : k(answer).state = conn[c].state /\ k(answer).answer = answer
    BY DEF ConnInv, IsConn
  <1>4. /\ Cardinality({"status"}) = 1
        /\ \A f : f # "status" => Cardinality({"status", f}) = 2
        /\ \A f, g : f # "status" /\ g # "status" /\ f # g => Cardinality({"status", f, g}) = 3
    <2>1. Cardinality({"status"}) = 1 /\ IsFiniteSet({"status"})
      BY FS_Singleton
    <2>2. \A f : f # "status" => Cardinality({"status", f}) = 2 /\ IsFiniteSet({"status", f})
      <3>1. ASSUME NEW f, f # "status"
            PROVE  Cardinality({"status", f}) = 2 /\ IsFiniteSet({"status", f})
        <4>1. {"status", f} = {"status"} \cup {f}
          OBVIOUS
        <4>. QED
          BY <2>1, <3>1, <4>1, FS_AddElement
      <3>. QED
        BY <3>1
    <2>3. ASSUME NEW f, NEW g, f # "status", g # "status", f # g
          PROVE  Cardinality({"status", f, g}) = 3
      <3>1. {"status", f, g} = {"status", f} \cup {g} /\ g \notin {"status", f}
        BY <2>3
      <3>2. Cardinality({"status", f}) = 2 /\ IsFiniteSet({"status", f})
        BY <2>2, <2>3
      <3>3. Cardinality({"status", f} \cup {g}) = 2 + 1
        BY <3>1, <3>2, FS_AddElement
      <3>. QED
        BY <3>1, <3>3
    <2>. QED
      BY <2>1, <2>2, <2>3
  <1>5. /\ conn[c].state = "STATUS" => fields = <<"clock", "orders", "op_log">>
        /\ conn[c].state = "METRICS" => fields = <<"orders", "op_log", "levels">>
    BY DEF Report
  <1>. HIDE DEF fields, next
  <1>6. DOMAIN b = D \cup {fields[next]}
    BY DEF With
  <1>. HIDE DEF b
  <1>7. \/ /\ conn[c].state = "STATUS" /\ D = {"status"} /\ next = 1 /\ fields[next] = "clock"
        \/ /\ conn[c].state = "STATUS" /\ D = {"status", "clock"} /\ next = 2
           /\ fields[next] = "orders"
        \/ /\ conn[c].state = "STATUS" /\ D = {"status", "clock", "orders"} /\ next = 3
           /\ fields[next] = "op_log"
        \/ /\ conn[c].state = "METRICS" /\ D = {"status"} /\ next = 1 /\ fields[next] = "orders"
        \/ /\ conn[c].state = "METRICS" /\ D = {"status", "orders"} /\ next = 2
           /\ fields[next] = "op_log"
        \/ /\ conn[c].state = "METRICS" /\ D = {"status", "orders", "op_log"} /\ next = 3
           /\ fields[next] = "levels"
    <2>1. /\ D = {"status"} => next = 1
          /\ D = {"status", "clock"} => next = 2
          /\ D = {"status", "clock", "orders"} => next = 3
          /\ D = {"status", "orders"} => next = 2
          /\ D = {"status", "orders", "op_log"} => next = 3
      <3>1. /\ Cardinality({"status", "clock"}) = 2 /\ Cardinality({"status", "orders"}) = 2
            /\ Cardinality({"status", "clock", "orders"}) = 3
            /\ Cardinality({"status", "orders", "op_log"}) = 3
        BY <1>4
      <3>2. next = Cardinality(D)
        BY DEF next
      <3>. HIDE DEF D
      <3>. QED
        BY <1>4, <3>1, <3>2, Zenon
    <2>2. \/ conn[c].state = "STATUS" /\
                D \in {{"status"}, {"status", "clock"}, {"status", "clock", "orders"}}
          \/ conn[c].state = "METRICS" /\
                D \in {{"status"}, {"status", "orders"}, {"status", "orders", "op_log"}}
      BY <1>1, <1>2 DEF FieldsGot
    <2>. HIDE DEF D
    <2>. QED
      BY <1>5, <2>1, <2>2
  <1>8. FiguresAgree(b)
    BY <1>2, <1>7, FigureAgrees DEF b
  <1>9. Len(fields) = 3
    BY <1>1, <1>5
  <1>11. b.status = a.status /\ "order_id" \notin DOMAIN b
    <2>1. fields[next] # "status" /\ "status" \in D /\ fields[next] # "order_id"
          /\ "order_id" \notin D
      BY <1>7
    <2>2. b["status"] = a["status"]
      BY <2>1 DEF With, b
    <2>. QED
      BY <1>6, <2>1, <2>2
  <1>. HIDE DEF k, D
  <1>10. next # 3 => FieldsGot(k(b))
    BY <1>3, <1>6, <1>7 DEF FieldsGot
  <1>. QED
    BY <1>1, <1>8, <1>9, <1>10, <1>11 DEF k

\* An answer without figures.
LEMMA NoFigures ==
    ASSUME NEW answer, DOMAIN answer \cap {"clock", "orders", "op_log"} = {}
    PROVE  FiguresAgree(answer)
  BY DEF FiguresAgree

\* Every step keeps the figures of all reports in agreement.
LEMMA ReportPreserved ==
    ASSUME AnyNumber, Shape, IdsIssued, BookFollowsLog, ConnInv, ReportInv,
           [ServerNext]_<<vars, server>>
    PROVE  ReportInv'
  <1>1. [Next]_vars /\ ConnInv'
    BY TypesFromShape, ServerIsBookStep, ServerSteps
  <1>2. ASSUME NEW c \in Conn, NEW answer, FiguresAgree(answer), conn'[c].answer = answer,
               FieldsGot(conn'[c])
        PROVE  FiguresAgree(conn[c].answer)' /\ FieldsGot(conn[c])'
    <2>1. FiguresAgree(answer)'
      BY <1>1, <1>2, FiguresKept
    <2>2. FiguresAgree(conn[c].answer)'
      BY <1>2, <2>1, Zenon
    <2>3. FieldsGot(conn[c])'
      BY <1>2 DEF FieldsGot
    <2>. QED
      BY <2>2, <2>3
  <1>3. ASSUME NEW c \in Conn, conn'[c] = conn[c]
        PROVE  FiguresAgree(conn[c].answer)' /\ FieldsGot(conn[c])'
    <2>1. PICK answer : answer = conn[c].answer
      OBVIOUS
    <2>2. FiguresAgree(answer) /\ FieldsGot(conn[c])
      BY <2>1 DEF ReportInv
    <2>. QED
      BY <1>2, <1>3, <2>1, <2>2
  <1>4. ASSUME NEW c \in Conn, NEW answer, conn'[c].answer = answer, FieldsGot(conn'[c]),
               DOMAIN answer \cap {"clock", "orders", "op_log"} = {}
        PROVE  FiguresAgree(conn[c].answer)' /\ FieldsGot(conn[c])'
    BY <1>2, <1>4, NoFigures
  <1>5. DOMAIN NoConn.answer = {"status"}
    BY DEF NoConn
  <1>6. CASE Quiet
    <2>1. ASSUME NEW c \in Conn, conn'[c].state \notin DOMAIN Report, conn'[c].answer = NoConn.answer
          PROVE  FiguresAgree(conn[c].answer)' /\ FieldsGot(conn[c])'
      <3>1. FieldsGot(conn'[c])
        BY <2>1 DEF FieldsGot, Report
      <3>. QED
        BY <1>4, <1>5, <2>1, <3>1
    <2>. QED
      BY <1>3, <1>6, <2>1 DEF Quiet, ReportInv
  <1>7. ASSUME NEW c \in Conn, NEW answer, Answer(c, answer), FiguresAgree(answer),
               conn[c].state # "none"
        PROVE  ReportInv'
    <2>1. /\ conn'[c].state = "closed" /\ conn'[c].answer = answer
          /\ \A d \in Conn \ {c} : conn'[d] = conn[d]
      BY <1>7, AnswerKeeps
    <2>2. FieldsGot(conn'[c])
      BY <2>1 DEF FieldsGot
    <2>. QED
      BY <1>2, <1>3, <1>7, <2>1, <2>2 DEF ReportInv
  <1>8. ASSUME NEW c \in Conn, Answered(c) PROVE ReportInv'
    <2>1. conn[c].state # "none"
      BY <1>8 DEF Answered
    <2>2. \/ \E answer : /\ Answer(c, answer)
                         /\ DOMAIN answer \subseteq {"status", "order_id", "fills", "levels"}
          \/ \E state \in DOMAIN Report : Begins(c, state)
      BY <1>5, <1>8, CallCases DEF Answered
    <2>3. CASE \E answer : /\ Answer(c, answer)
                           /\ DOMAIN answer \subseteq {"status", "order_id", "fills", "levels"}
      <3>1. PICK answer : /\ Answer(c, answer)
                          /\ DOMAIN answer \subseteq {"status", "order_id", "fills", "levels"}
        BY <2>3
      <3>. QED
        BY <1>7, <2>1, <3>1, NoFigures
    <2>4. ASSUME NEW state \in DOMAIN Report, Begins(c, state) PROVE ReportInv'
      <3>. DEFINE answer == [status |-> state]
      <3>1. /\ conn'[c].state = state /\ conn'[c].answer = answer
            /\ \A d \in Conn \ {c} : conn'[d] = conn[d]
        BY <2>1, <2>4, ReportKeeps DEF Begins
      <3>2. DOMAIN answer = {"status"}
        OBVIOUS
      <3>. HIDE DEF answer
      <3>3. FieldsGot(conn'[c])
        BY <3>1, <3>2 DEF FieldsGot
      <3>4. FiguresAgree(conn[c].answer)' /\ FieldsGot(conn[c])'
        BY <1>4, <3>1, <3>2, <3>3
      <3>. QED
        BY <1>3, <3>1, <3>4 DEF ReportInv
    <2>. QED
      BY <2>2, <2>3, <2>4
  <1>9. ASSUME NEW c \in Conn, report(c) PROVE ReportInv'
    <2>1. conn[c].state \in DOMAIN Report /\ conn[c].state # "none"
      BY <1>9 DEF report, Report
    <2>2. PICK answer :
             /\ FiguresAgree(answer)
             /\ \/ Answer(c, answer)
                \/ /\ conn' = [conn EXCEPT ![c] = [conn[c] EXCEPT !.answer = answer]]
                   /\ FieldsGot([conn[c] EXCEPT !.answer = answer])
      BY <1>9, ReportGoesOn
    <2>3. CASE Answer(c, answer)
      BY <1>7, <2>1, <2>2, <2>3
    <2>4. CASE /\ conn' = [conn EXCEPT ![c] = [conn[c] EXCEPT !.answer = answer]]
               /\ FieldsGot([conn[c] EXCEPT !.answer = answer])
      <3>1. /\ conn'[c] = [conn[c] EXCEPT !.answer = answer] /\ conn'[c].answer = answer
            /\ \A d \in Conn \ {c} : conn'[d] = conn[d]
        BY <2>4 DEF ConnInv, IsConn
      <3>2. FieldsGot(conn'[c])
        BY <2>4, <3>1
      <3>3. FiguresAgree(conn[c].answer)' /\ FieldsGot(conn[c])'
        BY <1>2, <2>2, <3>1, <3>2
      <3>. QED
        BY <1>3, <3>1, <3>3 DEF ReportInv
    <2>. QED
      BY <2>2, <2>3, <2>4
  <1>. QED
    BY <1>6, <1>8, <1>9, ServerSteps

\* What holds in every state: the shape of book and connections, and the agreement of
\* the figures of every report.
LEMMA ReportInvariant ==
    ASSUME AnyNumber
    PROVE  ServerSpec => [](ConnInv /\ Shape /\ IdsIssued /\ BookFollowsLog /\ ReportInv)
  <1>. DEFINE I == ConnInv /\ Shape /\ IdsIssued
  <1>1. ServerInit => I /\ ReportInv
    <2>1. ServerInit => I
      BY ServerInvariant
    <2>2. ASSUME ServerInit PROVE ReportInv
      <3>1. DOMAIN NoConn.answer = {"status"} /\ NoConn.state = "none"
        BY DEF NoConn
      <3>2. FiguresAgree(NoConn.answer) /\ FieldsGot(NoConn)
        BY <3>1, NoFigures DEF FieldsGot
      <3>3. \A c \in Conn : conn[c] = NoConn
        BY <2>2 DEF ServerInit
      <3>. QED
        BY <3>2, <3>3 DEF ReportInv
    <2>. QED
      BY <2>1, <2>2
  <1>2. I /\ [ServerNext]_<<vars, server>> => I'
    BY ServerInvariant
  <1>3. I /\ BookFollowsLog /\ ReportInv /\ [ServerNext]_<<vars, server>> => ReportInv'
    BY ReportPreserved
  <1>4. ServerInit => BookFollowsLog
    BY DEF ServerInit, Init, BookFollowsLog, Ops, NewBook
  <1>5. I /\ BookFollowsLog /\ [ServerNext]_<<vars, server>> => BookFollowsLog'
    BY ServerInvariant, BookPreserved
  <1>. QED
    BY <1>1, <1>2, <1>3, <1>4, <1>5, PTL DEF ServerSpec

\* The figures of a STATUS or METRICS answer add up although each is read under a lock
\* of its own and other clients' commands run in between: the clock and the orders are
\* read before the log is counted, and the log only grows.
THEOREM ReportsTrue ==
    ASSUME AnyNumber
    PROVE  ServerSpec => []ReportsAddUp
  <1>1. ConnInv /\ Shape /\ IdsIssued /\ ReportInv => ReportsAddUp
    <2>. SUFFICES ASSUME Shape, ReportInv, NEW c \in Conn, "op_log" \in DOMAIN conn[c].answer
                  PROVE  LET answer == conn[c].answer
                             Has(field) == field \in DOMAIN answer
                         IN  /\ answer.op_log <= Len(op_log[self])
                             /\ Has("clock") => \A i \in DOMAIN op_log[self] :
                                   at(op_log[self][i].clock, self) <= at(answer.clock, self)
                                      => i <= answer.op_log
                             /\ Has("orders") => answer.orders <= Cardinality(
                                   {i \in 1..answer.op_log : op_log[self][i].type = "ADD_ORDER"})
      BY Zenon DEF ReportsAddUp
    <2>1. FiguresAgree(conn[c].answer) /\ Len(Log) \in Nat
      BY LogType DEF ReportInv
    <2>. QED
      BY <2>1 DEF FiguresAgree, AddsAmong, Log
  <1>. QED
    BY <1>1, ReportInvariant, PTL

-----------------------------------------------------------------------------
(* Commands.                                                               *)

\* An add comes from a request that says so, and has a price and a quantity that were
\* extracted from it or found where nothing was.
LEMMA AddsComeFrom ==
    ASSUME NEW tokens \in Seq(Token), NEW what \in handler(tokens), what.call = "local_add_order"
    PROVE  \E price \in PricesAt(tokens, 3) :
           \E quantity \in QuantitiesAt(tokens, 4, Extracted(tokens, 3)) :
              what = AddCall(WordAt(tokens, 2), price, quantity)
  <1>. DEFINE cmd   == WordAt(tokens, 1)
              side  == WordAt(tokens, 2)
              sided == side \in {"BUY", "SELL"}
              prices     == PricesAt(tokens, 3)
              quantities == QuantitiesAt(tokens, 4, Extracted(tokens, 3))
              adds    == {AddCall(side, price, quantity) :
                            price \in prices, quantity \in quantities}
              markets == {MarketCall(side, quantity) : quantity \in QuantitiesAt(tokens, 3, TRUE)}
              cancels == IF 2 \notin DOMAIN tokens THEN {Error("ERROR missing_order_id")}
                         ELSE {[call |-> "local_cancel_order", order_id |-> tokens[2].value]}
              books   == {[call |-> "get_snapshot", depth |-> BookDepth(tokens)]}
  <1>1. handle(tokens) =
          CASE cmd \in {"ADD", "MARKET"} /\ ~sided -> {Error("ERROR invalid_side")}
            [] cmd = "ADD" /\ sided -> adds
            [] cmd = "MARKET" /\ sided -> markets
            [] cmd = "CANCEL" -> cancels
            [] cmd = "BOOK" -> books
            [] cmd = "STATUS" -> {[call |-> "STATUS"]}
            [] cmd = "METRICS" -> {[call |-> "METRICS"]}
            [] cmd = "PEERS" -> {Error("ERROR peers_not_available_here")}
            [] OTHER -> {Error("ERROR unknown_command")}
    BY SMT DEF handle
  <1>2. \A e : Error(e).call # "local_add_order"
    BY DEF Error
  <1>3. \A x \in markets : x.call # "local_add_order"
    <2>1. \A q : MarketCall(side, q).call # "local_add_order"
      BY <1>2 DEF MarketCall
    <2>. QED
      BY <2>1
  <1>4. \A x \in cancels : x.call # "local_add_order"
    <2>1. \A v : [call |-> "local_cancel_order", order_id |-> v].call # "local_add_order"
      OBVIOUS
    <2>. QED
      BY <1>2, <2>1
  <1>5. \A x \in books : x.call # "local_add_order"
    OBVIOUS
  <1>. HIDE DEF adds, markets, cancels, books, cmd, side
  <1>6. what \in handle(tokens)
    BY DEF handler
  <1>7. what \in adds
    <2>1. \/ what \in adds \cup markets \cup cancels \cup books
          \/ what \in {[call |-> "STATUS"], [call |-> "METRICS"]}
          \/ what \in {Error("ERROR invalid_side"), Error("ERROR peers_not_available_here"),
                       Error("ERROR unknown_command")}
      BY <1>1, <1>6
    <2>2. [call |-> "STATUS"].call = "STATUS" /\ [call |-> "METRICS"].call = "METRICS"
      OBVIOUS
    <2>. QED
      BY <1>2, <1>3, <1>4, <1>5, <2>1, <2>2
  <1>. HIDE DEF prices, quantities
  <1>8. \E price \in prices : \E quantity \in quantities : what = AddCall(side, price, quantity)
    BY <1>7 DEF adds
  <1>. QED
    BY <1>8, Zenon DEF prices, quantities, side

\* A request of at least four tokens is taken as it is written: where the price is no
\* number it counts as 0, which is refused, before the quantity is left unwritten.
LEMMA AddsAsRequested ==
    ASSUME NEW tokens \in Seq(Token), Len(tokens) >= 4,
           NEW what \in handler(tokens), what.call = "local_add_order"
    PROVE  /\ what.side = to_upper(tokens[2].text)
           /\ what.price = tokens[3].value /\ what.quantity = tokens[4].value
  <1>1. {2, 3, 4} \subseteq DOMAIN tokens /\ tokens[3] \in Token
    BY Len(tokens) \in Nat
  <1>. DEFINE prices     == PricesAt(tokens, 3)
              quantities == QuantitiesAt(tokens, 4, Extracted(tokens, 3))
              side       == WordAt(tokens, 2)
  <1>2. prices = {tokens[3].value}
    BY <1>1, Zenon DEF PricesAt, NumbersAt
  <1>3. tokens[3].number => quantities = {tokens[4].value}
    BY <1>1, Zenon DEF QuantitiesAt, NumbersAt, Extracted
  <1>4. tokens[3].number \/ tokens[3].value = 0
    BY <1>1, Zenon DEF Token
  <1>5. side = to_upper(tokens[2].text)
    BY <1>1, Zenon DEF WordAt
  <1>6. \E price \in prices : \E quantity \in quantities : what = AddCall(side, price, quantity)
    BY AddsComeFrom, Zenon
  <1>. HIDE DEF prices, quantities, side
  <1>7. PICK price \in prices, quantity \in quantities : what = AddCall(side, price, quantity)
    BY <1>6
  <1>8. price = tokens[3].value
    BY <1>2, <1>7
  <1>9. ~(price <= 0 \/ quantity <= 0)
    BY <1>7 DEF AddCall, Error
  <1>10. quantity = tokens[4].value
    <2>1. price # 0
      BY <1>9
    <2>. QED
      BY <1>3, <1>4, <1>7, <1>8, <2>1, Zenon
  <1>11. what.side = side /\ what.price = price /\ what.quantity = quantity
    BY <1>7, <1>9 DEF AddCall
  <1>. QED
    BY <1>5, <1>8, <1>10, <1>11

\* A price that was written is a number.
LEMMA WrittenPriceIsNumber ==
    ASSUME NEW tokens \in Seq(Token), Len(tokens) >= 3,
           NEW what \in handler(tokens), what.call = "local_add_order"
    PROVE  what.price # NaN
  <1>1. 3 \in DOMAIN tokens /\ tokens[3] \in Token
    BY Len(tokens) \in Nat
  <1>2. PricesAt(tokens, 3) = {tokens[3].value}
    BY <1>1, Zenon DEF PricesAt, NumbersAt
  <1>3. PICK price \in PricesAt(tokens, 3),
                quantity \in QuantitiesAt(tokens, 4, Extracted(tokens, 3)) :
            what = AddCall(WordAt(tokens, 2), price, quantity)
    BY AddsComeFrom, Zenon
  <1>4. what.price = price
    BY <1>3 DEF AddCall, Error
  <1>5. tokens[3].value \in Int /\ tokens[3].value < NaN
    BY <1>1 DEF Token
  <1>. QED
    BY <1>2, <1>3, <1>4, <1>5, NaNAssumption

\* What is read of a connection that did not break off begins with the tokens of its
\* first line.
LEMMA FirstLineIsRead ==
    ASSUME ConnInv, NEW c \in Conn, conn[c].state = "handling", ~conn[c].hung_up,
           NEW n \in {3, 4}, Len(Line(conn[c].script)) >= n
    PROVE  /\ Len(Request(c)) >= n
           /\ \A i \in 1..n : Request(c)[i] = Line(conn[c].script)[i]
  <1>. DEFINE s == conn[c].script
              r == conn[c].request
              P == {i \in DOMAIN r : r[i] # NEWLINE}
              E == {i \in DOMAIN s : s[i] = NEWLINE}
              N == Cardinality(P)
  <1>1. /\ s \in Seq(Token) /\ r \in Seq(Token) /\ Len(r) <= Len(s)
        /\ r = SubSeq(s, 1, Len(r)) /\ HasLineEnd(r)
    BY DEF ConnInv, IsConn
  <1>2. Request(c) = Entries(r, P) /\ Line(s) = SubSeq(s, 1, Min(E) - 1) /\ Len(Line(s)) >= n
    BY Zenon DEF Request, Line
  <1>. HIDE DEF s, r
  <1>3. /\ Len(s) \in Nat /\ DOMAIN s = 1..Len(s) /\ Len(r) \in Nat /\ DOMAIN r = 1..Len(r)
        /\ \A i \in DOMAIN r : i \in DOMAIN s /\ r[i] = s[i]
    BY <1>1, BeginningOfScript
  <1>4. PICK e \in DOMAIN r : e \in E
    BY <1>1, <1>3 DEF HasLineEnd
  <1>5. Min(E) \in E /\ Min(E) <= e /\ IsFiniteSet(P)
    <2>1. IsFiniteSet(DOMAIN s) /\ IsFiniteSet(DOMAIN r)
      <3>1. 1 \in Int /\ Len(s) \in Int /\ Len(r) \in Int
        BY <1>3
      <3>2. IsFiniteSet(1..Len(s)) /\ IsFiniteSet(1..Len(r))
        BY <3>1, FS_Interval
      <3>. QED
        BY <1>3, <3>2
    <2>2. IsFiniteSet(E) /\ IsFiniteSet(P) /\ E \in SUBSET Int /\ E # {}
      BY <1>3, <1>4, <2>1, FS_Subset
    <2>. QED
      BY <1>4, <2>2, MinOfSet
  <1>6. Min(E) \in Int /\ Min(E) > n /\ Len(r) > n /\ Min(E) <= Len(s)
    <2>1. Min(E) \in 1..Len(s)
      BY <1>3, <1>5
    <2>. HIDE DEF E
    <2>2. Len(Line(s)) = Min(E) - 1
      BY <1>1, <1>2, <1>3, <2>1, BeginningOfScript
    <2>. QED
      BY <1>2, <1>3, <1>5, <2>1, <2>2
  <1>7. \A i \in 1..n : i \in P /\ r[i] = Line(s)[i]
    <2>1. ASSUME NEW i \in 1..n PROVE i \notin E /\ i \in DOMAIN r
      <3>1. i \in E => Min(E) <= i
        <4>1. IsFiniteSet(E) /\ E \in SUBSET Int
          <5>1. 1 \in Int /\ Len(s) \in Int
            BY <1>3
          <5>2. IsFiniteSet(1..Len(s))
            BY <5>1, FS_Interval
          <5>. QED
            BY <1>3, <5>2, FS_Subset
        <4>. HIDE DEF E
        <4>. QED
          BY <4>1, MinOfSet
      <3>. QED
        BY <1>3, <1>6, <3>1
    <2>. HIDE DEF E
    <2>2. Line(s) = SubSeq(s, 1, Min(E) - 1) /\ Min(E) - 1 \in 0..Len(s)
      BY <1>2, <1>3, <1>6
    <2>3. \A i \in 1..n : Line(s)[i] = s[i]
      BY <1>1, <1>3, <1>6, <2>2, BeginningOfScript
    <2>. QED
      BY <1>3, <2>1, <2>3 DEF E
  <1>8. P \in SUBSET (DOMAIN r) /\ N \in Nat
    BY <1>5, FS_CardinalityType
  <1>. HIDE DEF P, E
  <1>9. PICK pos \in [1..N -> P] :
           /\ Entries(r, P) = [i \in 1..N |-> r[pos[i]]]
           /\ \A p \in P : \E i \in 1..N : pos[i] = p
           /\ \A i, j \in 1..N : i < j => pos[i] < pos[j]
    <2>1. r \in Seq(Token)
      BY <1>1
    <2>2. P \in SUBSET (DOMAIN r)
      BY <1>8
    <2>. QED
      BY <2>1, <2>2, EntriesKeepOrder, SMTT(60)
  <1>. HIDE DEF N
  <1>10. \A i \in 1..N : pos[i] \in P /\ pos[i] \in Int /\ pos[i] >= 1
    BY <1>3, <1>8, <1>9
  <1>11. 1 \in 1..N /\ pos[1] = 1
    <2>1. PICK i \in 1..N : pos[i] = 1
      BY <1>7, <1>9
    <2>. QED
      BY <1>8, <1>9, <1>10, <2>1
  <1>12. 2 \in 1..N /\ pos[2] = 2
    <2>1. PICK i \in 1..N : pos[i] = 2
      BY <1>7, <1>9
    <2>2. i >= 2
      BY <1>11, <2>1
    <2>. QED
      BY <1>8, <1>9, <1>10, <1>11, <2>1, <2>2
  <1>13. 3 \in 1..N /\ pos[3] = 3
    <2>1. PICK i \in 1..N : pos[i] = 3
      BY <1>7, <1>9
    <2>2. i >= 3
      BY <1>11, <1>12, <2>1
    <2>. QED
      BY <1>8, <1>9, <1>10, <1>12, <2>1, <2>2
  <1>14. n = 4 => 4 \in 1..N /\ pos[4] = 4
    <2>. SUFFICES ASSUME n = 4 PROVE 4 \in 1..N /\ pos[4] = 4
      OBVIOUS
    <2>1. PICK i \in 1..N : pos[i] = 4
      BY <1>7, <1>9
    <2>2. i >= 4
      BY <1>11, <1>12, <1>13, <2>1
    <2>. QED
      BY <1>8, <1>9, <1>10, <1>13, <2>1, <2>2
  <1>15. \A i \in 1..n : i \in 1..N /\ pos[i] = i
    BY <1>11, <1>12, <1>13, <1>14
  <1>16. Len(Entries(r, P)) = N /\ N >= n
    BY <1>8, <1>9, <1>13, <1>14
  <1>17. \A i \in 1..n : Entries(r, P)[i] = r[i]
    BY <1>9, <1>15
  <1>. QED
    BY <1>2, <1>7, <1>16, <1>17 DEF s

\* What answering a request does to the log and says of it: an operation is logged for
\* an OK, and an OK with an id is for the order of the request.
LEMMA AnsweredIsLogged ==
    ASSUME AnyNumber, Shape, IdsIssued, ConnInv, NEW c \in Conn, Answered(c)
    PROVE  \/ /\ UNCHANGED op_log
              /\ conn'[c].answer.status # "OK" /\ "order_id" \notin DOMAIN conn'[c].answer
           \/ /\ \E op \in Operation :
                    /\ Record(self, op)
                    /\ op.type = "ADD_ORDER" => "order_id" \in DOMAIN conn'[c].answer
                    /\ "order_id" \in DOMAIN conn'[c].answer =>
                          /\ op.op_id = conn'[c].answer.order_id
                          /\ \E what \in handler(Request(c)) :
                                /\ what.call = "local_add_order"
                                /\ op.order = [order_id |-> op.op_id, side |-> what.side,
                                               price |-> what.price, quantity |-> what.quantity]
              /\ conn'[c].answer.status = "OK"
  <1>0. TypeOK /\ self \in Node /\ conn[c].state # "none"
    BY TypesFromShape, SelfIsTheNode DEF Answered
  <1>1. ASSUME NEW answer, Answer(c, answer) PROVE conn'[c].answer = answer
    BY <1>0, <1>1, AnswerKeeps
  <1>2. CASE Request(c) = <<>> /\ Answer(c, NoConn.answer) /\ UNCHANGED vars
    <2>1. NoConn.answer.status = "none" /\ DOMAIN NoConn.answer = {"status"}
      BY DEF NoConn
    <2>. QED
      BY <1>1, <1>2, <2>1 DEF vars
  <1>3. ASSUME NEW status, status # "OK", Answer(c, [status |-> status]), UNCHANGED op_log
        PROVE  /\ UNCHANGED op_log
               /\ conn'[c].answer.status # "OK" /\ "order_id" \notin DOMAIN conn'[c].answer
    BY <1>1, <1>3
  <1>8. ASSUME NEW state \in DOMAIN Report, Begins(c, state)
        PROVE  /\ UNCHANGED op_log
               /\ conn'[c].answer.status # "OK" /\ "order_id" \notin DOMAIN conn'[c].answer
    <2>. DEFINE answer == [status |-> state]
    <2>1. conn'[c].answer = answer
      BY <1>0, <1>8, ReportKeeps DEF Begins
    <2>2. answer.status = state /\ DOMAIN answer = {"status"} /\ state # "OK"
      BY DEF Report
    <2>. HIDE DEF answer
    <2>. QED
      BY <1>8, <2>1, <2>2 DEF Begins, vars
  <1>4. ASSUME NEW what \in handler(Request(c)), Call(c, what),
               what.call # "local_add_order", what.call # "local_cancel_order"
        PROVE  /\ UNCHANGED op_log
               /\ conn'[c].answer.status # "OK" /\ "order_id" \notin DOMAIN conn'[c].answer
    <2>1. ValidCall(what)
      BY CallsAreValid, RequestIsTokens
    <2>2. CASE what.call = "none" /\ Answer(c, [status |-> what.status]) /\ UNCHANGED vars
      BY <1>3, <2>1, <2>2 DEF ValidCall, vars
    <2>3. CASE what.call = "get_peers" /\ Answer(c, [status |-> "PEERS"]) /\ UNCHANGED vars
      BY <1>3, <2>3 DEF vars
    <2>4. CASE /\ what.call \in DOMAIN Report
               /\ conn' = [conn EXCEPT ![c].state = what.call, ![c].answer = [status |-> what.call]]
               /\ UNCHANGED vars
      <3>1. what.call \in DOMAIN Report /\ Begins(c, what.call)
        BY <2>4 DEF Begins
      <3>. QED
        BY <1>8, <3>1
    <2>5. CASE Answer(c, [status |-> "BIDS", levels |-> Depth(book[self])]) /\ UNCHANGED vars
      BY <1>1, <2>5 DEF vars
    <2>6. CASE /\ local_market_order(self, what.side, what.quantity)
               /\ Answer(c, [status |-> "FILLED", fills |-> Fills(book[self], what.side, what.quantity)])
      <3>1. UNCHANGED op_log
        BY <1>0, <2>6, MarketOrderOnlyTicks DEF OnlyTicks
      <3>2. PICK fills : fills = Fills(book[self], what.side, what.quantity)
        OBVIOUS
      <3>3. Answer(c, [status |-> "FILLED", fills |-> fills])
        BY <2>6, <3>2
      <3>. QED
        BY <1>1, <3>1, <3>3
    <2>. QED
      BY <1>4, <2>2, <2>3, <2>4, <2>5, <2>6 DEF Call
  <1>5. ASSUME NEW what \in handler(Request(c)), what.call = "local_add_order",
               local_add_order(self, what.side, what.price, what.quantity),
               Answer(c, [status |-> "OK", order_id |-> issued + 1])
        PROVE  /\ \E op \in Operation :
                     /\ Record(self, op)
                     /\ op.op_id = conn'[c].answer.order_id
                     /\ op.order = [order_id |-> op.op_id, side |-> what.side,
                                    price |-> what.price, quantity |-> what.quantity]
               /\ conn'[c].answer.status = "OK" /\ "order_id" \in DOMAIN conn'[c].answer
    <2>1. ValidCall(what)
      BY CallsAreValid, RequestIsTokens
    <2>2. what.side \in Side /\ what.price \in Price /\ what.quantity \in Quantity
      BY <1>5, <2>1 DEF ValidCall, AnyNumber
    <2>. DEFINE op == AddOp(self, issued + 1, what.side, what.price, what.quantity,
                            tick(clock[self], self))
    <2>3. op \in Operation /\ Issues(self, op)
      BY <1>0, <1>5, <2>2, AddIssues
    <2>4. op.op_id = issued + 1 /\ op.order = [order_id |-> op.op_id, side |-> what.side,
                                               price |-> what.price, quantity |-> what.quantity]
      BY DEF AddOp
    <2>. HIDE DEF op
    <2>5. conn'[c].answer = [status |-> "OK", order_id |-> issued + 1]
      BY <1>1, <1>5
    <2>6. Record(self, op)
      BY <2>3 DEF Issues
    <2>. QED
      BY <2>3, <2>4, <2>5, <2>6
  <1>6. ASSUME NEW what \in handler(Request(c)), what.call = "local_cancel_order",
               local_cancel_order(self, what.order_id),
               Answer(c, [status |-> IF what.order_id \in Resting(book[self])
                                     THEN "OK" ELSE "ERROR order_not_found"])
        PROVE  \/ /\ UNCHANGED op_log
                  /\ conn'[c].answer.status # "OK" /\ "order_id" \notin DOMAIN conn'[c].answer
               \/ /\ \E op \in Operation : Record(self, op) /\ op.type # "ADD_ORDER"
                  /\ conn'[c].answer.status = "OK" /\ "order_id" \notin DOMAIN conn'[c].answer
    <2>1. CASE what.order_id \notin Resting(book[self])
      <3>1. UNCHANGED op_log
        BY <1>6, <2>1 DEF local_cancel_order, vars
      <3>. QED
        BY <1>3, <1>6, <2>1, <3>1
    <2>2. CASE what.order_id \in Resting(book[self])
      <3>1. what.order_id \in Nat
        BY <1>0, <2>2 DEF TypeOK
      <3>2. \E op \in Operation : Issues(self, op) /\ op.type = "CANCEL_ORDER"
        BY <1>0, <1>6, <2>2, <3>1, CancelIssues
      <3>3. conn'[c].answer = [status |-> "OK"]
        BY <1>1, <1>6, <2>2
      <3>. QED
        BY <3>2, <3>3 DEF Issues
    <2>. QED
      BY <2>1, <2>2
  <1>7. CASE \E what \in handler(Request(c)) : Call(c, what)
    <2>1. PICK what \in handler(Request(c)) : Call(c, what)
      BY <1>7
    <2>2. \/ what.call # "local_add_order" /\ what.call # "local_cancel_order"
          \/ /\ what.call = "local_add_order"
             /\ local_add_order(self, what.side, what.price, what.quantity)
             /\ Answer(c, [status |-> "OK", order_id |-> issued + 1])
          \/ /\ what.call = "local_cancel_order"
             /\ local_cancel_order(self, what.order_id)
             /\ Answer(c, [status |-> IF what.order_id \in Resting(book[self])
                                      THEN "OK" ELSE "ERROR order_not_found"])
      BY <2>1 DEF Call, Report
    <2>. QED
      BY <1>4, <1>5, <1>6, <2>1, <2>2
  <1>. QED
    BY <1>2, <1>7 DEF Answered

\* The connections answered OK.
AnsweredOK == {c \in Conn : conn[c].answer.status = "OK"}

\* The client of k, if it gave side, price and quantity in its first line and did not hang
\* up, has got the order it wrote.
Written(k) ==
    LET line == Line(k.script)
    IN  /\ k.state = "closed" /\ ~k.hung_up /\ "order_id" \in DOMAIN k.answer
        /\ Len(line) = 4
        => \E op \in Ops(self) :
              /\ op.op_id = k.answer.order_id
              /\ op.order = [order_id |-> op.op_id, side |-> to_upper(line[2].text),
                             price |-> line[3].value, quantity |-> line[4].value]

LEMMA CommandsSplit ==
    CommandsAsWritten <=> /\ Len(op_log[self]) = Cardinality(AnsweredOK)
                          /\ \A c \in Conn : Written(conn[c])
  BY Zenon DEF CommandsAsWritten, AnsweredOK, Written

\* What was written stays in the log.
LEMMA WrittenKept ==
    ASSUME NEW k, Written(k), Ops(self) \subseteq Ops(self)'
    PROVE  Written(k)'
  BY DEF Written

\* Answering a connection does nothing to the others, and nothing to what its client sent.
LEMMA OthersKept ==
    ASSUME ConnInv, NEW c \in Conn, Answered(c)
    PROVE  /\ conn'[c].script = conn[c].script /\ conn'[c].hung_up = conn[c].hung_up
           /\ conn[c].answer = NoConn.answer
           /\ \A d \in Conn \ {c} : conn'[d] = conn[d]
  <1>1. conn[c].state # "none" /\ conn[c].answer = NoConn.answer
    BY DEF Answered, ConnInv, IsConn
  <1>2. \/ \E answer : Answer(c, answer)
        \/ \E state \in DOMAIN Report : Begins(c, state)
    BY CallCases DEF Answered
  <1>. DEFINE Kept == /\ conn'[c].script = conn[c].script /\ conn'[c].hung_up = conn[c].hung_up
                      /\ \A d \in Conn \ {c} : conn'[d] = conn[d]
  <1>3. ASSUME NEW answer, Answer(c, answer) PROVE Kept
    BY <1>1, <1>3, AnswerKeeps
  <1>4. ASSUME NEW state \in DOMAIN Report, Begins(c, state) PROVE Kept
    <2>. DEFINE answer == [status |-> state]
    <2>1. conn' = [conn EXCEPT ![c] = [conn[c] EXCEPT !.state = state, !.answer = answer]]
      BY <1>4 DEF Begins
    <2>. HIDE DEF answer
    <2>. QED
      BY <1>1, <2>1, ReportKeeps
  <1>. QED
    BY <1>1, <1>2, <1>3, <1>4

\* The number of OKs.
LEMMA CountOK ==
    /\ Cardinality(AnsweredOK) \in Nat
    /\ \A c : c \notin AnsweredOK =>
          Cardinality(AnsweredOK \cup {c}) = Cardinality(AnsweredOK) + 1
  <1>1. IsFiniteSet(AnsweredOK)
    BY ConnAssumption, FS_Subset DEF AnsweredOK
  <1>. HIDE DEF AnsweredOK
  <1>. QED
    BY <1>1, FS_CardinalityType, FS_AddElement

\* Every step keeps one operation logged for an OK, and what was written got.
LEMMA CommandsPreserved ==
    ASSUME AnyNumber, Shape, IdsIssued, BookFollowsLog, ConnInv, ReportInv, CommandsAsWritten,
           [ServerNext]_<<vars, server>>
    PROVE  CommandsAsWritten'
  <1>0. self \in Node /\ Len(op_log[self]) \in Nat
    BY SelfIsTheNode, LogType DEF Log
  <1>1. /\ Len(op_log[self]) = Cardinality(AnsweredOK)
        /\ \A c \in Conn : Written(conn[c])
    BY CommandsSplit
  <1>2. NoConn.answer.status # "OK" /\ "order_id" \notin DOMAIN NoConn.answer
    BY DEF NoConn
  <1>3. ASSUME NEW c \in Conn, "order_id" \notin DOMAIN conn'[c].answer
        PROVE  Written(conn[c])'
    BY <1>3 DEF Written
  <1>4. ASSUME NEW c \in Conn, conn'[c] = conn[c], Ops(self) \subseteq Ops(self)'
        PROVE  Written(conn[c])'
    <2>1. PICK k : k = conn[c]
      OBVIOUS
    <2>2. Written(k)'
      BY <1>1, <1>4, <2>1, WrittenKept
    <2>. QED
      BY <1>4, <2>1, <2>2
  <1>9. Len(op_log[self])' = Cardinality(AnsweredOK)' /\ (\A c \in Conn : Written(conn[c])')
           => CommandsAsWritten'
    BY Zenon DEF CommandsAsWritten, AnsweredOK, Written
  <1>5. ASSUME UNCHANGED op_log,
               \A c \in Conn : \/ conn'[c] = conn[c]
                               \/ /\ conn[c].answer.status # "OK" /\ conn'[c].answer.status # "OK"
                                  /\ "order_id" \notin DOMAIN conn'[c].answer
        PROVE  CommandsAsWritten'
    <2>1. AnsweredOK' = AnsweredOK
      BY <1>5 DEF AnsweredOK
    <2>2. Ops(self)' = Ops(self)
      BY <1>5 DEF Ops
    <2>3. \A c \in Conn : Written(conn[c])'
      BY <1>3, <1>4, <1>5, <2>2
    <2>4. Len(op_log[self])' = Cardinality(AnsweredOK)'
      BY <1>1, <1>5, <2>1
    <2>. QED
      BY <2>3, <2>4, <1>9
  <1>6. CASE Quiet
    <2>1. \A c \in Conn : conn[c].state \in {"none", "backlog", "reading"} =>
             conn[c].answer = NoConn.answer
      BY DEF ConnInv, IsConn
    <2>. QED
      BY <1>2, <1>5, <1>6, <2>1 DEF Quiet, vars
  <1>7. ASSUME NEW c \in Conn, Answered(c) PROVE CommandsAsWritten'
    <2>1. /\ conn'[c].script = conn[c].script /\ conn'[c].hung_up = conn[c].hung_up
          /\ conn[c].answer.status # "OK" /\ conn[c].state = "handling"
          /\ \A d \in Conn \ {c} : conn'[d] = conn[d]
      BY <1>2, <1>7, OthersKept DEF Answered
    <2>2. CASE /\ UNCHANGED op_log
               /\ conn'[c].answer.status # "OK" /\ "order_id" \notin DOMAIN conn'[c].answer
      BY <1>5, <2>1, <2>2
    <2>3. ASSUME NEW op \in Operation, Record(self, op),
                 conn'[c].answer.status = "OK",
                 "order_id" \in DOMAIN conn'[c].answer =>
                    /\ op.op_id = conn'[c].answer.order_id
                    /\ \E what \in handler(Request(c)) :
                          /\ what.call = "local_add_order"
                          /\ op.order = [order_id |-> op.op_id, side |-> what.side,
                                         price |-> what.price, quantity |-> what.quantity]
          PROVE  CommandsAsWritten'
      <3>1. /\ Ops(self)' = Ops(self) \cup {op}
            /\ DOMAIN op_log'[self] = 1..(Len(op_log[self]) + 1)
            /\ op_log'[self] \in Seq(Operation)
        BY <1>0, <2>3, RecordEffect
      <3>2. Len(op_log'[self]) = Len(op_log[self]) + 1
        BY <1>0, <3>1
      <3>3. AnsweredOK' = AnsweredOK \cup {c} /\ c \notin AnsweredOK
        BY <2>1, <2>3 DEF AnsweredOK
      <3>4. Len(op_log[self])' = Cardinality(AnsweredOK)'
        BY <1>1, <3>2, <3>3, CountOK
      <3>5. ASSUME Len(Line(conn[c].script)) = 4, ~conn[c].hung_up,
                   "order_id" \in DOMAIN conn'[c].answer
            PROVE  LET line == Line(conn[c].script)
                   IN  op.order = [order_id |-> op.op_id, side |-> to_upper(line[2].text),
                                   price |-> line[3].value, quantity |-> line[4].value]
        <4>1. PICK what \in handler(Request(c)) :
                 /\ what.call = "local_add_order"
                 /\ op.order = [order_id |-> op.op_id, side |-> what.side,
                                price |-> what.price, quantity |-> what.quantity]
          BY <2>3, <3>5
        <4>5. 4 \in {3, 4} /\ Len(Line(conn[c].script)) >= 4
          BY <3>5
        <4>2. Request(c) \in Seq(Token) /\ Len(Request(c)) >= 4
          BY <2>1, <3>5, <4>5, FirstLineIsRead, RequestIsTokens
        <4>3. \A i \in {2, 3, 4} : Request(c)[i] = Line(conn[c].script)[i]
          <5>1. \A i \in 1..4 : Request(c)[i] = Line(conn[c].script)[i]
            BY <2>1, <3>5, <4>5, FirstLineIsRead
          <5>. QED
            BY <5>1
        <4>4. /\ what.side = to_upper(Request(c)[2].text)
              /\ what.price = Request(c)[3].value /\ what.quantity = Request(c)[4].value
          BY <4>1, <4>2, AddsAsRequested
        <4>. QED
          BY <4>1, <4>3, <4>4
      <3>6. Written(conn[c])'
        BY <2>1, <2>3, <3>1, <3>5, Zenon DEF Written
      <3>7. \A d \in Conn : Written(conn[d])'
        BY <1>4, <2>1, <3>1, <3>6
      <3>. QED
        BY <3>4, <3>7, <1>9
    <2>. QED
      BY <1>7, <2>2, <2>3, AnsweredIsLogged
  <1>8. ASSUME NEW c \in Conn, report(c) PROVE CommandsAsWritten'
    <2>1. conn[c].state # "none"
      BY <1>8 DEF report, Report
    <2>2. PICK answer :
             /\ answer.status = conn[c].answer.status /\ "order_id" \notin DOMAIN answer
             /\ \/ Answer(c, answer)
                \/ conn' = [conn EXCEPT ![c] = [conn[c] EXCEPT !.answer = answer]]
      BY <1>8, ReportGoesOn
    <2>3. UNCHANGED op_log
      BY <1>8, ReportGoesOn DEF vars
    <2>4. conn'[c].answer = answer /\ \A d \in Conn \ {c} : conn'[d] = conn[d]
      <3>1. CASE Answer(c, answer)
        BY <2>1, <3>1, AnswerKeeps
      <3>2. CASE conn' = [conn EXCEPT ![c] = [conn[c] EXCEPT !.answer = answer]]
        BY <3>2 DEF ConnInv, IsConn
      <3>. QED
        BY <2>2, <3>1, <3>2
    <2>5. AnsweredOK' = AnsweredOK
      BY <2>2, <2>4 DEF AnsweredOK
    <2>6. Ops(self)' = Ops(self)
      BY <2>3 DEF Ops
    <2>7. \A d \in Conn : Written(conn[d])'
      BY <1>3, <1>4, <2>2, <2>4, <2>6
    <2>8. Len(op_log[self])' = Cardinality(AnsweredOK)'
      BY <1>1, <2>3, <2>5
    <2>. QED
      BY <2>7, <2>8, <1>9
  <1>. QED
    BY <1>6, <1>7, <1>8, ServerSteps

\* However TCP cuts up what is sent, whatever clients send after their first line, and
\* whatever their threads do in between: one operation is logged for every answer OK, and
\* a client that wrote side, price and quantity and stayed has got the order it wrote.
THEOREM CommandsWritten ==
    ASSUME AnyNumber
    PROVE  ServerSpec => []CommandsAsWritten
  <1>. DEFINE I == ConnInv /\ Shape /\ IdsIssued
  <1>1. ServerInit => I /\ CommandsAsWritten
    <2>1. ServerInit => I
      BY ServerInvariant
    <2>2. ASSUME ServerInit PROVE CommandsAsWritten
      <3>1. NoConn.answer.status # "OK" /\ NoConn.state = "none"
        BY DEF NoConn
      <3>2. \A c \in Conn : conn[c] = NoConn
        BY <2>2 DEF ServerInit
      <3>3. AnsweredOK = {} /\ \A c \in Conn : Written(conn[c])
        BY <3>1, <3>2 DEF AnsweredOK, Written
      <3>4. Len(op_log[self]) = 0
        BY <2>2, SelfIsTheNode DEF ServerInit, Init
      <3>. QED
        BY <3>3, <3>4, FS_EmptySet, CommandsSplit
    <2>. QED
      BY <2>1, <2>2
  <1>2. I /\ [ServerNext]_<<vars, server>> => I'
    BY ServerInvariant
  <1>3. I /\ BookFollowsLog /\ ReportInv /\ CommandsAsWritten /\ [ServerNext]_<<vars, server>>
           => CommandsAsWritten'
    BY CommandsPreserved
  <1>. QED
    BY <1>1, <1>2, <1>3, ReportInvariant, PTL DEF ServerSpec


-----------------------------------------------------------------------------
(* Valid orders.                                                           *)

\* The connection k has got the order id, and broke off or left the price out.
Excuses(k, id) ==
    /\ "order_id" \in DOMAIN k.answer /\ k.answer.order_id = id
    /\ k.hung_up \/ Len(Line(k.script)) < 3

\* Every order whose price is no number comes of such a connection.
NaNsExcused ==
    \A op \in Ops(self) : op.type = "ADD_ORDER" /\ op.order.price = NaN =>
        \E c \in Conn : Excuses(conn[c], op.op_id)

\* What was answered stays answered, and to the same client.
LEMMA ExcusesKept ==
    ASSUME ConnInv, Shape, IdsIssued, BookFollowsLog, ReportInv,
           [ServerNext]_<<vars, server>>, NEW c \in Conn, NEW id, Excuses(conn[c], id)
    PROVE  Excuses(conn'[c], id)
  <1>1. "order_id" \in DOMAIN conn[c].answer
    BY DEF Excuses
  <1>2. "order_id" \notin DOMAIN NoConn.answer
    BY DEF NoConn
  <1>. SUFFICES conn'[c] = conn[c]
    OBVIOUS
  <1>3. CASE Quiet
    <2>1. conn[c].state \in {"none", "backlog", "reading"} => conn[c].answer = NoConn.answer
      BY DEF ConnInv, IsConn
    <2>. QED
      BY <1>1, <1>2, <1>3, <2>1 DEF Quiet
  <1>4. ASSUME NEW d \in Conn, Answered(d) PROVE conn'[c] = conn[c]
    <2>1. conn[d].answer = NoConn.answer /\ \A e \in Conn \ {d} : conn'[e] = conn[e]
      BY <1>4, OthersKept
    <2>. QED
      BY <1>1, <1>2, <2>1
  <1>5. ASSUME NEW d \in Conn, report(d) PROVE conn'[c] = conn[c]
    <2>1. conn[d].state \in {"STATUS", "METRICS"}
      BY <1>5 DEF report, Report
    <2>2. "order_id" \notin DOMAIN conn[d].answer
      <3>1. FieldsGot(conn[d])
        BY DEF ReportInv
      <3>. QED
        BY <2>1, <3>1 DEF FieldsGot
    <2>3. PICK answer : \/ Answer(d, answer)
                        \/ conn' = [conn EXCEPT ![d] = [conn[d] EXCEPT !.answer = answer]]
      BY <1>5, ReportGoesOn
    <2>4. \A e \in Conn \ {d} : conn'[e] = conn[e]
      <3>1. CASE Answer(d, answer)
        BY <2>1, <3>1, AnswerKeeps
      <3>2. CASE conn' = [conn EXCEPT ![d] = [conn[d] EXCEPT !.answer = answer]]
        BY <3>2 DEF ConnInv, IsConn
      <3>. QED
        BY <2>3, <3>1, <3>2
    <2>. QED
      BY <1>1, <2>2, <2>4
  <1>. QED
    BY <1>3, <1>4, <1>5, ServerSteps

\* The first line of a connection that is handled without having broken off has a length.
LEMMA LineIsRead ==
    ASSUME ConnInv, NEW c \in Conn, conn[c].state = "handling"
    PROVE  Len(Line(conn[c].script)) \in Int
  <1>. DEFINE s == conn[c].script
              E == {i \in DOMAIN s : s[i] = NEWLINE}
  <1>1. s \in Seq(Token) /\ HasLineEnd(s)
    BY DEF ConnInv, IsConn
  <1>2. Line(s) = SubSeq(s, 1, Min(E) - 1)
    BY Zenon DEF Line
  <1>. HIDE DEF s
  <1>3. Len(s) \in Nat /\ DOMAIN s = 1..Len(s) /\ E # {} /\ IsFiniteSet(E) /\ E \in SUBSET Int
    <2>1. Len(s) \in Int /\ 1 \in Int /\ DOMAIN s = 1..Len(s) /\ Len(s) \in Nat
      BY <1>1
    <2>2. IsFiniteSet(1..Len(s))
      BY <2>1, FS_Interval
    <2>3. IsFiniteSet(E) /\ E \in SUBSET Int
      BY <2>1, <2>2, FS_Subset
    <2>. QED
      BY <1>1, <2>1, <2>3 DEF HasLineEnd
  <1>4. Min(E) \in E
    <2>. HIDE DEF E
    <2>. QED
      BY <1>3, MinOfSet
  <1>5. Min(E) \in 1..Len(s)
    BY <1>3, <1>4
  <1>. HIDE DEF E
  <1>6. Len(Line(s)) = Min(E) - 1
    BY <1>1, <1>2, <1>3, <1>5, BeginningOfScript
  <1>. QED
    BY <1>5, <1>6 DEF s

\* Every step keeps the orders whose price is no number excused.
LEMMA NaNsStayExcused ==
    ASSUME AnyNumber, Shape, IdsIssued, BookFollowsLog, ConnInv, ReportInv, NaNsExcused,
           [ServerNext]_<<vars, server>>
    PROVE  NaNsExcused'
  <1>0. self \in Node
    BY SelfIsTheNode
  <1>1. ASSUME NEW op \in Ops(self), op.type = "ADD_ORDER", op.order.price = NaN
        PROVE  \E c \in Conn : Excuses(conn'[c], op.op_id)
    <2>1. PICK c \in Conn : Excuses(conn[c], op.op_id)
      BY <1>1 DEF NaNsExcused
    <2>. QED
      BY <2>1, ExcusesKept
  <1>2. ASSUME \A op \in Ops(self)' : op.type = "ADD_ORDER" /\ op.order.price = NaN =>
                  \E c \in Conn : Excuses(conn'[c], op.op_id)
        PROVE  NaNsExcused'
    BY <1>2 DEF NaNsExcused, Excuses
  <1>3. CASE UNCHANGED op_log
    <2>1. Ops(self)' = Ops(self)
      BY <1>3 DEF Ops
    <2>. QED
      BY <1>1, <1>2, <2>1
  <1>4. ASSUME NEW c \in Conn, Answered(c) PROVE NaNsExcused'
    <2>1. conn[c].state = "handling"
          /\ conn'[c].script = conn[c].script /\ conn'[c].hung_up = conn[c].hung_up
      BY <1>4, OthersKept DEF Answered
    <2>2. ASSUME NEW op \in Operation, Record(self, op),
                 op.type = "ADD_ORDER" => "order_id" \in DOMAIN conn'[c].answer,
                 "order_id" \in DOMAIN conn'[c].answer =>
                    /\ op.op_id = conn'[c].answer.order_id
                    /\ \E what \in handler(Request(c)) :
                          /\ what.call = "local_add_order"
                          /\ op.order = [order_id |-> op.op_id, side |-> what.side,
                                         price |-> what.price, quantity |-> what.quantity]
          PROVE  NaNsExcused'
      <3>1. Ops(self)' = Ops(self) \cup {op}
        BY <1>0, <2>2, RecordEffect
      <3>2. ASSUME op.type = "ADD_ORDER", op.order.price = NaN
            PROVE  Excuses(conn'[c], op.op_id)
        <4>1. PICK what \in handler(Request(c)) :
                 /\ what.call = "local_add_order"
                 /\ op.order = [order_id |-> op.op_id, side |-> what.side,
                                price |-> what.price, quantity |-> what.quantity]
          BY <2>2, <3>2
        <4>2. what.price = NaN
          BY <3>2, <4>1
        <4>3. Request(c) \in Seq(Token) /\ ~(Len(Request(c)) >= 3)
          BY <4>1, <4>2, RequestIsTokens, WrittenPriceIsNumber
        <4>4. ~conn[c].hung_up => ~(Len(Line(conn[c].script)) >= 3)
          <5>1. 3 \in {3, 4}
            OBVIOUS
          <5>. QED
            BY <2>1, <4>3, <5>1, FirstLineIsRead
        <4>5. ~conn[c].hung_up => Len(Line(conn[c].script)) \in Int
          BY <2>1, LineIsRead
        <4>. QED
          BY <2>1, <2>2, <3>2, <4>4, <4>5 DEF Excuses
      <3>. QED
        BY <1>1, <1>2, <3>1, <3>2
    <2>. QED
      BY <1>3, <1>4, <2>2, AnsweredIsLogged
  <1>5. ASSUME NEW c \in Conn, report(c) PROVE UNCHANGED op_log
    BY <1>5, ReportGoesOn DEF vars
  <1>6. Quiet => UNCHANGED op_log
    BY DEF Quiet, vars
  <1>. QED
    BY <1>3, <1>4, <1>5, <1>6, ServerSteps

\* However a request arrives, breaks off or leaves out, and whatever is found in the
\* variables nobody wrote: no order is taken with a price or a quantity of zero or below,
\* and the check lets a price that is no number through only where none was written.
THEOREM ValidOrders ==
    ASSUME AnyNumber
    PROVE  ServerSpec => []ValidOrdersOnly
  <1>. DEFINE I == ConnInv /\ Shape /\ IdsIssued
  <1>1. Shape /\ IdsIssued /\ NaNsExcused => ValidOrdersOnly
    <2>. SUFFICES ASSUME TypeOK, NaNsExcused, NEW op \in Ops(self), op.type = "ADD_ORDER"
                  PROVE  /\ op.order.price > 0 /\ op.order.quantity > 0
                         /\ op.order.price = NaN => \E c \in Conn : Excuses(conn[c], op.op_id)
      BY TypesFromShape DEF ValidOrdersOnly, Excuses
    <2>1. IsOperation(op)
      BY SelfIsTheNode DEF TypeOK, Ops
    <2>2. op.order \in LimitOrder
      BY <2>1 DEF IsOperation
    <2>3. op.order.price \in Price /\ op.order.quantity \in Quantity
      BY <2>2 DEF LimitOrder
    <2>4. op.order.price \in Nat \ {0} /\ op.order.quantity \in Nat \ {0}
      BY <2>3, PriceAssumption, QuantityAssumption, Zenon
    <2>. QED
      BY <2>4 DEF NaNsExcused
  <1>2. ServerInit => I /\ NaNsExcused
    <2>1. ServerInit => I
      BY ServerInvariant
    <2>2. ASSUME ServerInit PROVE NaNsExcused
      <3>1. op_log[self] = <<>>
        BY <2>2, SelfIsTheNode DEF ServerInit, Init
      <3>. QED
        BY <3>1 DEF NaNsExcused, Ops
    <2>. QED
      BY <2>1, <2>2
  <1>3. I /\ [ServerNext]_<<vars, server>> => I'
    BY ServerInvariant
  <1>4. I /\ BookFollowsLog /\ ReportInv /\ NaNsExcused /\ [ServerNext]_<<vars, server>>
           => NaNsExcused'
    BY NaNsStayExcused
  <1>. QED
    BY <1>1, <1>2, <1>3, <1>4, ReportInvariant, PTL DEF ServerSpec

=============================================================================
