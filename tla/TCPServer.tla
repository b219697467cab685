----------------------------- MODULE TCPServer -----------------------------
(***************************************************************************)
(* One node as its clients and its operator see it: the TCP server         *)
(* (src/network), with its accept thread and a detached thread for every   *)
(* connection, the replicated book they call, and main, which on a signal  *)
(* stops the gossip engine and then the server.                            *)
(*                                                                         *)
(* Clients send a script of tokens and line ends, as slowly as they like   *)
(* or not to the end, and may hang up at any time.  TCP hands over what    *)
(* was sent in pieces of any size.                                         *)
(*                                                                         *)
(* main returns into the destruction of everything the client threads use; *)
(* the model ends there.  The client threads end too, in the model, where  *)
(* an order is taken whose price is no number.                             *)
(***************************************************************************)
EXTENDS CRDTOrderBook, ClientHandler

CONSTANTS Conn,      \* connections
          Scripts    \* what the client of each may have in mind to send

\* A line end, wherever it is in a script.
NEWLINE == Word("\n")

ASSUME ScriptsAssumption ==
    \A c \in Conn : \A s \in Scripts[c] :
        s \in Seq(Token) /\ \E i \in DOMAIN s : s[i] = NEWLINE
ASSUME ConnAssumption == IsFiniteSet(Conn)
ASSUME OneNodeAssumption == Cardinality(Node) = 1

\* This node.
self == CHOOSE n \in Node : TRUE

VARIABLES conn,      \* the connections: the client's script, what was read of it, the thread
          accepting, \* the accept thread is in its loop
          running,   \* TCPServer::running_
          listening, \* the listening socket is not shut down
          g_running, \* g_running of main
          main       \* where main is

server == <<conn, accepting, running, listening, g_running, main>>

\* A connection before it is made.  sent: all of the script is on its way.
NoConn == [state |-> "none", script |-> <<>>, sent |-> FALSE, hung_up |-> FALSE,
           request |-> <<>>, answer |-> [status |-> "none"]]

ServerInit ==
    /\ Init
    /\ conn = [c \in Conn |-> NoConn]
    /\ accepting = TRUE /\ running = TRUE /\ listening = TRUE
    /\ g_running = TRUE /\ main = "running"

\* A price that is no number has come to the ladders, maps that its comparisons no
\* longer order: what they hold from here on is not modelled.
Undefined == \E op \in Ops(self) : op.type = "ADD_ORDER" /\ op.order.price = NaN

Ended == main = "returned" \/ Undefined

-----------------------------------------------------------------------------
(* The clients.                                                            *)

connect(c) ==
    /\ listening /\ conn[c].state = "none"
    /\ \E s \in Scripts[c] : conn' = [conn EXCEPT ![c].state = "backlog", ![c].script = s]
    /\ UNCHANGED <<vars, accepting, running, listening, g_running, main>>

\* The client has sent all it meant to.  Until then pieces arrive as it pleases.
client_done(c) ==
    /\ ~Ended /\ conn[c].state \in {"backlog", "reading"}
    /\ ~conn[c].sent /\ ~conn[c].hung_up
    /\ conn' = [conn EXCEPT ![c].sent = TRUE]
    /\ UNCHANGED <<vars, accepting, running, listening, g_running, main>>

\* The client closes its end or dies, perhaps in the middle of a token.
hang_up(c) ==
    /\ ~Ended /\ conn[c].state = "reading" /\ ~conn[c].hung_up
    /\ \E broken \in BOOLEAN :
          LET next == Len(conn[c].request) + 1
          IN  /\ broken => next \in DOMAIN conn[c].script /\ conn[c].script[next] # NEWLINE
              /\ conn' = [conn EXCEPT ![c].hung_up = TRUE,
                    ![c].request = IF broken THEN Append(@, Beginning(conn[c].script[next])) ELSE @]
    /\ UNCHANGED <<vars, accepting, running, listening, g_running, main>>

-----------------------------------------------------------------------------
(* The accept thread.                                                      *)

\* The loop's condition, looked at after every accept.
accept_loop == accepting' = running

\* Clients are served one after the other, by the accept thread itself.
accept_slip(c) ==
    /\ accepting /\ listening /\ conn[c].state = "backlog"
    /\ \A d \in Conn : conn[d].state # "reading"
    /\ conn' = [conn EXCEPT ![c].state = "reading"]
    /\ accept_loop
    /\ UNCHANGED <<vars, running, listening, g_running, main>>

\* A connection gets a thread of its own.
accept(c) ==
    /\ accepting /\ listening /\ conn[c].state = "backlog"
    /\ conn' = [conn EXCEPT ![c].state = "reading"]
    /\ accept_loop
    /\ UNCHANGED <<vars, running, listening, g_running, main>>

\* accept times out after a second, or fails because the socket was shut down.
accept_fails ==
    /\ accepting
    /\ ~listening \/ \A c \in Conn : conn[c].state # "backlog"
    /\ accept_loop
    /\ UNCHANGED <<vars, conn, running, listening, g_running, main>>

-----------------------------------------------------------------------------
(* A client thread.                                                        *)

\* What is read when one more piece arrives: at least a token, at most the rest.
Longer(c) ==
    {SubSeq(conn[c].script, 1, k) : k \in (Len(conn[c].request) + 1)..Len(conn[c].script)}

HasLineEnd(tokens) == \E i \in DOMAIN tokens : tokens[i] = NEWLINE

\* The first piece is taken for all of the request.
recv_slip(c) ==
    /\ ~Ended /\ conn[c].state = "reading"
    /\ ~conn[c].hung_up
    /\ \E request \in Longer(c) :
          conn' = [conn EXCEPT ![c].request = request, ![c].state = "handling"]
    /\ UNCHANGED <<vars, accepting, running, listening, g_running, main>>

\* The request ends wherever the first piece with a line end in it ends.
recv(c) ==
    /\ ~Ended /\ conn[c].state = "reading"
    /\ ~conn[c].hung_up
    /\ \E request \in Longer(c) :
          conn' = [conn EXCEPT ![c].request = request,
                               ![c].state = IF HasLineEnd(request) THEN "handling" ELSE @]
    /\ UNCHANGED <<vars, accepting, running, listening, g_running, main>>

\* recv returns 0 or -1, and what there is of the request is handled.
recv_end(c) ==
    /\ ~Ended /\ conn[c].state = "reading"
    /\ conn[c].hung_up
    /\ conn' = [conn EXCEPT ![c].state = "handling"]
    /\ UNCHANGED <<vars, accepting, running, listening, g_running, main>>

\* Line ends only separate tokens.
Request(c) ==
    LET r == conn[c].request
    IN  Entries(r, {i \in DOMAIN r : r[i] # NEWLINE})

\* After close, what had arrived is forgotten.
Closed(k, answer) ==
    [k EXCEPT !.state = "closed", !.answer = answer, !.request = <<>>, !.sent = FALSE]

Answer(c, answer) == conn' = [conn EXCEPT ![c] = Closed(@, answer)]

\* The log is counted first.
Report_slip == [STATUS  |-> <<"op_log", "clock", "orders">>, METRICS |-> <<"op_log", "orders", "levels">>]

\* The figures of the two reports, each read under a lock of its own, in this order.
Report == [STATUS  |-> <<"clock", "orders", "op_log">>, METRICS |-> <<"orders", "op_log", "levels">>]

Figure(field) ==
    CASE field = "clock"  -> clock[self]
      [] field = "orders" -> Cardinality(Resting(book[self]))
      [] field = "op_log" -> Len(op_log[self])
      [] field = "levels" -> [side \in Side |-> Cardinality(Prices(book[self], side))]

\* What a call of the book does and answers.  Each takes the book's lock once, but
\* for the two reports.
Call(c, what) ==
    \/ /\ what.call = "local_add_order"
       /\ local_add_order(self, what.side, what.price, what.quantity)
       /\ Answer(c, [status |-> "OK", order_id |-> issued + 1])
    \/ /\ what.call = "local_cancel_order"
       /\ local_cancel_order(self, what.order_id)
       /\ Answer(c, [status |-> IF what.order_id \in Resting(book[self])
                                THEN "OK" ELSE "ERROR order_not_found"])
    \/ /\ what.call = "local_market_order"
       /\ local_market_order(self, what.side, what.quantity)
       /\ Answer(c, [status |-> "FILLED", fills |-> Fills(book[self], what.side, what.quantity)])
    \/ /\ what.call = "get_snapshot"
       /\ Answer(c, [status |-> "BIDS", levels |-> Depth(book[self])]) /\ UNCHANGED vars
    \/ /\ what.call \in DOMAIN Report
       /\ conn' = [conn EXCEPT ![c].state = what.call, ![c].answer = [status |-> what.call]]
       /\ UNCHANGED vars
    \/ what.call = "get_peers" /\ Answer(c, [status |-> "PEERS"]) /\ UNCHANGED vars
    \/ what.call = "none" /\ Answer(c, [status |-> what.status]) /\ UNCHANGED vars

\* handler_(request), send and close; an empty request gets no answer.
handle_client(c) ==
    /\ ~Ended /\ conn[c].state = "handling"
    /\ IF Request(c) = <<>> THEN Answer(c, NoConn.answer) /\ UNCHANGED vars
       ELSE \E what \in handler(Request(c)) : Call(c, what)
    /\ UNCHANGED <<accepting, running, listening, g_running, main>>

\* A report with one more figure.
With(answer, field, figure) ==
    [f \in DOMAIN answer \cup {field} |-> IF f = field THEN figure ELSE answer[f]]

\* The next figure of a report.
report(c) ==
    /\ ~Ended /\ conn[c].state \in DOMAIN Report
    /\ LET fields == Report[conn[c].state]
           next   == Cardinality(DOMAIN conn[c].answer)
           answer == With(conn[c].answer, fields[next], Figure(fields[next]))
       IN  IF next = Len(fields) THEN Answer(c, answer)
           ELSE conn' = [conn EXCEPT ![c].answer = answer]
    /\ UNCHANGED <<vars, accepting, running, listening, g_running, main>>

-----------------------------------------------------------------------------
(* main, from the signal to its return.                                    *)

signal ==
    /\ g_running
    /\ g_running' = FALSE
    /\ UNCHANGED <<vars, conn, accepting, running, listening, main>>

\* main polls g_running, and calls gossip.stop().
main_loop ==
    /\ main = "running" /\ ~g_running
    /\ main' = "gossip.stop"
    /\ UNCHANGED <<vars, conn, accepting, running, listening, g_running>>

\* The engine's two threads look at its running_ between two rounds or receives, and
\* are joined.  tcp.stop() clears the server's running_ first.
gossip_stopped ==
    /\ main = "gossip.stop"
    /\ main' = "tcp.stop"
    /\ running' = FALSE
    /\ UNCHANGED <<vars, conn, accepting, listening, g_running>>

\* shutdown(server_fd_): connections nobody has accepted are dropped.
tcp_shutdown ==
    /\ main = "tcp.stop" /\ listening
    /\ listening' = FALSE
    /\ conn' = [c \in Conn |-> IF conn[c].state = "backlog"
                               THEN Closed(conn[c], NoConn.answer) ELSE conn[c]]
    /\ UNCHANGED <<vars, accepting, running, g_running, main>>

\* The client threads are waited for as well.
tcp_stopped_slip ==
    /\ main = "tcp.stop" /\ ~listening /\ ~accepting
    /\ \A c \in Conn : conn[c].state \in {"none", "closed"}
    /\ main' = "returned"
    /\ UNCHANGED <<vars, conn, accepting, running, listening, g_running>>

\* The accept thread is joined, and main returns.
tcp_stopped ==
    /\ main = "tcp.stop" /\ ~listening /\ ~accepting
    /\ main' = "returned"
    /\ UNCHANGED <<vars, conn, accepting, running, listening, g_running>>

-----------------------------------------------------------------------------

MainNext ==
    \/ main_loop
    \/ gossip_stopped
    \/ tcp_shutdown
    \/ tcp_stopped

AcceptNext == (\E c \in Conn : accept(c)) \/ accept_fails

Thread(c) == recv(c) \/ recv_end(c) \/ handle_client(c) \/ report(c)

ServerNext ==
    \/ \E c \in Conn : connect(c) \/ client_done(c) \/ hang_up(c) \/ Thread(c)
    \/ AcceptNext
    \/ signal
    \/ MainNext

\* Every thread goes on while it can; it reads what was sent.  Clients need do nothing.
ServerSpec ==
    /\ ServerInit /\ [][ServerNext]_<<vars, server>>
    /\ WF_<<vars, server>>(AcceptNext) /\ WF_<<vars, server>>(MainNext)
    /\ \A c \in Conn : WF_<<vars, server>>(
          (conn[c].state = "reading" => conn[c].sent \/ conn[c].hung_up) /\ Thread(c))

-----------------------------------------------------------------------------
(* Properties.                                                             *)

\* The type invariant.
ServerTypeOK ==
    /\ TypeOK
    /\ {accepting, running, listening, g_running} \subseteq BOOLEAN
    /\ main \in {"running", "gossip.stop", "tcp.stop", "returned"}
    /\ \A c \in Conn : /\ conn[c].state \in {"none", "backlog", "reading", "handling", "closed"}
                                            \cup DOMAIN Report
                       /\ Len(conn[c].request) <= Len(conn[c].script)

\* The first line of a script.
Line(script) ==
    SubSeq(script, 1, Min({i \in DOMAIN script : script[i] = NEWLINE}) - 1)

\* However TCP cuts up what is sent, and whatever a client sends after its first
\* line: the log holds one operation for every answer OK, and a client that did not
\* hang up and gave side, price and quantity has got the order it wrote.
CommandsAsWritten ==
    /\ Len(op_log[self]) = Cardinality({c \in Conn : conn[c].answer.status = "OK"})
    /\ \A c \in Conn :
          LET line == Line(conn[c].script)
          IN  /\ conn[c].state = "closed" /\ ~conn[c].hung_up /\ "order_id" \in DOMAIN conn[c].answer
              /\ Len(line) = 4
              => \E op \in Ops(self) :
                    /\ op.op_id = conn[c].answer.order_id
                    /\ op.order = [order_id |-> op.op_id, side |-> to_upper(line[2].text),
                                   price |-> line[3].value, quantity |-> line[4].value]

\* Whatever is left out of a request or breaks off, and whatever is then found in a
\* variable nobody wrote: no order is taken whose price or quantity is zero or below,
\* and none whose price is no number, but for a client that broke off or left the
\* price out.
ValidOrdersOnly ==
    \A op \in Ops(self) : op.type = "ADD_ORDER" =>
        /\ op.order.price > 0 /\ op.order.quantity > 0
        /\ op.order.price = NaN => \E c \in Conn :
              /\ "order_id" \in DOMAIN conn[c].answer /\ conn[c].answer.order_id = op.op_id
              /\ conn[c].hung_up \/ Len(Line(conn[c].script)) < 3

\* A report takes the book's lock for each figure and other threads run in between.
\* Its figures still add up: the log it counts has all that its clock counts, and
\* an add for every order it counts.
ReportsAddUp ==
    \A c \in Conn : LET answer == conn[c].answer
                        Has(field) == field \in DOMAIN answer
        IN  Has("op_log") =>
              /\ answer.op_log <= Len(op_log[self])
              /\ Has("clock") => \A i \in DOMAIN op_log[self] :
                    at(op_log[self][i].clock, self) <= at(answer.clock, self) => i <= answer.op_log
              /\ Has("orders") => answer.orders <=
                    Cardinality({i \in 1..answer.op_log : op_log[self][i].type = "ADD_ORDER"})

\* A client that sends nothing holds up no other: whoever has sent its line, or hung
\* up, is served unless the node is told to stop, or an order without a price is taken.
StalledClientsHoldUpNobody ==
    \A c \in Conn : (conn[c].sent \/ conn[c].hung_up)
                        ~> (conn[c].state = "closed" \/ ~g_running \/ Undefined)

\* After a signal main returns, whatever clients are connected and silent.
ShutdownCompletes == ~g_running ~> main = "returned"

=============================================================================
