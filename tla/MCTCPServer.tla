---------------------------- MODULE MCTCPServer ----------------------------
(* TCPServer with two clients.                                             *)
EXTENDS TCPServer, TLC

CONSTANTS c1, c2   \* the clients

\* The first client sends an order without price and quantity that has another line
\* after it, a market order, a cancel, or asks for the book; the second sends a
\* complete order or asks for one of the reports.
MCScripts ==
    (c1 :> {<<Word("add"), Word("sell"), NEWLINE, Word("x")>>,
            <<Word("MARKET"), Word("SELL"), Number(15), NEWLINE>>,
            <<Word("CANCEL"), Number(1), NEWLINE>>,
            <<Word("BOOK"), NEWLINE>>}) @@
    (c2 :> {<<Word("ADD"), Word("BUY"), Number(12), Number(20), NEWLINE>>,
            <<Word("STATUS"), NEWLINE>>,
            <<Word("METRICS"), NEWLINE>>,
            <<Word("PEERS"), NEWLINE>>})

MCText == {"", "\n", "add", "sell", "x", "MARKET", "SELL", "CANCEL", "BOOK", "ADD", "BUY", "STATUS",
           "METRICS", "PEERS"}

MCGarbage == {-1, 7}

=============================================================================
