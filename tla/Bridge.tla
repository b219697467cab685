------------------------------- MODULE Bridge -------------------------------
(***************************************************************************)
(* The bridge between the nodes and a dashboard (frontend/server/index.js) *)
(* and what the dashboard shows (frontend/src/hooks/useSocket.js).         *)
(*                                                                         *)
(* The bridge polls every node over TCP at an interval, whether or not     *)
(* earlier polls are done, and shows the answers, or replays market data   *)
(* and shows books made from that instead.                                 *)
(*                                                                         *)
(* It is one event loop: an action is one callback with the continuations  *)
(* it sets going.  Messages to the dashboard arrive in order, so they take *)
(* effect as they are sent.  Those that tell it where the replay stands    *)
(* only repeat the state of the replay, and are left out.                  *)
(***************************************************************************)
EXTENDS Integers, SequencesExt

CONSTANTS Node,
          Source,      \* node-a, where the replay sends its orders
          maxBars,     \* the bars of the longest data set
          Speed, Seek, \* the speeds and positions a user asks for
          MaxPolls,    \* bound: polls of a node in flight (4 of 500 ms in a timeout of 2 s)
          MaxVersion,  \* bound: changes of a node's book
          MaxOrders    \* bound: senders with orders on their way to a node

ASSUME BarsAssumption == maxBars \in Nat
ASSUME InputAssumption == Source \in Node /\ Speed \subseteq Int /\ Seek \subseteq Int
ASSUME BridgeBoundAssumption == {MaxPolls, MaxVersion, MaxOrders} \subseteq Nat \ {0}

VARIABLES up,         \* the nodes that run (external)
          version,    \* how often a node's book has changed since it started (external)
          orders,     \* whose orders are on their way to a node: the user's, the replay's
          polls,      \* the pollNode calls in flight, oldest first
          nodeAlive,  \* nodeAlive, "undefined" at first
          replay,     \* replay
          intervals,  \* the armed intervals that call replayTick
          view        \* what the dashboard shows of a node

vars == <<up, version, orders, polls, nodeAlive, replay, intervals, view>>

Kind == {"BOOK", "STATUS"}

Sender == {"user", "replay"}

Open == {"sent", "ran"}

\* The result of a request whose connection the timer destroyed before any data
\* came, and of one that had only part of the answer.
NULL == [is |-> "null"]

PART == [is |-> "part"]

EMPTY == [is |-> "empty"]

SYNTHETIC == [is |-> "synthetic"]

Whole(v) == [is |-> "whole", of |-> v]

Sent == [is |-> "sent"]

Ran(v) == [is |-> "ran", of |-> v]

NewPoll == [k \in Kind |-> Sent]

Init ==
    /\ up = Node
    /\ version = [n \in Node |-> 0]
    /\ orders = [n \in Node |-> {}]
    /\ polls = [n \in Node |-> <<>>]
    /\ nodeAlive = [n \in Node |-> "undefined"]
    /\ replay = [running |-> FALSE, cursor |-> 0, speed |-> 1, timer |-> 0]
    /\ intervals = {}
    /\ view = [n \in Node |-> [book |-> EMPTY, alive |-> FALSE]]

-----------------------------------------------------------------------------
(* The nodes, as the bridge meets them.                                    *)

crash(n) ==
    /\ n \in up
    /\ up' = up \ {n}
    /\ UNCHANGED <<version, orders, polls, nodeAlive, replay, intervals, view>>

start(n) ==
    /\ n \notin up
    /\ up' = up \cup {n}
    /\ version' = [version EXCEPT ![n] = 0]
    /\ UNCHANGED <<orders, polls, nodeAlive, replay, intervals, view>>

\* The node executes an order, or rejects it, or it is lost with its connection.
order_arrives(n, by) ==
    /\ by \in orders[n]
    /\ orders' = [orders EXCEPT ![n] = @ \ {by}]
    /\ \/ n \in up /\ version[n] < MaxVersion /\ version' = [version EXCEPT ![n] = @ + 1]
       \/ UNCHANGED version
    /\ UNCHANGED <<up, polls, nodeAlive, replay, intervals, view>>

\* The node reads a request of the i-th poll and its book.  What a status says is not
\* told apart.
node_runs(n, i, k) ==
    /\ n \in up /\ i \in DOMAIN polls[n] /\ polls[n][i][k] = Sent
    /\ polls' = [polls EXCEPT ![n][i][k] = Ran(IF k = "BOOK" THEN version[n] ELSE 0)]
    /\ UNCHANGED <<up, version, orders, nodeAlive, replay, intervals, view>>

-----------------------------------------------------------------------------
(* Polling.                                                                *)

\* Nodes known to be down are left alone.
pollAll_slip ==
    /\ \A n \in Node : Len(polls[n]) < MaxPolls
    /\ polls' = [n \in Node |-> IF nodeAlive[n] = "false" THEN polls[n] ELSE Append(polls[n], NewPoll)]
    /\ UNCHANGED <<up, version, orders, nodeAlive, replay, intervals, view>>

pollAll ==
    /\ \A n \in Node : Len(polls[n]) < MaxPolls
    /\ polls' = [n \in Node |-> Append(polls[n], NewPoll)]
    /\ UNCHANGED <<up, version, orders, nodeAlive, replay, intervals, view>>

\* The books are shown during a replay too.
Shown_slip(was, poll) ==
    IF poll["BOOK"] # NULL THEN [book |-> poll["BOOK"], alive |-> TRUE]
    ELSE [was EXCEPT !.alive = @ \/ poll["STATUS"] # NULL]

\* pollNode after both answers: what is shown of the node.
Shown(was, poll) ==
    IF replay.running THEN was
    ELSE IF poll["BOOK"] # NULL THEN [book |-> poll["BOOK"], alive |-> TRUE]
    ELSE [was EXCEPT !.alive = @ \/ poll["STATUS"] # NULL]

\* sendTcp of kind k resolves with result; Promise.all waits for the other.
resolve(n, i, k, result) ==
    LET poll == [polls[n][i] EXCEPT ![k] = result]
    IN  /\ IF \E other \in Kind : poll[other].is \in Open
           THEN /\ polls' = [polls EXCEPT ![n][i] = poll]
                /\ UNCHANGED <<nodeAlive, view>>
           ELSE /\ polls' = [polls EXCEPT ![n] = RemoveAt(@, i)]
                /\ nodeAlive' = [nodeAlive EXCEPT ![n] = "true"]
                /\ view' = [view EXCEPT ![n] = Shown(@, poll)]
        /\ UNCHANGED <<up, version, orders, replay, intervals>>

\* 'end': all of the answer has come.
end(n, i, k) ==
    /\ i \in DOMAIN polls[n] /\ polls[n][i][k].is = "ran"
    /\ resolve(n, i, k, Whole(polls[n][i][k].of))

\* The timer fires, that of the oldest poll first.  A node that is down refuses the
\* connection long before.
timeout(n, k) ==
    /\ polls[n] # <<>>
    /\ \/ polls[n][1][k] = Sent /\ n \in up /\ resolve(n, 1, k, NULL)
       \/ polls[n][1][k].is = "ran" /\ \E result \in {NULL, PART} : resolve(n, 1, k, result)

\* 'error': the poll is over, whatever becomes of its other request.  The slip takes
\* it for an answer without data.
error_slip(n, i) ==
    /\ n \notin up /\ i \in DOMAIN polls[n]
    /\ \E k \in Kind : polls[n][i][k].is \in Open
    /\ polls' = [polls EXCEPT ![n] = RemoveAt(@, i)]
    /\ nodeAlive' = [nodeAlive EXCEPT ![n] = "true"]
    /\ UNCHANGED <<up, version, orders, replay, intervals, view>>

error(n, i) ==
    /\ n \notin up /\ i \in DOMAIN polls[n]
    /\ \E k \in Kind : polls[n][i][k].is \in Open
    /\ polls' = [polls EXCEPT ![n] = RemoveAt(@, i)]
    /\ nodeAlive' = [nodeAlive EXCEPT ![n] = "false"]
    /\ view' = IF nodeAlive[n] = "false" \/ replay.running THEN view
               ELSE [view EXCEPT ![n].alive = FALSE]
    /\ UNCHANGED <<up, version, orders, replay, intervals>>

\* One more order, within the bound.
Ordered(n, by) ==
    IF Cardinality(orders[n] \cup {by}) > MaxOrders THEN orders
    ELSE [orders EXCEPT ![n] = @ \cup {by}]

\* A user's command for a node.
command(n) ==
    /\ orders' = Ordered(n, "user")
    /\ UNCHANGED <<up, version, polls, nodeAlive, replay, intervals, view>>

\* 'error': the user's command is answered with node_error, the replay's order ignored.
order_fails(n, by) ==
    /\ by \in orders[n] /\ n \notin up
    /\ orders' = [orders EXCEPT ![n] = @ \ {by}]
    /\ view' = IF by = "user" THEN [view EXCEPT ![n].alive = FALSE] ELSE view
    /\ UNCHANGED <<up, version, polls, nodeAlive, replay, intervals>>

-----------------------------------------------------------------------------
(* The replay.                                                             *)

node_side == <<up, version, polls, nodeAlive>>

\* A handle that no armed interval has.
setInterval(armed) == CHOOSE i \in 1..(Cardinality(armed) + 1) : i \notin armed

\* Without the clamp at the end.
BarsThisTick_slip == replay.speed

BarsThisTick == Min({replay.speed, maxBars - replay.cursor})

anyNodeAlive == \E n \in Node : nodeAlive[n] = "true"

stopReplay ==
    /\ replay' = [replay EXCEPT !.running = FALSE, !.timer = 0]
    /\ intervals' = intervals \ {replay.timer}
    /\ UNCHANGED <<node_side, orders, view>>

\* The last bar is passed by one.
AtEnd_slip == replay.cursor > maxBars

AtEnd == replay.cursor >= maxBars

\* Interval i fires.  The orders of a tick stand for one.
replayTick(i) ==
    /\ i \in intervals
    /\ IF ~replay.running \/ AtEnd THEN stopReplay
       ELSE /\ replay' = [replay EXCEPT !.cursor = @ + BarsThisTick]
            /\ view' = [n \in Node |-> [book |-> SYNTHETIC, alive |-> TRUE]]
            /\ orders' = IF anyNodeAlive THEN Ordered(Source, "replay") ELSE orders
            /\ UNCHANGED <<node_side, intervals>>

startReplay ==
    /\ IF replay.running \/ maxBars = 0 THEN UNCHANGED <<replay, intervals>>
       ELSE LET timer == setInterval(intervals)
            IN  /\ replay' = [replay EXCEPT !.cursor = IF @ >= maxBars THEN 0 ELSE @,
                                            !.running = TRUE, !.timer = timer]
                /\ intervals' = intervals \cup {timer}
    /\ UNCHANGED <<node_side, orders, view>>

seekReplay(cursor) ==
    /\ replay' = [replay EXCEPT !.cursor = Max({0, Min({cursor, maxBars - 1})})]
    /\ UNCHANGED <<node_side, orders, view, intervals>>

\* A new interval is armed in place of those in cleared, if a replay runs.  It counts
\* its time from now: the handle is another one.
Rearm(cleared) ==
    LET timer == setInterval(intervals)
    IN  IF ~replay.running THEN [timer |-> replay.timer, intervals |-> intervals]
        ELSE [timer |-> timer, intervals |-> (intervals \ cleared) \cup {timer}]

\* The old interval is not cleared.
setReplaySpeed_slip(speed) ==
    /\ replay' = [replay EXCEPT !.speed = Max({1, Min({speed, 100})}), !.timer = Rearm({}).timer]
    /\ intervals' = Rearm({}).intervals
    /\ UNCHANGED <<node_side, orders, view>>

setReplaySpeed(speed) ==
    /\ replay' = [replay EXCEPT !.speed = Max({1, Min({speed, 100})}),
                                !.timer = Rearm({replay.timer}).timer]
    /\ intervals' = Rearm({replay.timer}).intervals
    /\ UNCHANGED <<node_side, orders, view>>

-----------------------------------------------------------------------------

Late == \E n \in Node, k \in Kind : timeout(n, k)

User ==
    \/ \E n \in Node : command(n)
    \/ startReplay \/ stopReplay
    \/ \E cursor \in Seek : seekReplay(cursor)
    \/ \E speed \in Speed : setReplaySpeed(speed)

Answer(n, i) == error(n, i) \/ \E k \in Kind : node_runs(n, i, k) \/ end(n, i, k)

Next ==
    \/ User \/ pollAll \/ Late
    \/ \E i \in intervals : replayTick(i)
    \/ \E n \in Node : crash(n) \/ start(n)
    \/ \E n \in Node, by \in Sender : order_arrives(n, by) \/ order_fails(n, by)
    \/ \E n \in Node, i \in 1..MaxPolls : Answer(n, i)

\* An interval fires if it stays armed, which the replay's does not when its speed is
\* changed, and a connection makes progress until its timer fires.  Nothing makes a
\* user act, or a node crash, start or keep to the time.
Fairness ==
    /\ WF_vars(pollAll) /\ \A i \in 1..2 : WF_vars(replayTick(i))
    /\ \A n \in Node : WF_vars(Answer(n, 1) \/ \E k \in Kind : timeout(n, k))

Spec == Init /\ [][Next]_vars /\ Fairness

-----------------------------------------------------------------------------
(* Properties.                                                             *)

Results == {NULL, PART} \cup {Whole(v) : v \in 0..MaxVersion}

Requests == {Sent} \cup {Ran(v) : v \in 0..MaxVersion} \cup Results

\* The type invariant.  The replay's position stays within the data.
TypeOK ==
    /\ up \subseteq Node /\ version \in [Node -> 0..MaxVersion] /\ orders \in [Node -> SUBSET Sender]
    /\ polls \in [Node -> Seq([Kind -> Requests])] /\ \A n \in Node : Len(polls[n]) <= MaxPolls
    /\ nodeAlive \in [Node -> {"undefined", "true", "false"}]
    /\ replay \in [running : BOOLEAN, cursor : 0..maxBars, speed : 1..100, timer : Nat]
    /\ view \in [Node -> [book : {EMPTY, SYNTHETIC} \cup (Results \ {NULL}), alive : BOOLEAN]]

\* However starts, stops, changes of speed and the end of the data follow each other,
\* a replay that runs has one interval and one that does not has none.
OneInterval ==
    /\ intervals = IF replay.running THEN {replay.timer} ELSE {}
    /\ replay.running <=> replay.timer # 0

\* While the replay runs, no poll that started before or during it puts a node's own
\* book among the synthetic ones.
ReplayUndisturbed ==
    [][replay.running /\ replay'.running =>
         \A n \in Node : view'[n].book \in {view[n].book, SYNTHETIC}]_vars

\* When the nodes stay up, the replay is over and answers come in time, the dashboard
\* comes to show the books as they are, in spite of answers that overtake each other,
\* truncated ones, earlier crashes and synthetic books left over.
DashboardCatchesUp ==
    <>[](up = Node /\ ~replay.running) /\ <>[][~Late]_vars
        => <>[](\A n \in Node : view[n].book = Whole(version[n]))

\* A node that is down for good is known to be, though late answers make it alive again.
DeadNodesNoticed == \A n \in Node : <>[](n \notin up) => <>[](nodeAlive[n] = "false")

\* A replay ends once nobody moves its position or changes its speed, at any speed and
\* after any starts, stops and changes of speed before.  (One whose speed is changed
\* more often than its interval fires makes no progress: index.js:396-398.)
ReplayEnds ==
    /\ <>[][\A c \in Seek : ~seekReplay(c)]_vars
    /\ <>[][\A s \in Speed : ~setReplaySpeed(s)]_vars
    => (replay.running ~> ~replay.running)

=============================================================================
