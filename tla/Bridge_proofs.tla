---------------------------- MODULE Bridge_proofs ----------------------------
(***************************************************************************)
(* Proofs about Bridge, for all nodes, data sets, speeds and positions.    *)
(***************************************************************************)
EXTENDS Bridge, SetLemmas, SequenceTheorems

-----------------------------------------------------------------------------
(* Polls.                                                                  *)

\* What the state of a request says of it.
LEMMA RequestKinds ==
    ASSUME NEW r \in Requests
    PROVE  /\ r.is = "ran" => r.of \in 0..MaxVersion
           /\ r.is \notin Open => r \in Results
  <1>1. Sent.is = "sent" /\ \A v : Ran(v).is = "ran" /\ Ran(v).of = v
    BY DEF Sent, Ran
  <1>2. NULL.is = "null" /\ PART.is = "part" /\ \A v : Whole(v).is = "whole"
    BY DEF NULL, PART, Whole
  <1>3. CASE r = Sent
    BY <1>1, <1>3 DEF Open
  <1>4. CASE \E v \in 0..MaxVersion : r = Ran(v)
    BY <1>1, <1>4 DEF Open
  <1>5. CASE r \in Results
    BY <1>2, <1>5 DEF Results
  <1>. QED
    BY <1>3, <1>4, <1>5 DEF Requests

\* Taking a poll off the list leaves a list of polls.
LEMMA RemoveAtType ==
    ASSUME NEW S, NEW s \in Seq(S), NEW i \in DOMAIN s
    PROVE  RemoveAt(s, i) \in Seq(S) /\ Len(RemoveAt(s, i)) = Len(s) - 1
  <1>. DEFINE a == SubSeq(s, 1, i - 1)
              b == SubSeq(s, i + 1, Len(s))
  <1>1. Len(s) \in Nat /\ i \in 1..Len(s) /\ \A j \in 1..Len(s) : s[j] \in S
    OBVIOUS
  <1>2. a \in Seq(S) /\ Len(a) = i - 1
    BY <1>1, SubSeqProperties
  <1>3. b \in Seq(S) /\ Len(b) = Len(s) - i
    BY <1>1, SubSeqProperties
  <1>4. RemoveAt(s, i) = a \o b
    BY Zenon DEF RemoveAt
  <1>. HIDE DEF a, b
  <1>. QED
    BY <1>1, <1>2, <1>3, <1>4

\* A poll is over, or waits for its other answer.
LEMMA ResolveTypes ==
    ASSUME TypeOK, NEW n \in Node, NEW i \in DOMAIN polls[n], NEW k \in Kind,
           NEW result \in Results, resolve(n, i, k, result)
    PROVE  /\ TypeOK' /\ UNCHANGED <<replay, intervals>>
           /\ replay.running => view' = view
  <1>. DEFINE poll == [polls[n][i] EXCEPT ![k] = result]
  <1>1. /\ polls[n] \in Seq([Kind -> Requests]) /\ Len(polls[n]) <= MaxPolls
        /\ Len(polls[n]) \in Nat /\ DOMAIN polls[n] = 1..Len(polls[n])
        /\ polls[n][i] \in [Kind -> Requests]
    BY DEF TypeOK
  <1>2. poll \in [Kind -> Requests]
    BY <1>1 DEF Requests
  <1>3. UNCHANGED <<up, version, orders, replay, intervals>>
    BY DEF resolve
  <1>4. CASE \E other \in Kind : poll[other].is \in Open
    <2>1. polls' = [polls EXCEPT ![n][i] = poll] /\ UNCHANGED <<nodeAlive, view>>
      BY <1>4 DEF resolve
    <2>. HIDE DEF poll
    <2>2. polls'[n] = [polls[n] EXCEPT ![i] = poll] /\ \A m \in Node \ {n} : polls'[m] = polls[m]
      BY <2>1 DEF TypeOK
    <2>3. polls'[n] \in Seq([Kind -> Requests]) /\ Len(polls'[n]) = Len(polls[n])
      BY <1>1, <1>2, <2>2
    <2>. QED
      BY <1>1, <1>3, <2>1, <2>2, <2>3 DEF TypeOK
  <1>5. CASE ~\E other \in Kind : poll[other].is \in Open
    <2>1. /\ polls' = [polls EXCEPT ![n] = RemoveAt(polls[n], i)]
          /\ nodeAlive' = [nodeAlive EXCEPT ![n] = "true"]
          /\ view' = [view EXCEPT ![n] = Shown(view[n], poll)]
      BY <1>5 DEF resolve
    <2>2. poll["BOOK"] \in Results
      BY <1>2, <1>5, RequestKinds DEF Kind
    <2>. HIDE DEF poll
    <2>3. view[n] \in [book : {EMPTY, SYNTHETIC} \cup (Results \ {NULL}), alive : BOOLEAN]
      BY DEF TypeOK
    <2>4. Shown(view[n], poll) \in [book : {EMPTY, SYNTHETIC} \cup (Results \ {NULL}), alive : BOOLEAN]
      BY <2>2, <2>3 DEF Shown
    <2>5. /\ polls'[n] \in Seq([Kind -> Requests]) /\ Len(polls'[n]) = Len(polls[n]) - 1
          /\ \A m \in Node \ {n} : polls'[m] = polls[m]
      BY <1>1, <2>1, RemoveAtType DEF TypeOK
    <2>6. replay.running => view' = view
      BY <2>1 DEF Shown, TypeOK
    <2>7. view' \in [Node -> [book : {EMPTY, SYNTHETIC} \cup (Results \ {NULL}), alive : BOOLEAN]]
      BY <2>1, <2>4 DEF TypeOK
    <2>8. nodeAlive' \in [Node -> {"undefined", "true", "false"}]
      BY <2>1 DEF TypeOK
    <2>9. polls' \in [Node -> Seq([Kind -> Requests])] /\ \A m \in Node : Len(polls'[m]) <= MaxPolls
      <3>1. Len(polls'[n]) <= MaxPolls
        BY <1>1, <2>5, BridgeBoundAssumption
      <3>. QED
        BY <2>1, <2>5, <3>1 DEF TypeOK
    <2>. QED
      BY <1>3, <2>6, <2>7, <2>8, <2>9 DEF TypeOK
  <1>. QED
    BY <1>3, <1>4, <1>5

-----------------------------------------------------------------------------
(* The actions, one by one.                                                *)

\* The state of the bridge, in which the replay has one interval or none.
BridgeInv == TypeOK /\ OneInterval

\* A poll is started on every node, and a node runs a request of one.
LEMMA PollTypes ==
    ASSUME TypeOK
    PROVE  /\ pollAll => TypeOK'
           /\ \A n \in Node, k \in Kind : \A i : node_runs(n, i, k) => TypeOK'
  <1>1. ASSUME pollAll PROVE TypeOK'
    <2>1. NewPoll \in [Kind -> Requests]
      BY DEF NewPoll, Requests
    <2>2. polls' \in [Node -> Seq([Kind -> Requests])]
      BY <1>1, <2>1 DEF pollAll, TypeOK
    <2>3. ASSUME NEW n \in Node PROVE Len(polls'[n]) <= MaxPolls
      <3>1. /\ polls[n] \in Seq([Kind -> Requests]) /\ polls'[n] = Append(polls[n], NewPoll)
            /\ Len(polls[n]) < MaxPolls
        BY <1>1 DEF pollAll, TypeOK
      <3>. QED
        BY <2>1, <3>1, AppendProperties, BridgeBoundAssumption
    <2>. QED
      BY <1>1, <2>2, <2>3 DEF pollAll, TypeOK
  <1>2. ASSUME NEW n \in Node, NEW i, NEW k \in Kind, node_runs(n, i, k) PROVE TypeOK'
    <2>. DEFINE v    == IF k = "BOOK" THEN version[n] ELSE 0
                poll == [polls[n][i] EXCEPT ![k] = Ran(v)]
    <2>1. /\ i \in DOMAIN polls[n] /\ polls' = [polls EXCEPT ![n][i][k] = Ran(v)]
          /\ UNCHANGED <<up, version, orders, nodeAlive, replay, intervals, view>>
      BY <1>2 DEF node_runs
    <2>2. v \in 0..MaxVersion
      BY BridgeBoundAssumption DEF TypeOK
    <2>. HIDE DEF v
    <2>3. /\ polls[n] \in Seq([Kind -> Requests]) /\ polls[n][i] \in [Kind -> Requests]
          /\ Len(polls[n]) \in Nat /\ DOMAIN polls[n] = 1..Len(polls[n])
      BY <2>1 DEF TypeOK
    <2>4. poll \in [Kind -> Requests]
      BY <2>2, <2>3 DEF Requests
    <2>5. polls' = [polls EXCEPT ![n] = [polls[n] EXCEPT ![i] = poll]]
      BY <2>1
    <2>. HIDE DEF poll
    <2>6. [polls[n] EXCEPT ![i] = poll] \in Seq([Kind -> Requests])
          /\ Len([polls[n] EXCEPT ![i] = poll]) = Len(polls[n])
      BY <2>1, <2>3, <2>4, ExceptSeq
    <2>. QED
      BY <2>1, <2>5, <2>6 DEF TypeOK
  <1>. QED
    BY <1>1, <1>2

\* A request that failed ends its poll.
LEMMA ErrorTypes ==
    ASSUME TypeOK, NEW n \in Node, NEW i, error(n, i)
    PROVE  /\ TypeOK' /\ UNCHANGED <<replay, intervals>>
           /\ replay.running => view' = view
  <1>1. /\ i \in DOMAIN polls[n] /\ polls' = [polls EXCEPT ![n] = RemoveAt(polls[n], i)]
        /\ nodeAlive' = [nodeAlive EXCEPT ![n] = "false"]
        /\ view' = IF nodeAlive[n] = "false" \/ replay.running THEN view
                   ELSE [view EXCEPT ![n].alive = FALSE]
        /\ UNCHANGED <<up, version, orders, replay, intervals>>
    BY DEF error
  <1>2. /\ polls[n] \in Seq([Kind -> Requests]) /\ Len(polls[n]) <= MaxPolls /\ Len(polls[n]) \in Nat
    BY DEF TypeOK
  <1>3. RemoveAt(polls[n], i) \in Seq([Kind -> Requests]) /\ Len(RemoveAt(polls[n], i)) = Len(polls[n]) - 1
    BY <1>1, <1>2, RemoveAtType
  <1>4. polls' \in [Node -> Seq([Kind -> Requests])] /\ \A m \in Node : Len(polls'[m]) <= MaxPolls
    BY <1>1, <1>2, <1>3, BridgeBoundAssumption DEF TypeOK
  <1>5. view' \in [Node -> [book : {EMPTY, SYNTHETIC} \cup (Results \ {NULL}), alive : BOOLEAN]]
    BY <1>1 DEF TypeOK
  <1>6. nodeAlive' \in [Node -> {"undefined", "true", "false"}]
    BY <1>1 DEF TypeOK
  <1>. QED
    BY <1>1, <1>4, <1>5, <1>6 DEF TypeOK

\* Orders of a known sender stay orders of known senders.
LEMMA OrderedType ==
    ASSUME TypeOK, NEW n \in Node, NEW by \in Sender
    PROVE  Ordered(n, by) \in [Node -> SUBSET Sender]
    BY DEF Ordered, TypeOK

\* The handle of an interval armed when none or one other is, is a number other than 0,
\* which stands for none.
LEMMA FreshInterval ==
    ASSUME NEW armed, armed = {} \/ \E timer : armed = {timer}
    PROVE  setInterval(armed) \in Nat /\ setInterval(armed) # 0
  <1>1. Cardinality(armed) \in {0, 1} /\ \E i \in 1..(Cardinality(armed) + 1) : i \notin armed
    <2>1. CASE armed = {}
      <3>1. Cardinality(armed) = 0
        BY <2>1, FS_EmptySet
      <3>. QED
        BY <2>1, <3>1
    <2>2. ASSUME NEW timer, armed = {timer} PROVE <1>1
      <3>1. Cardinality(armed) = 1
        BY <2>2, FS_Singleton
      <3>2. 1 \notin armed \/ 2 \notin armed
        BY <2>2
      <3>. QED
        BY <3>1, <3>2
    <2>. QED
      BY <2>1, <2>2
  <1>2. setInterval(armed) \in 1..(Cardinality(armed) + 1)
    BY <1>1 DEF setInterval
  <1>. QED
    BY <1>1, <1>2

\* What the timer and the user do to the replay: it stops,
LEMMA StopKeeps ==
    ASSUME BridgeInv, stopReplay
    PROVE  BridgeInv' /\ UNCHANGED view
    BY DEF BridgeInv, TypeOK, OneInterval, stopReplay, node_side

\* shows some bars more, or stops at the end of them,
LEMMA TickKeeps ==
    ASSUME BridgeInv, NEW i, replayTick(i)
    PROVE  /\ BridgeInv'
           /\ \A n \in Node : view'[n].book \in {view[n].book, SYNTHETIC}
  <1>1. CASE ~replay.running \/ AtEnd
    BY <1>1, StopKeeps DEF replayTick
  <1>2. CASE replay.running /\ ~AtEnd
    <2>1. /\ replay' = [replay EXCEPT !.cursor = replay.cursor + BarsThisTick]
          /\ view' = [n \in Node |-> [book |-> SYNTHETIC, alive |-> TRUE]]
          /\ orders' = IF anyNodeAlive THEN Ordered(Source, "replay") ELSE orders
          /\ UNCHANGED <<up, version, polls, nodeAlive, intervals>>
      BY <1>2 DEF replayTick, node_side
    <2>2. /\ replay.cursor \in 0..maxBars /\ replay.cursor < maxBars /\ replay.speed \in 1..100
          /\ maxBars \in Nat
      BY <1>2, BarsAssumption DEF BridgeInv, TypeOK, AtEnd
    <2>3. BarsThisTick = IF replay.speed <= maxBars - replay.cursor THEN replay.speed
                         ELSE maxBars - replay.cursor
      <3>1. replay.speed \in Int /\ maxBars - replay.cursor \in Int
        BY <2>2
      <3>. QED
        BY <3>1, MinOfTwo, Zenon DEF BarsThisTick
    <2>4. replay.cursor + BarsThisTick \in 0..maxBars
      BY <2>2, <2>3
    <2>5. replay' \in [running : BOOLEAN, cursor : 0..maxBars, speed : 1..100, timer : Nat]
          /\ replay'.running = replay.running /\ replay'.timer = replay.timer
      BY <2>1, <2>4 DEF BridgeInv, TypeOK
    <2>6. view' \in [Node -> [book : {EMPTY, SYNTHETIC} \cup (Results \ {NULL}), alive : BOOLEAN]]
      BY <2>1
    <2>7. orders' \in [Node -> SUBSET Sender]
      BY <2>1, OrderedType, InputAssumption DEF BridgeInv, TypeOK, Sender
    <2>. QED
      BY <2>1, <2>5, <2>6, <2>7 DEF BridgeInv, TypeOK, OneInterval
  <1>. QED
    BY <1>1, <1>2

\* starts, with one interval,
LEMMA StartKeeps ==
    ASSUME BridgeInv, startReplay
    PROVE  BridgeInv' /\ UNCHANGED view
  <1>1. CASE replay.running \/ maxBars = 0
    BY <1>1 DEF startReplay, BridgeInv, TypeOK, OneInterval, node_side
  <1>2. CASE ~replay.running /\ maxBars # 0
    <2>1. intervals = {}
      BY <1>2 DEF BridgeInv, OneInterval
    <2>2. PICK timer \in Nat : timer = setInterval({}) /\ timer # 0
      BY FreshInterval
    <2>3. /\ replay' = [replay EXCEPT !.cursor = IF @ >= maxBars THEN 0 ELSE @,
                                      !.running = TRUE, !.timer = timer]
          /\ intervals' = {timer}
          /\ UNCHANGED <<up, version, polls, nodeAlive, orders, view>>
      BY <1>2, <2>1, <2>2 DEF startReplay, node_side
    <2>4. /\ replay' \in [running : BOOLEAN, cursor : 0..maxBars, speed : 1..100, timer : Nat]
          /\ replay'.running /\ replay'.timer = timer
      <3>. DEFINE from == IF replay.cursor >= maxBars THEN 0 ELSE replay.cursor
      <3>1. from \in 0..maxBars
        BY BarsAssumption DEF BridgeInv, TypeOK
      <3>2. replay' = [replay EXCEPT !.cursor = from, !.running = TRUE, !.timer = timer]
        BY <2>3
      <3>. HIDE DEF from
      <3>. QED
        BY <3>1, <3>2 DEF BridgeInv, TypeOK
    <2>. QED
      BY <2>2, <2>3, <2>4 DEF BridgeInv, TypeOK, OneInterval
  <1>. QED
    BY <1>1, <1>2

\* goes elsewhere in the data,
LEMMA SeekKeeps ==
    ASSUME BridgeInv, NEW cursor \in Seek, seekReplay(cursor)
    PROVE  BridgeInv' /\ UNCHANGED view
  <1>. DEFINE low == Min({cursor, maxBars - 1})
              to  == Max({0, low})
  <1>1. cursor \in Int /\ maxBars \in Nat
    BY BarsAssumption, InputAssumption
  <1>2. low \in Int /\ low <= maxBars - 1
    BY <1>1, MinOfTwo
  <1>. HIDE DEF low
  <1>3. to \in 0..maxBars
    BY <1>1, <1>2, MaxOfTwo
  <1>4. replay' = [replay EXCEPT !.cursor = to] /\ UNCHANGED <<node_side, orders, view, intervals>>
    BY DEF seekReplay, low
  <1>. HIDE DEF to
  <1>. QED
    BY <1>3, <1>4 DEF BridgeInv, TypeOK, OneInterval, node_side

\* or goes on at another speed, with one interval in place of the other.
LEMMA SpeedKeeps ==
    ASSUME BridgeInv, NEW speed \in Speed, setReplaySpeed(speed)
    PROVE  BridgeInv' /\ UNCHANGED view
  <1>. DEFINE low == Min({speed, 100})
              to  == Max({1, low})
  <1>1. speed \in Int
    BY InputAssumption
  <1>2. low \in Int /\ low <= 100
    BY <1>1, MinOfTwo
  <1>. HIDE DEF low
  <1>3. to \in 1..100
    <2>1. to = IF 1 >= low THEN 1 ELSE low
      BY <1>2, MaxOfTwo
    <2>. HIDE DEF to
    <2>. QED
      BY <1>2, <2>1
  <1>4. /\ replay' = [replay EXCEPT !.speed = to, !.timer = Rearm({replay.timer}).timer]
        /\ intervals' = Rearm({replay.timer}).intervals
        /\ UNCHANGED <<up, version, polls, nodeAlive, orders, view>>
    BY DEF setReplaySpeed, low, node_side
  <1>. HIDE DEF to
  <1>5. CASE ~replay.running
    <2>1. Rearm({replay.timer}).timer = replay.timer /\ Rearm({replay.timer}).intervals = intervals
      BY <1>5 DEF Rearm
    <2>. QED
      BY <1>3, <1>4, <2>1 DEF BridgeInv, TypeOK, OneInterval
  <1>6. CASE replay.running
    <2>1. intervals = {replay.timer} /\ intervals \ {replay.timer} = {}
      BY <1>6 DEF BridgeInv, OneInterval
    <2>2. PICK timer \in Nat : timer = setInterval(intervals) /\ timer # 0
      BY <2>1, FreshInterval
    <2>3. Rearm({replay.timer}).timer = timer /\ Rearm({replay.timer}).intervals = {timer}
      BY <1>6, <2>1, <2>2 DEF Rearm
    <2>4. replay' = [replay EXCEPT !.speed = to, !.timer = timer] /\ intervals' = {timer}
      BY <1>4, <2>3
    <2>. QED
      BY <1>3, <1>4, <1>6, <2>2, <2>4 DEF BridgeInv, TypeOK, OneInterval
  <1>. QED
    BY <1>5, <1>6

-----------------------------------------------------------------------------
(* All of them.                                                            *)

\* Every step keeps the state, and while a replay runs and goes on running no book of a
\* node is shown that was not shown before.
LEMMA BridgeStep ==
    ASSUME BridgeInv, [Next]_vars
    PROVE  /\ BridgeInv'
           /\ replay.running /\ replay'.running =>
                 \A n \in Node : view'[n].book \in {view[n].book, SYNTHETIC}
  <1>. DEFINE Kept == /\ BridgeInv'
                      /\ replay.running =>
                            \A n \in Node : view'[n].book \in {view[n].book, SYNTHETIC}
  <1>0. BridgeInv => TypeOK /\ (TypeOK' /\ UNCHANGED <<replay, intervals>> => BridgeInv')
    BY DEF BridgeInv, OneInterval
  <1>1. CASE UNCHANGED vars
    BY <1>1 DEF vars, BridgeInv, TypeOK, OneInterval
  <1>2. ASSUME NEW n \in Node, command(n) PROVE Kept
    <2>1. orders' \in [Node -> SUBSET Sender] /\ UNCHANGED <<up, version, polls, nodeAlive, replay, intervals, view>>
      BY <1>2, OrderedType DEF command, BridgeInv, Sender
    <2>. QED
      BY <2>1 DEF BridgeInv, TypeOK, OneInterval
  <1>3. ASSUME startReplay \/ stopReplay PROVE Kept
    BY <1>3, StartKeeps, StopKeeps
  <1>4. ASSUME NEW cursor \in Seek, seekReplay(cursor) PROVE Kept
    BY <1>4, SeekKeeps
  <1>5. ASSUME NEW speed \in Speed, setReplaySpeed(speed) PROVE Kept
    BY <1>5, SpeedKeeps
  <1>6. ASSUME NEW i \in intervals, replayTick(i) PROVE Kept
    BY <1>6, TickKeeps
  <1>7. ASSUME pollAll PROVE Kept
    BY <1>0, <1>7, PollTypes DEF pollAll
  <1>8. ASSUME NEW n \in Node, NEW k \in Kind, timeout(n, k) PROVE Kept
    <2>1. 1 \in DOMAIN polls[n]
      BY <1>0, <1>8 DEF timeout, TypeOK
    <2>2. \E result \in {NULL, PART} : resolve(n, 1, k, result)
      BY <1>8 DEF timeout
    <2>. QED
      BY <1>0, <2>1, <2>2, ResolveTypes DEF Results
  <1>9. ASSUME NEW n \in Node, crash(n) \/ start(n) PROVE Kept
    <2>0. version \in [Node -> 0..MaxVersion] /\ up \subseteq Node /\ 0 \in 0..MaxVersion
      BY <1>0, BridgeBoundAssumption DEF TypeOK
    <2>1. version' \in [Node -> 0..MaxVersion] /\ up' \subseteq Node
      BY <1>9, <2>0 DEF crash, start
    <2>. QED
      BY <1>9, <2>1 DEF crash, start, BridgeInv, TypeOK, OneInterval
  <1>10. ASSUME NEW n \in Node, NEW by \in Sender, order_arrives(n, by) PROVE Kept
    <2>1. /\ orders' = [orders EXCEPT ![n] = orders[n] \ {by}]
          /\ UNCHANGED <<up, polls, nodeAlive, replay, intervals, view>>
          /\ \/ version[n] < MaxVersion /\ version' = [version EXCEPT ![n] = version[n] + 1]
             \/ version' = version
      BY <1>10 DEF order_arrives
    <2>2. orders' \in [Node -> SUBSET Sender]
      BY <1>0, <2>1 DEF TypeOK
    <2>3. version' \in [Node -> 0..MaxVersion]
      <3>1. version \in [Node -> 0..MaxVersion] /\ version[n] \in 0..MaxVersion /\ MaxVersion \in Nat
        BY <1>0, BridgeBoundAssumption DEF TypeOK
      <3>2. version[n] < MaxVersion => version[n] + 1 \in 0..MaxVersion
        BY <3>1
      <3>. QED
        BY <2>1, <3>1, <3>2
    <2>. QED
      BY <2>1, <2>2, <2>3 DEF BridgeInv, TypeOK, OneInterval
  <1>11. ASSUME NEW n \in Node, NEW by \in Sender, order_fails(n, by) PROVE Kept
    <2>1. /\ orders' \in [Node -> SUBSET Sender]
          /\ view' \in [Node -> [book : {EMPTY, SYNTHETIC} \cup (Results \ {NULL}), alive : BOOLEAN]]
          /\ \A m \in Node : view'[m].book = view[m].book
      BY <1>0, <1>11 DEF order_fails, TypeOK
    <2>2. UNCHANGED <<up, version, polls, nodeAlive, replay, intervals>>
      BY <1>11 DEF order_fails
    <2>3. TypeOK'
      BY <1>0, <2>1, <2>2 DEF TypeOK
    <2>4. BridgeInv'
      BY <1>0, <2>2, <2>3
    <2>. QED
      BY <2>1, <2>4
  <1>12. ASSUME NEW n \in Node, NEW i, Answer(n, i) PROVE Kept
    <2>1. CASE error(n, i)
      BY <1>0, <2>1, ErrorTypes
    <2>2. ASSUME NEW k \in Kind, node_runs(n, i, k) PROVE Kept
      BY <1>0, <2>2, PollTypes DEF node_runs
    <2>3. ASSUME NEW k \in Kind, end(n, i, k) PROVE Kept
      <3>1. i \in DOMAIN polls[n] /\ polls[n][i][k].is = "ran"
        BY <2>3 DEF end
      <3>2. polls[n][i][k] \in Requests
        BY <1>0, <3>1 DEF TypeOK
      <3>3. Whole(polls[n][i][k].of) \in Results
        BY <3>1, <3>2, RequestKinds DEF Results
      <3>. QED
        BY <1>0, <2>3, <3>1, <3>3, ResolveTypes DEF end
    <2>. QED
      BY <1>12, <2>1, <2>2, <2>3 DEF Answer
  <1>. QED
    BY <1>1, <1>2, <1>3, <1>4, <1>5, <1>6, <1>7, <1>8, <1>9, <1>10, <1>11, <1>12
    DEF Next, User, Late

\* It starts well.
LEMMA BridgeStarts == Init => BridgeInv
  <1>. SUFFICES ASSUME Init PROVE BridgeInv
    OBVIOUS
  <1>1. polls \in [Node -> Seq([Kind -> Requests])] /\ \A n \in Node : Len(polls[n]) <= MaxPolls
    BY BridgeBoundAssumption DEF Init
  <1>2. /\ version \in [Node -> 0..MaxVersion] /\ 0 \in 0..maxBars
        /\ replay \in [running : BOOLEAN, cursor : 0..maxBars, speed : 1..100, timer : Nat]
    BY BarsAssumption, BridgeBoundAssumption DEF Init
  <1>. QED
    BY <1>1, <1>2 DEF Init, BridgeInv, TypeOK, OneInterval

\* The state is inductive: that the replay's position stays within the data needs no
\* more, but that there is one interval needs its handle's type, and the other way round.
LEMMA BridgeInvariant == Spec => []BridgeInv
  <1>1. BridgeInv /\ [Next]_vars => BridgeInv'
    BY BridgeStep
  <1>. QED
    BY <1>1, BridgeStarts, PTL DEF Spec

\* Every reachable state has its types: the list of polls stays within its bound, every
\* answer shown is one, and the replay's position stays within the data.
THEOREM BridgeTypeCorrect == Spec => []TypeOK
    BY BridgeInvariant, PTL DEF BridgeInv

\* startReplay, stopReplay, setReplaySpeed and the end of the data, in any order, leave
\* one interval to a replay that runs and none to one that does not.
THEOREM ReplayHasOneInterval == Spec => []OneInterval
    BY BridgeInvariant, PTL DEF BridgeInv

\* However late the answer to a poll is, it does not get among the books of a replay.
THEOREM ReplayIsUndisturbed == Spec => ReplayUndisturbed
  <1>1. BridgeInv /\ [Next]_vars =>
            [replay.running /\ replay'.running =>
               \A n \in Node : view'[n].book \in {view[n].book, SYNTHETIC}]_vars
    BY BridgeStep
  <1>. QED
    BY <1>1, BridgeInvariant, PTL DEF Spec, ReplayUndisturbed

=============================================================================
