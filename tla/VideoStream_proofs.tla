-------------------------- MODULE VideoStream_proofs --------------------------
(***************************************************************************)
(* Proofs about VideoStream: the timers of a player, and what the pacer    *)
(* knows of the play buffers.                                              *)
(***************************************************************************)
EXTENDS VideoStream, Integers, Sequences, FiniteSets, SequenceTheorems, TLAPS

Sinks == [buffer : Nat, bytesRcvd : Nat, segmentsRcvd : Nat, state : 0..3,
          delivered : BOOLEAN, pauseEvent : BOOLEAN, restart : BOOLEAN,
          plays : Nat, pauses : Nat, closed : BOOLEAN]

Contexts == [registered : BOOLEAN, remaining : Int, chunk : Nat, playBufferState : 0..3,
             initialPlayStarted : BOOLEAN, playFinished : BOOLEAN,
             trigger : {"none", "first", "next", "restart"}]

Sessions == [open : BOOLEAN, closed : BOOLEAN, timer : BOOLEAN, remaining : Int]

\* What is in the inbox is about one client: time moves on only when it is empty.
Finish(c) == <<[t |-> "finish", c |-> c]>>
Start(c) == [t |-> "start", c |-> c]
Status(c, x) == <<CliAppContext(c, x)>>
StatusAndStart(c, x) == <<CliAppContext(c, x), Start(c)>>

Messages(c) == {<<>>, <<AppContext(c)>>, Finish(c), <<Start(c)>>}
               \cup {Status(c, x) : x \in 0..3}
               \cup {StatusAndStart(c, x) : x \in 0..3}

StreamTypes ==
  /\ net \in [Client -> Nat]
  /\ sink \in [Client -> Sinks]
  /\ app \in [Client -> Contexts]
  /\ session \in [Client -> Sessions]
  /\ paced \subseteq Client
  /\ inbox = <<>> \/ \E c \in Client : inbox \in Messages(c)

\* A client that is not paced is not registered, and takes no part in the
\* decisions of the agent.
Unpaced(c) ==
  c \notin paced => /\ ~app[c].registered /\ ~app[c].initialPlayStarted
                    /\ inbox # <<AppContext(c)>>

\* A paced client is registered once, before anything is sent to it.
PacedInOrder(c) ==
  c \in paced =>
    /\ ~session[c].timer /\ ~session[c].closed
    /\ ~app[c].registered =>
         /\ sink[c] = EmptySink /\ net[c] = 0
         /\ app[c].playBufferState = RED /\ app[c].trigger = "none"
         /\ session[c].open => inbox = <<AppContext(c)>>
    /\ app[c].registered => session[c].open /\ inbox # <<AppContext(c)>>
    /\ ~session[c].open => inbox # <<AppContext(c)>>

Finished(c) == app[c].playFinished \/ inbox = Finish(c)

\* What was not sent yet, is under way and has arrived make up the content,
\* until the pacer knows that it is finished.
BooksBalance(c) ==
  (c \in paced /\ ~ScheduleRestart) =>
    /\ sink[c].delivered => sink[c].bytesRcvd >= FileSize[c]
    /\ app[c].registered /\ ~Finished(c) =>
         /\ app[c].remaining >= 0
         /\ sink[c].bytesRcvd + net[c] + app[c].remaining = FileSize[c]

\* After the first content a player that restarts goes on telling its state.
GoesOnTelling(c) == ScheduleRestart /\ sink[c].delivered => sink[c].restart

Told(c) == inbox # <<>> /\ Head(inbox).t = "status" /\ Head(inbox).c = c

\* What the pacer knows of the buffer, or is just being told, is its state.
Known(c) ==
  c \in paced \ Restartable =>
    IF Told(c) THEN Head(inbox).state = sink[c].state
    ELSE app[c].playBufferState = sink[c].state \/ Finished(c)

\* What a player is between two of its timers.
Driven(s) == /\ s.plays + s.pauses = (IF s.segmentsRcvd >= InitAdv /\ ~s.delivered THEN 1 ELSE 0)
             /\ s.pauseEvent <=> s.pauses = 1

\* The two inductive invariants, of the players and of what the pacer knows.
TimerInv == StreamTypes /\ \A c \in Client : Driven(sink[c])

ClientKnown(c) == /\ Unpaced(c) /\ PacedInOrder(c)
                  /\ BooksBalance(c) /\ GoesOnTelling(c) /\ Known(c)

(***************************************************************************)
(* One timer drives the player.                                            *)
(***************************************************************************)

\* The state of a play buffer is one of the four (playBufferState).
LEMMA BufferStates == \A n \in Nat : PlayBufferState(n) \in 0..3
  BY DEF PlayBufferState, RED, ORANGE, YELLOW, GREEN

\* A packet starts the player when it is the one that fills the advance buffer,
\* and then no timer is scheduled yet (handleMessage).
LEMMA ArrivalDrives ==
  ASSUME NEW c \in Client, NEW n \in Nat, net[c] >= n, StreamTypes, Driven(sink[c]), Arrive(c, n)
  PROVE  /\ net' = [net EXCEPT ![c] = @ - n] /\ net' \in [Client -> Nat]
         /\ sink' = [sink EXCEPT ![c] = sink'[c]]
         /\ sink'[c] \in Sinks /\ Driven(sink'[c])
         /\ sink'[c].bytesRcvd = sink[c].bytesRcvd + n
         /\ sink'[c].restart = sink[c].restart
         /\ sink'[c].delivered => sink[c].delivered
         /\ LET m == StatusMsgs(c, [sink[c] EXCEPT !.buffer = @ + 1])
            IN  inbox' = inbox \o m \/ inbox' = inbox \o m \o StartAgentMsgs(c)
         /\ sink'[c].state = PlayBufferState(sink[c].buffer + 1)
  <1> DEFINE s == [sink[c] EXCEPT !.bytesRcvd = @ + n, !.buffer = @ + 1, !.segmentsRcvd = @ + 1]
             starts == s.segmentsRcvd = InitAdv
             p == IF starts THEN [WithPlayTimer(s) EXCEPT !.delivered = FALSE] ELSE s
             new == PlayBufferState(sink[c].buffer + 1)
  <1>0. sink \in [Client -> Sinks] /\ net \in [Client -> Nat] /\ sink[c] \in Sinks
    BY DEF StreamTypes
  <1>1. s \in Sinks
    <2> DEFINE b == sink[c].bytesRcvd + n
               f == sink[c].buffer + 1
               g == sink[c].segmentsRcvd + 1
    <2>1. b \in Nat /\ f \in Nat /\ g \in Nat
      BY <1>0 DEF Sinks
    <2> HIDE DEF b, f, g
    <2>2. [sink[c] EXCEPT !.bytesRcvd = b, !.buffer = f, !.segmentsRcvd = g] \in Sinks
      BY <1>0, <2>1 DEF Sinks
    <2> QED
      BY <2>2 DEF b, f, g
  <1>2. s.buffer = sink[c].buffer + 1 /\ s.bytesRcvd = sink[c].bytesRcvd + n
        /\ s.segmentsRcvd = sink[c].segmentsRcvd + 1 /\ s.restart = sink[c].restart
        /\ s.delivered = sink[c].delivered /\ s.plays = sink[c].plays
        /\ s.pauses = sink[c].pauses /\ s.pauseEvent = sink[c].pauseEvent
        /\ s.state = sink[c].state
    BY <1>0 DEF Sinks
  <1>3. new \in 0..3
    BY <1>0, BufferStates DEF Sinks
  <1>4. StatusMsgs(c, s) = StatusMsgs(c, [sink[c] EXCEPT !.buffer = @ + 1])
    BY <1>0 DEF StatusMsgs, Sinks
  <1>5. sink' = [sink EXCEPT ![c] = WithBufferState(p)]
        /\ inbox' = inbox \o StatusMsgs(c, s) \o (IF starts THEN StartAgentMsgs(c) ELSE <<>>)
        /\ net' = [net EXCEPT ![c] = @ - n]
    BY DEF Arrive
  <1>6. sink'[c] = WithBufferState(p) /\ sink' = [sink EXCEPT ![c] = sink'[c]]
    BY <1>0, <1>5
  <1>7. InitAdv \in Nat \ {0}
    BY SinkAssumption
  <1> HIDE DEF s, new
  <1>8. CASE starts
    <2>1. p = [WithPlayTimer(s) EXCEPT !.delivered = FALSE]
      BY <1>8
    <2>2. sink'[c] = [[[s EXCEPT !.plays = @ + 1] EXCEPT !.delivered = FALSE] EXCEPT
                         !.state = new]
      BY <2>1, <1>6, <1>2, <1>1 DEF WithPlayTimer, WithBufferState, new, Sinks
    <2>3. s.plays + 1 \in Nat
      BY <1>1 DEF Sinks
    <2>4. sink'[c] \in Sinks
      <3>1. [s EXCEPT !.plays = @ + 1] \in Sinks
        BY <1>1, <2>3 DEF Sinks
      <3>2. \A z \in Sinks : [z EXCEPT !.delivered = FALSE] \in Sinks
        BY DEF Sinks
      <3>3. \A z \in Sinks : [z EXCEPT !.state = new] \in Sinks
        BY <1>3 DEF Sinks
      <3> QED
        BY <3>1, <3>2, <3>3, <2>2
    <2>5. /\ sink'[c].plays = sink[c].plays + 1 /\ sink'[c].pauses = sink[c].pauses
          /\ sink'[c].segmentsRcvd = sink[c].segmentsRcvd + 1
          /\ ~sink'[c].delivered /\ sink'[c].pauseEvent = sink[c].pauseEvent
      BY <2>2, <1>1, <1>2 DEF Sinks
    <2>6. Driven(sink'[c])
      <3>1. sink[c].plays + sink[c].pauses = 0
        BY <1>8, <1>2, <1>0, <1>7 DEF Driven, Sinks
      <3>2. sink'[c].plays + sink'[c].pauses = 1 /\ sink'[c].segmentsRcvd = InitAdv
        BY <3>1, <2>5, <1>0, <1>8, <1>2 DEF Sinks
      <3> QED
        BY <3>2, <2>5, <1>7 DEF Driven
    <2>7. sink'[c].bytesRcvd = sink[c].bytesRcvd + n /\ sink'[c].restart = sink[c].restart
          /\ sink'[c].delivered = FALSE /\ sink'[c].state = new
      BY <2>2, <1>1, <1>2 DEF Sinks
    <2>8. inbox' = inbox \o StatusMsgs(c, s) \o StartAgentMsgs(c)
      BY <1>5, <1>8
    <2> QED
      BY <2>4, <2>6, <2>7, <2>8, <1>0, <1>4, <1>5, <1>6 DEF new
  <1>9. CASE ~starts
    <2>1. sink'[c] = [s EXCEPT !.state = new]
      BY <1>9, <1>6, <1>2, <1>1 DEF WithBufferState, new, Sinks
    <2>2. sink'[c] \in Sinks
      BY <2>1, <1>1, <1>3 DEF Sinks
    <2>3. /\ sink'[c].plays = sink[c].plays /\ sink'[c].pauses = sink[c].pauses
          /\ sink'[c].segmentsRcvd = sink[c].segmentsRcvd + 1
          /\ sink'[c].delivered = sink[c].delivered
          /\ sink'[c].pauseEvent = sink[c].pauseEvent
      BY <2>1, <1>1, <1>2 DEF Sinks
    <2>4. Driven(sink'[c])
      <3>1. (sink'[c].segmentsRcvd >= InitAdv) <=> (sink[c].segmentsRcvd >= InitAdv)
        BY <2>3, <1>9, <1>2, <1>0, <1>7 DEF Sinks
      <3> QED
        BY <3>1, <2>3 DEF Driven
    <2>5. sink'[c].bytesRcvd = sink[c].bytesRcvd + n /\ sink'[c].restart = sink[c].restart
          /\ sink'[c].delivered = sink[c].delivered /\ sink'[c].state = new
      BY <2>1, <1>1, <1>2 DEF Sinks
    <2>6. inbox' = inbox \o StatusMsgs(c, s) \o <<>>
      BY <1>5, <1>9
    <2>7. inbox \o StatusMsgs(c, s) \o <<>> = inbox \o StatusMsgs(c, s)
      OBVIOUS
    <2> QED
      BY <2>2, <2>4, <2>5, <2>6, <2>7, <1>0, <1>4, <1>5, <1>6 DEF new
  <1> QED
    BY <1>8, <1>9

\* The play timer goes on, becomes the pause timer, or ends with the content
\* (playContent).
LEMMA PlayDrives ==
  ASSUME NEW c \in Client, StreamTypes, Driven(sink[c]), PlayContent(c)
  PROVE  /\ net' = net /\ ~sink[c].delivered
         /\ sink' = [sink EXCEPT ![c] = sink'[c]]
         /\ sink'[c] \in Sinks /\ Driven(sink'[c])
         /\ sink'[c].delivered => /\ ScheduleRestart => sink'[c].restart
                                  /\ sink[c].bytesRcvd >= FileSize[c]
         /\ ~ScheduleRestart => sink'[c].bytesRcvd = sink[c].bytesRcvd
         /\ \/ /\ inbox' = inbox \o StatusMsgs(c, [sink[c] EXCEPT !.buffer = @ - 1])
               /\ sink[c].buffer > 0
               /\ sink'[c].state = PlayBufferState(sink[c].buffer - 1)
            \/ inbox' = inbox /\ sink'[c].state = sink[c].state
  <1> DEFINE s == [sink[c] EXCEPT !.plays = @ - 1]
             after == IF s.buffer > 0 THEN Popped(s)
                      ELSE IF s.bytesRcvd < FileSize[c] THEN Starved(s)
                      ELSE Delivered(s)
  <1>1. sink \in [Client -> Sinks] /\ sink[c] \in Sinks
    BY DEF StreamTypes
  <1>2. sink[c].plays > 0 /\ net' = net /\ sink' = [sink EXCEPT ![c] = Rescheduled(after)]
        /\ inbox' = IF s.buffer > 0
                    THEN inbox \o StatusMsgs(c, [s EXCEPT !.buffer = @ - 1]) ELSE inbox
    BY DEF PlayContent
  <1>3. /\ sink[c].plays = 1 /\ sink[c].pauses = 0 /\ ~sink[c].pauseEvent
        /\ sink[c].segmentsRcvd >= InitAdv /\ ~sink[c].delivered
    BY <1>1, <1>2 DEF Driven, Sinks
  <1>4. /\ s.plays = 0 /\ s.pauses = 0 /\ s.pauseEvent = FALSE /\ s.delivered = FALSE
        /\ s.buffer = sink[c].buffer /\ s.bytesRcvd = sink[c].bytesRcvd
        /\ s.segmentsRcvd = sink[c].segmentsRcvd /\ s.restart = sink[c].restart
        /\ s.state = sink[c].state /\ s.delivered = sink[c].delivered
    BY <1>1, <1>3 DEF Sinks
  <1>5. s \in Sinks
    <2>1. 0 \in Nat /\ sink[c].plays - 1 = 0
      BY <1>3
    <2>2. [sink[c] EXCEPT !.plays = 0] \in Sinks
      BY <1>1, <2>1 DEF Sinks
    <2> QED
      BY <2>1, <2>2
  <1>6. sink'[c] = Rescheduled(after) /\ sink' = [sink EXCEPT ![c] = sink'[c]]
    BY <1>1, <1>2
  <1>7. InitAdv \in Nat \ {0}
    BY SinkAssumption
  <1>8. \A z \in Sinks : [z EXCEPT !.plays = @ + 1] \in Sinks
    <2>1. ASSUME NEW z \in Sinks
          PROVE  [z EXCEPT !.plays = @ + 1] \in Sinks
      <3>1. z.plays + 1 \in Nat
        BY DEF Sinks
      <3> QED
        BY <3>1 DEF Sinks
    <2> QED
      BY <2>1
  <1> HIDE DEF s
  <1>9. CASE s.buffer > 0
    <2> DEFINE b == s.buffer - 1
               new == PlayBufferState(b)
               z == [[s EXCEPT !.buffer = b] EXCEPT !.state = new]
    <2>1. b \in Nat /\ s.buffer \in Nat
      BY <1>9, <1>5 DEF Sinks
    <2>2. new \in 0..3
      BY <2>1, BufferStates
    <2>3. after = z
      <3>1. [s EXCEPT !.buffer = b].buffer = b
        BY <1>5 DEF Sinks
      <3> QED
        BY <3>1, <1>9 DEF Popped, WithBufferState
    <2> HIDE DEF new, b
    <2>4. z \in Sinks
      <3>1. [s EXCEPT !.buffer = b] \in Sinks
        BY <2>1, <1>5 DEF Sinks
      <3> QED
        BY <3>1, <2>2 DEF Sinks
    <2>5. /\ z.plays = 0 /\ z.pauses = 0 /\ z.pauseEvent = FALSE /\ z.delivered = FALSE
          /\ z.segmentsRcvd = s.segmentsRcvd /\ z.state = new /\ z.restart = s.restart
          /\ z.bytesRcvd = s.bytesRcvd
      BY <1>4, <1>5 DEF Sinks
    <2> HIDE DEF z, after
    <2>6. sink'[c] = [z EXCEPT !.plays = @ + 1]
      BY <2>3, <2>5, <1>6 DEF Rescheduled, WithPlayTimer
    <2>7. /\ sink'[c].plays = 1 /\ sink'[c].pauses = 0 /\ sink'[c].pauseEvent = FALSE
          /\ sink'[c].delivered = FALSE /\ sink'[c].segmentsRcvd = sink[c].segmentsRcvd
          /\ sink'[c].state = new /\ sink'[c].bytesRcvd = sink[c].bytesRcvd
      BY <2>4, <2>5, <2>6, <1>4 DEF Sinks
    <2>8. sink'[c] \in Sinks
      BY <2>4, <2>6, <1>8
    <2>9. Driven(sink'[c])
      BY <2>7, <1>3 DEF Driven
    <2>10. StatusMsgs(c, [s EXCEPT !.buffer = @ - 1])
             = StatusMsgs(c, [sink[c] EXCEPT !.buffer = @ - 1])
      <3> DEFINE v == [s EXCEPT !.buffer = @ - 1]
                 w == [sink[c] EXCEPT !.buffer = @ - 1]
      <3>1. v.buffer = w.buffer /\ v.state = w.state /\ v.delivered = w.delivered
            /\ v.restart = w.restart
        <4>1. v.buffer = s.buffer - 1 /\ v.state = s.state /\ v.delivered = s.delivered
              /\ v.restart = s.restart
          BY <1>5 DEF Sinks
        <4>2. w.buffer = sink[c].buffer - 1 /\ w.state = sink[c].state
              /\ w.delivered = sink[c].delivered /\ w.restart = sink[c].restart
          BY <1>1 DEF Sinks
        <4> QED
          BY <4>1, <4>2, <1>3, <1>4
      <3> HIDE DEF v, w
      <3>2. StatusMsgs(c, v) = StatusMsgs(c, w)
        BY <3>1 DEF StatusMsgs
      <3> QED
        BY <3>2 DEF v, w
    <2>11. new = PlayBufferState(sink[c].buffer - 1)
      BY <1>4 DEF new, b
    <2> QED
      BY <2>7, <2>8, <2>9, <2>10, <2>11, <1>2, <1>3, <1>4, <1>6, <1>9
  <1>10. CASE ~(s.buffer > 0) /\ s.bytesRcvd < FileSize[c]
    <2> DEFINE z == [s EXCEPT !.pauseEvent = TRUE, !.pauses = 1]
    <2>1. after = z
      BY <1>10, <1>4 DEF Starved
    <2>2. z \in Sinks
      BY <1>5 DEF Sinks
    <2>3. /\ z.plays = 0 /\ z.pauses = 1 /\ z.pauseEvent = TRUE /\ z.delivered = FALSE
          /\ z.segmentsRcvd = s.segmentsRcvd /\ z.state = s.state /\ z.bytesRcvd = s.bytesRcvd
      BY <1>4, <1>5 DEF Sinks
    <2> HIDE DEF z, after
    <2>4. sink'[c] = z
      BY <2>1, <2>3, <1>6 DEF Rescheduled
    <2>5. Driven(sink'[c])
      BY <2>3, <2>4, <1>3, <1>4 DEF Driven
    <2> QED
      BY <2>2, <2>3, <2>4, <2>5, <1>2, <1>3, <1>4, <1>6, <1>10
  <1>11. CASE ~(s.buffer > 0) /\ ~(s.bytesRcvd < FileSize[c])
    <2> DEFINE z == Delivered(s)
    <2>1. after = z
      BY <1>11
    <2>2. z \in Sinks
      <3>1. [s EXCEPT !.delivered = TRUE] \in Sinks
        BY <1>5 DEF Sinks
      <3>2. [s EXCEPT !.delivered = TRUE, !.restart = TRUE, !.bytesRcvd = 0,
                      !.segmentsRcvd = 0] \in Sinks
        BY <1>5 DEF Sinks
      <3> QED
        BY <3>1, <3>2, <1>5 DEF Delivered
    <2>3. /\ z.plays = 0 /\ z.pauses = 0 /\ z.pauseEvent = FALSE /\ z.delivered = TRUE
          /\ z.state = s.state
          /\ ScheduleRestart => z.restart = TRUE
          /\ ~ScheduleRestart => z.bytesRcvd = s.bytesRcvd
      BY <1>4, <1>5 DEF Sinks, Delivered
    <2> HIDE DEF z, after
    <2>4. sink'[c] = z
      BY <2>1, <2>3, <1>6 DEF Rescheduled
    <2>5. Driven(sink'[c])
      BY <2>3, <2>4 DEF Driven
    <2>6. sink[c].bytesRcvd >= FileSize[c]
      BY <1>11, <1>4, <1>1, SinkAssumption DEF Sinks
    <2> QED
      BY <2>2, <2>3, <2>4, <2>5, <2>6, <1>2, <1>3, <1>4, <1>6, <1>11
  <1> QED
    BY <1>9, <1>10, <1>11

\* The pause timer goes on, or becomes the play timer (pauseContent).
LEMMA PauseDrives ==
  ASSUME NEW c \in Client, StreamTypes, Driven(sink[c]), PauseContent(c)
  PROVE  /\ net' = net
         /\ sink' = [sink EXCEPT ![c] = sink'[c]]
         /\ sink'[c] \in Sinks /\ Driven(sink'[c])
         /\ sink'[c].state = sink[c].state /\ sink'[c].bytesRcvd = sink[c].bytesRcvd
         /\ sink'[c].delivered = sink[c].delivered /\ sink'[c].restart = sink[c].restart
         /\ inbox' = inbox \/ inbox' = inbox \o StartAgentMsgs(c)
         /\ sink[c].pauses > 0
  <1> DEFINE s == [sink[c] EXCEPT !.pauses = @ - 1]
  <1>1. sink \in [Client -> Sinks] /\ sink[c] \in Sinks
    BY DEF StreamTypes
  <1>2. sink[c].pauses > 0 /\ net' = net
        /\ \/ UNCHANGED <<sink, inbox>>
           \/ /\ sink' = [sink EXCEPT ![c] = [WithPlayTimer(s) EXCEPT !.pauseEvent = FALSE]]
              /\ inbox' = inbox \o StartAgentMsgs(c)
    BY DEF PauseContent
  <1>3. CASE UNCHANGED <<sink, inbox>>
    BY <1>1, <1>2, <1>3
  <1>4. CASE /\ sink' = [sink EXCEPT ![c] = [WithPlayTimer(s) EXCEPT !.pauseEvent = FALSE]]
             /\ inbox' = inbox \o StartAgentMsgs(c)
    <2>1. /\ sink[c].plays = 0 /\ sink[c].pauses = 1
          /\ sink[c].segmentsRcvd >= InitAdv /\ ~sink[c].delivered
      BY <1>1, <1>2 DEF Driven, Sinks
    <2> DEFINE z == [sink[c] EXCEPT !.pauses = 0, !.plays = 1, !.pauseEvent = FALSE]
    <2>2. sink'[c] = z /\ sink' = [sink EXCEPT ![c] = sink'[c]]
      <3>1. sink'[c] = [WithPlayTimer(s) EXCEPT !.pauseEvent = FALSE]
        BY <1>4, <1>1
      <3>2. s = [sink[c] EXCEPT !.pauses = 0]
        BY <2>1, <1>1 DEF Sinks
      <3>3. WithPlayTimer(s) = [s EXCEPT !.plays = 1]
        <4>1. s.plays + 1 = 1
          BY <3>2, <2>1, <1>1 DEF Sinks
        <4> HIDE DEF s
        <4> QED
          BY <4>1 DEF WithPlayTimer
      <3> QED
        BY <3>1, <3>2, <3>3, <1>4, <1>1 DEF Sinks
    <2>3. z \in Sinks
      BY <1>1 DEF Sinks
    <2>4. /\ z.plays = 1 /\ z.pauses = 0 /\ z.pauseEvent = FALSE
          /\ z.delivered = sink[c].delivered /\ z.segmentsRcvd = sink[c].segmentsRcvd
          /\ z.state = sink[c].state /\ z.bytesRcvd = sink[c].bytesRcvd
          /\ z.restart = sink[c].restart
      BY <1>1 DEF Sinks
    <2> HIDE DEF z
    <2>5. Driven(sink'[c])
      BY <2>1, <2>2, <2>4 DEF Driven
    <2> QED
      BY <2>2, <2>3, <2>4, <2>5, <1>2, <1>4
  <1> QED
    BY <1>2, <1>3, <1>4

(***************************************************************************)
(* What the steps do to the inbox and to the contexts of the pacer.        *)
(***************************************************************************)

\* A sink tells the state of its buffer, or nothing if it is the old one; it does
\* tell a change as long as its content is played, and after that if there are
\* several contents (verifyBufferStateTransition).
LEMMA StatusTold ==
  ASSUME NEW c, NEW s, s.buffer \in Nat
  PROVE  LET x == PlayBufferState(s.buffer)
         IN  /\ StatusMsgs(c, s) \in {<<>>, Status(c, x)}
             /\ (StatusMsgs(c, s) = <<>> /\ (~s.delivered \/ (s.restart /\ ScheduleRestart)))
                  => s.state = x
  <1>1. \A x : <<CliAppContext(c, x)>> # <<>>
    OBVIOUS
  <1> QED
    BY <1>1 DEF StatusMsgs, Status

\* What a sink adds to an empty inbox.
LEMMA InboxGrows ==
  ASSUME NEW c, NEW x
  PROVE  /\ <<>> \o <<>> = <<>>
         /\ <<>> \o Status(c, x) = Status(c, x)
         /\ <<>> \o StartAgentMsgs(c) = <<Start(c)>>
         /\ <<>> \o <<>> \o StartAgentMsgs(c) = <<Start(c)>>
         /\ <<>> \o Status(c, x) \o StartAgentMsgs(c) = StatusAndStart(c, x)
  <1>1. <<>> \o <<>> = <<>>
    OBVIOUS
  <1>2. \A m : <<>> \o <<m>> = <<m>>
    OBVIOUS
  <1>3. ASSUME NEW m, NEW n
        PROVE  <<m>> \o <<n>> = <<m, n>>
    <2>1. /\ <<m>> \in Seq({m, n}) /\ <<n>> \in Seq({m, n}) /\ <<m, n>> \in Seq({m, n})
          /\ Len(<<m>>) = 1 /\ Len(<<n>>) = 1 /\ Len(<<m, n>>) = 2
          /\ <<m>>[1] = m /\ <<n>>[1] = n /\ <<m, n>>[1] = m /\ <<m, n>>[2] = n
      OBVIOUS
    <2>2. <<m>> \o <<n>> \in Seq({m, n}) /\ Len(<<m>> \o <<n>>) = 2
      BY <2>1
    <2>3. (<<m>> \o <<n>>)[1] = m /\ (<<m>> \o <<n>>)[2] = n
      BY <2>1
    <2>4. \A i \in 1..2 : (<<m>> \o <<n>>)[i] = <<m, n>>[i]
      BY <2>1, <2>3
    <2> QED
      BY <2>1, <2>2, <2>4, SeqEqual
  <1> QED
    BY <1>1, <1>2, <1>3, Zenon DEF Status, StartAgentMsgs, StatusAndStart, Start

\* One chunk goes out; the pacer counts it, and when more than all is sent it
\* restarts the content or notes that it is finished (sendTxTrigger).
LEMMA TriggerSends ==
  ASSUME NEW c \in Client, StreamTypes, inbox = <<>>, Trigger(c)
  PROVE  LET rest == app[c].remaining - app[c].chunk
         IN  /\ app[c].trigger # "none" /\ UNCHANGED <<sink, paced, session>>
             /\ net' = [net EXCEPT ![c] = @ + app[c].chunk] /\ net' \in [Client -> Nat]
             /\ app' = [app EXCEPT ![c] = app'[c]] /\ app'[c] \in Contexts
             /\ app'[c].registered = app[c].registered
             /\ app'[c].initialPlayStarted => app[c].initialPlayStarted
             /\ ~ScheduleRestart \/ c \notin Restartable =>
                  /\ app'[c].remaining = rest
                  /\ app'[c].playBufferState = app[c].playBufferState
                  /\ app'[c].playFinished = app[c].playFinished
                  /\ inbox' = IF rest < 0 THEN Finish(c) ELSE <<>>
             /\ inbox' = <<>> \/ inbox' = Finish(c)
  <1> DEFINE ci == ContextInformation(app[c])
             rest == ci.bytesToSend - ci.chunkSize
             a == [app[c] EXCEPT !.remaining = rest]
             restarts0 == ScheduleRestart /\ c \in Restartable
  <1>1. /\ net \in [Client -> Nat] /\ app \in [Client -> Contexts] /\ app[c] \in Contexts
    BY DEF StreamTypes
  <1>2. ci.bytesToSend = app[c].remaining /\ ci.chunkSize = app[c].chunk
    BY DEF ContextInformation
  <1>3. /\ app[c].trigger # "none" /\ UNCHANGED <<sink, paced, session>>
        /\ net' = [net EXCEPT ![c] = @ + app[c].chunk]
        /\ app' = [app EXCEPT ![c] = IF rest > 0 THEN [a EXCEPT !.trigger = "next"]
                                     ELSE IF rest < 0 /\ restarts0 THEN Restarted(a)
                                     ELSE [a EXCEPT !.trigger = "none"]]
        /\ inbox' = IF rest < 0 /\ ~restarts0
                    THEN Append(inbox, [t |-> "finish", c |-> c]) ELSE inbox
    BY <1>2 DEF Trigger, SendTxTrigger
  <1>4. rest = app[c].remaining - app[c].chunk /\ rest \in Int /\ app[c].chunk \in Nat
    BY <1>1, <1>2 DEF Contexts
  <1> HIDE DEF ci
  <1>5. net' \in [Client -> Nat]
    BY <1>1, <1>3, <1>4
  <1>6. Append(<<>>, [t |-> "finish", c |-> c]) = Finish(c)
    BY DEF Finish
  <1>7. inbox' = IF rest < 0 /\ ~restarts0 THEN Finish(c) ELSE <<>>
    BY <1>3, <1>6
  <1> HIDE DEF rest
  <1>8. a \in Contexts
    BY <1>1, <1>4 DEF Contexts
  <1>9. /\ a.remaining = rest /\ a.registered = app[c].registered
        /\ a.playBufferState = app[c].playBufferState /\ a.playFinished = app[c].playFinished
        /\ a.initialPlayStarted = app[c].initialPlayStarted
    BY <1>1 DEF Contexts
  <1> HIDE DEF a
  <1>10. app' = [app EXCEPT ![c] = app'[c]]
    BY <1>1, <1>3
  <1>11. CASE ~(rest > 0) /\ rest < 0 /\ restarts0
    <2>1. app'[c] = Restarted(a)
      BY <1>1, <1>3, <1>11
    <2>2. Restarted(a) \in Contexts
      <3>1. BytesToSend \in Nat /\ Chunk \in Nat /\ GREEN \in 0..3
        BY PacerAssumption DEF GREEN
      <3>2. ASSUME NEW z \in Contexts, NEW r \in Nat, NEW k \in Nat, NEW g \in 0..3
            PROVE  [z EXCEPT !.initialPlayStarted = FALSE, !.playFinished = FALSE,
                             !.remaining = r, !.chunk = k, !.playBufferState = g,
                             !.trigger = "restart"] \in Contexts
        <4>1. [z EXCEPT !.initialPlayStarted = FALSE, !.playFinished = FALSE,
                        !.trigger = "restart"] \in Contexts
          BY DEF Contexts
        <4>2. ASSUME NEW y \in Contexts
              PROVE  [y EXCEPT !.remaining = r, !.chunk = k, !.playBufferState = g]
                       \in Contexts
          <5>1. r \in Int
            OBVIOUS
          <5>2. [y EXCEPT !.remaining = r] \in Contexts
            BY <5>1 DEF Contexts
          <5>3. \A x \in Contexts : [x EXCEPT !.chunk = k] \in Contexts
            BY DEF Contexts
          <5>4. \A x \in Contexts : [x EXCEPT !.playBufferState = g] \in Contexts
            BY DEF Contexts
          <5> QED
            BY <5>2, <5>3, <5>4
        <4>3. [z EXCEPT !.initialPlayStarted = FALSE, !.playFinished = FALSE,
                        !.remaining = r, !.chunk = k, !.playBufferState = g,
                        !.trigger = "restart"]
                = [[z EXCEPT !.initialPlayStarted = FALSE, !.playFinished = FALSE,
                             !.trigger = "restart"]
                   EXCEPT !.remaining = r, !.chunk = k, !.playBufferState = g]
          BY DEF Contexts
        <4> QED
          BY <4>1, <4>2, <4>3
      <3> QED
        BY <3>1, <3>2, <1>8 DEF Restarted
    <2>3. Restarted(a).registered = a.registered /\ ~Restarted(a).initialPlayStarted
      BY <1>8 DEF Restarted, Contexts
    <2> QED
      BY <2>1, <2>2, <2>3, <1>3, <1>4, <1>5, <1>7, <1>9, <1>10, <1>11
  <1>12. CASE rest > 0 \/ ~(rest < 0 /\ restarts0)
    <2>1. PICK x \in {"next", "none"} : app'[c] = [a EXCEPT !.trigger = x]
      BY <1>1, <1>3, <1>12
    <2>2. app'[c] \in Contexts
      BY <2>1, <1>8 DEF Contexts
    <2>3. /\ app'[c].remaining = rest /\ app'[c].registered = a.registered
          /\ app'[c].playBufferState = a.playBufferState
          /\ app'[c].playFinished = a.playFinished
          /\ app'[c].initialPlayStarted = a.initialPlayStarted
      BY <2>1, <1>8, <1>9 DEF Contexts
    <2> QED
      BY <2>2, <2>3, <1>3, <1>4, <1>5, <1>7, <1>9, <1>10, <1>12
  <1> QED
    BY <1>4, <1>11, <1>12

\* The agent changes the sizes of chunks only, and they stay natural numbers
\* (doAction, which takes at most all of a chunk away).
LEMMA AgentChangesChunks ==
  ASSUME StreamTypes, Agent
  PROVE  /\ UNCHANGED <<net, sink, inbox, paced, session>>
         /\ app' \in [Client -> Contexts]
         /\ \A c \in Client :
              /\ app'[c].registered = app[c].registered
              /\ app'[c].remaining = app[c].remaining
              /\ app'[c].playBufferState = app[c].playBufferState
              /\ app'[c].playFinished = app[c].playFinished
              /\ app'[c].initialPlayStarted = app[c].initialPlayStarted
              /\ app'[c].trigger = app[c].trigger
  <1>1. /\ app \in [Client -> Contexts]
        /\ \A c \in Client : app[c] \in Contexts
    BY DEF StreamTypes
  <1>2. UNCHANGED <<net, sink, inbox, paced, session>>
    BY DEF Agent, AgentTimer, sessionVars
  <1>3. CASE app' = app
    BY <1>1, <1>2, <1>3
  <1>4. ASSUME NEW act \in SelectAction, DoActions(act), ~(app' = app)
        PROVE  /\ app' \in [Client -> Contexts]
               /\ \A c \in Client : \E n \in Nat : app'[c] = [app[c] EXCEPT !.chunk = n]
    <2>1. act \in [Groups -> Actions]
      BY DEF SelectAction, Allowed, FirstActions
    <2>2. /\ \A c \in Client :
               app'[c] = IF Active(c)
                         THEN [app[c] EXCEPT !.chunk =
                                 Changed(Base(app[c]), Percent[c],
                                         act[GroupOf(app[c].playBufferState)])]
                         ELSE app[c]
          /\ app' = [c \in Client |-> app'[c]]
      BY <1>4 DEF DoActions
    <2>3. ASSUME NEW c \in Client
          PROVE  \E n \in Nat : app'[c] = [app[c] EXCEPT !.chunk = n]
      <3>1. app[c] \in Contexts /\ app[c].chunk \in Nat
        BY <1>1 DEF Contexts
      <3>2. CASE ~Active(c)
        <4>1. app'[c] = [app[c] EXCEPT !.chunk = app[c].chunk]
          BY <3>1, <3>2, <2>2 DEF Contexts
        <4> QED
          BY <4>1, <3>1
      <3>3. CASE Active(c)
        <4> DEFINE k == Base(app[c])
                   p == Percent[c]
                   u == act[GroupOf(app[c].playBufferState)]
        <4>1. k \in Nat /\ p \in 0..100
          BY <3>1, PacerAssumption DEF Base
        <4>2. u \in Actions
          <5>1. app[c].playBufferState \in 0..3
            BY <3>1 DEF Contexts
          <5>2. GroupOf(app[c].playBufferState) \in Groups
            BY <5>1 DEF GroupOf, Groups, RED, ORANGE
          <5> QED
            BY <5>2, <2>1
        <4> HIDE DEF k, p, u
        <4>3. /\ 100 + p \in Nat /\ 100 - p \in Nat
          BY <4>1
        <4>4. \A i, j \in Nat : i * j \in Nat
          OBVIOUS
        <4>5. \A i \in Nat : i \div 100 \in Nat
          OBVIOUS
        <4>6. (k * (100 + p)) \div 100 \in Nat /\ (k * (100 - p)) \div 100 \in Nat
          BY <4>1, <4>3, <4>4, <4>5
        <4>7. Changed(k, p, u) \in Nat
          BY <4>1, <4>2, <4>6 DEF Changed, Actions
        <4> QED
          BY <4>7, <2>2, <3>3 DEF k, p, u
      <3> QED
        BY <3>2, <3>3
    <2>4. \A c \in Client : \A n \in Nat : [app[c] EXCEPT !.chunk = n] \in Contexts
      BY <1>1 DEF Contexts
    <2>5. app' \in [Client -> Contexts]
      BY <2>2, <2>3, <2>4
    <2> QED
      BY <2>3, <2>5
  <1>5. app' = app \/ \E act \in SelectAction : DoActions(act)
    BY DEF Agent, AgentTimer
  <1>6. CASE ~(app' = app)
    <2>1. app' \in [Client -> Contexts]
          /\ \A c \in Client : \E n \in Nat : app'[c] = [app[c] EXCEPT !.chunk = n]
      BY <1>4, <1>5, <1>6
    <2>2. ASSUME NEW c \in Client, NEW n \in Nat, app'[c] = [app[c] EXCEPT !.chunk = n]
          PROVE  /\ app'[c].registered = app[c].registered
                 /\ app'[c].remaining = app[c].remaining
                 /\ app'[c].playBufferState = app[c].playBufferState
                 /\ app'[c].playFinished = app[c].playFinished
                 /\ app'[c].initialPlayStarted = app[c].initialPlayStarted
                 /\ app'[c].trigger = app[c].trigger
      BY <1>1, <2>2 DEF Contexts
    <2> QED
      BY <1>2, <2>1, <2>2
  <1> QED
    BY <1>3, <1>6

\* A message changes the context of the client that it is about.
RegisterHandled(c) == /\ inbox = <<AppContext(c)>> /\ inbox' = <<>>
                      /\ app'[c] = Registered(c)

FinishHandled(c) == /\ inbox = Finish(c) /\ inbox' = <<>>
                    /\ app'[c] = [app[c] EXCEPT !.playFinished = TRUE]

StartHandled(c) ==
  /\ inbox = <<Start(c)>> /\ inbox' = <<>>
  /\ app'[c] = [app[c] EXCEPT !.initialPlayStarted = @ \/ app[c].registered]

StatusHandled(c, x) ==
  /\ \/ inbox = Status(c, x) /\ inbox' = <<>>
     \/ inbox = StatusAndStart(c, x) /\ inbox' = <<Start(c)>>
  /\ app'[c] = IF app[c].registered THEN [app[c] EXCEPT !.playBufferState = x] ELSE app[c]

\* The pacer handles the messages one by one (handleMessage of FS4VP).
LEMMA PacerHandles ==
  ASSUME StreamTypes, Pacer
  PROVE  /\ UNCHANGED <<net, sink, paced, session>>
         /\ \E c \in Client :
              /\ app' = [app EXCEPT ![c] = app'[c]] /\ app'[c] \in Contexts
              /\ \/ RegisterHandled(c) \/ FinishHandled(c) \/ StartHandled(c)
                 \/ \E x \in 0..3 : StatusHandled(c, x)
  <1>1. /\ UNCHANGED <<net, sink, paced, session>> /\ inbox # <<>> /\ inbox' = Tail(inbox)
        /\ LET msg == Head(inbox)
           IN  \/ msg.t = "register" /\ app' = [app EXCEPT ![msg.c] = Registered(msg.c)]
               \/ msg.t = "start" /\ ProcessCliPlayStart(msg.c)
               \/ msg.t = "finish" /\ ProcessCliPlayFinish(msg.c)
               \/ msg.t = "status" /\ ProcessCliApplicationContextInfo(msg.c, msg.state)
    BY DEF Pacer, PacerReceives, sessionVars
  <1>2. PICK c \in Client : inbox \in Messages(c)
    BY <1>1 DEF StreamTypes
  <1>3. app \in [Client -> Contexts] /\ app[c] \in Contexts
    BY DEF StreamTypes
  <1>4. /\ \A m : Head(<<m>>) = m /\ Tail(<<m>>) = <<>>
        /\ \A m, n : Head(<<m, n>>) = m /\ Tail(<<m, n>>) = <<n>>
    <2>1. ASSUME NEW m, NEW n
          PROVE  Head(<<m, n>>) = m /\ Tail(<<m, n>>) = <<n>>
      <3>1. <<m, n>> \in Seq({m, n}) /\ <<n>> \in Seq({m, n}) /\ Len(<<m, n>>) = 2
            /\ <<m, n>>[2] = n /\ Len(<<n>>) = 1 /\ <<n>>[1] = n /\ <<m, n>>[1] = m
        OBVIOUS
      <3>2. Head(<<m, n>>) = m /\ Tail(<<m, n>>) \in Seq({m, n}) /\ Len(Tail(<<m, n>>)) = 1
            /\ Tail(<<m, n>>)[1] = n
        BY <3>1
      <3>3. Tail(<<m, n>>) = <<n>>
        BY <3>1, <3>2, SeqEqual
      <3> QED
        BY <3>2, <3>3
    <2>2. \A m : Head(<<m>>) = m /\ Tail(<<m>>) = <<>>
      OBVIOUS
    <2> QED
      BY <2>1, <2>2
  <1>5. CASE inbox = <<AppContext(c)>>
    <2>1. Head(inbox) = AppContext(c) /\ inbox' = <<>>
      BY <1>1, <1>4, <1>5
    <2>2. AppContext(c).t = "register" /\ AppContext(c).c = c
      BY DEF AppContext
    <2>3. app' = [app EXCEPT ![c] = Registered(c)]
      BY <1>1, <2>1, <2>2
    <2>4. Registered(c) \in Contexts
      <3>1. Chunk \in Nat /\ FileSize[c] \in Int
        BY PacerAssumption, SinkAssumption
      <3> QED
        BY <3>1 DEF Registered, Contexts
    <2> QED
      BY <1>1, <1>3, <1>5, <2>1, <2>3, <2>4 DEF RegisterHandled
  <1>6. CASE inbox = Finish(c)
    <2>1. Head(inbox) = [t |-> "finish", c |-> c] /\ inbox' = <<>>
      BY <1>1, <1>4, <1>6 DEF Finish
    <2>2. app' = [app EXCEPT ![c].playFinished = TRUE]
      BY <1>1, <2>1 DEF ProcessCliPlayFinish
    <2>3. /\ app'[c] = [app[c] EXCEPT !.playFinished = TRUE]
          /\ app' = [app EXCEPT ![c] = app'[c]]
      BY <2>2, <1>3
    <2>4. app'[c] \in Contexts
      BY <2>3, <1>3 DEF Contexts
    <2> QED
      BY <1>1, <1>6, <2>1, <2>3, <2>4 DEF FinishHandled
  <1>7. CASE inbox = <<Start(c)>>
    <2>1. Head(inbox) = Start(c) /\ inbox' = <<>>
      BY <1>1, <1>4, <1>7
    <2>2. Start(c).t = "start" /\ Start(c).c = c
      BY DEF Start
    <2>3. app' = [app EXCEPT ![c].initialPlayStarted = @ \/ app[c].registered]
      BY <1>1, <2>1, <2>2 DEF ProcessCliPlayStart
    <2>4. /\ app'[c] = [app[c] EXCEPT !.initialPlayStarted = @ \/ app[c].registered]
          /\ app' = [app EXCEPT ![c] = app'[c]]
      BY <2>3, <1>3
    <2>5. app'[c] \in Contexts
      <3>1. (app[c].initialPlayStarted \/ app[c].registered) \in BOOLEAN
        OBVIOUS
      <3> QED
        BY <2>4, <3>1, <1>3 DEF Contexts
    <2> QED
      BY <1>1, <1>7, <2>1, <2>4, <2>5 DEF StartHandled
  <1>8. ASSUME NEW x \in 0..3, inbox = Status(c, x) \/ inbox = StatusAndStart(c, x)
        PROVE  /\ app' = [app EXCEPT ![c] = app'[c]] /\ app'[c] \in Contexts
               /\ StatusHandled(c, x)
    <2>1. /\ Head(inbox) = CliAppContext(c, x)
          /\ \/ inbox = Status(c, x) /\ inbox' = <<>>
             \/ inbox = StatusAndStart(c, x) /\ inbox' = <<Start(c)>>
      BY <1>1, <1>4, <1>8 DEF Status, StatusAndStart
    <2>2. /\ CliAppContext(c, x).t = "status" /\ CliAppContext(c, x).c = c
          /\ CliAppContext(c, x).state = x
      BY DEF CliAppContext
    <2>3. app' = IF app[c].registered THEN [app EXCEPT ![c].playBufferState = x] ELSE app
      BY <1>1, <2>1, <2>2 DEF ProcessCliApplicationContextInfo
    <2>4. /\ app' = [app EXCEPT ![c] = app'[c]]
          /\ app'[c] = IF app[c].registered THEN [app[c] EXCEPT !.playBufferState = x]
                       ELSE app[c]
      BY <2>3, <1>3
    <2>5. app'[c] \in Contexts
      BY <2>4, <1>3 DEF Contexts
    <2> QED
      BY <2>1, <2>4, <2>5 DEF StatusHandled
  <1>9. \/ inbox \in {<<AppContext(c)>>, Finish(c), <<Start(c)>>}
        \/ \E x \in 0..3 : inbox = Status(c, x) \/ inbox = StatusAndStart(c, x)
    BY <1>1, <1>2 DEF Messages
  <1> QED
    BY <1>1, <1>5, <1>6, <1>7, <1>8, <1>9

\* The state of a sink is replaced by one that a timer drives.
LEMMA DrivenUpdate ==
  ASSUME NEW c \in Client, TimerInv, sink' = [sink EXCEPT ![c] = sink'[c]],
         sink'[c] \in Sinks, Driven(sink'[c])
  PROVE  sink' \in [Client -> Sinks] /\ \A d \in Client : Driven(sink'[d])
  <1>1. sink \in [Client -> Sinks]
    BY DEF TimerInv, StreamTypes
  <1>2. \A d \in Client : sink'[d] = sink[d] \/ d = c
    BY <1>1
  <1>3. sink' \in [Client -> Sinks]
    BY <1>1
  <1> QED
    BY <1>2, <1>3 DEF TimerInv

\* What is told in one moment is about one client (handleMessage, playContent).
LEMMA InboxTypes ==
  ASSUME NEW c \in Client, NEW s, s.buffer \in Nat
  PROVE  LET x == PlayBufferState(s.buffer)
         IN  \/ /\ StatusMsgs(c, s) = <<>>
                /\ <<>> \o StatusMsgs(c, s) = <<>>
                /\ <<>> \o StatusMsgs(c, s) \o StartAgentMsgs(c) = <<Start(c)>>
             \/ /\ <<>> \o StatusMsgs(c, s) = Status(c, x)
                /\ <<>> \o StatusMsgs(c, s) \o StartAgentMsgs(c) = StatusAndStart(c, x)
  BY StatusTold, InboxGrows

\* The steps keep the types, and exactly one timer drives each player.
LEMMA TimerStep ==
  ASSUME TimerInv, [Next]_vars
  PROVE  TimerInv'
  <1>1. /\ net \in [Client -> Nat] /\ sink \in [Client -> Sinks]
        /\ app \in [Client -> Contexts] /\ session \in [Client -> Sessions]
        /\ paced \subseteq Client /\ StreamTypes
        /\ \A c \in Client : Driven(sink[c])
    BY DEF TimerInv, StreamTypes
  <1>2. \A c \in Client : /\ <<>> \in Messages(c) /\ <<AppContext(c)>> \in Messages(c)
                          /\ Finish(c) \in Messages(c) /\ <<Start(c)>> \in Messages(c)
                          /\ \A x \in 0..3 : /\ Status(c, x) \in Messages(c)
                                             /\ StatusAndStart(c, x) \in Messages(c)
    BY DEF Messages
  <1>3. ASSUME NEW c \in Client, inbox = <<>>, Open(c)
        PROVE  TimerInv'
    <2>1. /\ session' = [session EXCEPT ![c].open = TRUE, ![c].timer = c \notin paced]
          /\ inbox' = IF c \in paced THEN Append(inbox, AppContext(c)) ELSE inbox
          /\ UNCHANGED <<net, sink, app, paced>>
      BY <1>3 DEF Open
    <2>2. session' \in [Client -> Sessions]
      <3>1. session' = [session EXCEPT ![c] = [session[c] EXCEPT !.open = TRUE,
                                                                 !.timer = c \notin paced]]
        BY <2>1, <1>1
      <3>2. (c \notin paced) \in BOOLEAN
        OBVIOUS
      <3>3. [session[c] EXCEPT !.open = TRUE, !.timer = c \notin paced] \in Sessions
        BY <1>1, <3>2 DEF Sessions
      <3> QED
        BY <3>1, <3>3, <1>1
    <2>3. inbox' \in Messages(c)
      <3>1. \A m : Append(<<>>, m) = <<m>>
        OBVIOUS
      <3> QED
        BY <2>1, <3>1, <1>2, <1>3
    <2> QED
      BY <1>1, <2>1, <2>2, <2>3 DEF TimerInv, StreamTypes
  <1>4. ASSUME NEW c \in Client, SendData(c)
        PROVE  TimerInv'
    <2>1. /\ UNCHANGED <<sink, inbox, app, paced>>
          /\ \/ /\ session' = [session EXCEPT ![c].remaining = @ - Chunk]
                /\ net' = [net EXCEPT ![c] = @ + Chunk]
             \/ /\ session' = [session EXCEPT ![c].timer = FALSE, ![c].closed = TRUE]
                /\ UNCHANGED net
      BY <1>4 DEF SendData
    <2>2. Chunk \in Nat
      BY PacerAssumption
    <2>3. session' \in [Client -> Sessions] /\ net' \in [Client -> Nat]
      <3>1. CASE /\ session' = [session EXCEPT ![c].remaining = @ - Chunk]
                 /\ net' = [net EXCEPT ![c] = @ + Chunk]
        BY <3>1, <2>2, <1>1 DEF Sessions
      <3>2. CASE /\ session' = [session EXCEPT ![c].timer = FALSE, ![c].closed = TRUE]
                 /\ UNCHANGED net
        BY <3>2, <1>1 DEF Sessions
      <3> QED
        BY <2>1, <3>1, <3>2
    <2> QED
      BY <1>1, <2>1, <2>3 DEF TimerInv, StreamTypes
  <1>5. ASSUME NEW c \in Client, inbox = <<>>, Trigger(c)
        PROVE  TimerInv'
    <2>1. /\ UNCHANGED <<sink, paced, session>> /\ net' \in [Client -> Nat]
          /\ app' = [app EXCEPT ![c] = app'[c]] /\ app'[c] \in Contexts
          /\ inbox' = <<>> \/ inbox' = Finish(c)
      BY <1>1, <1>5, TriggerSends
    <2>2. app' \in [Client -> Contexts]
      BY <2>1, <1>1
    <2> QED
      BY <1>1, <1>2, <2>1, <2>2 DEF TimerInv, StreamTypes
  <1>6. ASSUME NEW c \in Client, inbox = <<>>, Data(c)
        PROVE  TimerInv'
    <2>1. PICK n \in 1..Mss : n <= net[c] /\ Arrive(c, n)
      BY <1>6 DEF Data
    <2>2. UNCHANGED <<app, paced, session>>
      BY <1>6 DEF Data, sessionVars
    <2>3. n \in Nat /\ net[c] >= n
      BY <2>1, <1>1, StreamAssumption
    <2>4. /\ net' \in [Client -> Nat] /\ sink' = [sink EXCEPT ![c] = sink'[c]]
          /\ sink'[c] \in Sinks /\ Driven(sink'[c])
          /\ LET m == StatusMsgs(c, [sink[c] EXCEPT !.buffer = @ + 1])
             IN  inbox' = inbox \o m \/ inbox' = inbox \o m \o StartAgentMsgs(c)
      BY <2>1, <2>3, <1>1, ArrivalDrives
    <2>5. inbox' \in Messages(c)
      <3> DEFINE s == [sink[c] EXCEPT !.buffer = @ + 1]
      <3>1. s.buffer \in Nat
        BY <1>1 DEF Sinks
      <3> HIDE DEF s
      <3>2. inbox' = <<>> \o StatusMsgs(c, s)
            \/ inbox' = <<>> \o StatusMsgs(c, s) \o StartAgentMsgs(c)
        BY <2>4, <1>6 DEF s
      <3> QED
        BY <3>1, <3>2, <1>2, InboxTypes, BufferStates
    <2>6. sink' \in [Client -> Sinks] /\ \A d \in Client : Driven(sink'[d])
      BY <2>4, DrivenUpdate
    <2> QED
      BY <1>1, <2>2, <2>4, <2>5, <2>6 DEF TimerInv, StreamTypes
  <1>7. ASSUME NEW c \in Client, inbox = <<>>, Play(c)
        PROVE  TimerInv'
    <2>1. UNCHANGED <<app, paced, session>> /\ PlayContent(c)
      BY <1>7 DEF Play, sessionVars
    <2>2. /\ net' = net /\ sink' = [sink EXCEPT ![c] = sink'[c]]
          /\ sink'[c] \in Sinks /\ Driven(sink'[c])
          /\ \/ /\ inbox' = inbox \o StatusMsgs(c, [sink[c] EXCEPT !.buffer = @ - 1])
                /\ sink[c].buffer > 0
             \/ inbox' = inbox
      BY <2>1, <1>1, PlayDrives
    <2>3. inbox' \in Messages(c)
      <3> DEFINE s == [sink[c] EXCEPT !.buffer = @ - 1]
      <3>1. CASE /\ inbox' = <<>> \o StatusMsgs(c, s)
                 /\ sink[c].buffer > 0
        <4>1. s.buffer \in Nat
          BY <1>1, <3>1 DEF Sinks
        <4> HIDE DEF s
        <4> QED
          BY <4>1, <3>1, <1>2, InboxTypes, BufferStates
      <3> QED
        BY <2>2, <3>1, <1>2, <1>7
    <2>4. sink' \in [Client -> Sinks] /\ \A d \in Client : Driven(sink'[d])
      BY <2>2, DrivenUpdate
    <2> QED
      BY <1>1, <2>1, <2>2, <2>3, <2>4 DEF TimerInv, StreamTypes
  <1>8. ASSUME NEW c \in Client, inbox = <<>>, Pause(c)
        PROVE  TimerInv'
    <2>1. UNCHANGED <<app, paced, session>> /\ PauseContent(c)
      BY <1>8 DEF Pause, sessionVars
    <2>2. /\ net' = net /\ sink' = [sink EXCEPT ![c] = sink'[c]]
          /\ sink'[c] \in Sinks /\ Driven(sink'[c])
          /\ inbox' = inbox \/ inbox' = inbox \o StartAgentMsgs(c)
      BY <2>1, <1>1, PauseDrives
    <2>3. inbox' \in Messages(c)
      BY <2>2, <1>2, <1>8, InboxGrows
    <2>4. sink' \in [Client -> Sinks] /\ \A d \in Client : Driven(sink'[d])
      BY <2>2, DrivenUpdate
    <2> QED
      BY <1>1, <2>1, <2>2, <2>3, <2>4 DEF TimerInv, StreamTypes
  <1>9. ASSUME NEW c \in Client, Closed(c)
        PROVE  TimerInv'
    <2>1. /\ UNCHANGED <<net, inbox, app, paced, session>>
          /\ sink' = [sink EXCEPT ![c].closed = TRUE]
      BY <1>9 DEF Closed, PeerClosed, sessionVars
    <2>2. sink'[c] = [sink[c] EXCEPT !.closed = TRUE] /\ sink' = [sink EXCEPT ![c] = sink'[c]]
      BY <2>1, <1>1
    <2>3. sink'[c] \in Sinks
      BY <2>2, <1>1 DEF Sinks
    <2>4. /\ sink'[c].plays = sink[c].plays /\ sink'[c].pauses = sink[c].pauses
          /\ sink'[c].segmentsRcvd = sink[c].segmentsRcvd
          /\ sink'[c].delivered = sink[c].delivered
          /\ sink'[c].pauseEvent = sink[c].pauseEvent
      BY <2>2, <1>1 DEF Sinks
    <2>5. Driven(sink'[c])
      BY <2>4, <1>1 DEF Driven
    <2>6. sink' \in [Client -> Sinks] /\ \A d \in Client : Driven(sink'[d])
      BY <2>2, <2>3, <2>5, DrivenUpdate
    <2> QED
      BY <1>1, <2>1, <2>6 DEF TimerInv, StreamTypes
  <1>10. CASE Pacer
    <2>1. UNCHANGED <<net, sink, paced, session>>
      BY <1>1, <1>10, PacerHandles
    <2>2. PICK c \in Client :
            /\ app' = [app EXCEPT ![c] = app'[c]] /\ app'[c] \in Contexts
            /\ \/ RegisterHandled(c) \/ FinishHandled(c) \/ StartHandled(c)
               \/ \E x \in 0..3 : StatusHandled(c, x)
      BY <1>1, <1>10, PacerHandles
    <2>3. inbox' = <<>> \/ inbox' = <<Start(c)>>
      BY <2>2 DEF RegisterHandled, FinishHandled, StartHandled, StatusHandled
    <2>4. app' \in [Client -> Contexts]
      BY <2>2, <1>1
    <2> QED
      BY <1>1, <1>2, <2>1, <2>3, <2>4 DEF TimerInv, StreamTypes
  <1>11. CASE Agent
    <2>1. UNCHANGED <<net, sink, inbox, paced, session>> /\ app' \in [Client -> Contexts]
      BY <1>1, <1>11, AgentChangesChunks
    <2> QED
      BY <1>1, <2>1 DEF TimerInv, StreamTypes
  <1>12. CASE UNCHANGED vars
    BY <1>1, <1>12 DEF vars, TimerInv, StreamTypes
  <1> QED
    BY <1>3, <1>4, <1>5, <1>6, <1>7, <1>8, <1>9, <1>10, <1>11, <1>12 DEF Next, Later

\* At first no player runs.
LEMMA TimerInit ==
  ASSUME Init
  PROVE  TimerInv
  <1>1. /\ net = [c \in Client |-> 0] /\ sink = [c \in Client |-> EmptySink] /\ inbox = <<>>
        /\ app = [c \in Client |-> Unregistered]
        /\ session = [c \in Client |-> [open |-> FALSE, closed |-> FALSE, timer |-> FALSE,
                                        remaining |-> FileSize[c]]]
        /\ paced \subseteq Client
    BY StreamAssumption DEF Init, InitSink, InitPacer
  <1>2. EmptySink \in Sinks /\ Driven(EmptySink)
    <2>1. InitAdv \in Nat \ {0}
      BY SinkAssumption
    <2> QED
      BY <2>1 DEF EmptySink, Sinks, Driven, RED
  <1>3. Unregistered \in Contexts
    BY DEF Unregistered, Contexts
  <1>4. session \in [Client -> Sessions]
    BY <1>1, SinkAssumption DEF Sessions
  <1> QED
    BY <1>1, <1>2, <1>3, <1>4 DEF TimerInv, StreamTypes

\* So the timers are in order at all times.
LEMMA TimerInvariant == Spec => []TimerInv
  <1>1. Init => TimerInv
    BY TimerInit
  <1>2. TimerInv /\ [Next]_vars => TimerInv'
    BY TimerStep
  <1> QED
    BY <1>1, <1>2, PTL DEF Spec

\* While content is being played exactly one timer drives the player (playContent,
\* pauseContent and handleMessage pass the timer on).
THEOREM TimersArePassedOn == Spec => []OneTimerPlays
  <1>1. TimerInv => OneTimerPlays
    <2>1. ASSUME TimerInv, NEW c \in Client
          PROVE  /\ sink[c].plays + sink[c].pauses = (IF Playing(c) THEN 1 ELSE 0)
                 /\ sink[c].pauseEvent = (sink[c].pauses = 1)
      <3>1. sink[c].pauseEvent \in BOOLEAN /\ Driven(sink[c])
        BY <2>1 DEF TimerInv, StreamTypes, Sinks
      <3>2. sink[c].pauseEvent = (sink[c].pauses = 1)
        BY <3>1, Zenon DEF Driven
      <3> QED
        BY <3>1, <3>2 DEF Driven, Playing
    <2> QED
      BY <2>1 DEF OneTimerPlays
  <1> QED
    BY <1>1, TimerInvariant, PTL

(***************************************************************************)
(* What the pacer knows.                                                   *)
(***************************************************************************)

\* Messages of different kinds, or about different clients, are different.
LEMMA Kinds ==
  /\ \A c : /\ <<AppContext(c)>> # <<>> /\ Head(<<AppContext(c)>>).t = "register"
            /\ Head(<<AppContext(c)>>).c = c
  /\ \A c : Finish(c) # <<>> /\ Head(Finish(c)).t = "finish" /\ Head(Finish(c)).c = c
  /\ \A c : <<Start(c)>> # <<>> /\ Head(<<Start(c)>>).t = "start" /\ Head(<<Start(c)>>).c = c
  /\ \A c, x : /\ Status(c, x) # <<>> /\ StatusAndStart(c, x) # <<>>
               /\ \A q \in {Status(c, x), StatusAndStart(c, x)} :
                    Head(q).t = "status" /\ Head(q).c = c /\ Head(q).state = x
  <1>1. /\ \A m : <<m>> # <<>> /\ Head(<<m>>) = m
        /\ \A m, n : <<m, n>> # <<>> /\ Head(<<m, n>>) = m
    OBVIOUS
  <1> QED
    BY <1>1 DEF AppContext, Finish, Start, Status, StatusAndStart, CliAppContext

\* Nothing in q changes what the pacer knows of client d.
Quiet(q, d) == /\ q # <<AppContext(d)>> /\ q # Finish(d)
               /\ ~(q # <<>> /\ Head(q).t = "status" /\ Head(q).c = d)

\* A message about one client is quiet for another.
LEMMA QuietMessages ==
  /\ \A d : Quiet(<<>>, d) /\ Quiet(<<Start(d)>>, d)
  /\ \A c, d : c # d => \A q \in Messages(c) : Quiet(q, d)
  <1>1. \A d : Quiet(<<>>, d) /\ Quiet(<<Start(d)>>, d)
    BY Kinds DEF Quiet
  <1>2. ASSUME NEW c, NEW d, c # d, NEW q \in Messages(c)
        PROVE  Quiet(q, d)
    <2>1. \/ q \in {<<>>, <<AppContext(c)>>, Finish(c), <<Start(c)>>}
          \/ \E x \in 0..3 : q \in {Status(c, x), StatusAndStart(c, x)}
      BY <1>2 DEF Messages
    <2>2. q = <<>> \/ Head(q).c = c
      BY <2>1, Kinds
    <2> QED
      BY <2>2, <1>2, Kinds DEF Quiet
  <1> QED
    BY <1>1, <1>2

\* A step that is about other clients, or changes the chunk only.
LEMMA NothingNew ==
  ASSUME NEW d \in Client, ClientKnown(d), Quiet(inbox, d), Quiet(inbox', d),
         paced' = paced, sink'[d] = sink[d], net'[d] = net[d], session'[d] = session[d],
         app'[d].registered = app[d].registered, app'[d].remaining = app[d].remaining,
         app'[d].playBufferState = app[d].playBufferState,
         app'[d].playFinished = app[d].playFinished,
         app'[d].initialPlayStarted = app[d].initialPlayStarted,
         app'[d].trigger = app[d].trigger
  PROVE  ClientKnown(d)'
  <1>1. /\ inbox # <<AppContext(d)>> /\ inbox # Finish(d) /\ ~Told(d)
        /\ inbox' # <<AppContext(d)>> /\ inbox' # Finish(d) /\ ~Told(d)'
    BY DEF Quiet, Told
  <1>2. Finished(d)' <=> Finished(d)
    BY <1>1 DEF Finished
  <1>3. Unpaced(d)' /\ PacedInOrder(d)'
    BY <1>1 DEF ClientKnown, Unpaced, PacedInOrder
  <1>4. BooksBalance(d)' /\ GoesOnTelling(d)'
    BY <1>2 DEF ClientKnown, BooksBalance, GoesOnTelling
  <1>5. Known(d)'
    BY <1>1, <1>2 DEF ClientKnown, Known
  <1> QED
    BY <1>3, <1>4, <1>5 DEF ClientKnown

\* The other clients, in a step about c.
LEMMA OthersKnown ==
  ASSUME StreamTypes, \A d \in Client : ClientKnown(d),
         NEW c \in Client, inbox \in Messages(c), inbox' \in Messages(c), paced' = paced,
         \A d \in Client \ {c} : /\ sink'[d] = sink[d] /\ net'[d] = net[d]
                                 /\ session'[d] = session[d] /\ app'[d] = app[d],
         ClientKnown(c)'
  PROVE  \A d \in Client : ClientKnown(d)'
  <1>1. ASSUME NEW d \in Client, d # c
        PROVE  ClientKnown(d)'
    <2>1. Quiet(inbox, d) /\ Quiet(inbox', d)
      BY <1>1, QuietMessages
    <2> QED
      BY <1>1, <2>1, NothingNew
  <1> QED
    BY <1>1

\* Before an action of client c nothing is in the inbox.
LEMMA KnownWhenQuiet ==
  ASSUME NEW c \in Client, ClientKnown(c), inbox = <<>>
  PROVE  /\ ~Told(c) /\ (Finished(c) <=> app[c].playFinished)
         /\ c \in paced /\ ~app[c].registered => sink[c] = EmptySink /\ net[c] = 0
                                                 /\ ~session[c].open
         /\ c \in paced \ Restartable =>
              app[c].playBufferState = sink[c].state \/ app[c].playFinished
  <1>1. inbox # Finish(c) /\ inbox # <<AppContext(c)>>
    BY Kinds
  <1>2. ~Told(c)
    BY DEF Told
  <1> QED
    BY <1>1, <1>2 DEF ClientKnown, Known, Finished, PacedInOrder

\* Opening a connection registers a paced application, before anything is sent.
LEMMA OpenKnown ==
  ASSUME TimerInv, NEW c \in Client, ClientKnown(c), inbox = <<>>, Open(c)
  PROVE  ClientKnown(c)'
  <1>1. /\ ~session[c].open /\ UNCHANGED <<net, sink, app, paced>>
        /\ session' = [session EXCEPT ![c].open = TRUE, ![c].timer = c \notin paced]
        /\ inbox' = IF c \in paced THEN Append(inbox, AppContext(c)) ELSE inbox
    BY DEF Open
  <1>2. session \in [Client -> Sessions]
    BY DEF TimerInv, StreamTypes
  <1>3. session'[c].open = TRUE /\ session'[c].closed = session[c].closed
        /\ session'[c].timer = (c \notin paced)
    <2>1. session'[c] = [session[c] EXCEPT !.open = TRUE, !.timer = c \notin paced]
      BY <1>1, <1>2
    <2> QED
      BY <2>1, <1>2 DEF Sessions
  <1>4. CASE c \notin paced
    <2>1. inbox' = inbox
      BY <1>1, <1>4
    <2> QED
      BY <1>1, <1>4, <2>1 DEF ClientKnown, Unpaced, PacedInOrder, BooksBalance,
                              GoesOnTelling, Known
  <1>5. CASE c \in paced
    <2>1. inbox' = <<AppContext(c)>>
      BY <1>1, <1>5
    <2>2. ~app[c].registered
      BY <1>1, <1>5 DEF ClientKnown, PacedInOrder
    <2>3. /\ sink[c] = EmptySink /\ net[c] = 0 /\ app[c].playBufferState = RED
          /\ app[c].trigger = "none" /\ ~session[c].closed
      BY <1>5, <2>2 DEF ClientKnown, PacedInOrder
    <2>4. ~Told(c)'
      BY <2>1, Kinds DEF Told
    <2>5. PacedInOrder(c)'
      BY <1>1, <1>3, <1>5, <2>1, <2>2, <2>3 DEF PacedInOrder
    <2>6. BooksBalance(c)' /\ GoesOnTelling(c)' /\ Unpaced(c)'
      BY <1>1, <1>5, <2>2, <2>3 DEF BooksBalance, GoesOnTelling, Unpaced, EmptySink
    <2>7. Known(c)'
      BY <1>1, <2>3, <2>4 DEF Known, EmptySink
    <2> QED
      BY <2>5, <2>6, <2>7 DEF ClientKnown
  <1> QED
    BY <1>4, <1>5

\* Only an application that is not paced sends at its own pace.
LEMMA SendDataKnown ==
  ASSUME TimerInv, NEW c \in Client, ClientKnown(c), inbox = <<>>, SendData(c)
  PROVE  ClientKnown(c)'
  <1>1. session[c].timer /\ UNCHANGED <<sink, inbox, app, paced>>
    BY DEF SendData
  <1>2. c \notin paced
    BY <1>1 DEF ClientKnown, PacedInOrder
  <1> QED
    BY <1>1, <1>2 DEF ClientKnown, Unpaced, PacedInOrder, BooksBalance, GoesOnTelling, Known

\* A chunk moves from what remains to what is under way (sendTxTrigger).
LEMMA TriggerKnown ==
  ASSUME TimerInv, NEW c \in Client, ClientKnown(c), inbox = <<>>, Trigger(c)
  PROVE  ClientKnown(c)'
  <1> DEFINE rest == app[c].remaining - app[c].chunk
  <1>1. /\ app[c].trigger # "none" /\ UNCHANGED <<sink, paced, session>>
        /\ net' = [net EXCEPT ![c] = @ + app[c].chunk]
        /\ app'[c].registered = app[c].registered
        /\ app'[c].initialPlayStarted => app[c].initialPlayStarted
        /\ ~ScheduleRestart \/ c \notin Restartable =>
             /\ app'[c].remaining = rest
             /\ app'[c].playBufferState = app[c].playBufferState
             /\ app'[c].playFinished = app[c].playFinished
             /\ inbox' = IF rest < 0 THEN Finish(c) ELSE <<>>
        /\ inbox' = <<>> \/ inbox' = Finish(c)
    BY TriggerSends DEF TimerInv
  <1>2. /\ net[c] \in Nat /\ app[c].remaining \in Int /\ app[c].chunk \in Nat
        /\ sink[c].bytesRcvd \in Nat /\ FileSize[c] \in Nat
        /\ net'[c] = net[c] + app[c].chunk
    BY <1>1, SinkAssumption DEF TimerInv, StreamTypes, Contexts, Sinks
  <1>3. inbox' # <<AppContext(c)>> /\ ~Told(c)'
    BY <1>1, Kinds DEF Told
  <1>4. Unpaced(c)'
    BY <1>1, <1>3 DEF ClientKnown, Unpaced
  <1>5. c \in paced => app[c].registered
    BY <1>1 DEF ClientKnown, PacedInOrder
  <1>6. PacedInOrder(c)'
    BY <1>1, <1>3, <1>5 DEF ClientKnown, PacedInOrder
  <1>7. BooksBalance(c)'
    <2>1. ASSUME c \in paced, ~ScheduleRestart
          PROVE  /\ sink'[c].delivered => sink'[c].bytesRcvd >= FileSize[c]
                 /\ app'[c].registered /\ ~(app'[c].playFinished \/ inbox' = Finish(c)) =>
                      /\ app'[c].remaining >= 0
                      /\ sink'[c].bytesRcvd + net'[c] + app'[c].remaining = FileSize[c]
      <3>1. sink[c].delivered => sink[c].bytesRcvd >= FileSize[c]
        BY <2>1 DEF ClientKnown, BooksBalance
      <3>2. ~app[c].playFinished =>
              sink[c].bytesRcvd + net[c] + app[c].remaining = FileSize[c]
        BY <2>1, <1>5, KnownWhenQuiet DEF ClientKnown, BooksBalance
      <3>3. ASSUME ~app'[c].playFinished, inbox' # Finish(c)
            PROVE  /\ app'[c].remaining >= 0
                   /\ sink'[c].bytesRcvd + net'[c] + app'[c].remaining = FileSize[c]
        <4>1. ~(rest < 0) /\ app'[c].remaining = rest /\ ~app[c].playFinished
          BY <1>1, <2>1, <3>3
        <4> QED
          BY <4>1, <3>2, <1>1, <1>2
      <3> QED
        BY <3>1, <3>3, <1>1
    <2> QED
      BY <2>1, <1>1 DEF BooksBalance, Finished
  <1>8. GoesOnTelling(c)'
    BY <1>1 DEF ClientKnown, GoesOnTelling
  <1>9. Known(c)'
    BY <1>1, <1>3, KnownWhenQuiet DEF Known, Finished
  <1> QED
    BY <1>4, <1>6, <1>7, <1>8, <1>9 DEF ClientKnown

\* A packet that changes the state of the buffer makes the sink tell it, unless the
\* content was delivered and will not be repeated; no packet comes then before the
\* pacer knows that it is finished.
LEMMA DataKnown ==
  ASSUME TimerInv, NEW c \in Client, ClientKnown(c), inbox = <<>>, Data(c)
  PROVE  ClientKnown(c)'
  <1> DEFINE s == [sink[c] EXCEPT !.buffer = @ + 1]
             x == PlayBufferState(s.buffer)
  <1>1. PICK n \in 1..Mss : n <= net[c] /\ Arrive(c, n)
    BY DEF Data
  <1>2. /\ UNCHANGED <<app, paced, session>> /\ StreamTypes
        /\ sink[c] \in Sinks /\ net \in [Client -> Nat] /\ app[c] \in Contexts
    BY DEF Data, sessionVars, TimerInv, StreamTypes
  <1>3. n \in Nat /\ n > 0 /\ net[c] >= n
    BY <1>1, <1>2, StreamAssumption
  <1>4. /\ net' = [net EXCEPT ![c] = @ - n]
        /\ sink'[c].bytesRcvd = sink[c].bytesRcvd + n
        /\ sink'[c].restart = sink[c].restart
        /\ sink'[c].delivered => sink[c].delivered
        /\ inbox' = inbox \o StatusMsgs(c, s)
           \/ inbox' = inbox \o StatusMsgs(c, s) \o StartAgentMsgs(c)
        /\ sink'[c].state = PlayBufferState(sink[c].buffer + 1)
    BY <1>1, <1>2, <1>3, ArrivalDrives DEF TimerInv
  <1>5. /\ s.buffer = sink[c].buffer + 1 /\ s.buffer \in Nat /\ s.delivered = sink[c].delivered
        /\ s.restart = sink[c].restart /\ s.state = sink[c].state
    BY <1>2 DEF Sinks
  <1> HIDE DEF s
  <1>6. \/ inbox' \in {Status(c, x), StatusAndStart(c, x)}
        \/ StatusMsgs(c, s) = <<>> /\ inbox' \in {<<>>, <<Start(c)>>}
    BY <1>4, <1>5, InboxTypes
  <1>7. sink'[c].state = x
    BY <1>4, <1>5
  <1> HIDE DEF x
  <1>8. inbox' # <<AppContext(c)>> /\ inbox' # Finish(c)
    BY <1>6, Kinds
  <1>9. Unpaced(c)' /\ GoesOnTelling(c)'
    BY <1>2, <1>4, <1>8 DEF ClientKnown, Unpaced, GoesOnTelling
  <1>10. c \in paced => app[c].registered
    BY <1>3, KnownWhenQuiet
  <1>11. PacedInOrder(c)'
    BY <1>2, <1>8, <1>10 DEF ClientKnown, PacedInOrder
  <1>12. /\ sink[c].bytesRcvd \in Nat /\ FileSize[c] \in Nat /\ net[c] \in Nat
         /\ net'[c] = net[c] - n /\ app[c].remaining \in Int
    BY <1>2, <1>4, SinkAssumption DEF Sinks, Contexts
  <1>13. ASSUME c \in paced, ~ScheduleRestart
         PROVE  /\ sink[c].delivered => sink[c].bytesRcvd >= FileSize[c]
                /\ ~app[c].playFinished =>
                     /\ app[c].remaining >= 0
                     /\ sink[c].bytesRcvd + net[c] + app[c].remaining = FileSize[c]
    BY <1>10, <1>13, KnownWhenQuiet DEF ClientKnown, BooksBalance
  <1>14. BooksBalance(c)'
    <2>1. ASSUME c \in paced, ~ScheduleRestart
          PROVE  /\ sink'[c].delivered => sink'[c].bytesRcvd >= FileSize[c]
                 /\ ~app[c].playFinished =>
                      /\ app[c].remaining >= 0
                      /\ sink'[c].bytesRcvd + net'[c] + app[c].remaining = FileSize[c]
      BY <2>1, <1>13, <1>12, <1>3, <1>4
    <2> QED
      BY <2>1, <1>2 DEF BooksBalance, Finished
  <1>15. ASSUME c \in paced, ~app[c].playFinished
         PROVE  ~s.delivered \/ (s.restart /\ ScheduleRestart)
    <2>1. CASE ScheduleRestart
      BY <2>1, <1>5 DEF ClientKnown, GoesOnTelling
    <2>2. CASE ~ScheduleRestart
      BY <2>2, <1>3, <1>5, <1>12, <1>13, <1>15
    <2> QED
      BY <2>1, <2>2
  <1>16. Known(c)'
    <2>1. ASSUME c \in paced \ Restartable
          PROVE  IF Told(c)' THEN Head(inbox').state = sink'[c].state
                 ELSE app'[c].playBufferState = sink'[c].state \/ Finished(c)'
      <3>1. CASE inbox' \in {Status(c, x), StatusAndStart(c, x)}
        BY <3>1, <1>7, Kinds DEF Told
      <3>2. CASE StatusMsgs(c, s) = <<>> /\ inbox' \in {<<>>, <<Start(c)>>}
        <4>1. ~Told(c)'
          BY <3>2, Kinds DEF Told
        <4>2. ~app[c].playFinished => s.state = x
          BY <2>1, <3>2, <1>5, <1>15, StatusTold DEF x
        <4>3. app[c].playBufferState = sink[c].state \/ app[c].playFinished
          BY <2>1, KnownWhenQuiet
        <4> QED
          BY <4>1, <4>2, <4>3, <1>2, <1>5, <1>7 DEF Finished
      <3> QED
        BY <3>1, <3>2, <1>6
    <2> QED
      BY <2>1, <1>2 DEF Known
  <1> QED
    BY <1>9, <1>11, <1>14, <1>16 DEF ClientKnown

\* So does a packet that is played: the content was not delivered then.
LEMMA PlayKnown ==
  ASSUME TimerInv, NEW c \in Client, ClientKnown(c), inbox = <<>>, Play(c)
  PROVE  ClientKnown(c)'
  <1> DEFINE s == [sink[c] EXCEPT !.buffer = @ - 1]
             x == PlayBufferState(s.buffer)
  <1>1. /\ UNCHANGED <<net, app, paced, session>> /\ StreamTypes /\ PlayContent(c)
        /\ sink[c] \in Sinks /\ sink[c].plays > 0
    BY DEF Play, PlayContent, sessionVars, TimerInv, StreamTypes
  <1>2. /\ ~sink[c].delivered
        /\ sink'[c].delivered => /\ ScheduleRestart => sink'[c].restart
                                 /\ sink[c].bytesRcvd >= FileSize[c]
        /\ ~ScheduleRestart => sink'[c].bytesRcvd = sink[c].bytesRcvd
        /\ \/ /\ inbox' = inbox \o StatusMsgs(c, s)
              /\ sink[c].buffer > 0
              /\ sink'[c].state = PlayBufferState(sink[c].buffer - 1)
           \/ inbox' = inbox /\ sink'[c].state = sink[c].state
    BY <1>1, PlayDrives DEF TimerInv
  <1>3. \/ inbox' = Status(c, x) /\ sink'[c].state = x
        \/ inbox' = <<>> /\ sink'[c].state = sink[c].state
    <2>1. CASE /\ inbox' = inbox \o StatusMsgs(c, s)
               /\ sink[c].buffer > 0
               /\ sink'[c].state = PlayBufferState(sink[c].buffer - 1)
      <3>1. /\ s.buffer = sink[c].buffer - 1 /\ s.buffer \in Nat
            /\ s.delivered = sink[c].delivered /\ s.state = sink[c].state
        BY <1>1, <2>1 DEF Sinks
      <3>2. sink'[c].state = x
        BY <2>1, <3>1
      <3> HIDE DEF s
      <3>3. inbox' = <<>> \o StatusMsgs(c, s)
        BY <2>1
      <3> HIDE DEF x
      <3>4. CASE StatusMsgs(c, s) = <<>>
        <4>1. s.state = x
          BY <3>1, <3>4, <1>2, StatusTold DEF x
        <4>2. inbox' = <<>>
          BY <3>3, <3>4, InboxGrows
        <4> QED
          BY <4>1, <4>2, <3>1, <3>2
      <3>5. CASE <<>> \o StatusMsgs(c, s) = Status(c, x)
        BY <3>2, <3>3, <3>5
      <3> QED
        BY <3>1, <3>4, <3>5, InboxTypes DEF x
    <2> QED
      BY <1>2, <2>1
  <1> HIDE DEF x
  <1>4. inbox' # <<AppContext(c)>> /\ inbox' # Finish(c)
    BY <1>3, Kinds
  <1>5. Unpaced(c)' /\ GoesOnTelling(c)'
    BY <1>1, <1>2, <1>4 DEF ClientKnown, Unpaced, GoesOnTelling
  <1>6. c \in paced => app[c].registered
    <2>1. EmptySink.plays = 0
      BY DEF EmptySink
    <2> QED
      BY <1>1, <2>1, KnownWhenQuiet
  <1>7. PacedInOrder(c)'
    BY <1>1, <1>4, <1>6 DEF ClientKnown, PacedInOrder
  <1>8. BooksBalance(c)'
    BY <1>1, <1>2, <1>4, KnownWhenQuiet DEF ClientKnown, BooksBalance, Finished
  <1>9. Known(c)'
    BY <1>1, <1>3, Kinds, KnownWhenQuiet DEF Known, Told, Finished
  <1> QED
    BY <1>5, <1>7, <1>8, <1>9 DEF ClientKnown

\* A pause does not change the buffer.
LEMMA PauseKnown ==
  ASSUME TimerInv, NEW c \in Client, ClientKnown(c), inbox = <<>>, Pause(c)
  PROVE  ClientKnown(c)'
  <1>1. /\ UNCHANGED <<net, app, paced, session>> /\ StreamTypes /\ PauseContent(c)
    BY DEF Pause, PauseContent, sessionVars, TimerInv
  <1>2. /\ sink'[c].state = sink[c].state /\ sink'[c].bytesRcvd = sink[c].bytesRcvd
        /\ sink'[c].delivered = sink[c].delivered /\ sink'[c].restart = sink[c].restart
        /\ inbox' = inbox \/ inbox' = inbox \o StartAgentMsgs(c)
        /\ sink[c].pauses > 0
    BY <1>1, PauseDrives DEF TimerInv
  <1>3. inbox' \in {<<>>, <<Start(c)>>}
    BY <1>2, InboxGrows
  <1>4. inbox' # <<AppContext(c)>> /\ inbox' # Finish(c) /\ ~Told(c)'
    BY <1>3, Kinds DEF Told
  <1>5. Unpaced(c)' /\ GoesOnTelling(c)'
    BY <1>1, <1>2, <1>4 DEF ClientKnown, Unpaced, GoesOnTelling
  <1>6. c \in paced => app[c].registered
    <2>1. EmptySink.pauses = 0
      BY DEF EmptySink
    <2> QED
      BY <1>2, <2>1, KnownWhenQuiet
  <1>7. PacedInOrder(c)'
    BY <1>1, <1>4, <1>6 DEF ClientKnown, PacedInOrder
  <1>8. BooksBalance(c)'
    BY <1>1, <1>2, <1>4, KnownWhenQuiet DEF ClientKnown, BooksBalance, Finished
  <1>9. Known(c)'
    BY <1>1, <1>2, <1>4, KnownWhenQuiet DEF Known, Finished
  <1> QED
    BY <1>5, <1>7, <1>8, <1>9 DEF ClientKnown

\* Only an application that is not paced closes its connection.
LEMMA ClosedKnown ==
  ASSUME TimerInv, NEW c \in Client, ClientKnown(c), inbox = <<>>, Closed(c)
  PROVE  ClientKnown(c)'
  <1>1. /\ session[c].closed /\ UNCHANGED <<net, inbox, app, paced, session>>
        /\ sink' = [sink EXCEPT ![c].closed = TRUE]
        /\ sink \in [Client -> Sinks]
    BY DEF Closed, PeerClosed, sessionVars, TimerInv, StreamTypes
  <1>2. c \notin paced
    BY <1>1 DEF ClientKnown, PacedInOrder
  <1>3. sink'[c].delivered = sink[c].delivered /\ sink'[c].restart = sink[c].restart
    BY <1>1 DEF Sinks
  <1> QED
    BY <1>1, <1>2, <1>3 DEF ClientKnown, Unpaced, PacedInOrder, BooksBalance, GoesOnTelling,
                            Known

\* A message that is handled makes known what it told.
LEMMA HandledKnown ==
  ASSUME TimerInv, NEW c \in Client, ClientKnown(c), app'[c] \in Contexts,
         UNCHANGED <<net, sink, paced, session>>,
         \/ RegisterHandled(c) \/ FinishHandled(c) \/ StartHandled(c)
         \/ \E x \in 0..3 : StatusHandled(c, x)
  PROVE  ClientKnown(c)'
  <1>1. app[c] \in Contexts /\ sink[c] \in Sinks
    BY DEF TimerInv, StreamTypes
  <1>2. CASE RegisterHandled(c)
    <2>1. inbox = <<AppContext(c)>> /\ inbox' = <<>> /\ app'[c] = Registered(c)
      BY <1>2 DEF RegisterHandled
    <2>2. c \in paced /\ ~app[c].registered /\ session[c].open
      BY <2>1 DEF ClientKnown, Unpaced, PacedInOrder
    <2>3. /\ app'[c].registered /\ app'[c].remaining = FileSize[c]
          /\ app'[c].playBufferState = 0
      BY <2>1 DEF Registered
    <2>4. sink[c] = EmptySink /\ net[c] = 0
      BY <2>2 DEF ClientKnown, PacedInOrder
    <2>5. inbox' # <<AppContext(c)>> /\ ~Told(c)'
      BY <2>1, Kinds DEF Told
    <2>6. Unpaced(c)' /\ PacedInOrder(c)'
      BY <2>2, <2>3, <2>5 DEF ClientKnown, Unpaced, PacedInOrder
    <2>7. BooksBalance(c)' /\ GoesOnTelling(c)'
      <3>1. FileSize[c] \in Nat /\ EmptySink.bytesRcvd = 0 /\ EmptySink.delivered = FALSE
        BY SinkAssumption DEF EmptySink
      <3> QED
        BY <3>1, <2>3, <2>4 DEF BooksBalance, GoesOnTelling
    <2>8. Known(c)'
      <3>1. EmptySink.state = 0
        BY DEF EmptySink, RED
      <3> QED
        BY <3>1, <2>3, <2>4, <2>5 DEF Known
    <2> QED
      BY <2>6, <2>7, <2>8 DEF ClientKnown
  <1>3. CASE FinishHandled(c)
    <2>1. /\ inbox = Finish(c) /\ inbox' = <<>>
          /\ app'[c] = [app[c] EXCEPT !.playFinished = TRUE]
      BY <1>3 DEF FinishHandled
    <2>2. /\ app'[c].playFinished /\ app'[c].registered = app[c].registered
          /\ app'[c].initialPlayStarted = app[c].initialPlayStarted
          /\ app'[c].playBufferState = app[c].playBufferState
          /\ app'[c].trigger = app[c].trigger
      BY <2>1, <1>1 DEF Contexts
    <2>3. inbox # <<AppContext(c)>> /\ inbox' # <<AppContext(c)>> /\ ~Told(c)'
      BY <2>1, Kinds DEF Told
    <2>4. Unpaced(c)' /\ PacedInOrder(c)'
      BY <2>2, <2>3 DEF ClientKnown, Unpaced, PacedInOrder
    <2>5. BooksBalance(c)' /\ GoesOnTelling(c)'
      BY <2>2 DEF ClientKnown, BooksBalance, GoesOnTelling, Finished
    <2>6. Known(c)'
      BY <2>2, <2>3 DEF Known, Finished
    <2> QED
      BY <2>4, <2>5, <2>6 DEF ClientKnown
  <1>4. CASE StartHandled(c)
    <2>1. /\ inbox = <<Start(c)>> /\ inbox' = <<>>
          /\ app'[c] = [app[c] EXCEPT !.initialPlayStarted = @ \/ app[c].registered]
      BY <1>4 DEF StartHandled
    <2>2. /\ app'[c].playFinished = app[c].playFinished
          /\ app'[c].registered = app[c].registered
          /\ app'[c].initialPlayStarted => app[c].initialPlayStarted \/ app[c].registered
          /\ app'[c].playBufferState = app[c].playBufferState
          /\ app'[c].remaining = app[c].remaining
          /\ app'[c].trigger = app[c].trigger
      BY <2>1, <1>1 DEF Contexts
    <2>3. /\ inbox # <<AppContext(c)>> /\ inbox' # <<AppContext(c)>>
          /\ inbox # Finish(c) /\ inbox' # Finish(c) /\ ~Told(c) /\ ~Told(c)'
      BY <2>1, Kinds DEF Told
    <2>4. Unpaced(c)' /\ PacedInOrder(c)'
      BY <2>2, <2>3 DEF ClientKnown, Unpaced, PacedInOrder
    <2>5. BooksBalance(c)' /\ GoesOnTelling(c)'
      BY <2>2, <2>3 DEF ClientKnown, BooksBalance, GoesOnTelling, Finished
    <2>6. Known(c)'
      BY <2>2, <2>3 DEF ClientKnown, Known, Finished
    <2> QED
      BY <2>4, <2>5, <2>6 DEF ClientKnown
  <1>5. ASSUME NEW x \in 0..3, StatusHandled(c, x)
        PROVE  ClientKnown(c)'
    <2>1. /\ inbox \in {Status(c, x), StatusAndStart(c, x)} /\ inbox' \in {<<>>, <<Start(c)>>}
          /\ app'[c] = IF app[c].registered THEN [app[c] EXCEPT !.playBufferState = x]
                       ELSE app[c]
      BY <1>5 DEF StatusHandled
    <2>2. /\ app'[c].playFinished = app[c].playFinished
          /\ app'[c].registered = app[c].registered
          /\ app'[c].initialPlayStarted = app[c].initialPlayStarted
          /\ app'[c].playBufferState = IF app[c].registered THEN x
                                       ELSE app[c].playBufferState
          /\ app'[c].remaining = app[c].remaining
          /\ app'[c].trigger = app[c].trigger
      BY <2>1, <1>1 DEF Contexts
    <2>3. /\ inbox # <<AppContext(c)>> /\ inbox' # <<AppContext(c)>>
          /\ inbox # Finish(c) /\ inbox' # Finish(c) /\ ~Told(c)'
          /\ Told(c) /\ Head(inbox).state = x
      BY <2>1, Kinds DEF Told
    <2>4. Unpaced(c)' /\ PacedInOrder(c)'
      BY <2>2, <2>3 DEF ClientKnown, Unpaced, PacedInOrder
    <2>5. BooksBalance(c)' /\ GoesOnTelling(c)'
      BY <2>2, <2>3 DEF ClientKnown, BooksBalance, GoesOnTelling, Finished
    <2>6. Known(c)'
      <3>1. ASSUME c \in paced \ Restartable
            PROVE  app'[c].playBufferState = sink[c].state
        <4>1. x = sink[c].state
          BY <2>3, <3>1 DEF ClientKnown, Known
        <4>2. CASE app[c].registered
          BY <4>1, <4>2, <2>2
        <4>3. CASE ~app[c].registered
          <5>1. app[c].playBufferState = RED /\ sink[c] = EmptySink
            BY <3>1, <4>3 DEF ClientKnown, PacedInOrder
          <5> QED
            BY <5>1, <4>3, <2>2 DEF EmptySink
        <4> QED
          BY <4>2, <4>3
      <3> QED
        BY <3>1, <2>3 DEF Known
    <2> QED
      BY <2>4, <2>5, <2>6 DEF ClientKnown
  <1> QED
    BY <1>2, <1>3, <1>4, <1>5

\* No step breaks what is known of any client.
LEMMA KnownStep ==
  ASSUME TimerInv, \A d \in Client : ClientKnown(d), [Next]_vars
  PROVE  \A d \in Client : ClientKnown(d)'
  <1>1. /\ net \in [Client -> Nat] /\ sink \in [Client -> Sinks]
        /\ app \in [Client -> Contexts] /\ session \in [Client -> Sessions] /\ StreamTypes
    BY DEF TimerInv, StreamTypes
  <1>2. \A c \in Client : /\ <<>> \in Messages(c) /\ <<AppContext(c)>> \in Messages(c)
                          /\ Finish(c) \in Messages(c) /\ <<Start(c)>> \in Messages(c)
                          /\ \A x \in 0..3 : /\ Status(c, x) \in Messages(c)
                                             /\ StatusAndStart(c, x) \in Messages(c)
    BY DEF Messages
  <1>3. ASSUME NEW c \in Client, inbox = <<>>, Open(c)
        PROVE  \A d \in Client : ClientKnown(d)'
    <2>1. /\ UNCHANGED <<net, sink, app, paced>>
          /\ session' = [session EXCEPT ![c].open = TRUE, ![c].timer = c \notin paced]
          /\ inbox' = <<AppContext(c)>> \/ inbox' = inbox
      BY <1>3 DEF Open
    <2>2. ClientKnown(c)'
      BY <1>3, OpenKnown
    <2>3. \A d \in Client \ {c} : session'[d] = session[d]
      BY <2>1, <1>1
    <2> QED
      BY <1>1, <1>2, <1>3, <2>1, <2>2, <2>3, OthersKnown
  <1>4. ASSUME NEW c \in Client, inbox = <<>>, SendData(c)
        PROVE  \A d \in Client : ClientKnown(d)'
    <2>1. /\ UNCHANGED <<sink, inbox, app, paced>>
          /\ \A d \in Client \ {c} : session'[d] = session[d] /\ net'[d] = net[d]
      BY <1>1, <1>4 DEF SendData
    <2>2. ClientKnown(c)'
      BY <1>4, SendDataKnown
    <2> QED
      BY <1>1, <1>2, <1>4, <2>1, <2>2, OthersKnown
  <1>5. ASSUME NEW c \in Client, inbox = <<>>, Trigger(c)
        PROVE  \A d \in Client : ClientKnown(d)'
    <2>1. /\ UNCHANGED <<sink, paced, session>>
          /\ net' = [net EXCEPT ![c] = @ + app[c].chunk]
          /\ app' = [app EXCEPT ![c] = app'[c]]
          /\ inbox' = <<>> \/ inbox' = Finish(c)
      BY <1>1, <1>5, TriggerSends
    <2>2. \A d \in Client \ {c} : app'[d] = app[d] /\ net'[d] = net[d]
      BY <2>1, <1>1
    <2>3. ClientKnown(c)'
      BY <1>5, TriggerKnown
    <2> QED
      BY <1>1, <1>2, <1>5, <2>1, <2>2, <2>3, OthersKnown
  <1>6. ASSUME NEW c \in Client, inbox = <<>>, Data(c)
        PROVE  \A d \in Client : ClientKnown(d)'
    <2>1. PICK n \in 1..Mss : n <= net[c] /\ Arrive(c, n)
      BY <1>6 DEF Data
    <2>2. /\ net' = [net EXCEPT ![c] = @ - n] /\ UNCHANGED <<app, paced, session>>
          /\ \E z : sink' = [sink EXCEPT ![c] = z]
      BY <1>6, <2>1 DEF Data, Arrive, sessionVars
    <2>3. \A d \in Client \ {c} : sink'[d] = sink[d] /\ net'[d] = net[d]
      BY <2>2, <1>1
    <2>4. inbox' \in Messages(c)
      <3> DEFINE s == [sink[c] EXCEPT !.buffer = @ + 1]
      <3>1. s.buffer \in Nat
        BY <1>1 DEF Sinks
      <3>2. n \in Nat /\ net[c] >= n
        BY <2>1, <1>1, StreamAssumption
      <3>3. LET m == StatusMsgs(c, s)
            IN  inbox' = inbox \o m \/ inbox' = inbox \o m \o StartAgentMsgs(c)
        BY <2>1, <3>2, <1>1, ArrivalDrives DEF TimerInv
      <3> HIDE DEF s
      <3> QED
        BY <3>1, <3>3, <1>2, <1>6, InboxTypes, BufferStates
    <2>5. ClientKnown(c)'
      BY <1>6, DataKnown
    <2> QED
      BY <1>1, <1>2, <1>6, <2>2, <2>3, <2>4, <2>5, OthersKnown
  <1>7. ASSUME NEW c \in Client, inbox = <<>>, Play(c)
        PROVE  \A d \in Client : ClientKnown(d)'
    <2>1. UNCHANGED <<app, paced, session>> /\ PlayContent(c)
      BY <1>7 DEF Play, sessionVars
    <2>2. /\ net' = net /\ sink' = [sink EXCEPT ![c] = sink'[c]]
          /\ \/ /\ inbox' = inbox \o StatusMsgs(c, [sink[c] EXCEPT !.buffer = @ - 1])
                /\ sink[c].buffer > 0
             \/ inbox' = inbox
      BY <2>1, <1>1, PlayDrives DEF TimerInv
    <2>3. \A d \in Client \ {c} : sink'[d] = sink[d]
      BY <2>2, <1>1
    <2>4. inbox' \in Messages(c)
      <3> DEFINE s == [sink[c] EXCEPT !.buffer = @ - 1]
      <3>1. CASE /\ inbox' = inbox \o StatusMsgs(c, s)
                 /\ sink[c].buffer > 0
        <4>1. s.buffer \in Nat
          BY <1>1, <3>1 DEF Sinks
        <4> HIDE DEF s
        <4> QED
          BY <4>1, <3>1, <1>2, <1>7, InboxTypes, BufferStates
      <3> QED
        BY <2>2, <3>1, <1>2, <1>7
    <2>5. ClientKnown(c)'
      BY <1>7, PlayKnown
    <2> QED
      BY <1>1, <1>2, <1>7, <2>1, <2>2, <2>3, <2>4, <2>5, OthersKnown
  <1>8. ASSUME NEW c \in Client, inbox = <<>>, Pause(c)
        PROVE  \A d \in Client : ClientKnown(d)'
    <2>1. UNCHANGED <<app, paced, session>> /\ PauseContent(c)
      BY <1>8 DEF Pause, sessionVars
    <2>2. /\ net' = net /\ sink' = [sink EXCEPT ![c] = sink'[c]]
          /\ inbox' = inbox \/ inbox' = inbox \o StartAgentMsgs(c)
      BY <2>1, <1>1, PauseDrives DEF TimerInv
    <2>3. inbox' \in Messages(c)
      BY <2>2, <1>2, <1>8, InboxGrows
    <2>4. \A d \in Client \ {c} : sink'[d] = sink[d]
      BY <2>2, <1>1
    <2>5. ClientKnown(c)'
      BY <1>8, PauseKnown
    <2> QED
      BY <1>1, <1>2, <1>8, <2>1, <2>2, <2>3, <2>4, <2>5, OthersKnown
  <1>9. ASSUME NEW c \in Client, inbox = <<>>, Closed(c)
        PROVE  \A d \in Client : ClientKnown(d)'
    <2>1. /\ UNCHANGED <<net, inbox, app, paced, session>>
          /\ \A d \in Client \ {c} : sink'[d] = sink[d]
      BY <1>1, <1>9 DEF Closed, PeerClosed, sessionVars
    <2>2. ClientKnown(c)'
      BY <1>9, ClosedKnown
    <2> QED
      BY <1>1, <1>2, <1>9, <2>1, <2>2, OthersKnown
  <1>10. CASE Pacer
    <2>1. UNCHANGED <<net, sink, paced, session>>
      BY <1>1, <1>10, PacerHandles
    <2>2. PICK c \in Client :
            /\ app' = [app EXCEPT ![c] = app'[c]] /\ app'[c] \in Contexts
            /\ \/ RegisterHandled(c) \/ FinishHandled(c) \/ StartHandled(c)
               \/ \E x \in 0..3 : StatusHandled(c, x)
      BY <1>1, <1>10, PacerHandles
    <2>3. inbox \in Messages(c) /\ inbox' \in Messages(c)
      BY <2>2, <1>2 DEF RegisterHandled, FinishHandled, StartHandled, StatusHandled
    <2>4. \A d \in Client \ {c} : app'[d] = app[d]
      BY <2>2, <1>1
    <2>5. ClientKnown(c)'
      BY <2>1, <2>2, HandledKnown
    <2> QED
      BY <1>1, <2>1, <2>3, <2>4, <2>5, OthersKnown
  <1>11. CASE inbox = <<>> /\ Agent
    <2>1. ASSUME NEW d \in Client
          PROVE  ClientKnown(d)'
      <3>1. Quiet(inbox, d) /\ Quiet(inbox', d)
        BY <1>1, <1>11, AgentChangesChunks, QuietMessages
      <3> QED
        BY <1>1, <1>11, <3>1, AgentChangesChunks, NothingNew
    <2> QED
      BY <2>1
  <1>12. CASE UNCHANGED vars
    BY <1>12 DEF vars, ClientKnown, Unpaced, PacedInOrder, BooksBalance, GoesOnTelling,
                 Known, Told, Finished
  <1> QED
    BY <1>3, <1>4, <1>5, <1>6, <1>7, <1>8, <1>9, <1>10, <1>11, <1>12 DEF Next, Later

\* At first nobody is registered.
LEMMA KnownInit ==
  ASSUME Init
  PROVE  \A c \in Client : ClientKnown(c)
  <1>1. ASSUME NEW c \in Client
        PROVE  ClientKnown(c)
    <2>1. /\ net[c] = 0 /\ sink[c] = EmptySink /\ inbox = <<>> /\ app[c] = Unregistered
          /\ session[c] = [open |-> FALSE, closed |-> FALSE, timer |-> FALSE,
                           remaining |-> FileSize[c]]
      BY DEF Init, InitSink, InitPacer
    <2>2. inbox # <<AppContext(c)>> /\ ~Told(c)
      BY <2>1, Kinds DEF Told
    <2> QED
      BY <2>1, <2>2 DEF ClientKnown, Unpaced, PacedInOrder, BooksBalance, GoesOnTelling,
                        Known, Unregistered, EmptySink, RED
  <1> QED
    BY <1>1

\* A sink tells the pacer only changes of its buffer, and after the content it may be
\* silent; for a client that is not sent its content again the pacer still knows
\* the state whenever it uses it (verifyBufferStateTransition, updateAgentState).
THEOREM PacerIsInformed == Spec => []BufferStateKnown
  <1> DEFINE IInv == TimerInv /\ \A c \in Client : ClientKnown(c)
  <1>1. Init => IInv
    BY TimerInit, KnownInit
  <1>2. IInv /\ [Next]_vars => IInv'
    BY TimerStep, KnownStep
  <1>3. IInv => BufferStateKnown
    <2>1. ASSUME IInv, inbox = <<>>, NEW c \in Client \ Restartable, Active(c)
          PROVE  app[c].playBufferState = sink[c].state
      <3>1. app[c].initialPlayStarted /\ ~app[c].playFinished
        BY <2>1 DEF Active
      <3>2. c \in paced
        BY <2>1, <3>1 DEF ClientKnown, Unpaced
      <3> QED
        BY <2>1, <3>1, <3>2, KnownWhenQuiet
    <2> QED
      BY <2>1 DEF BufferStateKnown
  <1> QED
    BY <1>1, <1>2, <1>3, PTL DEF Spec

=============================================================================
