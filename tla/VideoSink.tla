------------------------------ MODULE VideoSink ------------------------------
(***************************************************************************)
(* The play buffer of a video client (TCPSinkAppQ): content arrives, a     *)
(* play timer drains the buffer, and a pause timer waits for it to fill    *)
(* after it ran empty.  What the client tells the pacer goes to its inbox  *)
(* (sendDirect: delivered at once, in order).                              *)
(***************************************************************************)
LOCAL INSTANCE Naturals
LOCAL INSTANCE Sequences

CONSTANTS
  Client,
  FileSize,      \* bytesToReceive of each client
  InitAdv,       \* initAdvBufferSize: packets before playing starts
  MinAdv,        \* minAdvBufferSize: packets before it goes on after a pause
  ThreshYO, ThreshGY,
  ScheduleRestart

ASSUME SinkAssumption ==
  /\ FileSize \in [Client -> Nat \ {0}]
  /\ {InitAdv, MinAdv, ThreshYO, ThreshGY} \subseteq Nat \ {0}
  /\ ThreshYO <= ThreshGY
  /\ ScheduleRestart \in BOOLEAN

VARIABLES
  net,     \* bytes under way to each client
  sink,    \* the state of each client
  inbox    \* messages under way to the pacer

RED == 0
ORANGE == 1
YELLOW == 2
GREEN == 3

\* buffer counts packets, plays and pauses the scheduled timers.
EmptySink == [buffer |-> 0, bytesRcvd |-> 0, segmentsRcvd |-> 0, state |-> RED,
              delivered |-> FALSE, pauseEvent |-> FALSE, restart |-> FALSE,
              plays |-> 0, pauses |-> 0, closed |-> FALSE]

InitSink == /\ net = [c \in Client |-> 0]
            /\ sink = [c \in Client |-> EmptySink]
            /\ inbox = <<>>

PlayBufferState(size) ==
  IF size = 0 THEN RED
  ELSE IF size < ThreshYO THEN ORANGE
  ELSE IF size <= ThreshGY THEN YELLOW
  ELSE GREEN

\* The messages to the pacer: of a sink, with the state of its play buffer, and of an
\* application that registers to send to a client.
CliAppContext(c, state) == [t |-> "status", c |-> c, state |-> state]
AppContext(c)           == [t |-> "register", c |-> c]

\* Wrong variant: only a fuller buffer is reported.
StatusMsgsIfBetter(c, s) ==
  IF PlayBufferState(s.buffer) > s.state
  THEN <<CliAppContext(c, PlayBufferState(s.buffer))>> ELSE <<>>

\* verifyBufferStateTransition: the pacer hears of a change while content is
\* being played, and between two contents if there are to be several.
StatusMsgs(c, s) ==
  LET new == PlayBufferState(s.buffer)
  IN  IF new # s.state /\ (~s.delivered \/ (s.restart /\ ScheduleRestart))
      THEN <<CliAppContext(c, new)>>
      ELSE <<>>

WithBufferState(s) == [s EXCEPT !.state = PlayBufferState(s.buffer)]

StartAgentMsgs(c) == <<[t |-> "start", c |-> c]>>

WithPlayTimer(s) == [s EXCEPT !.plays = @ + 1]

\* TCP_I_DATA: one packet of n bytes.
Arrive(c, n) ==
  /\ ~sink[c].closed
  /\ net' = [net EXCEPT ![c] = @ - n]
  /\ LET s == [sink[c] EXCEPT !.bytesRcvd = @ + n, !.buffer = @ + 1, !.segmentsRcvd = @ + 1]
         starts == s.segmentsRcvd = InitAdv
         p == IF starts THEN [WithPlayTimer(s) EXCEPT !.delivered = FALSE] ELSE s
     IN  /\ sink' = [sink EXCEPT ![c] = WithBufferState(p)]
         /\ inbox' = inbox \o StatusMsgs(c, s) \o (IF starts THEN StartAgentMsgs(c) ELSE <<>>)

\* playContent: take a packet; or pause; or note that all was played.
Popped(s) == WithBufferState([s EXCEPT !.buffer = @ - 1])

Starved(s) == [s EXCEPT !.pauseEvent = TRUE, !.pauses = @ + 1]

Delivered(s) ==
  IF s.delivered THEN s
  ELSE IF ScheduleRestart
       THEN [s EXCEPT !.delivered = TRUE, !.restart = TRUE, !.bytesRcvd = 0, !.segmentsRcvd = 0]
       ELSE [s EXCEPT !.delivered = TRUE]

\* Wrong variant: the pause is forgotten when the timer is scheduled again.
RescheduledAlways(s) == IF ~s.delivered THEN WithPlayTimer(s) ELSE s

\* The timer is scheduled again unless the content paused or ended.
Rescheduled(s) == IF ~s.pauseEvent /\ ~s.delivered THEN WithPlayTimer(s) ELSE s

\* MK_PLAY_CONTENT
PlayContent(c) ==
  /\ sink[c].plays > 0
  /\ LET s == [sink[c] EXCEPT !.plays = @ - 1]
         after == IF s.buffer > 0 THEN Popped(s)
                  ELSE IF s.bytesRcvd < FileSize[c] THEN Starved(s)
                  ELSE Delivered(s)
     IN  /\ sink' = [sink EXCEPT ![c] = Rescheduled(after)]
         /\ inbox' = IF s.buffer > 0
                     THEN inbox \o StatusMsgs(c, [s EXCEPT !.buffer = @ - 1])
                     ELSE inbox
  /\ UNCHANGED net

\* Wrong variant: the last packets of a content may be too few to go on.
FullAgain(c, s) == s.buffer >= MinAdv

\* Enough packets, or all there will be.
PauseEnds(c, s) == s.buffer >= MinAdv \/ s.bytesRcvd >= FileSize[c]

\* MK_PAUSE_CONTENT: wait on, or play again.
PauseContent(c) ==
  /\ sink[c].pauses > 0
  /\ LET s == [sink[c] EXCEPT !.pauses = @ - 1]
     IN  IF ~PauseEnds(c, s)
         THEN UNCHANGED <<sink, inbox>>      \* scheduled again
         ELSE /\ sink' = [sink EXCEPT ![c] = [WithPlayTimer(s) EXCEPT !.pauseEvent = FALSE]]
              /\ inbox' = inbox \o StartAgentMsgs(c)
  /\ UNCHANGED net

\* TCP_I_PEER_CLOSED, after the data of the connection.
PeerClosed(c) ==
  /\ net[c] = 0
  /\ sink' = [sink EXCEPT ![c].closed = TRUE]
  /\ UNCHANGED <<net, inbox>>
=============================================================================
