----------------------------- MODULE VideoStream -----------------------------
(***************************************************************************)
(* Video streaming: the server's applications (TCPScheduledSessionApp),    *)
(* their pacer and the clients.  A chunk reaches the client in packets of  *)
(* any sizes, in order and without loss (TCP).                             *)
(***************************************************************************)
EXTENDS VideoPacer
LOCAL INSTANCE Integers
LOCAL INSTANCE Sequences
LOCAL INSTANCE FiniteSets

CONSTANTS
  PacedSets,      \* the choices of clients served under the pacer's control
  MaxRestarts,    \* bound on the contents sent once more
  IdleCoversPlay, \* idlePeriod is longer than the rest of the play
  Mss,            \* largest packet of the transport
  MaxUsers        \* bound on the users for which the Q-matrix is examined

ASSUME StreamAssumption ==
  /\ PacedSets \subseteq SUBSET Client
  /\ {MaxRestarts, Mss, MaxUsers} \subseteq Nat
  /\ IdleCoversPlay \in BOOLEAN

VARIABLES
  paced,      \* fs4vpControl of the applications
  session,    \* the applications
  restarts    \* contents sent once more, to each client

vars == <<net, sink, inbox, app, agentVars, paced, session, restarts>>
sessionVars == <<paced, session, restarts>>

\* remaining is the application's own count, in use without the pacer.
Init ==
  /\ InitSink /\ InitPacer
  /\ paced \in PacedSets
  /\ session = [c \in Client |-> [open |-> FALSE, closed |-> FALSE, timer |-> FALSE,
                                  remaining |-> FileSize[c]]]
  /\ restarts = [c \in Client |-> 0]

\* MK_OPEN_CONNECTION and TCP_I_ESTABLISHED
Open(c) ==
  /\ ~session[c].open
  /\ session' = [session EXCEPT ![c].open = TRUE, ![c].timer = c \notin paced]
  /\ inbox' = IF c \in paced THEN Append(inbox, AppContext(c)) ELSE inbox
  /\ UNCHANGED <<net, sink, app, agentVars, paced, restarts>>

\* MK_SEND_DATA_TRIGGER without the pacer.  The count is unsigned: a chunk
\* larger than the rest would wrap it, so chunks have to divide the content.
SendData(c) ==
  /\ session[c].timer
  /\ IF session[c].remaining > 0
     THEN /\ session' = [session EXCEPT ![c].remaining = @ - Chunk]
          /\ net' = [net EXCEPT ![c] = @ + Chunk]
     ELSE /\ session' = [session EXCEPT ![c].timer = FALSE, ![c].closed = TRUE]
          /\ UNCHANGED net
  /\ UNCHANGED <<sink, inbox, app, agentVars, paced, restarts>>

\* A restart waits for the idle period.
Trigger(c) ==
  /\ app[c].trigger = "restart" => /\ restarts[c] < MaxRestarts
                                   /\ IdleCoversPlay => net[c] = 0 /\ sink[c].plays = 0
  /\ SendTxTrigger(c)
  /\ restarts' = [restarts EXCEPT ![c] = IF app[c].trigger = "restart" THEN @ + 1 ELSE @]
  /\ UNCHANGED <<paced, session>>

Data(c) == (\E n \in 1..Mss : n <= net[c] /\ Arrive(c, n)) /\ UNCHANGED <<app, agentVars, sessionVars>>

Play(c) == PlayContent(c) /\ UNCHANGED <<app, agentVars, sessionVars>>

Pause(c) == PauseContent(c) /\ UNCHANGED <<app, agentVars, sessionVars>>

Closed(c) == /\ session[c].closed /\ ~sink[c].closed
             /\ PeerClosed(c)
             /\ UNCHANGED <<app, agentVars, sessionVars>>

Pacer == PacerReceives /\ UNCHANGED sessionVars

Agent == AgentTimer /\ UNCHANGED sessionVars

\* Messages of the present moment (sendDirect) are handled before time moves on.
Later(A) == inbox = <<>> /\ A

Next == \/ \E c \in Client : Later(\/ Open(c) \/ SendData(c) \/ Trigger(c) \/ Data(c)
                                   \/ Play(c) \/ Pause(c) \/ Closed(c))
        \/ Pacer
        \/ Later(Agent)

Spec == Init /\ [][Next]_vars

\* Messages are delivered, and timers expire.
FairSpec == /\ Spec
            /\ WF_vars(Pacer) /\ WF_vars(Later(Agent))
            /\ \A c \in Client : /\ WF_vars(Later(Open(c))) /\ WF_vars(Later(SendData(c)))
                                 /\ WF_vars(Later(Trigger(c))) /\ WF_vars(Later(Data(c)))
                                 /\ WF_vars(Later(Play(c))) /\ WF_vars(Later(Pause(c)))

-----------------------------------------------------------------------------
(* Properties                                                              *)

Playing(c) == sink[c].segmentsRcvd >= InitAdv /\ ~sink[c].delivered

\* While content is being played exactly one timer drives the player: two
\* would drain the buffer at double speed, none would leave it standing
\* (playContent, pauseContent and handleMessage pass the timer on).
OneTimerPlays ==
  \A c \in Client :
    /\ sink[c].plays + sink[c].pauses = (IF Playing(c) THEN 1 ELSE 0)
    /\ sink[c].pauseEvent = (sink[c].pauses = 1)

\* For a client that takes part in the agent's decisions and is not sent its
\* content again, the pacer knows the state of the buffer once the messages
\* are delivered: the client tells only changes.
BufferStateKnown ==
  inbox = <<>> => \A c \in Client \ Restartable :
    Active(c) => app[c].playBufferState = sink[c].state

\* A player that started comes to the end of the content, through all pauses
\* and chunk sizes.  What the last chunk sends in excess may start the player
\* once more; it then goes on with the next content, of which there are
\* MaxRestarts.
StartedVideoIsPlayed ==
  \A c \in Client :
    Playing(c) ~> (sink[c].delivered \/ (c \in Restartable /\ restarts[c] = MaxRestarts))

=============================================================================
