------------------------------ MODULE VideoPacer -----------------------------
(***************************************************************************)
(* The pacer of the video server (FS4VP): it hands out chunks of each      *)
(* client's content at the client's transmission interval, and a           *)
(* learning agent enlarges or shrinks the chunks of the clients according  *)
(* to the state of their play buffers.  Learned values are abstracted to   *)
(* "finite" and "minus infinity", which decides what can be selected.      *)
(***************************************************************************)
EXTENDS VideoSink
LOCAL INSTANCE Integers
LOCAL INSTANCE Sequences
LOCAL INSTANCE FiniteSets

CONSTANTS
  Chunk,            \* chunkSize
  BytesToSend,      \* bytesToSend of a restarted content
  Percent,          \* change of a chunk, for the class of each client
  Restartable,      \* the clients on ports 1000 to 1002
  LearningEnabled, BurstMode, ChangeChunksize, InitialPolicy

ASSUME PacerAssumption ==
  /\ {Chunk, BytesToSend} \subseteq Nat \ {0}
  /\ Percent \in [Client -> 0..100]
  /\ Restartable \subseteq Client
  /\ {LearningEnabled, BurstMode, ChangeChunksize, InitialPolicy} \subseteq BOOLEAN
  \* With six users and more the doubles of the three fractions need not add
  \* up to exactly 1, which updateAgentState takes for an error.
  /\ Cardinality(Client) <= 5

VARIABLES
  app,            \* appMap: the context of each registered client
  agentTimer,     \* the agent's control timer is scheduled
  rlAgentStarted,
  agentDecided    \* the agent has a state to learn from

agentVars == <<agentTimer, rlAgentStarted, agentDecided>>

Unregistered == [registered |-> FALSE, remaining |-> 0, chunk |-> 0, playBufferState |-> 0,
                 initialPlayStarted |-> FALSE, playFinished |-> FALSE, trigger |-> "none"]

InitPacer == /\ app = [c \in Client |-> Unregistered]
             /\ agentTimer = FALSE /\ rlAgentStarted = FALSE /\ agentDecided = FALSE

-----------------------------------------------------------------------------
(* The actions of the agent, and the entries of the Q-matrix.              *)

Actions == {"nochange", "increase", "decrease"}
Groups == 1..3    \* N1: starved or nearly so, N2: yellow, N3: green

\* The part of the users that is in a group, as one of five intervals.
Bin(k, n) == IF k = 0 THEN 0
             ELSE CHOOSE b \in 1..4 : 25 * (b - 1) * n < 100 * k /\ 100 * k <= 25 * b * n

LowerEnd(bin) == <<0, 1, 25, 50, 75>>[bin + 1]

\* initializeQmatrix leaves out the combinations that are impossible.
InMatrix(bins) ==
  LET sum == LowerEnd(bins[1]) + LowerEnd(bins[2]) + LowerEnd(bins[3])
  IN  25 <= sum /\ sum <= 100

\* The entries that are not minus infinity: no action for an empty group, nor
\* a larger chunk for N3 under the initial policy.
Allowed(bins) ==
  {a \in [Groups -> Actions] :
     /\ InMatrix(bins)
     /\ InitialPolicy => a[3] # "increase"
     /\ \A g \in Groups : bins[g] = 0 => a[g] = "nochange"
     /\ (InitialPolicy /\ bins = <<0, 0, 4>>) => a[3] = "nochange"}

GroupOf(state) == IF state \in {RED, ORANGE} THEN 1 ELSE state

-----------------------------------------------------------------------------
(* Messages of the applications and the clients.                           *)

\* registerAppContext
Registered(c) == [registered |-> TRUE, remaining |-> FileSize[c], chunk |-> Chunk,
                  playBufferState |-> 0, initialPlayStarted |-> FALSE,
                  playFinished |-> FALSE, trigger |-> "first"]

ProcessCliPlayStart(c) ==
  /\ app' = [app EXCEPT ![c].initialPlayStarted = @ \/ app[c].registered]
  /\ rlAgentStarted' = (rlAgentStarted \/ LearningEnabled)
  /\ agentTimer' = (agentTimer \/ (LearningEnabled /\ ~rlAgentStarted))
  /\ UNCHANGED agentDecided

ProcessCliPlayFinish(c) ==
  /\ app' = [app EXCEPT ![c].playFinished = TRUE]
  /\ UNCHANGED agentVars

ProcessCliApplicationContextInfo(c, state) ==
  /\ app' = IF app[c].registered THEN [app EXCEPT ![c].playBufferState = state] ELSE app
  /\ UNCHANGED agentVars

PacerReceives ==
  /\ inbox # <<>>
  /\ LET msg == Head(inbox)
     IN  \/ msg.t = "register" /\ app' = [app EXCEPT ![msg.c] = Registered(msg.c)]
                               /\ UNCHANGED agentVars
         \/ msg.t = "start" /\ ProcessCliPlayStart(msg.c)
         \/ msg.t = "finish" /\ ProcessCliPlayFinish(msg.c)
         \/ msg.t = "status" /\ ProcessCliApplicationContextInfo(msg.c, msg.state)
  /\ inbox' = Tail(inbox)
  /\ UNCHANGED <<net, sink>>

-----------------------------------------------------------------------------
(* The transmission trigger of a client.                                   *)

\* scheduleRestart: the content is sent once more after the idle period.
Restarted(a) == [a EXCEPT !.initialPlayStarted = FALSE, !.playFinished = FALSE,
                          !.remaining = BytesToSend, !.chunk = Chunk,
                          !.playBufferState = GREEN, !.trigger = "restart"]

\* What a trigger tells the application.
ContextInformation(a) == [bytesToSend |-> a.remaining, chunkSize |-> a.chunk]

\* The application sends one chunk, however little remains; a rest of exactly
\* zero is neither continued nor ended.
SendTxTrigger(c) ==
  /\ app[c].trigger # "none"
  /\ LET ci   == ContextInformation(app[c])
         rest == ci.bytesToSend - ci.chunkSize
         a == [app[c] EXCEPT !.remaining = rest]
         restarts == ScheduleRestart /\ c \in Restartable
     IN  /\ net' = [net EXCEPT ![c] = @ + ci.chunkSize]
         /\ app' = [app EXCEPT ![c] =
                      IF rest > 0 THEN [a EXCEPT !.trigger = "next"]
                      ELSE IF rest < 0 /\ restarts THEN Restarted(a)
                      ELSE [a EXCEPT !.trigger = "none"]]
         /\ inbox' = IF rest < 0 /\ ~restarts
                     THEN Append(inbox, [t |-> "finish", c |-> c]) ELSE inbox
  /\ UNCHANGED <<sink, agentVars>>

-----------------------------------------------------------------------------
(* The agent.                                                              *)

Active(c) == app[c].initialPlayStarted /\ ~app[c].playFinished

NumUsers == Cardinality({c \in Client : Active(c)})

NumIn(g) == Cardinality({c \in Client : Active(c) /\ GroupOf(app[c].playBufferState) = g})

\* updateAgentState
Bins == [g \in Groups |-> Bin(NumIn(g), NumUsers)]

\* The first time the agent acts before it knows a state.
FirstActions ==
  {a \in [Groups -> Actions] : /\ a[1] = "nochange" /\ a[2] = "nochange"
                               /\ InitialPolicy => a[3] = "nochange"}

SelectAction == IF agentDecided THEN Allowed(Bins) ELSE FirstActions

Changed(chunk, p, action) ==
  CASE action = "nochange" -> chunk
    [] action = "increase" -> (chunk * (100 + p)) \div 100
    [] action = "decrease" -> (chunk * (100 - p)) \div 100

\* In burst mode a change lasts until the next decision.
Base(a) == IF BurstMode THEN Chunk ELSE a.chunk

\* The other mode changes the interval txRate instead, which is time only.
DoActions(a) ==
  app' = IF ChangeChunksize
         THEN [c \in Client |->
                 IF Active(c)
                 THEN [app[c] EXCEPT !.chunk =
                         Changed(Base(app[c]), Percent[c], a[GroupOf(app[c].playBufferState)])]
                 ELSE app[c]]
         ELSE app

\* MK_AGENT_TRIGGER_TIMER: without a client that plays, the agent stops.
AgentTimer ==
  /\ agentTimer
  /\ IF NumUsers > 0
     THEN /\ \E a \in SelectAction : DoActions(a)
          /\ agentDecided' = TRUE
          /\ UNCHANGED agentTimer
     ELSE /\ agentTimer' = FALSE
          /\ UNCHANGED <<app, agentDecided>>
  /\ UNCHANGED <<net, sink, inbox, rlAgentStarted>>
=============================================================================
