-------------------------- MODULE SuperComClients --------------------------
(***************************************************************************)
(* The clients of a federation (SuperComClientApp, federated = true).  A   *)
(* client connects to the USO, asks for one job, closes the connection     *)
(* when it is told which data centre took the job, and waits for the USO   *)
(* to connect and report the end of the job.  After a pause it asks for    *)
(* the next one.                                                           *)
(*                                                                         *)
(* The application has a single socket object.  Each connection still      *)
(* reports that it is closed, and a report for a connection that the       *)
(* socket no longer stands for fails an assertion of TCPSocket.            *)
(***************************************************************************)
EXTENDS Integers

CONSTANTS
    FedClient,
    MaxNodes,       \* the parameter "nodes" of a client
    JobRequests,    \* jobs a client asks for in a simulation
    SlowTimers      \* pauses and run times last longer than it takes to open or close a connection

ASSUME ClientsAssumption ==
    /\ MaxNodes \in Nat \ {0} /\ JobRequests \in Nat \ {0} /\ SlowTimers \in BOOLEAN

VARIABLES
    request,        \* the connection a client opens to the USO, and what travels on it
    report,         \* the connection the USO opens to a client
    socket,         \* the connection the socket object of a client stands for
    requestSent,    \* whether the USO has answered the request
    connectMsg,     \* whether the timer to connect is set
    asked,          \* the job the client asked for last
    sentRequests,
    socketError     \* an assertion of TCPSocket failed

clientVars == <<request, report, socket, requestSent, connectMsg, asked, sentRequests, socketError>>

Job == [nodes : 1 .. MaxNodes, energyAware : BOOLEAN]
SomeJob == [nodes |-> 1, energyAware |-> FALSE]

\* What a connection is about to deliver: its opening (at the USO first, if that opens it), data,
\* or one of the two halves of its end.
Connection == {"none", "uso", "syn", "job", "response", "finish", "clientClosed", "usoClosed"}

ClientsInit ==
    /\ request = [c \in FedClient |-> "none"] /\ report = [c \in FedClient |-> "none"]
    /\ socket = [c \in FedClient |-> "listen"]
    /\ requestSent = [c \in FedClient |-> FALSE]
    /\ connectMsg = [c \in FedClient |-> TRUE]
    /\ asked = [c \in FedClient |-> SomeJob]
    /\ sentRequests = [c \in FedClient |-> 0]
    /\ socketError = FALSE

\* The pause is over; the socket object is renewed for the new connection.
Connect(c) ==
    /\ connectMsg[c]
    /\ SlowTimers => request[c] = "none" /\ report[c] = "none"
    /\ connectMsg' = [connectMsg EXCEPT ![c] = FALSE]
    /\ request' = [request EXCEPT ![c] = "syn"]
    /\ socket' = [socket EXCEPT ![c] = "request"]
    /\ UNCHANGED <<report, requestSent, asked, sentRequests, socketError>>

\* The connection to the USO is established: the next job of the client's list is sent.
SendRequest(c) ==
    /\ request[c] = "syn" /\ socket[c] = "request" /\ ~requestSent[c]
    /\ \E j \in Job : asked' = [asked EXCEPT ![c] = j]
    /\ request' = [request EXCEPT ![c] = "job"]
    /\ sentRequests' = [sentRequests EXCEPT ![c] = @ + 1]
    /\ UNCHANGED <<report, socket, requestSent, connectMsg, socketError>>

Response(c) ==
    /\ request[c] = "response" /\ socket[c] = "request"
    /\ requestSent' = [requestSent EXCEPT ![c] = TRUE]
    /\ request' = [request EXCEPT ![c] = "clientClosed"]
    /\ UNCHANGED <<report, socket, connectMsg, asked, sentRequests, socketError>>

\* The USO connects to report the end of a job: a client that waits for it gives its socket
\* object to the new connection, any other takes the message for one of its old connection.
ReportOpens(c) ==
    /\ report[c] = "syn"
    /\ IF requestSent[c]
       THEN /\ socket' = [socket EXCEPT ![c] = "report"] /\ UNCHANGED socketError
       ELSE /\ socketError' = TRUE /\ UNCHANGED socket
    /\ report' = [report EXCEPT ![c] = "finish"]
    /\ UNCHANGED <<request, requestSent, connectMsg, asked, sentRequests>>

Finish(c) ==
    /\ report[c] = "finish" /\ socket[c] = "report"
    /\ report' = [report EXCEPT ![c] = "clientClosed"]
    /\ requestSent' = [requestSent EXCEPT ![c] = FALSE]
    /\ connectMsg' = [connectMsg EXCEPT ![c] = sentRequests[c] < JobRequests]
    /\ UNCHANGED <<request, socket, asked, sentRequests, socketError>>

\* A connection is closed from both sides, and the client is told.
RequestClosed(c) ==
    /\ request[c] = "usoClosed"
    /\ request' = [request EXCEPT ![c] = "none"]
    /\ socketError' = (socketError \/ socket[c] # "request")
    /\ UNCHANGED <<report, socket, requestSent, connectMsg, asked, sentRequests>>

ReportClosed(c) ==
    /\ report[c] = "usoClosed"
    /\ report' = [report EXCEPT ![c] = "none"]
    /\ socketError' = (socketError \/ socket[c] # "report")
    /\ UNCHANGED <<request, socket, requestSent, connectMsg, asked, sentRequests>>

ClientStep(c) == SendRequest(c) \/ Response(c) \/ ReportOpens(c) \/ Finish(c)
                   \/ RequestClosed(c) \/ ReportClosed(c)
============================================================================
