---------------------------- MODULE SuperComNet ----------------------------
(***************************************************************************)
(* What the Resource Management System (RMS) of a data centre and its      *)
(* servers share: the configuration, the messages of SuperComMsg that      *)
(* cross their TCP connections, and the connections themselves.            *)
(*                                                                         *)
(* A connection is a set of messages in flight, not a queue: every message *)
(* sent is delivered, in any order.  TCP delivers in order, so every       *)
(* behaviour of the program is one of the model.  No message can be in a   *)
(* connection twice, because each names the job it belongs to.             *)
(***************************************************************************)
EXTENDS Integers, FiniteSets

CONSTANTS
    NumServers,     \* parameter numServers of the RMS
    NumCores,       \* parameter numCores of the RMS: cores of each server
    Memory,         \* parameter memory, of the RMS and of each server
    Client,         \* the addresses of the clients, the keys of cliList
    NoClient        \* stands where a message names no client

ASSUME NumServersAssumption == NumServers \in Nat \ {0}
ASSUME NumCoresAssumption   == NumCores \in Nat \ {0}
ASSUME MemoryAssumption     == Memory \in Nat
ASSUME NoClientAssumption   == NoClient \notin Client

Server == 0 .. NumServers - 1

VARIABLES
    toServer,       \* messages in flight from the RMS to each server
    toRms,          \* messages in flight from each server to the RMS
    simError        \* the call of error() that ended the simulation, or "none"

netVars == <<toServer, toRms, simError>>

----------------------------------------------------------------------------

RequestMsg(c, mem) == [type |-> "REQUEST", client |-> c, memory |-> mem]
SleepMsg           == [type |-> "SLEEP", client |-> NoClient, memory |-> 0]
WakeupMsg(c)       == [type |-> "WAKEUP", client |-> c, memory |-> 0]

FinishMsg(c)         == [type |-> "FINISH", client |-> c, memory |-> 0]
SleepResponseMsg     == [type |-> "SLEEP_RESPONSE", client |-> NoClient, memory |-> 0]
WakeupResponseMsg(c) == [type |-> "WAKEUP_RESPONSE", client |-> c, memory |-> 0]

ToServerMessage ==
    [type : {"REQUEST"}, client : Client, memory : Nat]
    \cup [type : {"WAKEUP"}, client : Client, memory : {0}] \cup {SleepMsg}
ToRmsMessage ==
    [type : {"FINISH", "WAKEUP_RESPONSE"}, client : Client, memory : {0}] \cup {SleepResponseMsg}

NetTypeOK == /\ toServer \in [Server -> SUBSET ToServerMessage]
             /\ toRms \in [Server -> SUBSET ToRmsMessage]
             /\ simError \in {"none", "usedMemory", "runningJobs", "coresInUse"}

NetInit == /\ toServer = [s \in Server |-> {}]
           /\ toRms = [s \in Server |-> {}]
           /\ simError = "none"
============================================================================
