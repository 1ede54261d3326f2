------------------------------ MODULE ChildProcess ------------------------------
(***************************************************************************)
(* demo_mojo_child_process.cc: the main process launches a service process *)
(* and, every five seconds, a client process.  A client asks the main      *)
(* process for a channel, the ConnectionHelper there forwards the request, *)
(* the service's ConnectionFactory makes a MyServiceImpl and returns the   *)
(* other end of its pipe, and the helper forwards that to the client,      *)
(* which calls Hi over it and quits.  A client may die at any moment; both *)
(* the helper and the factory forget it when its pipe is closed.           *)
(*                                                                         *)
(* A client is named by the id the helper gives it, a channel by the id    *)
(* the factory gives it.                                                   *)
(*                                                                         *)
(* A definition whose name starts with Faulty is a plausible mistake in    *)
(* the definition that follows it; the properties are tried against it.    *)
(***************************************************************************)
EXTENDS Naturals, Sequences, FiniteSets

CONSTANT MaxClients     \* clients launched

ASSUME MaxClientsAssumption == MaxClients \in Nat

VARIABLES
  client_index_,  \* main: clients launched
  receivers_,     \* main: clients it serves
  client,         \* for each client: "none", "starting", "waiting", "quit" or "died"
  requests,       \* clients whose request is on its way to main
  to_service,     \* requests on their way to the service: whose they are
  to_main,        \* replies on their way to main: <<client, channel>>
  replies,        \* replies on their way to their clients
  client_id,      \* service: channels made
  service_,       \* service: channels whose MyServiceImpl lives
  channel,        \* each channel's pipe: "open", "hi" (a call, then the end) or "closed"
  said            \* service: channels whose Hi has run

brokerVars    == <<client_index_, receivers_>>
serviceVars == <<client_id, service_, said>>
childVars   == <<brokerVars, client, requests, to_service, to_main, replies, serviceVars,
                 channel>>

ClientIds == 1..MaxClients

ChildInit ==
  /\ client_index_ = 0 /\ receivers_ = {}
  /\ client = [i \in ClientIds |-> "none"]
  /\ requests = {} /\ to_service = <<>> /\ to_main = <<>> /\ replies = {}
  /\ client_id = 0 /\ service_ = {}
  /\ channel = <<>>
  /\ said = {}

\* The pipes of these channels lose their far end.
Abandon(ids) == [id \in DOMAIN channel |-> IF id \in ids THEN "closed" ELSE channel[id]]

-----------------------------------------------------------------------------
(***************************************************************************)
(* The main process.                                                       *)
(***************************************************************************)
LaunchProcess(i) == client' = [client EXCEPT ![i] = "starting"]

AddClient(i) ==
  /\ client_index_' = i
  /\ receivers_' = receivers_ \cup {i}

\* The timer.
MojoMain ==
  /\ client_index_ < MaxClients
  /\ LaunchProcess(client_index_ + 1)
  /\ AddClient(client_index_ + 1)
  /\ UNCHANGED <<requests, to_service, to_main, replies, serviceVars, channel>>

\* Faulty: one request at a time is remembered.
FaultyEstablishChannel(i) ==
  /\ i \in requests /\ i \in receivers_
  /\ requests' = requests \ {i}
  /\ to_service' = <<i>>
  /\ UNCHANGED <<brokerVars, client, to_main, replies, serviceVars, channel>>

EstablishChannel(i) ==
  /\ i \in requests /\ i \in receivers_
  /\ requests' = requests \ {i}
  /\ to_service' = Append(to_service, i)
  /\ UNCHANGED <<brokerVars, client, to_main, replies, serviceVars, channel>>

\* The reply of the service is passed on; to a client that is forgotten or has
\* died it is lost, and the end of the channel in it with it.
ForwardReply ==
  /\ to_main # <<>>
  /\ to_main' = Tail(to_main)
  /\ LET i == Head(to_main)[1]
         id == Head(to_main)[2]
     IN  IF i \in receivers_ /\ client[i] = "waiting"
           THEN replies' = replies \cup {<<i, id>>} /\ UNCHANGED channel
           ELSE channel' = Abandon({id}) /\ UNCHANGED replies
  /\ UNCHANGED <<brokerVars, client, requests, to_service, serviceVars>>

\* Faulty: the handler forgets the client launched last.
FaultyOnClientDisconnect(i) ==
  /\ i \in receivers_ /\ i \notin requests
  /\ client[i] \in {"quit", "died"}
  /\ receivers_' = receivers_ \ {client_index_}
  /\ UNCHANGED <<client_index_, client, requests, to_service, to_main, replies,
                 serviceVars, channel>>

\* The end of the pipe comes after the request.
OnClientDisconnect(i) ==
  /\ i \in receivers_ /\ i \notin requests
  /\ client[i] \in {"quit", "died"}
  /\ receivers_' = receivers_ \ {i}
  /\ UNCHANGED <<client_index_, client, requests, to_service, to_main, replies,
                 serviceVars, channel>>

-----------------------------------------------------------------------------
(***************************************************************************)
(* The service process.                                                    *)
(***************************************************************************)
\* Faulty: the factory keeps the latest MyServiceImpl only.
FaultyMakeChannel ==
  /\ to_service # <<>>
  /\ to_service' = Tail(to_service)
  /\ client_id' = client_id + 1
  /\ service_' = {client_id'}
  /\ channel' = Append(channel, "open")
  /\ to_main' = Append(to_main, <<Head(to_service), client_id'>>)
  /\ UNCHANGED <<brokerVars, client, requests, replies, said>>

MakeChannel ==
  /\ to_service # <<>>
  /\ to_service' = Tail(to_service)
  /\ client_id' = client_id + 1
  /\ service_' = service_ \cup {client_id'}
  /\ channel' = Append(channel, "open")
  /\ to_main' = Append(to_main, <<Head(to_service), client_id'>>)
  /\ UNCHANGED <<brokerVars, client, requests, replies, said>>

Hi(id) ==
  /\ id \in service_ /\ channel[id] = "hi"
  /\ channel' = [channel EXCEPT ![id] = "closed"]
  /\ said' = said \cup {id}
  /\ UNCHANGED <<brokerVars, client, requests, to_service, to_main, replies, client_id,
                 service_>>

OnDisconnect(id) ==
  /\ id \in service_ /\ channel[id] = "closed"
  /\ service_' = service_ \ {id}
  /\ UNCHANGED <<brokerVars, client, requests, to_service, to_main, replies, client_id, said,
                 channel>>

-----------------------------------------------------------------------------
(***************************************************************************)
(* A client process.                                                       *)
(***************************************************************************)
MojoClient(i) ==
  /\ client[i] = "starting"
  /\ client' = [client EXCEPT ![i] = "waiting"]
  /\ requests' = requests \cup {i}
  /\ UNCHANGED <<brokerVars, to_service, to_main, replies, serviceVars, channel>>

\* The callback calls Hi, drops its end of the channel and quits.
GotChannel(i) ==
  /\ client[i] = "waiting"
  /\ \E id \in DOMAIN channel :
       /\ <<i, id>> \in replies
       /\ replies' = replies \ {<<i, id>>}
       /\ channel' = [channel EXCEPT ![id] = "hi"]
  /\ client' = [client EXCEPT ![i] = "quit"]
  /\ UNCHANGED <<brokerVars, requests, to_service, to_main, serviceVars>>

\* What has not left the process is lost with it, and the replies it has not read.
Die(i) ==
  /\ client[i] \in {"starting", "waiting"}
  /\ client' = [client EXCEPT ![i] = "died"]
  /\ \E unsent \in BOOLEAN : requests' = IF unsent THEN requests \ {i} ELSE requests
  /\ replies' = {r \in replies : r[1] # i}
  /\ channel' = Abandon({r[2] : r \in {s \in replies : s[1] = i}})
  /\ UNCHANGED <<brokerVars, to_service, to_main, serviceVars>>

-----------------------------------------------------------------------------
ChildNext ==
  \/ MojoMain \/ ForwardReply \/ MakeChannel
  \/ \E i \in ClientIds :
       EstablishChannel(i) \/ OnClientDisconnect(i)
       \/ MojoClient(i) \/ GotChannel(i) \/ Die(i)
  \/ \E id \in 1..client_id : Hi(id) \/ OnDisconnect(id)

\* The main and the service process serve every pipe; a client that does not die
\* goes on.  Nothing makes a client be launched, or die.
ChildFairness ==
  /\ WF_childVars(ForwardReply) /\ WF_childVars(MakeChannel)
  /\ \A i \in ClientIds :
       /\ WF_childVars(EstablishChannel(i)) /\ WF_childVars(OnClientDisconnect(i))
       /\ WF_childVars(MojoClient(i)) /\ WF_childVars(GotChannel(i))
       /\ WF_childVars(\E id \in DOMAIN channel : id = i /\ (Hi(id) \/ OnDisconnect(id)))

-----------------------------------------------------------------------------
(***************************************************************************)
(* Properties.                                                             *)
(***************************************************************************)

ClientStates  == {"none", "starting", "waiting", "quit", "died"}
ChannelStates == {"open", "hi", "closed"}

\* Every variable keeps to its range: clients have been launched, channels made, in the
\* order of their ids.
ChildTypeOK ==
  /\ client_index_ \in 0..MaxClients /\ receivers_ \subseteq 1..client_index_
  /\ client \in [ClientIds -> ClientStates]
  /\ requests \subseteq ClientIds /\ to_service \in Seq(ClientIds)
  /\ client_id \in Nat
  /\ to_main \in Seq(ClientIds \X (1..client_id))
  /\ replies \subseteq ClientIds \X (1..client_id)
  /\ service_ \subseteq 1..client_id /\ said \subseteq 1..client_id
  /\ channel \in Seq(ChannelStates) /\ Len(channel) = client_id

\* Every client comes to its end: it dies, or its request travels to the service,
\* a channel comes back to it and no other, and it quits.
EveryClientIsServed ==
  \A i \in ClientIds : client[i] = "starting" ~> client[i] \in {"quit", "died"}

\* What is gone is forgotten, at whatever point a client died: the helper's receiver
\* of every client, and once all are gone the factory's MyServiceImpl of every channel.
Gone(i) == client[i] \in {"quit", "died"}

GoneClientsAreForgotten ==
  /\ \A i \in ClientIds : Gone(i) ~> i \notin receivers_
  /\ (\A i \in ClientIds : Gone(i)) ~> service_ = {}

\* A client may quit right after calling Hi: its MyServiceImpl stays until the call
\* has run, even if other clients come and go meanwhile.  Every variable keeps to its
\* range.
HiRunsBeforeForgotten ==
  /\ ChildTypeOK
  /\ \A id \in 1..client_id : channel[id] = "hi" => id \in service_
===============================================================================
