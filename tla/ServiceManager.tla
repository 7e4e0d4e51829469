--------------------------- MODULE ServiceManager ---------------------------
(***************************************************************************)
(* The channel table every service keeps of the instances of the services  *)
(* it calls: chat_im::ServiceManager and chat_im::ServiceChannel           *)
(* (src/code/server/common/channel.hpp).                                   *)
(*                                                                         *)
(* A brpc channel is an object: two channels to the same host are two      *)
(* values.  A registration key is the sequence of its path parts, so that  *)
(* "/service/user_service/instance" is <<"service", "user_service",        *)
(* "instance">>; an instance has one key and one access address, and stands*)
(* for its host string.  append, remove and choose run under the mutex of  *)
(* the ServiceChannel, and the two callbacks run on one thread after       *)
(* another, so each of them is one action.                                 *)
(*                                                                         *)
(* passed and skewed are history variables: they record the turns the      *)
(* nodes of a service took, and no action reads them.                      *)
(***************************************************************************)
EXTENDS Integers, Sequences, SequencesExt

CONSTANTS
  Instance,    \* running programs that register themselves, with their host
  Key,         \* instance -> its registration key, as path parts
  Service,     \* the names of services that occur, as path parts
  Followed,    \* the services this process declared an interest in
  BadHost,     \* instances whose registered address brpc cannot parse
  MaxChannels, \* bound: the number of channel objects made in one behaviour
  NoChannel,   \* the null ChannelPtr
  Wild         \* the ChannelPtr read from beyond the end of _nodes

(* ServiceManager::getServiceName: the key up to its last slash, and the   *)
(* whole key when it has none.                                             *)
GetServiceName(i) == IF Len(Key[i]) > 1 THEN Front(Key[i]) ELSE Key[i]

ASSUME ServiceAssumption ==
  /\ \A i \in Instance : GetServiceName(i) \in Service
  /\ Followed \subseteq Service
  /\ BadHost \subseteq Instance
  /\ MaxChannels \in Nat

Channel == [host : Instance, id : 1..MaxChannels]

ASSUME ChannelAssumption ==
  /\ NoChannel \notin Channel
  /\ Wild \notin Channel
  /\ NoChannel # Wild

VARIABLES
  services,    \* names in _services
  hosts,       \* _hosts of each service: instance -> its latest channel
  nodes,       \* _nodes of each service, in the order of appending
  idx,         \* _idx of each service
  channels,    \* number of channel objects made so far
  chosen,      \* what the last choose returned
  passed,      \* ghost: of each service, the pairs <<c, d>> of channels where
               \* c was chosen since d was last chosen or was appended
  skewed,      \* ghost: services that lost a node that stood before _idx
  strayed      \* ghost: services whose _idx was left past the end of _nodes

turns == <<passed, skewed, strayed>>
managerVars == <<services, hosts, nodes, idx, channels, chosen, turns>>

NothingChosen == [service |-> <<>>, channel |-> NoChannel]

InitManager ==
  /\ services = {}
  /\ hosts = [s \in Service |-> [i \in Instance |-> NoChannel]]
  /\ nodes = [s \in Service |-> <<>>]
  /\ idx = [s \in Service |-> 0]
  /\ channels = 0
  /\ chosen = NothingChosen
  /\ passed = [s \in Service |-> {}]
  /\ skewed = {}
  /\ strayed = {}

-----------------------------------------------------------------------------
(* ServiceChannel::append: a new channel replaces the host's entry in      *)
(* _hosts, and is added to _nodes even when the host was there already.    *)
AppendHost(s, i) ==
  LET node == [host |-> i, id |-> channels + 1] IN
  /\ channels < MaxChannels
  /\ channels' = channels + 1
  /\ hosts' = [hosts EXCEPT ![s][i] = node]
  /\ nodes' = [nodes EXCEPT ![s] = Append(@, node)]
  /\ UNCHANGED turns

(* Mutants of RemoveHost: the oldest node goes; no node goes. *)
RemoveOldest(s, i) ==
  /\ nodes' = [nodes EXCEPT ![s] = Tail(@)]
  /\ hosts' = [hosts EXCEPT ![s][i] = NoChannel]
  /\ UNCHANGED turns

RemoveHostOnly(s, i) ==
  /\ hosts' = [hosts EXCEPT ![s][i] = NoChannel]
  /\ UNCHANGED <<nodes, turns>>

(* ServiceChannel::remove: the host's latest channel leaves _nodes and the *)
(* host leaves _hosts; _idx stays what it was.                             *)
RemoveHost(s, i) ==
  LET c == hosts[s][i] IN
  /\ nodes' = [nodes EXCEPT ![s] = RemoveFirst(@, c)]
  /\ hosts' = [hosts EXCEPT ![s][i] = NoChannel]
  /\ passed' = [passed EXCEPT ![s] = {p \in @ : c \notin {p[1], p[2]}}]
  /\ skewed' = IF \E k \in 1..Len(nodes[s]) : nodes[s][k] = c /\ k <= idx[s]
               THEN skewed \cup {s} ELSE skewed
  /\ strayed' = IF idx[s] > 0 /\ idx[s] >= Len(nodes[s]) - 1
                THEN strayed \cup {s} ELSE strayed

IdxUnmoved(s) == idx[s] % Len(nodes[s])         \* mutant of NextIdx

(* The round-robin pointer after a choose among n > 0 nodes.               *)
NextIdx(s) == (idx[s] + 1) % Len(nodes[s])

(* ServiceChannel::choose returns _nodes[_idx] as it stands.  Reading past *)
(* the end is undefined: the bytes found there are those of a pointer that *)
(* the vector has moved from (null) or destroyed (wild).                   *)
Pick(s) ==
  IF nodes[s] = <<>> THEN {NoChannel}
  ELSE IF idx[s] < Len(nodes[s]) THEN {nodes[s][idx[s] + 1]}
  ELSE {NoChannel, Wild}

(* The pairs after channel c of s was chosen: c has passed every other     *)
(* node, and none has passed c since.                                      *)
PassedBy(s, c) ==
  IF c \in ToSet(nodes[s])
  THEN {p \in passed[s] : p[2] # c} \cup {<<c, d>> : d \in ToSet(nodes[s]) \ {c}}
  ELSE passed[s]

-----------------------------------------------------------------------------
(* ServiceManager::onServiceOnline.  A service nobody declared is ignored. *)
(* Channel::Init refuses an address it cannot parse, and append then       *)
(* returns, after the service got its (empty) ServiceChannel.              *)
OnServiceOnline(i) ==
  LET s == GetServiceName(i) IN
  \/ /\ s \in Followed
     /\ services' = services \cup {s}
     /\ \/ /\ i \notin BadHost
           /\ AppendHost(s, i)
        \/ /\ i \in BadHost
           /\ UNCHANGED <<hosts, nodes, channels, turns>>
     /\ UNCHANGED <<idx, chosen>>
  \/ /\ s \notin Followed
     /\ UNCHANGED managerVars

(* ServiceManager::onServiceOffline: a service that was not declared or    *)
(* never came online, or an unknown host, is only logged.                  *)
OnServiceOffline(i) ==
  LET s == GetServiceName(i)
      known == s \in Followed /\ s \in services /\ hosts[s][i] # NoChannel IN
  \/ /\ known
     /\ RemoveHost(s, i)
     /\ UNCHANGED <<services, idx, channels, chosen>>
  \/ /\ ~known
     /\ UNCHANGED managerVars

(* ServiceManager::choose followed by ServiceChannel::choose. *)
ChooseNode(s) ==
  /\ \/ /\ s \in services
        /\ \E c \in Pick(s) :
             /\ chosen' = [service |-> s, channel |-> c]
             /\ passed' = [passed EXCEPT ![s] = PassedBy(s, c)]
        /\ idx' = IF nodes[s] = <<>> THEN idx
                  ELSE [idx EXCEPT ![s] = NextIdx(s)]
     \/ /\ s \notin services
        /\ chosen' = [service |-> s, channel |-> NoChannel]
        /\ UNCHANGED <<idx, passed>>
  /\ UNCHANGED <<services, hosts, nodes, channels, skewed, strayed>>

NextManager ==
  \/ \E i \in Instance : OnServiceOnline(i)
  \/ \E i \in Instance : OnServiceOffline(i)
  \/ \E s \in Service : ChooseNode(s)

SpecManager == InitManager /\ [][NextManager]_managerVars

-----------------------------------------------------------------------------
TypeOK ==
  /\ services \subseteq Followed
  /\ hosts \in [Service -> [Instance -> Channel \cup {NoChannel}]]
  /\ nodes \in [Service -> Seq(Channel)]
  /\ idx \in [Service -> 0..MaxChannels]
  /\ channels \in 0..MaxChannels
  /\ chosen \in [service : Service \cup {<<>>},
                 channel : Channel \cup {NoChannel, Wild}]
  /\ passed \in [Service -> SUBSET (Channel \X Channel)]
  /\ skewed \subseteq Service
  /\ strayed \subseteq Service

(* Every channel object sits in one place of one list: no node is listed   *)
(* twice and every node was made by an append.  (append, remove)           *)
NodesDistinct ==
  \A s, t \in Service : \A j \in 1..Len(nodes[s]), k \in 1..Len(nodes[t]) :
    nodes[s][j].id = nodes[t][k].id => s = t /\ j = k

(* The host table and the node list agree: the channel _hosts keeps for a  *)
(* host is one to that host and is still listed in _nodes, so that the     *)
(* offline callback finds what it has to delete.  (append, remove)         *)
HostsInNodes ==
  \A s \in Service, i \in Instance : hosts[s][i] # NoChannel =>
    /\ hosts[s][i].host = i
    /\ Contains(nodes[s], hosts[s][i])

(* The two together: the channel table is consistent with itself. *)
TableIsConsistent == NodesDistinct /\ HostsInNodes

(* A choose for s takes the nodes in turn: the channel it returns was not  *)
(* chosen before since any other listed node was last chosen or appended.  *)
InTurn(s) ==
  ChooseNode(s) => \A d \in ToSet(nodes[s]) : <<chosen'.channel, d>> \notin passed[s]
=============================================================================
