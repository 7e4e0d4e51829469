----------------------- MODULE ServiceDiscovery_proofs -----------------------
(***************************************************************************)
(* Proofs about ServiceManager and ServiceDiscovery, for any number of     *)
(* services, instances, leases and channels: the channel table is          *)
(* consistent with itself; once the watch runs it is only as far behind    *)
(* etcd as the events that are on their way; a host that went offline is   *)
(* not listed any more; and the nodes are chosen in turn.                  *)
(***************************************************************************)
EXTENDS ServiceDiscovery, SequenceTheorems, TLAPS

(* RemoveAt and RemoveFirst of a sequence, by positions.                   *)
LEMMA RemoveAtPositions ==
  ASSUME NEW S, NEW s \in Seq(S), NEW p \in 1..Len(s)
  PROVE  /\ RemoveAt(s, p) \in Seq(S)
         /\ Len(RemoveAt(s, p)) = Len(s) - 1
         /\ \A j \in 1..(Len(s) - 1) : RemoveAt(s, p)[j] = s[IF j < p THEN j ELSE j + 1]
<1> DEFINE a == SubSeq(s, 1, p - 1)
           b == SubSeq(s, p + 1, Len(s))
<1>1. Len(s) \in Nat /\ p \in 1..Len(s)
  OBVIOUS
<1>2. a \in Seq(S) /\ Len(a) = p - 1 /\ \A i \in 1..(p - 1) : a[i] = s[i]
  BY <1>1
<1>3. b \in Seq(S) /\ Len(b) = Len(s) - p /\ \A i \in 1..(Len(s) - p) : b[i] = s[p + i]
  BY <1>1
<1>4. RemoveAt(s, p) = a \o b
  BY DEF RemoveAt
<1> HIDE DEF a, b
<1>5. a \o b \in Seq(S) /\ Len(a \o b) = Len(s) - 1
  <2>1. a \o b \in Seq(S) /\ Len(a \o b) = Len(a) + Len(b)
    BY <1>2, <1>3, ConcatProperties
  <2>2. (p - 1) + (Len(s) - p) = Len(s) - 1
    BY <1>1
  <2> QED
    BY <1>2, <1>3, <2>1, <2>2
<1>6. ASSUME NEW j \in 1..(Len(s) - 1)
      PROVE  (a \o b)[j] = s[IF j < p THEN j ELSE j + 1]
  <2>1. CASE j < p
    BY <1>1, <1>2, <1>3, <2>1
  <2>2. CASE ~(j < p)
    <3>1. j - (p - 1) \in 1..(Len(s) - p) /\ p + (j - (p - 1)) = j + 1
      BY <1>1, <2>2
    <3>2. (a \o b)[j] = b[j - (p - 1)]
      BY <1>1, <1>2, <1>3, <2>2
    <3> QED
      BY <1>3, <2>2, <3>1, <3>2
  <2> QED
    BY <2>1, <2>2
<1> QED
  BY <1>4, <1>5, <1>6

LEMMA RemoveFirstPosition ==
  ASSUME NEW S, NEW s \in Seq(S), NEW p \in 1..Len(s),
         \A i \in 1..Len(s) : s[i] = s[p] => i = p
  PROVE  RemoveFirst(s, s[p]) = RemoveAt(s, p)
<1> DEFINE I == {i \in 1..Len(s) : s[i] = s[p]}
<1>1. I = {p} /\ p \in Nat
  OBVIOUS
<1>2. Min({p}) = p
  BY <1>1 DEF Min
<1>3. SelectInSeq(s, LAMBDA v : v = s[p]) = p
  BY <1>1, <1>2 DEF SelectInSeq
<1> QED
  BY <1>3 DEF RemoveFirst

-----------------------------------------------------------------------------
(* The invariant of the channel table.                                     *)
NodesFit ==
  \A s \in Service :
    /\ Len(nodes[s]) <= channels
    /\ \A k \in 1..Len(nodes[s]) :
         nodes[s][k].id <= channels /\ GetServiceName(nodes[s][k].host) = s

HostsFit ==
  \A s \in Service, i \in Instance :
    hosts[s][i] # NoChannel => s \in services /\ GetServiceName(i) = s

TableTypes ==
  /\ services \subseteq Followed
  /\ hosts \in [Service -> [Instance -> Channel \cup {NoChannel}]]
  /\ nodes \in [Service -> Seq(Channel)]
  /\ idx \in [Service -> 0..MaxChannels]
  /\ channels \in 0..MaxChannels
  /\ chosen \in [service : Service \cup {<<>>},
                 channel : Channel \cup {NoChannel, Wild}]

ManagerInv == TableTypes /\ NodesDistinct /\ HostsInNodes /\ NodesFit /\ HostsFit

LEMMA ManagerInit == InitManager => ManagerInv
<1> SUFFICES ASSUME InitManager
             PROVE  ManagerInv
  OBVIOUS
<1> USE ServiceAssumption, ChannelAssumption DEF InitManager
<1>1. TableTypes
  BY DEF TableTypes, NothingChosen
<1>2. NodesDistinct /\ HostsInNodes /\ NodesFit /\ HostsFit
  BY DEF NodesDistinct, HostsInNodes, NodesFit, HostsFit
<1> QED
  BY <1>1, <1>2 DEF ManagerInv

(* What append does to the list of its service.                            *)
LEMMA AppendPositions ==
  ASSUME TableTypes, NEW s \in Service, NEW i \in Instance, AppendHost(s, i)
  PROVE  LET node == [host |-> i, id |-> channels + 1] IN
         /\ node \in Channel /\ channels' = channels + 1 /\ channels' \in 0..MaxChannels
         /\ nodes' \in [Service -> Seq(Channel)]
         /\ \A t \in Service \ {s} : nodes'[t] = nodes[t]
         /\ Len(nodes'[s]) = Len(nodes[s]) + 1 /\ Len(nodes[s]) \in Nat
         /\ \A k \in 1..Len(nodes[s]) : nodes'[s][k] = nodes[s][k]
         /\ nodes'[s][Len(nodes[s]) + 1] = node
         /\ hosts' \in [Service -> [Instance -> Channel \cup {NoChannel}]]
         /\ \A t \in Service, j \in Instance :
              hosts'[t][j] = IF t = s /\ j = i THEN node ELSE hosts[t][j]
<1> DEFINE node == [host |-> i, id |-> channels + 1]
<1>1. channels \in 0..MaxChannels /\ channels < MaxChannels /\ MaxChannels \in Nat
  BY ServiceAssumption DEF TableTypes, AppendHost
<1>2. node \in Channel
  BY <1>1 DEF Channel
<1>3. nodes \in [Service -> Seq(Channel)] /\ nodes[s] \in Seq(Channel)
  BY DEF TableTypes
<1>4. nodes' = [nodes EXCEPT ![s] = Append(nodes[s], node)]
  BY DEF AppendHost
<1>5. hosts \in [Service -> [Instance -> Channel \cup {NoChannel}]]
      /\ hosts' = [hosts EXCEPT ![s][i] = node]
  BY DEF TableTypes, AppendHost
<1>6. channels' = channels + 1
  BY DEF AppendHost
<1> HIDE DEF node
<1>7. Append(nodes[s], node) \in Seq(Channel) /\ Len(Append(nodes[s], node)) = Len(nodes[s]) + 1
      /\ (\A k \in 1..Len(nodes[s]) : Append(nodes[s], node)[k] = nodes[s][k])
      /\ Append(nodes[s], node)[Len(nodes[s]) + 1] = node
      /\ Len(nodes[s]) \in Nat
  BY <1>2, <1>3
<1>8. /\ nodes' \in [Service -> Seq(Channel)] /\ nodes'[s] = Append(nodes[s], node)
      /\ \A t \in Service \ {s} : nodes'[t] = nodes[t]
  BY <1>3, <1>4, <1>7
<1>9. /\ hosts' \in [Service -> [Instance -> Channel \cup {NoChannel}]]
      /\ \A t \in Service, j \in Instance :
           hosts'[t][j] = IF t = s /\ j = i THEN node ELSE hosts[t][j]
  BY <1>2, <1>5
<1> QED
  BY <1>1, <1>2, <1>6, <1>7, <1>8, <1>9 DEF node

LEMMA OnlineKeeps ==
  ASSUME ManagerInv, NEW i \in Instance, OnServiceOnline(i)
  PROVE  ManagerInv'
<1> DEFINE s == GetServiceName(i)
           node == [host |-> i, id |-> channels + 1]
<1>0. s \in Service /\ Followed \subseteq Service
  BY ServiceAssumption
<1>1. CASE UNCHANGED managerVars
  BY <1>1 DEF ManagerInv, managerVars, TableTypes, NodesDistinct, HostsInNodes, NodesFit,
     HostsFit
<1>2. CASE /\ s \in Followed /\ services' = services \cup {s}
           /\ UNCHANGED <<hosts, nodes, channels, idx, chosen>>
  BY <1>2 DEF ManagerInv, TableTypes, NodesDistinct, HostsInNodes, NodesFit, HostsFit
<1>3. CASE /\ s \in Followed /\ services' = services \cup {s}
           /\ AppendHost(s, i) /\ UNCHANGED <<idx, chosen>>
  <2>1. /\ node \in Channel /\ channels' = channels + 1 /\ channels' \in 0..MaxChannels
        /\ nodes' \in [Service -> Seq(Channel)]
        /\ \A t \in Service \ {s} : nodes'[t] = nodes[t]
        /\ Len(nodes'[s]) = Len(nodes[s]) + 1 /\ Len(nodes[s]) \in Nat
        /\ \A k \in 1..Len(nodes[s]) : nodes'[s][k] = nodes[s][k]
        /\ nodes'[s][Len(nodes[s]) + 1] = node
        /\ hosts' \in [Service -> [Instance -> Channel \cup {NoChannel}]]
        /\ \A t \in Service, j \in Instance :
             hosts'[t][j] = IF t = s /\ j = i THEN node ELSE hosts[t][j]
    BY <1>0, <1>3, AppendPositions DEF ManagerInv
  <2>2. node.host = i /\ node.id = channels + 1 /\ channels \in Nat
    BY ServiceAssumption DEF ManagerInv, TableTypes
  <2>3. \A t \in Service : nodes[t] \in Seq(Channel) /\ Len(nodes[t]) \in Nat
    BY DEF ManagerInv, TableTypes
  <2>4. ASSUME NEW t \in Service, NEW k \in 1..Len(nodes[t])
        PROVE  nodes[t][k].id \in Nat
    <3>1. nodes[t][k] \in Channel
      BY <2>3
    <3> QED
      BY <3>1, ServiceAssumption DEF Channel
  <2> HIDE DEF node, s
  <2>5. TableTypes'
    BY <1>0, <1>3, <2>1 DEF ManagerInv, TableTypes
  <2>6. \A t \in Service : \A k \in 1..Len(nodes'[t]) :
          \/ t = s /\ k = Len(nodes[s]) + 1 /\ nodes'[t][k] = node
          \/ k \in 1..Len(nodes[t]) /\ nodes'[t][k] = nodes[t][k]
    BY <2>1, <2>3
  <2>7. NodesFit'
    <3>1. ASSUME NEW t \in Service
          PROVE  Len(nodes'[t]) <= channels'
      <4>1. Len(nodes[t]) <= channels /\ Len(nodes[t]) \in Nat
        BY <2>3 DEF ManagerInv, NodesFit
      <4>2. CASE t = s
        BY <2>1, <2>2, <4>1, <4>2
      <4>3. CASE t # s
        BY <2>1, <2>2, <4>1, <4>3
      <4> QED
        BY <4>2, <4>3
    <3>2. \A t \in Service : \A k \in 1..Len(nodes'[t]) :
            nodes'[t][k].id <= channels' /\ GetServiceName(nodes'[t][k].host) = t
      BY <2>1, <2>2, <2>4, <2>6 DEF ManagerInv, NodesFit, s
    <3> QED
      BY <3>1, <3>2 DEF NodesFit
  <2>8. NodesDistinct'
    <3> SUFFICES ASSUME NEW t \in Service, NEW u \in Service,
                        NEW j \in 1..Len(nodes'[t]), NEW k \in 1..Len(nodes'[u]),
                        nodes'[t][j].id = nodes'[u][k].id
                 PROVE  t = u /\ j = k
      BY DEF NodesDistinct
    <3>1. CASE j \in 1..Len(nodes[t]) /\ nodes'[t][j] = nodes[t][j]
               /\ k \in 1..Len(nodes[u]) /\ nodes'[u][k] = nodes[u][k]
      BY <3>1 DEF ManagerInv, NodesDistinct
    <3>2. ASSUME NEW v \in Service, NEW l \in 1..Len(nodes[v])
          PROVE  nodes[v][l].id # node.id
      BY <2>2, <2>4 DEF ManagerInv, NodesFit
    <3> DEFINE New(v, l) == v = s /\ l = Len(nodes[s]) + 1 /\ nodes'[v][l] = node
               Old(v, l) == l \in 1..Len(nodes[v]) /\ nodes'[v][l] = nodes[v][l]
    <3>3. (New(t, j) \/ Old(t, j)) /\ (New(u, k) \/ Old(u, k))
      BY <2>6
    <3>4. CASE Old(t, j) /\ Old(u, k)
      BY <3>1, <3>4
    <3>5. CASE New(t, j) /\ New(u, k)
      BY <3>5
    <3>6. ~(New(t, j) /\ Old(u, k))
      <4>1. Old(u, k) => nodes'[u][k].id # node.id
        BY <3>2
      <4> QED
        BY <4>1
    <3>7. ~(Old(t, j) /\ New(u, k))
      <4>1. Old(t, j) => nodes'[t][j].id # node.id
        BY <3>2
      <4> QED
        BY <4>1
    <3> QED
      BY <3>3, <3>4, <3>5, <3>6, <3>7
  <2>9. HostsInNodes'
    <3> SUFFICES ASSUME NEW t \in Service, NEW j \in Instance, hosts'[t][j] # NoChannel
                 PROVE  /\ hosts'[t][j].host = j
                        /\ \E k \in 1..Len(nodes'[t]) : nodes'[t][k] = hosts'[t][j]
      BY DEF HostsInNodes, Contains
    <3>1. CASE t = s /\ j = i
      <4>1. Len(nodes[s]) + 1 \in 1..Len(nodes'[s])
        BY <2>1
      <4> QED
        BY <2>1, <2>2, <3>1, <4>1
    <3>2. CASE ~(t = s /\ j = i)
      <4>1. hosts'[t][j] = hosts[t][j]
        BY <2>1, <3>2
      <4>2. PICK k \in 1..Len(nodes[t]) : nodes[t][k] = hosts[t][j]
        BY <4>1 DEF ManagerInv, HostsInNodes, Contains
      <4>3. k \in 1..Len(nodes'[t]) /\ nodes'[t][k] = nodes[t][k]
        BY <2>1, <2>3
      <4> QED
        BY <4>1, <4>2, <4>3 DEF ManagerInv, HostsInNodes
    <3> QED
      BY <3>1, <3>2
  <2>10. HostsFit'
    BY <1>3, <2>1 DEF ManagerInv, HostsFit, s
  <2> QED
    BY <2>5, <2>7, <2>8, <2>9, <2>10 DEF ManagerInv
<1> QED
  BY <1>1, <1>2, <1>3 DEF OnServiceOnline

(* What remove does to the list of its service: the channel the host table *)
(* keeps for the instance leaves it, and no other.                         *)
LEMMA RemovePositions ==
  ASSUME ManagerInv, NEW s \in Service, NEW i \in Instance, hosts[s][i] # NoChannel,
         RemoveHost(s, i)
  PROVE  \E p \in 1..Len(nodes[s]) :
           /\ nodes[s][p] = hosts[s][i]
           /\ nodes' \in [Service -> Seq(Channel)]
           /\ \A t \in Service \ {s} : nodes'[t] = nodes[t]
           /\ Len(nodes'[s]) = Len(nodes[s]) - 1
           /\ \A k \in 1..Len(nodes'[s]) :
                /\ nodes'[s][k] = nodes[s][IF k < p THEN k ELSE k + 1]
                /\ (IF k < p THEN k ELSE k + 1) \in 1..Len(nodes[s]) \ {p}
           /\ hosts' \in [Service -> [Instance -> Channel \cup {NoChannel}]]
           /\ \A t \in Service, j \in Instance :
                hosts'[t][j] = IF t = s /\ j = i THEN NoChannel ELSE hosts[t][j]
<1>1. nodes \in [Service -> Seq(Channel)] /\ nodes[s] \in Seq(Channel) /\ Len(nodes[s]) \in Nat
  BY DEF ManagerInv, TableTypes
<1>2. PICK p \in 1..Len(nodes[s]) : nodes[s][p] = hosts[s][i]
  BY DEF ManagerInv, HostsInNodes, Contains
<1>3. \A k \in 1..Len(nodes[s]) : nodes[s][k] = nodes[s][p] => k = p
  BY DEF ManagerInv, NodesDistinct
<1>4. RemoveFirst(nodes[s], hosts[s][i]) = RemoveAt(nodes[s], p)
  BY <1>1, <1>2, <1>3, RemoveFirstPosition
<1>5. nodes' = [nodes EXCEPT ![s] = RemoveAt(nodes[s], p)]
  BY <1>4 DEF RemoveHost
<1>6. /\ RemoveAt(nodes[s], p) \in Seq(Channel)
      /\ Len(RemoveAt(nodes[s], p)) = Len(nodes[s]) - 1
      /\ \A k \in 1..(Len(nodes[s]) - 1) :
           RemoveAt(nodes[s], p)[k] = nodes[s][IF k < p THEN k ELSE k + 1]
  BY <1>1, RemoveAtPositions
<1>7. /\ nodes' \in [Service -> Seq(Channel)] /\ nodes'[s] = RemoveAt(nodes[s], p)
      /\ \A t \in Service \ {s} : nodes'[t] = nodes[t]
  BY <1>1, <1>5, <1>6
<1>8. \A k \in 1..(Len(nodes[s]) - 1) :
        (IF k < p THEN k ELSE k + 1) \in 1..Len(nodes[s]) \ {p}
  BY <1>1
<1>9. /\ hosts' \in [Service -> [Instance -> Channel \cup {NoChannel}]]
      /\ \A t \in Service, j \in Instance :
           hosts'[t][j] = IF t = s /\ j = i THEN NoChannel ELSE hosts[t][j]
  BY DEF ManagerInv, TableTypes, RemoveHost
<1> QED
  BY <1>2, <1>6, <1>7, <1>8, <1>9

LEMMA OfflineKeeps ==
  ASSUME ManagerInv, NEW i \in Instance, OnServiceOffline(i)
  PROVE  ManagerInv'
<1> DEFINE s == GetServiceName(i)
           known == s \in Followed /\ s \in services /\ hosts[s][i] # NoChannel
<1>0. s \in Service
  BY ServiceAssumption
<1>1. CASE UNCHANGED managerVars
  BY <1>1 DEF ManagerInv, managerVars, TableTypes, NodesDistinct, HostsInNodes, NodesFit,
     HostsFit
<1>2. CASE known /\ RemoveHost(s, i) /\ UNCHANGED <<services, idx, channels, chosen>>
  <2>1. PICK p \in 1..Len(nodes[s]) :
           /\ nodes[s][p] = hosts[s][i]
           /\ nodes' \in [Service -> Seq(Channel)]
           /\ \A t \in Service \ {s} : nodes'[t] = nodes[t]
           /\ Len(nodes'[s]) = Len(nodes[s]) - 1
           /\ \A k \in 1..Len(nodes'[s]) :
                /\ nodes'[s][k] = nodes[s][IF k < p THEN k ELSE k + 1]
                /\ (IF k < p THEN k ELSE k + 1) \in 1..Len(nodes[s]) \ {p}
           /\ hosts' \in [Service -> [Instance -> Channel \cup {NoChannel}]]
           /\ \A t \in Service, j \in Instance :
                hosts'[t][j] = IF t = s /\ j = i THEN NoChannel ELSE hosts[t][j]
    BY <1>0, <1>2, RemovePositions
  <2> DEFINE at(t, k) == IF t = s THEN (IF k < p THEN k ELSE k + 1) ELSE k
  <2>2. ASSUME NEW t \in Service, NEW k \in 1..Len(nodes'[t])
        PROVE  at(t, k) \in 1..Len(nodes[t]) /\ nodes'[t][k] = nodes[t][at(t, k)]
    BY <2>1
  <2>3. ASSUME NEW t \in Service
        PROVE  Len(nodes[t]) \in Nat /\ Len(nodes'[t]) <= Len(nodes[t]) /\ Len(nodes'[t]) \in Nat
    <3>1. nodes[t] \in Seq(Channel) /\ nodes'[t] \in Seq(Channel)
      BY <2>1 DEF ManagerInv, TableTypes
    <3>2. Len(nodes[t]) \in Nat /\ Len(nodes'[t]) \in Nat
      BY <3>1, LenProperties
    <3>3. CASE t = s
      BY <2>1, <3>2, <3>3
    <3>4. CASE t # s
      BY <2>1, <3>2, <3>4
    <3> QED
      BY <3>3, <3>4
  <2>4. TableTypes'
    BY <1>2, <2>1 DEF ManagerInv, TableTypes
  <2>5. NodesFit'
    <3>1. channels' = channels /\ channels \in Nat
      BY <1>2, ServiceAssumption DEF ManagerInv, TableTypes, RemoveHost
    <3>2. ASSUME NEW t \in Service
          PROVE  Len(nodes'[t]) <= channels'
      BY <2>1, <2>3, <3>1 DEF ManagerInv, NodesFit
    <3>3. ASSUME NEW t \in Service, NEW k \in 1..Len(nodes'[t])
          PROVE  nodes'[t][k].id <= channels' /\ GetServiceName(nodes'[t][k].host) = t
      BY <2>2, <3>1 DEF ManagerInv, NodesFit
    <3> QED
      BY <3>2, <3>3 DEF NodesFit
  <2>6. NodesDistinct'
    <3> SUFFICES ASSUME NEW t \in Service, NEW u \in Service,
                        NEW j \in 1..Len(nodes'[t]), NEW k \in 1..Len(nodes'[u]),
                        nodes'[t][j].id = nodes'[u][k].id
                 PROVE  t = u /\ j = k
      BY DEF NodesDistinct
    <3>1. t = u /\ at(t, j) = at(u, k)
      <4>1. /\ at(t, j) \in 1..Len(nodes[t]) /\ at(u, k) \in 1..Len(nodes[u])
            /\ nodes[t][at(t, j)].id = nodes[u][at(u, k)].id
        BY <2>2
      <4> HIDE DEF at
      <4> QED
        BY <4>1 DEF ManagerInv, NodesDistinct
    <3>2. j \in Nat /\ k \in Nat
      BY <2>3
    <3> QED
      BY <3>1, <3>2
  <2>7. HostsInNodes'
    <3> SUFFICES ASSUME NEW t \in Service, NEW j \in Instance, hosts'[t][j] # NoChannel
                 PROVE  /\ hosts'[t][j].host = j
                        /\ \E k \in 1..Len(nodes'[t]) : nodes'[t][k] = hosts'[t][j]
      BY DEF HostsInNodes, Contains
    <3>1. hosts'[t][j] = hosts[t][j] /\ ~(t = s /\ j = i)
      BY <2>1
    <3>2. PICK k \in 1..Len(nodes[t]) : nodes[t][k] = hosts[t][j]
      BY <3>1 DEF ManagerInv, HostsInNodes, Contains
    <3>3. hosts[t][j].host = j
      BY <3>1 DEF ManagerInv, HostsInNodes
    <3>4. CASE t # s
      BY <2>1, <3>1, <3>2, <3>3, <3>4
    <3>5. CASE t = s
      <4>1. k # p
        BY <1>2, <2>1, <3>1, <3>2, <3>3, <3>5 DEF ManagerInv, HostsInNodes
      <4>2. CASE k < p
        <5>1. k \in 1..Len(nodes'[s])
          BY <1>0, <2>1, <2>3, <3>5, <4>2
        <5> QED
          BY <2>1, <3>1, <3>2, <3>3, <3>5, <4>2, <5>1
      <4>3. CASE k > p
        <5>1. k - 1 \in 1..Len(nodes'[s]) /\ ~(k - 1 < p) /\ (k - 1) + 1 = k
          BY <1>0, <2>1, <2>3, <3>5, <4>3
        <5>2. nodes'[s][k - 1] = nodes[s][k]
          BY <2>1, <5>1
        <5> QED
          BY <3>1, <3>2, <3>3, <3>5, <5>1, <5>2
      <4> QED
        BY <1>0, <2>3, <3>5, <4>1, <4>2, <4>3
    <3> QED
      BY <3>4, <3>5
  <2>8. HostsFit'
    <3>1. ASSUME NEW t \in Service, NEW j \in Instance, hosts'[t][j] # NoChannel
          PROVE  hosts[t][j] # NoChannel
      BY <2>1, <3>1
    <3>2. UNCHANGED <<services, chosen>>
      BY <1>2
    <3> QED
      BY <3>1, <3>2 DEF ManagerInv, HostsFit
  <2> QED
    BY <2>4, <2>5, <2>6, <2>7, <2>8 DEF ManagerInv
<1> QED
  BY <1>1, <1>2 DEF OnServiceOffline

LEMMA ChooseKeeps ==
  ASSUME ManagerInv, NEW s \in Service, ChooseNode(s)
  PROVE  ManagerInv'
<1> USE ServiceAssumption, ChannelAssumption
<1>1. UNCHANGED <<services, hosts, nodes, channels>>
  BY DEF ChooseNode
<1>2. NodesDistinct' /\ HostsInNodes' /\ NodesFit' /\ HostsFit'
  BY <1>1 DEF ManagerInv, NodesDistinct, HostsInNodes, NodesFit, HostsFit
<1>3. nodes[s] \in Seq(Channel) /\ Len(nodes[s]) \in Nat /\ idx[s] \in Nat
      /\ Len(nodes[s]) <= MaxChannels
  BY DEF ManagerInv, TableTypes, NodesFit
<1>4. ASSUME NEW c \in Pick(s)
      PROVE  c \in Channel \cup {NoChannel, Wild}
  <2>1. c \in {NoChannel, Wild} \/ (idx[s] < Len(nodes[s]) /\ c = nodes[s][idx[s] + 1])
    BY <1>4 DEF Pick
  <2>2. idx[s] < Len(nodes[s]) => idx[s] + 1 \in 1..Len(nodes[s])
    BY <1>3
  <2>3. \A k \in 1..Len(nodes[s]) : nodes[s][k] \in Channel
    BY <1>3
  <2> QED
    BY <2>1, <2>2, <2>3
<1>5. \/ chosen' = [service |-> s, channel |-> NoChannel]
      \/ \E c \in Pick(s) : chosen' = [service |-> s, channel |-> c]
  BY DEF ChooseNode
<1>6. chosen' \in [service : Service \cup {<<>>}, channel : Channel \cup {NoChannel, Wild}]
  BY <1>4, <1>5
<1>7. nodes[s] # <<>> => NextIdx(s) \in 0..MaxChannels
  <2>1. nodes[s] # <<>> => Len(nodes[s]) > 0
    BY <1>3
  <2> QED
    BY <1>3, <2>1 DEF NextIdx
<1>8. idx' \in [Service -> 0..MaxChannels]
  BY <1>7 DEF ChooseNode, ManagerInv, TableTypes
<1>9. TableTypes'
  BY <1>1, <1>6, <1>8 DEF ManagerInv, TableTypes
<1> QED
  BY <1>2, <1>9 DEF ManagerInv

-----------------------------------------------------------------------------
(* What the callbacks do to the host table.                                *)
LEMMA OnlineTable ==
  ASSUME ManagerInv, NEW i \in Instance, OnServiceOnline(i)
  PROVE  /\ \A j \in Instance : j # i => (InTable(j)' <=> InTable(j))
         /\ i \in Tracked => InTable(i)'
<1>0. GetServiceName(i) \in Service /\ \A j \in Instance : GetServiceName(j) \in Service
  BY ServiceAssumption
<1>1. CASE UNCHANGED hosts /\ i \notin Tracked
  BY <1>1 DEF InTable
<1>2. CASE AppendHost(GetServiceName(i), i)
  <2>1. /\ [host |-> i, id |-> channels + 1] \in Channel
        /\ \A t \in Service, j \in Instance :
             hosts'[t][j] = IF t = GetServiceName(i) /\ j = i THEN [host |-> i, id |-> channels + 1]
                            ELSE hosts[t][j]
    BY <1>0, <1>2, AppendPositions DEF ManagerInv
  <2> QED
    BY <1>0, <2>1, ChannelAssumption DEF InTable
<1> QED
  BY <1>1, <1>2 DEF OnServiceOnline, Tracked, managerVars

LEMMA OfflineTable ==
  ASSUME ManagerInv, NEW i \in Instance, OnServiceOffline(i)
  PROVE  /\ \A j \in Instance : j # i => (InTable(j)' <=> InTable(j))
         /\ ~InTable(i)'
<1>0. \A j \in Instance : GetServiceName(j) \in Service
  BY ServiceAssumption
<1>1. InTable(i) => GetServiceName(i) \in services /\ GetServiceName(i) \in Followed
  BY <1>0 DEF ManagerInv, TableTypes, HostsFit, InTable
<1>2. CASE UNCHANGED managerVars /\ ~InTable(i)
  BY <1>2 DEF managerVars, InTable
<1>3. CASE RemoveHost(GetServiceName(i), i)
  <2>1. \A t \in Service, j \in Instance :
          hosts'[t][j] = IF t = GetServiceName(i) /\ j = i THEN NoChannel ELSE hosts[t][j]
    BY <1>0, <1>3 DEF ManagerInv, TableTypes, RemoveHost
  <2> QED
    BY <1>0, <2>1 DEF InTable
<1> QED
  BY <1>1, <1>2, <1>3 DEF OnServiceOffline, InTable

(* What the first n of the events ev leave known of i, if t says whether   *)
(* it was known before.                                                    *)
Known(ev, i, n, t) ==
  \/ \E j \in 1..n : /\ ev[j] = [type |-> "PUT", inst |-> i]
                     /\ \A l \in 1..n : l > j => ev[l].inst # i
  \/ (\A j \in 1..n : ev[j].inst # i) /\ t

LEMMA KnownIsAfterEvents ==
  ASSUME NEW i \in Instance
  PROVE  KnownAfterEvents(i) <=> Known(events, i, Len(events), InTable(i))
BY DEF KnownAfterEvents, Known

LEMMA KnownAppend ==
  ASSUME NEW ev \in Seq(Event), NEW e \in Event, NEW i \in Instance, NEW t \in BOOLEAN
  PROVE  /\ Append(ev, e) \in Seq(Event) /\ Len(Append(ev, e)) = Len(ev) + 1
         /\ \A n \in 0..Len(ev) : Known(Append(ev, e), i, n, t) <=> Known(ev, i, n, t)
         /\ Known(Append(ev, e), i, Len(ev) + 1, t) <=>
              IF e.inst = i THEN e.type = "PUT" ELSE Known(ev, i, Len(ev), t)
<1> DEFINE ap == Append(ev, e)
           N == Len(ev)
<1>1. /\ ap \in Seq(Event) /\ Len(ap) = N + 1 /\ N \in Nat /\ ap[N + 1] = e
      /\ \A j \in 1..N : ap[j] = ev[j]
  OBVIOUS
<1> HIDE DEF ap, N
<1>2. ASSUME NEW n \in 0..N
      PROVE  Known(ap, i, n, t) <=> Known(ev, i, n, t)
  <2>1. \A j \in 1..n : ap[j] = ev[j]
    BY <1>1
  <2> QED
    BY <2>1 DEF Known
<1>3. CASE e.inst = i
  <2>1. e.type = "PUT" <=> e = [type |-> "PUT", inst |-> i]
    BY <1>3 DEF Event
  <2>2. N + 1 \in 1..(N + 1) /\ \A j \in 1..(N + 1) : j = N + 1 \/ N + 1 > j
    BY <1>1
  <2>3. Known(ap, i, N + 1, t) <=> e = [type |-> "PUT", inst |-> i]
    BY <1>1, <1>3, <2>2 DEF Known
  <2> QED
    BY <1>1, <1>2, <1>3, <2>1, <2>3 DEF ap, N
<1>4. CASE e.inst # i
  <2>1. /\ \A j \in 1..(N + 1) : j \in 1..N \/ j = N + 1
        /\ \A j \in 1..N : j \in 1..(N + 1)
    BY <1>1
  <2>2. e # [type |-> "PUT", inst |-> i]
    BY <1>4
  <2>3. (\E j \in 1..(N + 1) : /\ ap[j] = [type |-> "PUT", inst |-> i]
                               /\ \A l \in 1..(N + 1) : l > j => ap[l].inst # i)
        <=> (\E j \in 1..N : /\ ev[j] = [type |-> "PUT", inst |-> i]
                             /\ \A l \in 1..N : l > j => ev[l].inst # i)
    BY <1>1, <1>4, <2>1, <2>2
  <2>4. (\A j \in 1..(N + 1) : ap[j].inst # i) <=> (\A j \in 1..N : ev[j].inst # i)
    BY <1>1, <1>4, <2>1
  <2>5. Known(ap, i, N + 1, t) <=> Known(ev, i, N, t)
    BY <2>3, <2>4 DEF Known
  <2> QED
    BY <1>1, <1>2, <1>4, <2>5 DEF ap, N
<1> QED
  BY <1>3, <1>4

(* The first event is taken, and the table says u of i afterwards.         *)
LEMMA KnownTail ==
  ASSUME NEW ev \in Seq(Event), ev # <<>>, NEW i \in Instance, NEW t \in BOOLEAN,
         NEW u \in BOOLEAN, NEW n \in 0..(Len(ev) - 1)
  PROVE  /\ (u => IF ev[1].inst = i THEN ev[1].type = "PUT" ELSE t)
            => (Known(Tail(ev), i, n, u) => Known(ev, i, n + 1, t))
         /\ ((IF ev[1].inst = i THEN ev[1].type = "PUT" ELSE t) => u)
            => (Known(ev, i, n + 1, t) => Known(Tail(ev), i, n, u))
<1> DEFINE tl == Tail(ev)
           put == [type |-> "PUT", inst |-> i]
           was == IF ev[1].inst = i THEN ev[1].type = "PUT" ELSE t
           after == \E j \in 1..n : tl[j] = put /\ \A l \in 1..n : l > j => tl[l].inst # i
           none == \A j \in 1..n : tl[j].inst # i
<1>1. /\ \A j \in 1..n : tl[j] = ev[j + 1]
      /\ Len(ev) \in Nat /\ n \in Nat /\ ev[1] \in Event
  OBVIOUS
<1>2. ev[1] = put <=> ev[1].inst = i /\ ev[1].type = "PUT"
  BY <1>1 DEF Event
<1>3. /\ \A j \in 1..(n + 1) : j = 1 \/ (j - 1 \in 1..n /\ (j - 1) + 1 = j)
      /\ \A j \in 1..n : j + 1 \in 1..(n + 1)
      /\ 1 \in 1..(n + 1)
  BY <1>1
<1>4. Known(tl, i, n, u) <=> after \/ (none /\ u)
  BY DEF Known
<1>5. \A j \in 1..n : \A l \in 1..n : l > j <=> l + 1 > j + 1
  BY <1>1
<1> HIDE DEF tl
<1>6. after => Known(ev, i, n + 1, t)
  <2> SUFFICES ASSUME NEW j \in 1..n, tl[j] = put, \A l \in 1..n : l > j => tl[l].inst # i
               PROVE  Known(ev, i, n + 1, t)
    OBVIOUS
  <2>1. ev[j + 1] = put /\ j + 1 \in 1..(n + 1)
    BY <1>1, <1>3
  <2>2. ASSUME NEW l \in 1..(n + 1), l > j + 1
        PROVE  ev[l].inst # i
    <3>1. l - 1 \in 1..n /\ l - 1 > j /\ ev[l] = tl[l - 1]
      BY <1>1, <1>3, <2>2
    <3> QED
      BY <3>1
  <2> QED
    BY <2>1, <2>2 DEF Known
<1>7. ASSUME none
      PROVE  \A l \in 1..(n + 1) : l = 1 \/ ev[l].inst # i
  <2> SUFFICES ASSUME NEW l \in 1..(n + 1), l # 1
               PROVE  ev[l].inst # i
    OBVIOUS
  <2>1. l - 1 \in 1..n /\ (l - 1) + 1 = l
    BY <1>3
  <2>2. ev[l] = tl[l - 1]
    BY <1>1, <2>1
  <2> QED
    BY <1>7, <2>1, <2>2
<1>8. none /\ was => Known(ev, i, n + 1, t)
  <2>1. \A l \in 1..(n + 1) : l > 1 => l # 1
    OBVIOUS
  <2> QED
    BY <1>2, <1>3, <1>7, <2>1 DEF Known
<1>9. Known(ev, i, n + 1, t) => after \/ (none /\ was)
  <2>1. CASE (\A j \in 1..(n + 1) : ev[j].inst # i) /\ t
    BY <1>1, <1>3, <2>1
  <2>2. ASSUME NEW j \in 1..(n + 1), ev[j] = put,
               \A l \in 1..(n + 1) : l > j => ev[l].inst # i
        PROVE  after \/ (none /\ was)
    <3>1. CASE j = 1
      <4>1. \A l \in 1..n : l + 1 > 1
        BY <1>1
      <4> QED
        BY <1>1, <1>2, <1>3, <2>2, <3>1, <4>1
    <3>2. CASE j # 1
      <4>1. j - 1 \in 1..n /\ tl[j - 1] = put
        BY <1>1, <1>3, <2>2, <3>2
      <4>2. ASSUME NEW l \in 1..n, l > j - 1
            PROVE  tl[l].inst # i
        <5>1. l + 1 > j /\ l + 1 \in 1..(n + 1) /\ tl[l] = ev[l + 1]
          BY <1>1, <1>3, <4>2
        <5> QED
          BY <2>2, <5>1
      <4> QED
        BY <4>1, <4>2
    <3> QED
      BY <3>1, <3>2
  <2> QED
    BY <2>1, <2>2 DEF Known
<1> QED
  BY <1>4, <1>6, <1>8, <1>9 DEF tl

-----------------------------------------------------------------------------
(* A PUT on its way finds its instance unknown, unless the instance is     *)
(* doubled.                                                                *)
PutsAreNews ==
  \A i \in Instance \ doubled : \A k \in 1..Len(events) :
    events[k] = [type |-> "PUT", inst |-> i] => ~Known(events, i, k - 1, InTable(i))

(* Before the watch, the table grows by what ls has listed, once each.     *)
ListingInv ==
  /\ phase # "watching" => events = <<>>
  /\ phase = "start" => \A i \in Instance : ~InTable(i)
  /\ phase # "listing" => listed = {}
  /\ \A i \in listed : ~InTable(i)

(* A node that is listed for a host is the one the host table keeps.       *)
NodesAreHosts ==
  \A s \in Service : \A k \in 1..Len(nodes[s]) :
    nodes[s][k].host \notin doubled => nodes[s][k] = hosts[s][nodes[s][k].host]

EtcdTypes ==
  /\ registry \in [Instance -> 0..MaxLeases]
  /\ lease \in [Instance -> 0..MaxLeases]
  /\ orphans \subseteq [inst : Instance, lease : 1..MaxLeases]
  /\ leases \in 0..MaxLeases
  /\ events \in Seq(Event)
  /\ phase \in {"start", "listing", "watching"}
  /\ listed \subseteq Instance
  /\ unseen \subseteq Tracked
  /\ doubled \subseteq Instance

DiscoveryInv ==
  /\ ManagerInv /\ EtcdTypes /\ ListingInv
  /\ InSync /\ PutsAreNews /\ NodesAreHosts

LEMMA DiscoveryInit == Init => DiscoveryInv
<1> SUFFICES ASSUME Init
             PROVE  DiscoveryInv
  OBVIOUS
<1>1. ManagerInv
  BY ManagerInit DEF Init
<1>2. EtcdTypes
  BY DiscoveryAssumption DEF Init, EtcdTypes
<1>3. ListingInv /\ InSync /\ PutsAreNews /\ NodesAreHosts
  BY ServiceAssumption
     DEF Init, InitManager, ListingInv, InSync, PutsAreNews, NodesAreHosts, InTable
<1> QED
  BY <1>1, <1>2, <1>3 DEF DiscoveryInv

(* The channel table after a callback: one instance online or offline.     *)
LEMMA OnlineNodes ==
  ASSUME ManagerInv, NodesAreHosts, doubled' = doubled, NEW i \in Instance,
         OnServiceOnline(i), i \notin doubled => ~InTable(i)
  PROVE  NodesAreHosts'
<1> DEFINE s == GetServiceName(i)
           node == [host |-> i, id |-> channels + 1]
<1>0. s \in Service
  BY ServiceAssumption
<1>1. CASE UNCHANGED <<hosts, nodes>>
  BY <1>1 DEF NodesAreHosts
<1>2. CASE AppendHost(s, i)
  <2>1. /\ \A t \in Service \ {s} : nodes'[t] = nodes[t]
        /\ Len(nodes'[s]) = Len(nodes[s]) + 1 /\ Len(nodes[s]) \in Nat
        /\ \A k \in 1..Len(nodes[s]) : nodes'[s][k] = nodes[s][k]
        /\ nodes'[s][Len(nodes[s]) + 1] = node
        /\ \A t \in Service, j \in Instance :
             hosts'[t][j] = IF t = s /\ j = i THEN node ELSE hosts[t][j]
    BY <1>0, <1>2, AppendPositions DEF ManagerInv
  <2> SUFFICES ASSUME NEW t \in Service, NEW k \in 1..Len(nodes'[t]),
                      nodes'[t][k].host \notin doubled
               PROVE  nodes'[t][k] = hosts'[t][nodes'[t][k].host]
    BY DEF NodesAreHosts
  <2>2. CASE t = s /\ k = Len(nodes[s]) + 1
    BY <1>0, <2>1, <2>2
  <2>3. CASE ~(t = s /\ k = Len(nodes[s]) + 1)
    <3>1. k \in 1..Len(nodes[t]) /\ nodes'[t][k] = nodes[t][k]
      BY <2>1, <2>3
    <3>2. nodes[t][k] = hosts[t][nodes[t][k].host]
      BY <3>1 DEF NodesAreHosts
    <3>3. nodes[t][k] \in Channel
      BY <3>1 DEF ManagerInv, TableTypes
    <3>4. ~(t = s /\ nodes[t][k].host = i)
      BY <3>1, <3>2, <3>3, ChannelAssumption DEF InTable
    <3>5. nodes[t][k].host \in Instance
      BY <3>3 DEF Channel
    <3> QED
      BY <2>1, <3>1, <3>2, <3>4, <3>5
  <2> QED
    BY <2>2, <2>3
<1> QED
  BY <1>1, <1>2 DEF OnServiceOnline, managerVars

LEMMA OfflineNodes ==
  ASSUME ManagerInv, NodesAreHosts, doubled' = doubled, NEW i \in Instance,
         OnServiceOffline(i)
  PROVE  NodesAreHosts'
<1> DEFINE s == GetServiceName(i)
<1>0. s \in Service
  BY ServiceAssumption
<1>1. CASE UNCHANGED <<hosts, nodes>>
  BY <1>1 DEF NodesAreHosts
<1>2. CASE hosts[s][i] # NoChannel /\ RemoveHost(s, i)
  <2>1. PICK p \in 1..Len(nodes[s]) :
           /\ nodes[s][p] = hosts[s][i]
           /\ nodes' \in [Service -> Seq(Channel)]
           /\ \A t \in Service \ {s} : nodes'[t] = nodes[t]
           /\ Len(nodes'[s]) = Len(nodes[s]) - 1
           /\ \A k \in 1..Len(nodes'[s]) :
                /\ nodes'[s][k] = nodes[s][IF k < p THEN k ELSE k + 1]
                /\ (IF k < p THEN k ELSE k + 1) \in 1..Len(nodes[s]) \ {p}
           /\ hosts' \in [Service -> [Instance -> Channel \cup {NoChannel}]]
           /\ \A t \in Service, j \in Instance :
                hosts'[t][j] = IF t = s /\ j = i THEN NoChannel ELSE hosts[t][j]
    BY <1>0, <1>2, RemovePositions
  <2> SUFFICES ASSUME NEW t \in Service, NEW k \in 1..Len(nodes'[t]),
                      nodes'[t][k].host \notin doubled
               PROVE  nodes'[t][k] = hosts'[t][nodes'[t][k].host]
    BY DEF NodesAreHosts
  <2>2. PICK l \in 1..Len(nodes[t]) : nodes'[t][k] = nodes[t][l] /\ (t = s => l # p)
    <3>1. CASE t = s
      <4> DEFINE l == IF k < p THEN k ELSE k + 1
      <4>1. l \in 1..Len(nodes[s]) \ {p} /\ nodes'[s][k] = nodes[s][l]
        BY <2>1, <3>1
      <4> HIDE DEF l
      <4> QED
        BY <3>1, <4>1
    <3>2. CASE t # s
      BY <2>1, <3>2
    <3> QED
      BY <3>1, <3>2
  <2>3. nodes[t][l] = hosts[t][nodes[t][l].host]
    BY <2>2 DEF NodesAreHosts
  <2>4. nodes[t][l].host \in Instance
    <3>1. nodes[t][l] \in Channel
      BY DEF ManagerInv, TableTypes
    <3> QED
      BY <3>1 DEF Channel
  <2>5. ~(t = s /\ nodes[t][l].host = i)
    <3> SUFFICES ASSUME t = s, nodes[t][l].host = i
                 PROVE  FALSE
      OBVIOUS
    <3>1. nodes[s][l].id = nodes[s][p].id /\ l \in 1..Len(nodes[s])
      BY <2>1, <2>3
    <3>2. l = p
      BY <1>0, <3>1 DEF ManagerInv, NodesDistinct
    <3> QED
      BY <2>2, <3>2
  <2> QED
    BY <2>1, <2>2, <2>3, <2>4, <2>5
<1> QED
  BY <1>1, <1>2 DEF OnServiceOffline, managerVars

-----------------------------------------------------------------------------
(* The table is left alone, the events are taken from nowhere else.        *)
LEMMA TableStays ==
  ASSUME ManagerInv, NodesAreHosts, UNCHANGED <<services, hosts, nodes, idx, channels, chosen>>,
         doubled \subseteq doubled'
  PROVE  ManagerInv' /\ NodesAreHosts' /\ \A j \in Instance : InTable(j)' <=> InTable(j)
<1>1. ManagerInv'
  BY DEF ManagerInv, TableTypes, NodesDistinct, HostsInNodes, NodesFit, HostsFit
<1>2. NodesAreHosts'
  BY DEF NodesAreHosts
<1> QED
  BY <1>1, <1>2 DEF InTable

(* A change of i's key, reported to the watcher if there is one.           *)
LEMMA NotifyKeeps ==
  ASSUME DiscoveryInv, NEW i \in Instance, NEW type \in {"PUT", "DELETE"},
         Notify(type, i), UNCHANGED <<managerVars, phase, listed>>,
         \A j \in Instance : j # i => (Registered(j)' <=> Registered(j)),
         Registered(i)' <=> type = "PUT"
  PROVE  /\ ManagerInv' /\ ListingInv' /\ InSync' /\ PutsAreNews' /\ NodesAreHosts'
         /\ events' \in Seq(Event) /\ unseen' \subseteq Tracked /\ doubled' \subseteq Instance
<1> DEFINE e == [type |-> type, inst |-> i]
<1>1. doubled \subseteq doubled' /\ doubled' \subseteq Instance /\ unseen' \subseteq Tracked
  BY DEF Notify, DiscoveryInv, EtcdTypes
<1>2. /\ ManagerInv' /\ NodesAreHosts'
      /\ \A j \in Instance : InTable(j)' <=> InTable(j)
  BY <1>1, TableStays DEF DiscoveryInv, managerVars
<1>3. e \in Event /\ events \in Seq(Event)
  BY DEF Event, DiscoveryInv, EtcdTypes
<1>4. CASE phase # "watching"
  <2>1. /\ events' = events /\ doubled' = doubled
        /\ phase' = phase /\ listed' = listed /\ hosts' = hosts
    BY <1>4 DEF Notify, managerVars
  <2>2. ListingInv' /\ InSync'
    BY <1>4, <2>1 DEF DiscoveryInv, ListingInv, InSync, InTable
  <2>3. PutsAreNews'
    <3>1. events' = <<>>
      BY <1>4, <2>1 DEF DiscoveryInv, ListingInv
    <3> QED
      BY <3>1 DEF PutsAreNews
  <2> QED
    BY <1>1, <1>2, <1>3, <2>1, <2>2, <2>3
<1>5. CASE phase = "watching"
  <2>1. events' = Append(events, e)
    BY <1>5 DEF Notify
  <2>2. ListingInv'
    BY <1>2, <1>5 DEF DiscoveryInv, ListingInv
  <2> HIDE DEF e
  <2>3. ASSUME NEW j \in Instance
        PROVE  /\ events' \in Seq(Event) /\ Len(events') = Len(events) + 1
               /\ \A n \in 0..Len(events) :
                    Known(events', j, n, InTable(j)') <=> Known(events, j, n, InTable(j))
               /\ Known(events', j, Len(events) + 1, InTable(j)') <=>
                    IF j = i THEN type = "PUT" ELSE Known(events, j, Len(events), InTable(j))
    <3>1. InTable(j)' = InTable(j) /\ InTable(j) \in BOOLEAN
      BY <1>2 DEF InTable
    <3>2. e.inst = i /\ e.type = type
      BY DEF e
    <3> QED
      BY <1>3, <2>1, <3>1, <3>2, KnownAppend
  <2>4. Len(events) \in Nat
    BY <1>3
  <2>5. InSync'
    <3> SUFFICES ASSUME NEW j \in Tracked \ unseen'
                 PROVE  KnownAfterEvents(j)' <=> Registered(j)'
      BY DEF InSync
    <3>1. j \in Instance /\ (j # i => j \in Tracked \ unseen)
      BY DEF Tracked, Notify
    <3>2. KnownAfterEvents(j)' <=> Known(events', j, Len(events'), InTable(j)')
      BY <3>1, KnownIsAfterEvents DEF KnownAfterEvents, Known
    <3>3. KnownAfterEvents(j) <=> Known(events, j, Len(events), InTable(j))
      BY <3>1, KnownIsAfterEvents
    <3>4. j # i => (KnownAfterEvents(j) <=> Registered(j))
      BY <1>5, <3>1 DEF DiscoveryInv, InSync
    <3> QED
      BY <2>3, <3>1, <3>2, <3>3, <3>4
  <2>6. PutsAreNews'
    <3> SUFFICES ASSUME NEW j \in Instance \ doubled', NEW k \in 1..Len(events'),
                        events'[k] = [type |-> "PUT", inst |-> j]
                 PROVE  ~Known(events', j, k - 1, InTable(j)')
      BY DEF PutsAreNews
    <3>1. k - 1 \in 0..Len(events) /\ (k \in 1..Len(events) \/ k = Len(events) + 1)
      BY <2>3, <2>4
    <3>2. CASE k \in 1..Len(events)
      <4>1. events'[k] = events[k]
        BY <1>3, <2>1, <3>2
      <4> QED
        BY <1>1, <2>3, <3>1, <3>2, <4>1 DEF DiscoveryInv, PutsAreNews
    <3>3. CASE k = Len(events) + 1
      <4>1. j = i /\ type = "PUT"
        BY <1>3, <2>1, <3>3 DEF e
      <4>2. ~KnownAfterEvents(i)
        BY <1>5, <4>1 DEF Notify
      <4> QED
        BY <2>3, <2>4, <3>1, <3>3, <4>1, <4>2, KnownIsAfterEvents
    <3> QED
      BY <3>1, <3>2, <3>3
  <2> QED
    BY <1>1, <1>2, <1>3, <2>2, <2>1, <2>5, <2>6
<1> QED
  BY <1>4, <1>5

LEMMA RegisterStep ==
  ASSUME DiscoveryInv, NEW i \in Instance, Register(i)
  PROVE  DiscoveryInv'
<1>1. leases \in 0..MaxLeases /\ MaxLeases \in Nat /\ leases < MaxLeases
  BY DiscoveryAssumption DEF DiscoveryInv, EtcdTypes, Register
<1>2. /\ lease' \in [Instance -> 0..MaxLeases] /\ leases' \in 0..MaxLeases
      /\ orphans' = orphans /\ phase' = phase /\ listed' = listed /\ UNCHANGED managerVars
  BY <1>1 DEF DiscoveryInv, EtcdTypes, Register
<1>3. CASE registry' = [registry EXCEPT ![i] = leases + 1] /\ Notify("PUT", i)
  <2>1. /\ registry' \in [Instance -> 0..MaxLeases] /\ registry'[i] = leases + 1
        /\ \A j \in Instance : j # i => registry'[j] = registry[j]
    BY <1>1, <1>3 DEF DiscoveryInv, EtcdTypes
  <2>2. \A j \in Instance : j # i => (Registered(j)' <=> Registered(j))
    BY <2>1 DEF Registered
  <2>3. Registered(i)'
    BY <1>1, <2>1 DEF Registered
  <2>4. /\ ManagerInv' /\ ListingInv' /\ InSync' /\ PutsAreNews' /\ NodesAreHosts'
        /\ events' \in Seq(Event) /\ unseen' \subseteq Tracked /\ doubled' \subseteq Instance
    BY <1>2, <1>3, <2>2, <2>3, NotifyKeeps
  <2>5. EtcdTypes'
    BY <1>2, <2>1, <2>4 DEF DiscoveryInv, EtcdTypes
  <2> QED
    BY <2>4, <2>5 DEF DiscoveryInv
<1>4. CASE UNCHANGED <<registry, events, ghosts>>
  <2>1. UNCHANGED <<services, hosts, nodes, idx, channels, chosen, registry, events, phase,
                    listed, unseen, doubled, orphans>>
    BY <1>2, <1>4 DEF ghosts, managerVars
  <2>2. ManagerInv' /\ NodesAreHosts'
    BY <2>1, TableStays DEF DiscoveryInv
  <2>3. EtcdTypes'
    BY <1>2, <2>1 DEF DiscoveryInv, EtcdTypes
  <2>4. ListingInv' /\ InSync' /\ PutsAreNews'
    BY <2>1 DEF DiscoveryInv, ListingInv, InSync, PutsAreNews, Known, KnownAfterEvents,
       InTable, Registered
  <2> QED
    BY <2>2, <2>3, <2>4 DEF DiscoveryInv
<1> QED
  BY <1>3, <1>4 DEF Register

LEMMA ExpireStep ==
  ASSUME DiscoveryInv, NEW o \in orphans, Expire(o)
  PROVE  DiscoveryInv'
<1> DEFINE i == o.inst
<1>1. o \in [inst : Instance, lease : 1..MaxLeases] /\ i \in Instance /\ MaxLeases \in Nat
  BY DiscoveryAssumption DEF DiscoveryInv, EtcdTypes
<1>2. CASE /\ registry' = [registry EXCEPT ![i] = 0]
           /\ Notify("DELETE", i)
  <2>1. /\ registry' \in [Instance -> 0..MaxLeases] /\ registry'[i] = 0
        /\ \A j \in Instance : j # i => registry'[j] = registry[j]
    BY <1>1, <1>2 DEF DiscoveryInv, EtcdTypes
  <2>2. /\ \A j \in Instance : j # i => (Registered(j)' <=> Registered(j))
        /\ ~Registered(i)'
    BY <2>1 DEF Registered
  <2>3. /\ ManagerInv' /\ ListingInv' /\ InSync' /\ PutsAreNews' /\ NodesAreHosts'
        /\ events' \in Seq(Event) /\ unseen' \subseteq Tracked /\ doubled' \subseteq Instance
    BY <1>1, <1>2, <2>2, NotifyKeeps DEF Expire
  <2>4. EtcdTypes'
    BY <2>1, <2>3 DEF DiscoveryInv, EtcdTypes, Expire
  <2> QED
    BY <2>3, <2>4 DEF DiscoveryInv
<1>3. CASE UNCHANGED <<registry, events, ghosts>>
  <2>1. UNCHANGED <<services, hosts, nodes, idx, channels, chosen, registry, events, phase,
                    listed, unseen, doubled, lease, leases>>
    BY <1>3 DEF Expire, ghosts, managerVars
  <2>2. ManagerInv' /\ NodesAreHosts'
    BY <2>1, TableStays DEF DiscoveryInv
  <2>3. EtcdTypes'
    BY <2>1 DEF DiscoveryInv, EtcdTypes, Expire
  <2>4. ListingInv' /\ InSync' /\ PutsAreNews'
    BY <2>1 DEF DiscoveryInv, ListingInv, InSync, PutsAreNews, Known, KnownAfterEvents,
       InTable, Registered
  <2> QED
    BY <2>2, <2>3, <2>4 DEF DiscoveryInv
<1> QED
  BY <1>2, <1>3 DEF Expire

LEMMA DieStep ==
  ASSUME DiscoveryInv, NEW i \in Instance, Die(i)
  PROVE  DiscoveryInv'
<1>1. UNCHANGED <<services, hosts, nodes, idx, channels, chosen, registry, events, phase,
                  listed, unseen, doubled, leases>>
  BY DEF Die, ghosts, managerVars, discoveryVars
<1>2. lease[i] \in 1..MaxLeases
  BY DiscoveryAssumption DEF Die, DiscoveryInv, EtcdTypes
<1>3. EtcdTypes'
  BY <1>1, <1>2, DiscoveryAssumption DEF DiscoveryInv, EtcdTypes, Die
<1>4. ManagerInv' /\ NodesAreHosts'
  BY <1>1, TableStays DEF DiscoveryInv
<1>5. ListingInv' /\ InSync' /\ PutsAreNews'
  BY <1>1 DEF DiscoveryInv, ListingInv, InSync, PutsAreNews, Known, KnownAfterEvents,
     InTable, Registered
<1> QED
  BY <1>3, <1>4, <1>5 DEF DiscoveryInv

LEMMA LsStep ==
  ASSUME DiscoveryInv, Ls
  PROVE  DiscoveryInv'
<1>1. UNCHANGED <<services, hosts, nodes, idx, channels, chosen, registry, lease, orphans,
                  leases, events, unseen, doubled>>
  BY DEF Ls, ghosts, managerVars, etcdVars
<1>2. listed' \subseteq Instance /\ phase = "start" /\ phase' = "listing"
  BY DEF Ls
<1>3. ManagerInv' /\ NodesAreHosts' /\ \A j \in Instance : InTable(j)' <=> InTable(j)
  BY <1>1, TableStays DEF DiscoveryInv
<1>4. EtcdTypes'
  BY <1>1, <1>2 DEF DiscoveryInv, EtcdTypes
<1>5. ListingInv' /\ InSync'
  BY <1>1, <1>2, <1>3 DEF DiscoveryInv, ListingInv, InSync
<1>6. PutsAreNews'
  <2>1. events' = <<>>
    BY <1>1, <1>2 DEF DiscoveryInv, ListingInv
  <2> QED
    BY <2>1 DEF PutsAreNews
<1> QED
  BY <1>3, <1>4, <1>5, <1>6 DEF DiscoveryInv

LEMMA PutListedStep ==
  ASSUME DiscoveryInv, NEW i \in Instance, PutListed(i)
  PROVE  DiscoveryInv'
<1>1. /\ UNCHANGED <<registry, lease, orphans, leases, events, phase, unseen, doubled>>
      /\ phase = "listing" /\ i \in listed /\ listed' = listed \ {i} /\ OnServiceOnline(i)
  BY DEF PutListed, ghosts, etcdVars
<1>2. ~InTable(i)
  BY <1>1 DEF DiscoveryInv, ListingInv
<1>3. ManagerInv'
  BY <1>1, OnlineKeeps DEF DiscoveryInv
<1>4. NodesAreHosts'
  BY <1>1, <1>2, OnlineNodes DEF DiscoveryInv
<1>5. \A j \in Instance : j # i => (InTable(j)' <=> InTable(j))
  BY <1>1, OnlineTable DEF DiscoveryInv
<1>6. EtcdTypes'
  BY <1>1 DEF DiscoveryInv, EtcdTypes
<1>7. ListingInv' /\ InSync'
  <2>1. \A j \in listed' : ~InTable(j)'
    BY <1>1, <1>5 DEF DiscoveryInv, ListingInv, EtcdTypes
  <2> QED
    BY <1>1, <2>1 DEF DiscoveryInv, ListingInv, InSync
<1>8. PutsAreNews'
  <2>1. events' = <<>>
    BY <1>1 DEF DiscoveryInv, ListingInv
  <2> QED
    BY <2>1 DEF PutsAreNews
<1> QED
  BY <1>3, <1>4, <1>6, <1>7, <1>8 DEF DiscoveryInv

LEMMA WatchStep ==
  ASSUME DiscoveryInv, Watch
  PROVE  DiscoveryInv'
<1>1. /\ UNCHANGED <<services, hosts, nodes, idx, channels, chosen, registry, lease, orphans,
                     leases, events, listed, doubled>>
      /\ phase = "listing" /\ listed = {} /\ phase' = "watching"
      /\ unseen' = {i \in Tracked : Registered(i) # InTable(i)}
  BY DEF Watch, managerVars, etcdVars
<1>2. ManagerInv' /\ NodesAreHosts' /\ \A j \in Instance : InTable(j)' <=> InTable(j)
  BY <1>1, TableStays DEF DiscoveryInv
<1>3. events' = <<>>
  BY <1>1 DEF DiscoveryInv, ListingInv
<1>4. EtcdTypes'
  BY <1>1 DEF DiscoveryInv, EtcdTypes
<1>5. ListingInv' /\ PutsAreNews'
  BY <1>1, <1>3 DEF ListingInv, PutsAreNews
<1>6. InSync'
  <2> SUFFICES ASSUME NEW j \in Tracked \ unseen'
               PROVE  KnownAfterEvents(j)' <=> Registered(j)'
    BY DEF InSync
  <2>1. j \in Instance /\ (Registered(j) <=> InTable(j))
    BY <1>1 DEF Tracked, Registered, InTable
  <2>2. KnownAfterEvents(j)' <=> InTable(j)'
    BY <1>3 DEF KnownAfterEvents
  <2> QED
    BY <1>1, <1>2, <2>1, <2>2 DEF Registered
<1> QED
  BY <1>2, <1>4, <1>5, <1>6 DEF DiscoveryInv

LEMMA CallbackStep ==
  ASSUME DiscoveryInv, Callback
  PROVE  DiscoveryInv'
<1> DEFINE N == Len(events)
<1>1. /\ UNCHANGED <<registry, lease, orphans, leases, phase, listed, unseen, doubled>>
      /\ events \in Seq(Event) /\ events # <<>> /\ events' = Tail(events)
  BY DEF Callback, DiscoveryInv, EtcdTypes, ghosts, etcdVars, discoveryVars
<1>2. /\ N \in Nat /\ N >= 1 /\ Len(events') = N - 1 /\ events' \in Seq(Event)
      /\ events[1] \in Event /\ \A k \in 1..(N - 1) : events'[k] = events[k + 1]
  BY <1>1
<1>3. PICK i \in Instance :
        /\ events[1].inst = i /\ events[1].type \in {"PUT", "DELETE"}
        /\ events[1] = [type |-> events[1].type, inst |-> i]
  BY <1>2 DEF Event
<1>4. \/ events[1].type = "PUT" /\ OnServiceOnline(i)
      \/ events[1].type = "DELETE" /\ OnServiceOffline(i)
  BY <1>1, <1>3 DEF Callback
<1>5. phase = "watching" /\ listed = {}
  BY <1>1 DEF DiscoveryInv, ListingInv, EtcdTypes
<1>6. ManagerInv'
  BY <1>3, <1>4, OnlineKeeps, OfflineKeeps DEF DiscoveryInv
<1>7. /\ \A j \in Instance : j # i => (InTable(j)' <=> InTable(j))
      /\ events[1].type = "PUT" /\ i \in Tracked => InTable(i)'
      /\ events[1].type = "DELETE" => ~InTable(i)'
  BY <1>3, <1>4, OnlineTable, OfflineTable DEF DiscoveryInv
<1>8. NodesAreHosts'
  <2>1. CASE events[1].type = "PUT" /\ OnServiceOnline(i)
    <3>1. i \notin doubled => ~Known(events, i, 1 - 1, InTable(i))
      BY <1>2, <1>3, <2>1 DEF DiscoveryInv, PutsAreNews
    <3>2. i \notin doubled => ~InTable(i)
      BY <3>1 DEF Known
    <3> QED
      BY <1>1, <1>3, <2>1, <3>2, OnlineNodes DEF DiscoveryInv
  <2>2. CASE events[1].type = "DELETE" /\ OnServiceOffline(i)
    BY <1>1, <1>3, <2>2, OfflineNodes DEF DiscoveryInv
  <2> QED
    BY <1>4, <2>1, <2>2
<1>9. EtcdTypes' /\ ListingInv'
  BY <1>1, <1>2, <1>5 DEF DiscoveryInv, EtcdTypes, ListingInv
<1> HIDE DEF N
<1>10. ASSUME NEW j \in Instance, NEW n \in 0..(N - 1)
       PROVE  /\ Known(events', j, n, InTable(j)') => Known(events, j, n + 1, InTable(j))
              /\ j \in Tracked =>
                   (Known(events, j, n + 1, InTable(j)) => Known(events', j, n, InTable(j)'))
  <2> DEFINE was == IF events[1].inst = j THEN events[1].type = "PUT" ELSE InTable(j)
  <2>1. InTable(j) \in BOOLEAN /\ InTable(j)' \in BOOLEAN
    BY DEF InTable
  <2>2. InTable(j)' => was
    BY <1>3, <1>7
  <2>3. j \in Tracked => (was => InTable(j)')
    BY <1>3, <1>7
  <2> HIDE DEF was
  <2>4. /\ (InTable(j)' => was)
           => (Known(Tail(events), j, n, InTable(j)') => Known(events, j, n + 1, InTable(j)))
        /\ (was => InTable(j)')
           => (Known(events, j, n + 1, InTable(j)) => Known(Tail(events), j, n, InTable(j)'))
    BY <1>1, <2>1, KnownTail DEF was, N
  <2> QED
    BY <1>1, <2>2, <2>3, <2>4
<1>11. InSync'
  <2> SUFFICES ASSUME NEW j \in Tracked \ unseen'
               PROVE  KnownAfterEvents(j)' <=> Registered(j)'
    BY DEF InSync
  <2>1. j \in Instance /\ j \in Tracked \ unseen
    BY <1>1 DEF Tracked
  <2>2. KnownAfterEvents(j)' <=> Known(events', j, N - 1, InTable(j)')
    BY <1>2, <2>1 DEF KnownAfterEvents, Known, N
  <2>3. KnownAfterEvents(j) <=> Known(events, j, N, InTable(j))
    BY <2>1, KnownIsAfterEvents DEF N
  <2>4. KnownAfterEvents(j) <=> Registered(j)
    BY <1>5, <2>1 DEF DiscoveryInv, InSync
  <2>5. N - 1 \in 0..(N - 1) /\ (N - 1) + 1 = N
    BY <1>2 DEF N
  <2>6. Known(events', j, N - 1, InTable(j)') <=> Known(events, j, N, InTable(j))
    BY <1>10, <2>1, <2>5
  <2> QED
    BY <1>1, <2>2, <2>3, <2>4, <2>6 DEF Registered
<1>12. PutsAreNews'
  <2> SUFFICES ASSUME NEW j \in Instance \ doubled', NEW k \in 1..Len(events'),
                      events'[k] = [type |-> "PUT", inst |-> j]
               PROVE  ~Known(events', j, k - 1, InTable(j)')
    BY DEF PutsAreNews
  <2>1. k + 1 \in 1..N /\ k - 1 \in 0..(N - 1) /\ (k - 1) + 1 = (k + 1) - 1
    BY <1>2 DEF N
  <2>2. events[k + 1] = [type |-> "PUT", inst |-> j]
    BY <1>2 DEF N
  <2>3. ~Known(events, j, (k + 1) - 1, InTable(j))
    BY <1>1, <2>1, <2>2 DEF DiscoveryInv, PutsAreNews, N
  <2> QED
    BY <1>10, <2>1, <2>3
<1> QED
  BY <1>6, <1>8, <1>9, <1>11, <1>12 DEF DiscoveryInv

LEMMA FailedNoticeStep ==
  ASSUME DiscoveryInv, FailedNotice
  PROVE  DiscoveryInv'
<1> DEFINE N == Len(events)
<1>1. /\ UNCHANGED <<services, hosts, nodes, idx, channels, chosen, registry, lease, orphans,
                     leases, phase, listed>>
      /\ events \in Seq(Event) /\ events # <<>> /\ events' = Tail(events)
  BY DEF FailedNotice, DiscoveryInv, EtcdTypes, managerVars, etcdVars, discoveryVars
<1>2. /\ N \in Nat /\ N >= 1 /\ Len(events') = N - 1 /\ events' \in Seq(Event)
      /\ events[1] \in Event /\ \A k \in 1..(N - 1) : events'[k] = events[k + 1]
  BY <1>1
<1> HIDE DEF N
<1>3. PICK i \in Instance : events[1].inst = i /\ events[1].type \in {"PUT", "DELETE"}
  BY <1>2 DEF Event
<1> DEFINE later == \E k \in 1..Len(Tail(events)) : Tail(events)[k].inst = i
<1>13. /\ unseen' = IF later THEN unseen ELSE unseen \cup ({i} \cap Tracked)
       /\ doubled' = IF later /\ events[1].type = "DELETE" THEN doubled \cup {i} ELSE doubled
  <2>1. Head(events) = events[1]
    BY <1>1
  <2> QED
    BY <1>3, <2>1 DEF FailedNotice
<1>4. later <=> \E k \in 1..(N - 1) : events'[k].inst = i
  BY <1>1, <1>2
<1> HIDE DEF later
<1>5. phase = "watching" /\ listed = {}
  BY <1>1 DEF DiscoveryInv, ListingInv, EtcdTypes
<1>6. doubled \subseteq doubled' /\ doubled' \subseteq Instance /\ unseen' \subseteq Tracked
      /\ unseen \subseteq unseen'
  BY <1>3, <1>13 DEF DiscoveryInv, EtcdTypes
<1>7. ManagerInv' /\ NodesAreHosts' /\ \A j \in Instance : InTable(j)' <=> InTable(j)
  BY <1>1, <1>6, TableStays DEF DiscoveryInv
<1>8. EtcdTypes' /\ ListingInv'
  BY <1>1, <1>2, <1>5, <1>6 DEF DiscoveryInv, EtcdTypes, ListingInv
<1>9. ASSUME NEW j \in Instance, NEW n \in 0..(N - 1)
      PROVE  /\ j # i => (Known(events', j, n, InTable(j)') <=> Known(events, j, n + 1, InTable(j)))
             /\ events[1].type = "PUT" =>
                  (Known(events', j, n, InTable(j)') => Known(events, j, n + 1, InTable(j)))
  <2> DEFINE was == IF events[1].inst = j THEN events[1].type = "PUT" ELSE InTable(j)
  <2>1. InTable(j) \in BOOLEAN /\ InTable(j)' \in BOOLEAN /\ (InTable(j)' <=> InTable(j))
    BY <1>7 DEF InTable
  <2>2. /\ j # i => (was <=> InTable(j)')
        /\ events[1].type = "PUT" => (InTable(j)' => was)
    BY <1>3, <2>1
  <2> HIDE DEF was
  <2>3. /\ (InTable(j)' => was)
           => (Known(Tail(events), j, n, InTable(j)') => Known(events, j, n + 1, InTable(j)))
        /\ (was => InTable(j)')
           => (Known(events, j, n + 1, InTable(j)) => Known(Tail(events), j, n, InTable(j)'))
    BY <1>1, <2>1, KnownTail DEF was, N
  <2> QED
    BY <1>1, <2>2, <2>3
<1>10. ASSUME later
       PROVE  KnownAfterEvents(i)' <=> KnownAfterEvents(i)
  <2>1. PICK m \in 1..(N - 1) : events'[m].inst = i
    BY <1>4, <1>10
  <2>2. m + 1 \in 1..N /\ m + 1 > 1 /\ events[m + 1].inst = i
    BY <1>2, <2>1
  <2>3. KnownAfterEvents(i)' <=>
          \E k \in 1..(N - 1) : /\ events'[k] = [type |-> "PUT", inst |-> i]
                               /\ \A l \in 1..(N - 1) : l > k => events'[l].inst # i
    BY <1>2, <2>1 DEF KnownAfterEvents
  <2>4. KnownAfterEvents(i) <=>
          \E k \in 1..N : /\ events[k] = [type |-> "PUT", inst |-> i]
                         /\ \A l \in 1..N : l > k => events[l].inst # i
    BY <2>2 DEF KnownAfterEvents, N
  <2>5. ASSUME NEW k \in 1..(N - 1), events'[k] = [type |-> "PUT", inst |-> i],
               \A l \in 1..(N - 1) : l > k => events'[l].inst # i
        PROVE  KnownAfterEvents(i)
    <3>1. k + 1 \in 1..N /\ events[k + 1] = [type |-> "PUT", inst |-> i]
      BY <1>2, <2>5
    <3>2. ASSUME NEW l \in 1..N, l > k + 1
          PROVE  events[l].inst # i
      <4>1. l - 1 \in 1..(N - 1) /\ l - 1 > k /\ (l - 1) + 1 = l
        BY <1>2, <3>2
      <4>2. events'[l - 1] = events[l]
        BY <1>2, <4>1
      <4> QED
        BY <2>5, <4>1, <4>2
    <3> QED
      BY <2>4, <3>1, <3>2
  <2>6. ASSUME NEW k \in 1..N, events[k] = [type |-> "PUT", inst |-> i],
               \A l \in 1..N : l > k => events[l].inst # i
        PROVE  KnownAfterEvents(i)'
    <3>1. k # 1
      BY <2>2, <2>6
    <3>2. k - 1 \in 1..(N - 1) /\ (k - 1) + 1 = k
      BY <1>2, <3>1
    <3>3. events'[k - 1] = [type |-> "PUT", inst |-> i]
      BY <1>2, <2>6, <3>2
    <3>4. ASSUME NEW l \in 1..(N - 1), l > k - 1
          PROVE  events'[l].inst # i
      <4>1. l + 1 \in 1..N /\ l + 1 > k
        BY <1>2, <3>4
      <4> QED
        BY <1>2, <2>6, <4>1
    <3> QED
      BY <2>3, <3>2, <3>3, <3>4
  <2> QED
    BY <2>3, <2>4, <2>5, <2>6
<1>11. InSync'
  <2> SUFFICES ASSUME NEW j \in Tracked \ unseen'
               PROVE  KnownAfterEvents(j)' <=> Registered(j)'
    BY DEF InSync
  <2>1. j \in Instance /\ j \in Tracked \ unseen
    BY <1>6 DEF Tracked
  <2>2. KnownAfterEvents(j) <=> Registered(j)
    BY <1>5, <2>1 DEF DiscoveryInv, InSync
  <2>3. CASE j = i
    <3>1. later
      BY <1>3, <1>13, <2>1, <2>3 DEF Tracked
    <3> QED
      BY <1>1, <1>10, <2>2, <2>3, <3>1 DEF Registered
  <2>4. CASE j # i
    <3>1. KnownAfterEvents(j)' <=> Known(events', j, N - 1, InTable(j)')
      BY <1>2, <2>1 DEF KnownAfterEvents, Known, N
    <3>2. KnownAfterEvents(j) <=> Known(events, j, N, InTable(j))
      BY <2>1, KnownIsAfterEvents DEF N
    <3>3. N - 1 \in 0..(N - 1) /\ (N - 1) + 1 = N
      BY <1>2
    <3>4. Known(events', j, N - 1, InTable(j)') <=> Known(events, j, N, InTable(j))
      BY <1>9, <2>1, <2>4, <3>3
    <3> QED
      BY <1>1, <2>2, <3>1, <3>2, <3>4 DEF Registered
  <2> QED
    BY <2>3, <2>4
<1>12. PutsAreNews'
  <2> SUFFICES ASSUME NEW j \in Instance \ doubled', NEW k \in 1..Len(events'),
                      events'[k] = [type |-> "PUT", inst |-> j]
               PROVE  ~Known(events', j, k - 1, InTable(j)')
    BY DEF PutsAreNews
  <2>1. /\ k \in 1..(N - 1) /\ k + 1 \in 1..N /\ k - 1 \in 0..(N - 1)
        /\ (k - 1) + 1 = (k + 1) - 1
    BY <1>2
  <2>2. events[k + 1] = [type |-> "PUT", inst |-> j]
    BY <1>2, <2>1
  <2>3. ~Known(events, j, (k + 1) - 1, InTable(j))
    BY <1>6, <2>1, <2>2 DEF DiscoveryInv, PutsAreNews, N
  <2>4. j = i => events[1].type = "PUT"
    <3>1. j = i => later
      BY <1>4, <2>1
    <3> QED
      BY <1>3, <1>13, <3>1
  <2> QED
    BY <1>9, <2>1, <2>3, <2>4
<1> QED
  BY <1>7, <1>8, <1>11, <1>12 DEF DiscoveryInv

LEMMA ChooseStep ==
  ASSUME DiscoveryInv, NEW s \in Service, Choose(s)
  PROVE  DiscoveryInv'
<1>1. UNCHANGED <<hosts, nodes, registry, lease, orphans, leases, events, phase, listed,
                  unseen, doubled>>
  BY DEF Choose, ChooseNode, etcdVars, discoveryVars, ghosts
<1>2. ManagerInv'
  BY ChooseKeeps DEF Choose, DiscoveryInv
<1>3. EtcdTypes'
  BY <1>1 DEF DiscoveryInv, EtcdTypes
<1>4. NodesAreHosts'
  BY <1>1 DEF DiscoveryInv, NodesAreHosts
<1>5. ListingInv' /\ InSync' /\ PutsAreNews'
  BY <1>1 DEF DiscoveryInv, ListingInv, InSync, PutsAreNews, Known, KnownAfterEvents,
     InTable, Registered
<1> QED
  BY <1>2, <1>3, <1>4, <1>5 DEF DiscoveryInv

LEMMA DiscoveryStep == DiscoveryInv /\ [Next]_vars => DiscoveryInv'
<1> SUFFICES ASSUME DiscoveryInv, [Next]_vars
             PROVE  DiscoveryInv'
  OBVIOUS
<1>1. CASE \E i \in Instance : Register(i)
  BY <1>1, RegisterStep
<1>2. CASE \E i \in Instance : Die(i)
  BY <1>2, DieStep
<1>3. CASE \E o \in orphans : Expire(o)
  BY <1>3, ExpireStep
<1>4. CASE Ls
  BY <1>4, LsStep
<1>5. CASE \E i \in Instance : PutListed(i)
  BY <1>5, PutListedStep
<1>6. CASE Watch
  BY <1>6, WatchStep
<1>7. CASE Callback
  BY <1>7, CallbackStep
<1>8. CASE \E s \in Service : Choose(s)
  BY <1>8, ChooseStep
<1>10. CASE FailedNotice
  BY <1>10, FailedNoticeStep
<1>9. CASE UNCHANGED vars
  <2>1. UNCHANGED <<services, hosts, nodes, idx, channels, chosen, registry, lease, orphans,
                    leases, events, phase, listed, unseen, doubled>>
    BY <1>9 DEF vars, managerVars, etcdVars, discoveryVars, ghosts
  <2>2. ManagerInv' /\ NodesAreHosts'
    BY <2>1, TableStays DEF DiscoveryInv
  <2>3. EtcdTypes' /\ ListingInv' /\ InSync' /\ PutsAreNews'
    BY <2>1 DEF DiscoveryInv, EtcdTypes, ListingInv, InSync, PutsAreNews, Known,
       KnownAfterEvents, InTable, Registered
  <2> QED
    BY <2>2, <2>3 DEF DiscoveryInv
<1> QED
  BY <1>1, <1>2, <1>3, <1>4, <1>5, <1>6, <1>7, <1>8, <1>9, <1>10 DEF Next

(* The inductive invariant holds in every reachable state.                 *)
THEOREM DiscoveryInductive == Spec => []DiscoveryInv
BY DiscoveryInit, DiscoveryStep, PTL DEF Spec

-----------------------------------------------------------------------------
(* The turns.  For a list whose pointer is where the choices left it, the  *)
(* nodes from the pointer on come first and then those before it; a node   *)
(* that was chosen since another comes after that one.                     *)
Before(j, k, x) == IF k <= x THEN j > x \/ j < k ELSE j > x /\ j < k

TurnsOK(s) ==
  /\ idx[s] = 0 \/ idx[s] < Len(nodes[s])
  /\ \A j, k \in 1..Len(nodes[s]) :
       <<nodes[s][j], nodes[s][k]>> \in passed[s] => Before(k, j, idx[s])

TurnTypes ==
  /\ passed \in [Service -> SUBSET (Channel \X Channel)]
  /\ skewed \subseteq Service
  /\ strayed \subseteq Service

PassedFit ==
  \A s \in Service : \A p \in passed[s] : p[1].id <= channels /\ p[2].id <= channels

TurnInv ==
  /\ TurnTypes /\ PassedFit
  /\ \A s \in Service \ (skewed \cup strayed) : TurnsOK(s)

LEMMA TurnInit == Init => TurnInv
<1> SUFFICES ASSUME Init
             PROVE  TurnInv
  OBVIOUS
<1> QED
  BY DEF Init, InitManager, TurnInv, TurnTypes, PassedFit, TurnsOK

LEMMA TurnStays ==
  ASSUME TurnInv, UNCHANGED <<nodes, idx, channels, turns>>
  PROVE  TurnInv'
BY DEF TurnInv, TurnTypes, PassedFit, TurnsOK, turns

(* What is known of a list before it changes.                              *)
LEMMA ListFacts ==
  ASSUME ManagerInv, NEW s \in Service
  PROVE  /\ nodes[s] \in Seq(Channel) /\ Len(nodes[s]) \in Nat
         /\ idx[s] \in Nat /\ channels \in Nat
         /\ \A k \in 1..Len(nodes[s]) :
              /\ nodes[s][k] \in Channel /\ nodes[s][k].id \in Nat
              /\ nodes[s][k].id <= channels
         /\ \A j, k \in 1..Len(nodes[s]) : nodes[s][j] = nodes[s][k] => j = k
<1>1. nodes[s] \in Seq(Channel) /\ Len(nodes[s]) \in Nat
  BY DEF ManagerInv, TableTypes
<1>2. idx[s] \in Nat /\ channels \in Nat
  BY ServiceAssumption DEF ManagerInv, TableTypes
<1>3. \A k \in 1..Len(nodes[s]) : nodes[s][k] \in Channel /\ nodes[s][k].id \in Nat
  <2> SUFFICES ASSUME NEW k \in 1..Len(nodes[s])
               PROVE  nodes[s][k] \in Channel /\ nodes[s][k].id \in Nat
    OBVIOUS
  <2>1. nodes[s][k] \in Channel
    BY <1>1
  <2> QED
    BY <2>1, ServiceAssumption DEF Channel
<1>4. \A k \in 1..Len(nodes[s]) : nodes[s][k].id <= channels
  BY DEF ManagerInv, NodesFit
<1>5. \A j, k \in 1..Len(nodes[s]) : nodes[s][j] = nodes[s][k] => j = k
  BY DEF ManagerInv, NodesDistinct
<1> QED
  BY <1>1, <1>2, <1>3, <1>4, <1>5

LEMMA TurnOnline ==
  ASSUME ManagerInv, TurnInv, NEW i \in Instance, OnServiceOnline(i)
  PROVE  TurnInv'
<1> DEFINE s == GetServiceName(i)
           node == [host |-> i, id |-> channels + 1]
<1>0. s \in Service
  BY ServiceAssumption
<1>1. CASE UNCHANGED <<nodes, idx, channels, turns>>
  BY <1>1, TurnStays
<1>2. CASE AppendHost(s, i) /\ UNCHANGED idx
  <2>1. /\ channels' = channels + 1 /\ channels' \in 0..MaxChannels
        /\ \A t \in Service \ {s} : nodes'[t] = nodes[t]
        /\ Len(nodes'[s]) = Len(nodes[s]) + 1 /\ Len(nodes[s]) \in Nat
        /\ \A k \in 1..Len(nodes[s]) : nodes'[s][k] = nodes[s][k]
        /\ nodes'[s][Len(nodes[s]) + 1] = node
    BY <1>0, <1>2, AppendPositions DEF ManagerInv
  <2>2. UNCHANGED <<idx, passed, skewed, strayed>> /\ channels \in Nat
    BY <1>0, <1>2, ListFacts DEF AppendHost, turns
  <2>3. node.id = channels + 1
    OBVIOUS
  <2> HIDE DEF s, node
  <2>4. TurnTypes'
    BY <2>2 DEF TurnInv, TurnTypes
  <2>5. PassedFit'
    <3> SUFFICES ASSUME NEW t \in Service, NEW p \in passed[t]
                 PROVE  p[1].id <= channels' /\ p[2].id <= channels'
      BY <2>2 DEF PassedFit
    <3>1. p \in Channel \X Channel
      BY DEF TurnInv, TurnTypes
    <3>2. p[1].id \in Nat /\ p[2].id \in Nat
      BY <3>1, ServiceAssumption DEF Channel
    <3>3. p[1].id <= channels /\ p[2].id <= channels
      BY DEF TurnInv, PassedFit
    <3> QED
      BY <2>1, <2>2, <3>2, <3>3
  <2>6. ASSUME NEW t \in Service \ (skewed' \cup strayed')
        PROVE  TurnsOK(t)'
    <3>1. TurnsOK(t)
      BY <2>2 DEF TurnInv
    <3>2. CASE t # s
      BY <2>1, <2>2, <3>1, <3>2 DEF TurnsOK
    <3>3. CASE t = s
      <4>1. idx[s] \in Nat
        BY <1>0, ListFacts DEF s
      <4>2. idx'[s] = 0 \/ idx'[s] < Len(nodes'[s])
        BY <2>1, <2>2, <3>1, <3>3, <4>1 DEF TurnsOK
      <4>3. ASSUME NEW j \in 1..Len(nodes'[s]), NEW k \in 1..Len(nodes'[s]),
                   <<nodes'[s][j], nodes'[s][k]>> \in passed'[s]
            PROVE  Before(k, j, idx'[s])
        <5>1. nodes'[s][j].id <= channels /\ nodes'[s][k].id <= channels
          BY <1>0, <2>2, <4>3 DEF TurnInv, PassedFit
        <5>2. j \in 1..Len(nodes[s]) /\ k \in 1..Len(nodes[s])
          BY <2>1, <2>2, <2>3, <5>1
        <5>3. <<nodes[s][j], nodes[s][k]>> \in passed[s]
          BY <2>1, <2>2, <4>3, <5>2
        <5> QED
          BY <2>2, <3>1, <3>3, <5>2, <5>3 DEF TurnsOK
      <4> QED
        BY <3>3, <4>2, <4>3 DEF TurnsOK
    <3> QED
      BY <3>2, <3>3
  <2> QED
    BY <2>4, <2>5, <2>6 DEF TurnInv
<1> QED
  BY <1>1, <1>2 DEF OnServiceOnline, managerVars

LEMMA TurnOffline ==
  ASSUME ManagerInv, TurnInv, NEW i \in Instance, OnServiceOffline(i)
  PROVE  TurnInv'
<1> DEFINE s == GetServiceName(i)
           c == hosts[s][i]
<1>0. s \in Service
  BY ServiceAssumption
<1>1. CASE UNCHANGED <<nodes, idx, channels, turns>>
  BY <1>1, TurnStays
<1>2. CASE hosts[s][i] # NoChannel /\ RemoveHost(s, i) /\ UNCHANGED <<idx, channels>>
  <2>1. PICK p \in 1..Len(nodes[s]) :
           /\ nodes[s][p] = hosts[s][i]
           /\ nodes' \in [Service -> Seq(Channel)]
           /\ \A t \in Service \ {s} : nodes'[t] = nodes[t]
           /\ Len(nodes'[s]) = Len(nodes[s]) - 1
           /\ \A k \in 1..Len(nodes'[s]) :
                /\ nodes'[s][k] = nodes[s][IF k < p THEN k ELSE k + 1]
                /\ (IF k < p THEN k ELSE k + 1) \in 1..Len(nodes[s]) \ {p}
           /\ hosts' \in [Service -> [Instance -> Channel \cup {NoChannel}]]
           /\ \A t \in Service, j \in Instance :
                hosts'[t][j] = IF t = s /\ j = i THEN NoChannel ELSE hosts[t][j]
    BY <1>0, <1>2, RemovePositions
  <2>2. /\ idx' = idx /\ channels' = channels
        /\ passed' = [passed EXCEPT ![s] = {q \in @ : c \notin {q[1], q[2]}}]
        /\ skewed' = IF \E k \in 1..Len(nodes[s]) : nodes[s][k] = c /\ k <= idx[s]
                     THEN skewed \cup {s} ELSE skewed
        /\ strayed' = IF idx[s] > 0 /\ idx[s] >= Len(nodes[s]) - 1
                      THEN strayed \cup {s} ELSE strayed
    BY <1>2 DEF RemoveHost
  <2> HIDE DEF s, c
  <2>3. /\ passed' \in [Service -> SUBSET (Channel \X Channel)]
        /\ \A t \in Service : passed'[t] \subseteq passed[t]
    BY <1>0, <2>2 DEF TurnInv, TurnTypes
  <2>4. TurnTypes' /\ skewed \subseteq skewed' /\ strayed \subseteq strayed'
    BY <1>0, <2>2, <2>3 DEF TurnInv, TurnTypes
  <2>5. PassedFit'
    BY <2>2, <2>3 DEF TurnInv, PassedFit
  <2>6. ASSUME NEW t \in Service \ (skewed' \cup strayed')
        PROVE  TurnsOK(t)'
    <3>1. TurnsOK(t)
      BY <2>4 DEF TurnInv
    <3>2. CASE t # s
      <4>1. nodes'[t] = nodes[t] /\ idx'[t] = idx[t] /\ passed'[t] = passed[t]
        BY <1>0, <2>1, <2>2, <3>2 DEF TurnInv, TurnTypes
      <4> QED
        BY <3>1, <4>1 DEF TurnsOK
    <3>3. CASE t = s
      <4>1. idx[s] \in Nat /\ Len(nodes[s]) \in Nat
        BY <1>0, ListFacts
      <4>2. p > idx[s] /\ ~(idx[s] > 0 /\ idx[s] >= Len(nodes[s]) - 1)
        BY <2>1, <2>2, <3>3, <4>1 DEF c
      <4>3. idx'[s] = 0 \/ idx'[s] < Len(nodes'[s])
        BY <2>1, <2>2, <4>1, <4>2
      <4>4. ASSUME NEW j \in 1..Len(nodes'[s]), NEW k \in 1..Len(nodes'[s]),
                   <<nodes'[s][j], nodes'[s][k]>> \in passed'[s]
            PROVE  Before(k, j, idx'[s])
        <5> DEFINE l == IF j < p THEN j ELSE j + 1
                   m == IF k < p THEN k ELSE k + 1
        <5>1. l \in 1..Len(nodes[s]) /\ m \in 1..Len(nodes[s])
              /\ nodes'[s][j] = nodes[s][l] /\ nodes'[s][k] = nodes[s][m]
          BY <2>1
        <5>2. <<nodes[s][l], nodes[s][m]>> \in passed[s]
          BY <1>0, <2>3, <4>4, <5>1
        <5>3. Before(m, l, idx[s])
          <6> HIDE DEF l, m
          <6> QED
            BY <3>1, <3>3, <5>1, <5>2 DEF TurnsOK
        <5>4. j \in Nat /\ k \in Nat /\ p \in Nat
          BY <2>1, <4>1
        <5> QED
          BY <2>2, <4>1, <4>2, <5>3, <5>4 DEF Before
      <4> QED
        BY <3>3, <4>3, <4>4 DEF TurnsOK
    <3> QED
      BY <3>2, <3>3
  <2> QED
    BY <2>4, <2>5, <2>6 DEF TurnInv
<1> QED
  BY <1>1, <1>2 DEF OnServiceOffline, managerVars

LEMMA ModNext ==
  ASSUME NEW x \in Nat, NEW n \in Nat, x < n
  PROVE  (x + 1) % n = IF x + 1 < n THEN x + 1 ELSE 0
<1>1. CASE x + 1 < n
  BY <1>1
<1>2. CASE x + 1 = n
  BY <1>2
<1> QED
  BY <1>1, <1>2

(* The one node that a choose returns while the pointer is in the list.    *)
LEMMA ChosenNode ==
  ASSUME ManagerInv, NEW s \in Service, TurnsOK(s), nodes[s] # <<>>
  PROVE  /\ idx[s] + 1 \in 1..Len(nodes[s])
         /\ Pick(s) = {nodes[s][idx[s] + 1]}
<1>1. nodes[s] \in Seq(Channel) /\ Len(nodes[s]) \in Nat /\ idx[s] \in Nat
  BY ListFacts
<1>2. Len(nodes[s]) > 0
  BY <1>1
<1>3. idx[s] < Len(nodes[s])
  BY <1>1, <1>2 DEF TurnsOK
<1> QED
  BY <1>1, <1>3 DEF Pick

LEMMA TurnChoose ==
  ASSUME ManagerInv, TurnInv, NEW s \in Service, ChooseNode(s)
  PROVE  TurnInv'
<1>1. UNCHANGED <<nodes, channels, skewed, strayed>>
  BY DEF ChooseNode
<1>2. CASE UNCHANGED <<idx, passed>>
  BY <1>1, <1>2, TurnStays DEF turns
<1>3. CASE /\ nodes[s] = <<>> /\ idx' = idx
           /\ \E c \in Pick(s) : passed' = [passed EXCEPT ![s] = PassedBy(s, c)]
  <2>1. PICK c \in Pick(s) : passed' = [passed EXCEPT ![s] = PassedBy(s, c)]
    BY <1>3
  <2>2. PassedBy(s, c) = passed[s]
    BY <1>3 DEF PassedBy, ToSet
  <2>3. passed' = passed
    BY <2>1, <2>2 DEF TurnInv, TurnTypes
  <2> QED
    BY <1>1, <1>3, <2>3, TurnStays DEF turns
<1>4. CASE /\ nodes[s] # <<>> /\ idx' = [idx EXCEPT ![s] = NextIdx(s)]
           /\ \E c \in Pick(s) : passed' = [passed EXCEPT ![s] = PassedBy(s, c)]
  <2>1. PICK c \in Pick(s) : passed' = [passed EXCEPT ![s] = PassedBy(s, c)]
    BY <1>4
  <2>2. /\ nodes[s] \in Seq(Channel) /\ Len(nodes[s]) \in Nat
        /\ idx[s] \in Nat /\ channels \in Nat
        /\ \A k \in 1..Len(nodes[s]) :
             /\ nodes[s][k] \in Channel /\ nodes[s][k].id \in Nat
             /\ nodes[s][k].id <= channels
        /\ \A j, k \in 1..Len(nodes[s]) : nodes[s][j] = nodes[s][k] => j = k
    BY ListFacts
  <2>3. passed'[s] = PassedBy(s, c) /\ \A t \in Service \ {s} : passed'[t] = passed[t]
    BY <2>1 DEF TurnInv, TurnTypes
  <2>4. ASSUME NEW q \in PassedBy(s, c)
        PROVE  q \in passed[s]
               \/ /\ c \in ToSet(nodes[s])
                  /\ \E d \in ToSet(nodes[s]) \ {c} : q = <<c, d>>
    BY DEF PassedBy
  <2>5. \A d \in ToSet(nodes[s]) : d \in Channel /\ d.id <= channels
    BY <2>2 DEF ToSet
  <2>6. PassedBy(s, c) \in SUBSET (Channel \X Channel)
        /\ \A q \in PassedBy(s, c) : q[1].id <= channels /\ q[2].id <= channels
    BY <2>4, <2>5 DEF TurnInv, TurnTypes, PassedFit
  <2>7. TurnTypes' /\ PassedFit'
    BY <1>1, <2>1, <2>3, <2>6 DEF TurnInv, TurnTypes, PassedFit
  <2>8. ASSUME NEW t \in Service \ (skewed' \cup strayed')
        PROVE  TurnsOK(t)'
    <3>1. TurnsOK(t)
      BY <1>1 DEF TurnInv
    <3>2. CASE t # s
      <4>1. idx'[t] = idx[t] /\ passed'[t] = passed[t] /\ nodes'[t] = nodes[t]
        BY <1>1, <1>4, <2>3, <3>2 DEF ManagerInv, TableTypes
      <4> QED
        BY <3>1, <4>1 DEF TurnsOK
    <3>3. CASE t = s
      <4> DEFINE x == idx[s]
                 n == Len(nodes[s])
      <4>1. x + 1 \in 1..n /\ c = nodes[s][x + 1]
        BY <1>4, <2>1, <3>1, <3>3, ChosenNode
      <4>2. idx'[s] = IF x + 1 < n THEN x + 1 ELSE 0
        <5>1. idx'[s] = (x + 1) % n
          BY <1>4 DEF ManagerInv, TableTypes, NextIdx
        <5>2. x < n
          BY <2>2, <4>1
        <5> QED
          BY <2>2, <5>1, <5>2, ModNext
      <4>3. idx'[s] = 0 \/ idx'[s] < Len(nodes'[s])
        BY <1>1, <4>2
      <4>4. ASSUME NEW j \in 1..n, NEW k \in 1..n,
                   <<nodes[s][j], nodes[s][k]>> \in passed'[s]
            PROVE  Before(k, j, idx'[s])
        <5>1. c \in ToSet(nodes[s])
          BY <4>1 DEF ToSet
        <5>2. \/ /\ <<nodes[s][j], nodes[s][k]>> \in passed[s]
                 /\ nodes[s][k] # c
              \/ nodes[s][j] = c /\ nodes[s][k] # c
          BY <2>3, <4>4, <5>1 DEF PassedBy
        <5>3. CASE nodes[s][j] = c /\ nodes[s][k] # c
          <6>1. j = x + 1 /\ k # x + 1
            BY <2>2, <4>1, <5>3
          <6> QED
            BY <2>2, <4>1, <4>2, <6>1 DEF Before
        <5>4. CASE <<nodes[s][j], nodes[s][k]>> \in passed[s] /\ nodes[s][k] # c
          <6>1. k # x + 1 /\ Before(k, j, x)
            BY <3>1, <3>3, <4>1, <5>4 DEF TurnsOK
          <6> QED
            BY <2>2, <4>1, <4>2, <6>1 DEF Before
        <5> QED
          BY <5>2, <5>3, <5>4
      <4> QED
        BY <1>1, <3>3, <4>3, <4>4 DEF TurnsOK
    <3> QED
      BY <3>2, <3>3
  <2> QED
    BY <2>7, <2>8 DEF TurnInv
<1> QED
  BY <1>2, <1>3, <1>4 DEF ChooseNode

LEMMA TurnStep == DiscoveryInv /\ TurnInv /\ [Next]_vars => TurnInv'
<1> SUFFICES ASSUME DiscoveryInv, TurnInv, [Next]_vars
             PROVE  TurnInv'
  OBVIOUS
<1>0. ManagerInv
  BY DEF DiscoveryInv
<1>1. ASSUME UNCHANGED managerVars
      PROVE  TurnInv'
  BY <1>1, TurnStays DEF managerVars
<1>2. CASE \E i \in Instance : PutListed(i)
  BY <1>0, <1>2, TurnOnline DEF PutListed
<1>3. CASE Callback
  <2>1. events \in Seq(Event) /\ events # <<>>
    BY <1>3 DEF Callback, DiscoveryInv, EtcdTypes
  <2>2. Head(events).inst \in Instance
    <3>1. Head(events) \in Event
      BY <2>1
    <3> QED
      BY <3>1 DEF Event
  <2> QED
    BY <1>0, <1>3, <2>2, TurnOnline, TurnOffline DEF Callback
<1>4. CASE \E s \in Service : Choose(s)
  BY <1>0, <1>4, TurnChoose DEF Choose
<1>5. CASE \/ \E i \in Instance : Register(i) \/ Die(i)
           \/ \E o \in orphans : Expire(o)
           \/ Ls \/ Watch \/ FailedNotice
  BY <1>1, <1>5 DEF Register, Die, Expire, Ls, Watch, FailedNotice
<1>6. CASE UNCHANGED vars
  BY <1>1, <1>6 DEF vars
<1> QED
  BY <1>2, <1>3, <1>4, <1>5, <1>6 DEF Next

LEMMA TurnInductive == Spec => []TurnInv
BY DiscoveryInductive, TurnInit, TurnStep, PTL DEF Spec

-----------------------------------------------------------------------------
(* Every variable of the channel table, of etcd and of the watcher has its *)
(* type in every reachable state.                                          *)
THEOREM DiscoveryTypeCorrect == Spec => []DiscoveryTypeOK
<1>1. DiscoveryInv /\ TurnInv => DiscoveryTypeOK
  BY DEF DiscoveryInv, ManagerInv, TableTypes, EtcdTypes, TurnInv, TurnTypes,
     DiscoveryTypeOK, TypeOK
<1> QED
  BY <1>1, DiscoveryInductive, TurnInductive, PTL

(* No channel object is listed twice, and the channel that _hosts keeps    *)
(* for a host is to that host and still in _nodes, so that remove always   *)
(* finds what it has to delete.  (ServiceChannel::append, remove)          *)
THEOREM TableConsistent == Spec => []TableIsConsistent
<1>1. DiscoveryInv => TableIsConsistent
  BY DEF DiscoveryInv, ManagerInv, TableIsConsistent
<1> QED
  BY <1>1, DiscoveryInductive, PTL

(* While the watch runs, the table and the events on their way together    *)
(* say of every instance whether it is registered, whatever leases were    *)
(* granted, lost or outlived: only changes between ls and watch escape.    *)
(* (Discovery::Discovery, Discovery::callback)                             *)
THEOREM StaysInSync == Spec => []InSync
<1>1. DiscoveryInv => InSync
  BY DEF DiscoveryInv
<1> QED
  BY <1>1, DiscoveryInductive, PTL

(* A host that went offline has no channel left in _nodes, and one that is *)
(* online has exactly one, as long as its PUTs alternate with DELETEs.     *)
(* (ServiceChannel::append, remove)                                        *)
THEOREM NodesMirror == Spec => []NodesMirrorHosts
<1>1. DiscoveryInv => NodesMirrorHosts
  <2> SUFFICES ASSUME DiscoveryInv, NEW s \in Service, NEW i \in Instance \ doubled
               PROVE  {c \in ToSet(nodes[s]) : c.host = i} = {hosts[s][i]} \ {NoChannel}
    BY DEF NodesMirrorHosts
  <2>1. nodes[s] \in Seq(Channel)
    BY DEF DiscoveryInv, ManagerInv, TableTypes
  <2>2. ASSUME NEW c \in ToSet(nodes[s]), c.host = i
        PROVE  c = hosts[s][i] /\ c # NoChannel
    <3>1. PICK k \in 1..Len(nodes[s]) : c = nodes[s][k]
      BY <2>1 DEF ToSet
    <3>2. c \in Channel
      BY <2>1, <3>1
    <3> QED
      BY <2>2, <3>1, <3>2, ChannelAssumption DEF DiscoveryInv, NodesAreHosts
  <2>3. ASSUME hosts[s][i] # NoChannel
        PROVE  hosts[s][i] \in ToSet(nodes[s]) /\ hosts[s][i].host = i
    BY <2>1, <2>3 DEF DiscoveryInv, ManagerInv, HostsInNodes, Contains, ToSet
  <2> QED
    BY <2>2, <2>3
<1> QED
  BY <1>1, DiscoveryInductive, PTL

(* While nodes come, and go only ahead of the pointer, no node is chosen   *)
(* twice while another one waits, however many they are.                   *)
(* (ServiceChannel::append, remove, choose)                                *)
THEOREM NodesTakeTurns == Spec => TurnsInOrder
<1>1. DiscoveryInv /\ TurnInv => \A s \in Service \ (skewed \cup strayed) : InTurn(s)
  <2> SUFFICES ASSUME DiscoveryInv, TurnInv, NEW s \in Service \ (skewed \cup strayed),
                      ChooseNode(s), NEW d \in ToSet(nodes[s])
               PROVE  <<chosen'.channel, d>> \notin passed[s]
    BY DEF InTurn
  <2>1. ManagerInv /\ TurnsOK(s) /\ passed[s] \subseteq Channel \X Channel
    BY DEF DiscoveryInv, TurnInv, TurnTypes
  <2>2. nodes[s] \in Seq(Channel) /\ Len(nodes[s]) \in Nat /\ idx[s] \in Nat
    BY <2>1, ListFacts
  <2>3. PICK k \in 1..Len(nodes[s]) : d = nodes[s][k]
    BY DEF ToSet
  <2>4. nodes[s] # <<>>
    BY <2>2, <2>3
  <2>5. CASE chosen' = [service |-> s, channel |-> NoChannel]
    BY <2>1, <2>5, ChannelAssumption
  <2>6. CASE \E c \in Pick(s) : chosen' = [service |-> s, channel |-> c]
    <3>1. idx[s] + 1 \in 1..Len(nodes[s]) /\ chosen'.channel = nodes[s][idx[s] + 1]
      BY <2>1, <2>4, <2>6, ChosenNode
    <3>2. ~Before(k, idx[s] + 1, idx[s])
      BY <2>2 DEF Before
    <3> QED
      BY <2>1, <2>3, <3>1, <3>2 DEF TurnsOK
  <2> QED
    BY <2>5, <2>6 DEF ChooseNode
<1>2. DiscoveryInv /\ TurnInv /\ [Next]_vars
        => [\A s \in Service \ (skewed \cup strayed) : InTurn(s)]_vars
  BY <1>1
<1> QED
  BY <1>2, DiscoveryInductive, TurnInductive, PTL DEF Spec, TurnsInOrder
=============================================================================
