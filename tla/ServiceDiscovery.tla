-------------------------- MODULE ServiceDiscovery --------------------------
(***************************************************************************)
(* Service discovery: programs that register themselves in etcd under a    *)
(* lease (class Registry), one process that lists and then watches the     *)
(* directory (class Discovery, src/code/server/common/etcd.hpp) and feeds  *)
(* its ServiceManager, and callers that choose channels meanwhile.         *)
(*                                                                         *)
(* etcd itself is external: a put attaches the key to the lease it names,  *)
(* the end of a lease deletes the keys attached to it, and a watcher gets  *)
(* every change made after the watch began, in order.                      *)
(***************************************************************************)
EXTENDS ServiceManager

CONSTANT
  MaxLeases   \* bound: number of leases granted in one behaviour

ASSUME DiscoveryAssumption ==
  /\ MaxLeases \in Nat
  /\ MaxLeases <= MaxChannels

VARIABLES
  registry,   \* instance -> the lease its key is attached to; 0: no key
  lease,      \* instance -> the lease the running program renews; 0: down
  orphans,    \* leases nobody renews any more, with their instance
  leases,     \* number of leases granted so far
  events,     \* watch events sent and not yet handed to the callback
  phase,      \* of the Discovery: "start", "listing", "watching"
  listed,     \* keys of the ls response still to be handed to put_cb
  unseen,     \* ghost: instances whose last change never gets to the channel
              \* table: it fell before the watch began, or in a failed notice
  doubled     \* ghost: instances with a PUT that the callback gets without a
              \* DELETE after the PUT before it

etcdVars == <<registry, lease, orphans, leases>>
discoveryVars == <<phase, listed>>
ghosts == <<unseen, doubled>>
vars == <<managerVars, etcdVars, events, discoveryVars, ghosts>>

Event == [type : {"PUT", "DELETE"}, inst : Instance]

(* Instances whose changes reach _hosts at all. *)
Tracked == {i \in Instance \ BadHost : GetServiceName(i) \in Followed}

Registered(i) == registry[i] # 0
InTable(i) == hosts[GetServiceName(i)][i] # NoChannel

(* What the channel table will say of i once the pending events are        *)
(* handled: the last event about i decides, and the table if there is none.*)
KnownAfterEvents(i) ==
  \/ \E k \in 1..Len(events) :
       /\ events[k] = [type |-> "PUT", inst |-> i]
       /\ \A l \in 1..Len(events) : l > k => events[l].inst # i
  \/ /\ \A k \in 1..Len(events) : events[k].inst # i
     /\ InTable(i)

Init ==
  /\ InitManager
  /\ registry = [i \in Instance |-> 0]
  /\ lease = [i \in Instance |-> 0]
  /\ orphans = {}
  /\ leases = 0
  /\ events = <<>>
  /\ phase = "start"
  /\ listed = {}
  /\ unseen = {}
  /\ doubled = {}

-----------------------------------------------------------------------------
(* etcd reports a change of i's key to the watcher, if there is one yet.   *)
Notify(type, i) ==
  /\ events' = IF phase = "watching"
               THEN Append(events, [type |-> type, inst |-> i])
               ELSE events
  /\ unseen' = unseen \ {i}
  /\ doubled' = IF phase = "watching" /\ type = "PUT" /\ KnownAfterEvents(i)
                THEN doubled \cup {i} ELSE doubled

(* A program starts: Registry's constructor is granted a lease and keeps   *)
(* it alive, registry() puts its key under that lease.  A put that fails is*)
(* only logged: no caller looks at the result, and the program serves on.  *)
Register(i) ==
  /\ lease[i] = 0
  /\ leases < MaxLeases
  /\ leases' = leases + 1
  /\ lease' = [lease EXCEPT ![i] = leases + 1]
  /\ \/ /\ registry' = [registry EXCEPT ![i] = leases + 1]
        /\ Notify("PUT", i)
     \/ UNCHANGED <<registry, events, ghosts>>
  /\ UNCHANGED <<managerVars, orphans, phase, listed>>

(* A program dies, or loses its connection to etcd for good: nobody renews *)
(* its lease from now on.                                                  *)
Die(i) ==
  /\ lease[i] # 0
  /\ lease' = [lease EXCEPT ![i] = 0]
  /\ orphans' = orphans \cup {[inst |-> i, lease |-> lease[i]]}
  /\ UNCHANGED <<managerVars, registry, leases, events, discoveryVars, ghosts>>

(* A lease that is not renewed ends, and the key goes with it unless it    *)
(* was put again under a newer lease.                                      *)
Expire(o) ==
  /\ o \in orphans
  /\ orphans' = orphans \ {o}
  /\ \/ /\ registry[o.inst] = o.lease
        /\ registry' = [registry EXCEPT ![o.inst] = 0]
        /\ Notify("DELETE", o.inst)
     \/ /\ registry[o.inst] # o.lease
        /\ UNCHANGED <<registry, events, ghosts>>
  /\ UNCHANGED <<managerVars, lease, leases, phase, listed>>

-----------------------------------------------------------------------------
(* Discovery's constructor, step 1: ls.  A failed ls is logged, and the    *)
(* response then holds no keys.                                            *)
Ls ==
  /\ phase = "start"
  /\ phase' = "listing"
  /\ listed' \in {{i \in Instance : Registered(i)}, {}}
  /\ UNCHANGED <<managerVars, etcdVars, events, ghosts>>

(* The loop over the keys of the response. *)
PutListed(i) ==
  /\ phase = "listing"
  /\ i \in listed
  /\ OnServiceOnline(i)
  /\ listed' = listed \ {i}
  /\ UNCHANGED <<etcdVars, events, phase, ghosts>>

(* Step 2: the Watcher, which starts at etcd's revision of that moment.    *)
Watch ==
  /\ phase = "listing"
  /\ listed = {}
  /\ phase' = "watching"
  /\ unseen' = {i \in Tracked : Registered(i) # InTable(i)}
  /\ UNCHANGED <<managerVars, etcdVars, events, listed, doubled>>

(* Mutant of Callback: a DELETE is looked up by kv, whose value is empty.  *)
CallbackByKv ==
  /\ events # <<>>
  /\ events' = Tail(events)
  /\ LET e == Head(events) IN
       \/ e.type = "PUT" /\ OnServiceOnline(e.inst)
       \/ e.type = "DELETE" /\ UNCHANGED managerVars
  /\ UNCHANGED <<etcdVars, discoveryVars, ghosts>>

(* Discovery::callback on a notice that is not ok: it is logged, and what  *)
(* the notice was about is lost to the table.  (A watch that has ended is  *)
(* one that gives nothing but such notices.)                               *)
FailedNotice ==
  /\ events # <<>>
  /\ events' = Tail(events)
  /\ LET e == Head(events)
         later == \E k \in 1..Len(Tail(events)) : Tail(events)[k].inst = e.inst IN
       /\ unseen' = IF later THEN unseen ELSE unseen \cup ({e.inst} \cap Tracked)
       /\ doubled' = IF later /\ e.type = "DELETE" THEN doubled \cup {e.inst} ELSE doubled
  /\ UNCHANGED <<managerVars, etcdVars, discoveryVars>>

(* Discovery::callback on the next event. *)
Callback ==
  /\ events # <<>>
  /\ events' = Tail(events)
  /\ LET e == Head(events) IN
       \/ e.type = "PUT" /\ OnServiceOnline(e.inst)
       \/ e.type = "DELETE" /\ OnServiceOffline(e.inst)
  /\ UNCHANGED <<etcdVars, discoveryVars, ghosts>>

(* A caller anywhere in the process asks for a channel of service s. *)
Choose(s) ==
  /\ ChooseNode(s)
  /\ UNCHANGED <<etcdVars, events, discoveryVars, ghosts>>

Next ==
  \/ \E i \in Instance : Register(i)
  \/ \E i \in Instance : Die(i)
  \/ \E o \in orphans : Expire(o)
  \/ Ls
  \/ \E i \in Instance : PutListed(i)
  \/ Watch
  \/ Callback
  \/ FailedNotice
  \/ \E s \in Service : Choose(s)

Spec == Init /\ [][Next]_vars

-----------------------------------------------------------------------------
DiscoveryTypeOK ==
  /\ TypeOK
  /\ registry \in [Instance -> 0..MaxLeases]
  /\ lease \in [Instance -> 0..MaxLeases]
  /\ orphans \subseteq [inst : Instance, lease : 1..MaxLeases]
  /\ leases \in 0..MaxLeases
  /\ events \in Seq(Event)
  /\ phase \in {"start", "listing", "watching"}
  /\ listed \subseteq Instance
  /\ unseen \subseteq Tracked
  /\ doubled \subseteq Instance

(* Once the watch runs, the table is at every moment one batch of events   *)
(* behind etcd and never wrong otherwise, whatever restarts, deaths,       *)
(* expiries and failed puts overlap - except for the instances whose last  *)
(* change fell between ls and watch or in a notice that failed.            *)
(* (Discovery::Discovery, Discovery::callback, append, remove)             *)
InSync ==
  phase = "watching" =>
    \A i \in Tracked \ unseen : KnownAfterEvents(i) <=> Registered(i)

(* The channels listed for a host are exactly the one the host table keeps *)
(* (none, when the host went offline), so a host that is gone is never     *)
(* chosen again - as long as each PUT follows the DELETE of the one before.*)
(* (append, remove)                                                        *)
NodesMirrorHosts ==
  \A s \in Service, i \in Instance \ doubled :
    {c \in ToSet(nodes[s]) : c.host = i} = {hosts[s][i]} \ {NoChannel}

(* Round robin: nobody is chosen twice while another node waits, although  *)
(* nodes come all the time and go ahead of the pointer.  When one goes that*)
(* stands before the pointer (skewed), remove leaves the pointer where it  *)
(* is, and the next node in turn is passed over.  (append, remove, choose) *)
TurnsInOrder == [][\A s \in Service \ (skewed \cup strayed) : InTurn(s)]_vars

(* A choose for a service that has nodes returns one of them.              *)
(* (channel.hpp:48: the policy is round robin over the nodes so that load  *)
(* is balanced)                                                            *)
ChooseReturnsNode ==
  [][\A s \in Service :
       ChooseNode(s) /\ nodes[s] # <<>> /\ s \in services
         => chosen'.channel \in ToSet(nodes[s])]_vars

=============================================================================
