------------------------------ MODULE Routing ------------------------------
(***************************************************************************)
(* Where an event and a read receipt of one room go: Eligible and          *)
(* Resolver.Resolve with the host cache, handleEvent's filters, and        *)
(* Ephemeral.HandleReceipt with roomHosts.                                 *)
(*                                                                         *)
(* The room's events are handled one after the other by one goroutine,     *)
(* with any delay; a receipt is routed by a goroutine of its own.  A step  *)
(* is one query, or one critical section of the cache.  The two goroutines *)
(* share nothing but Synapse's tables, so a behaviour has one of them.     *)
(***************************************************************************)
EXTENDS RoomState, SequencesExt

CONSTANTS
  Instances,    \* federation_sender_instances, in order
  Me,           \* this worker's name
  Hash,         \* what sha256 gives for each server name
  Whitelist,    \* federation_domain_whitelist
  Awake,        \* servers whose backoff leaves them due within the hour
  CacheMax      \* DefaultHostCacheEntries

ASSUME RoutingAssumption ==
  /\ Hash \in [Servers -> Nat] /\ Whitelist \subseteq Servers /\ Awake \subseteq Servers
  /\ CacheMax \in Nat \ {0}

VARIABLES
  handled,     \* how many events have been handled
  pc,          \* the room's goroutine
  group,       \* the state group it asks for
  cache,       \* CachedRoomHosts, the last used first
  routed,      \* what the last event handled came to
  rpc,         \* the receipt's goroutine
  atJoin, hostsNow,   \* what it has read
  receipt,     \* where the last receipt went
  stayed,      \* history: servers in the room since before each event
  stayedFor    \* history: servers known to be in it since the receipt came

routeVars == <<handled, pc, group, cache, routed, rpc, atJoin, hostsNow, receipt>>
routingVars == <<roomVars, routeVars, stayed, stayedFor>>

NotRouted == [event |-> 0, all |-> {}, ours |-> {}, approximate |-> TRUE]

RoutingTypeOK ==
  /\ RoomTypeOK
  /\ handled \in 0..Len(events)
  /\ pc \in {"off", "idle", "partial", "groups", "cache", "query", "current"}
  /\ group \in 0..Len(groups)
  /\ Len(cache) <= CacheMax /\ \A i \in DOMAIN cache : cache[i].group \in DOMAIN groups
  /\ routed.event \in 0..handled /\ routed.all \subseteq Servers /\ routed.ours \subseteq routed.all
  /\ rpc \in {"off", "idle", "one", "done"}
  /\ {atJoin, hostsNow, receipt, stayedFor} \subseteq SUBSET Servers
  /\ stayed \in [DOMAIN events -> SUBSET Servers]

RoutingInit ==
  /\ RoomInit
  /\ pc \in {"idle", "off"} /\ rpc = IF pc = "idle" THEN "off" ELSE "idle"
  /\ handled = (IF events[1].kind = "joined" THEN 1 ELSE 0) /\ group = 0 /\ cache = <<>> /\ routed = NotRouted
  /\ atJoin = {} /\ hostsNow = {} /\ receipt = {}
  /\ stayed = <<{}>> /\ stayedFor = {}

-----------------------------------------------------------------------------
(* Sharding.                                                               *)

GetInstance(d) ==
  IF Len(Instances) = 1 THEN Instances[1]
  ELSE Instances[(Hash[d] % Len(Instances)) + 1]

ShouldHandle(d) == Instances # <<>> /\ GetInstance(d) = Me

-----------------------------------------------------------------------------
(* handleEvent and Resolve.                                                *)

IsMine(u) == Domain[u] = Us

SendOnBehalfOf(ev) == IF ev.kind = "forwarded" THEN {Domain[ev.by]} ELSE {}

Eligible(ev) ==
  /\ ev.kind # "rejected"
  /\ IsMine(ev.by) \/ SendOnBehalfOf(ev) # {}
  /\ ev.kind \notin {"outOfBand", "dummy"}

Event == events[handled + 1]

(* Fault: the state group of the event itself.                             *)
ItsOwnGroup(ev) == {handled + 1}

(* The events whose state is the state before this one.                    *)
PrevEvents(ev) == ev.prevs

(* singleGroup: every one of them has a group, and it is the same.         *)
SingleGroup(ids) ==
  /\ GetStateGroupsForEvents(ids) = ids
  /\ \A p, q \in ids : groupOf[p] = groupOf[q]

(* An event's auth events hold the membership of its subject before it.    *)
HasInviteFor(n, u) == before[n][u] = "invite"

(* The rescinded-invite rule: a leave not by its subject, whose auth       *)
(* events hold an invite for the subject.                                  *)
Rescinded(ev, n) ==
  IF ev.kind = "kick" /\ HasInviteFor(n, ev.on) THEN {Domain[ev.on]} ELSE {}

Skip ==
  /\ handled' = handled + 1 /\ pc' = "idle" /\ group' = 0
  /\ routed' = [NotRouted EXCEPT !.event = handled + 1]

(* handleEvent's shard filter; who we forward for has the event.           *)
OurShard(all, ev) == {d \in all : ShouldHandle(d)} \ SendOnBehalfOf(ev)

(* The end of Resolve, and handleEvent's filters.                          *)
Route(hosts, approximate) ==
  LET ev == Event
      all == ((hosts \cup Rescinded(ev, handled + 1)) \ {Us}) \cap Whitelist
  IN  /\ handled' = handled + 1 /\ pc' = "idle" /\ group' = 0
      /\ routed' = [event |-> handled + 1, all |-> all, approximate |-> approximate,
                    ours |-> OurShard(all, ev)]

HandleEvent ==
  /\ pc = "idle" /\ handled < Len(events)
  /\ \/ (~Eligible(Event) \/ Event.prevs = {}) /\ Skip
     \/ /\ Eligible(Event) /\ Event.prevs # {}
        /\ pc' = "partial" /\ UNCHANGED <<handled, group, routed>>
  /\ UNCHANGED <<cache, rpc, atJoin, hostsNow, receipt>>

(* An empty list is a room that is not in partial state.                   *)
ReadPartialState ==
  /\ pc = "partial"
  /\ \/ joinList # {} /\ Route(joinList, TRUE)
     \/ joinList = {} /\ pc' = "groups" /\ UNCHANGED <<handled, group, routed>>
  /\ UNCHANGED <<cache, rpc, atJoin, hostsNow, receipt>>

ReadStateGroups ==
  /\ pc = "groups"
  /\ LET ids == PrevEvents(Event)
     IN  \/ /\ SingleGroup(ids)
            /\ pc' = "cache" /\ group' \in {groupOf[p] : p \in ids}
         \/ ~SingleGroup(ids) /\ pc' = "current" /\ UNCHANGED group
  /\ UNCHANGED <<handled, cache, routed, rpc, atJoin, hostsNow, receipt>>

(* CachedRoomHosts.get, put.                                               *)
Entries == {i \in DOMAIN cache : cache[i].group = group}
Others == IF Entries = {} THEN cache ELSE RemoveAt(cache, CHOOSE i \in Entries : TRUE)
Put(hosts) ==
  LET all == <<[group |-> group, hosts |-> hosts]>> \o Others
  IN  SubSeq(all, 1, IF Len(all) < CacheMax THEN Len(all) ELSE CacheMax)

AskCache ==
  /\ pc = "cache"
  /\ \/ \E i \in Entries : Route(cache[i].hosts, FALSE) /\ cache' = Put(cache[i].hosts)
     \/ Entries = {} /\ pc' = "query" /\ UNCHANGED <<handled, group, cache, routed>>
  /\ UNCHANGED <<rpc, atJoin, hostsNow, receipt>>

QueryHosts ==
  /\ pc = "query"
  /\ Route(JoinedHostsAtStateGroup(group), FALSE)
  /\ cache' = Put(JoinedHostsAtStateGroup(group))
  /\ UNCHANGED <<rpc, atJoin, hostsNow, receipt>>

(* No group, or a fork of the DAG: the current state, marked approximate.  *)
ReadCurrentHosts ==
  /\ pc = "current"
  /\ Route(CurrentJoinedHosts, TRUE)
  /\ UNCHANGED <<cache, rpc, atJoin, hostsNow, receipt>>

(* A query fails and with it the batch, which is read again.               *)
ResolveFails ==
  /\ pc \notin {"off", "idle"} /\ pc' = "idle" /\ group' = 0
  /\ UNCHANGED <<handled, cache, routed, rpc, atJoin, hostsNow, receipt>>

-----------------------------------------------------------------------------
(* HandleReceipt, for one of our users' public receipts.                   *)

(* Fault: the current state first.                                         *)
CurrentFirst == <<"current", "list">>

(* roomHosts reads the join's list first.                                  *)
RoomHostsOrder == <<"list", "current">>

FirstRead ==
  /\ rpc \in {"idle", "done"} /\ rpc' = "one" /\ receipt' = {}
  /\ atJoin' = IF RoomHostsOrder[1] = "list" THEN joinList ELSE {}
  /\ hostsNow' = IF RoomHostsOrder[1] = "current" THEN CurrentJoinedHosts ELSE {}
  /\ UNCHANGED <<handled, pc, group, cache, routed>>

OurDestinations(hosts) == {d \in hosts \ {Us} : ShouldHandle(d)}

(* The other list; then the union, our shard of it, and those that are     *)
(* due.                                                                    *)
SecondRead ==
  LET list == IF RoomHostsOrder[2] = "list" THEN joinList ELSE atJoin
      now == IF RoomHostsOrder[2] = "current" THEN CurrentJoinedHosts ELSE hostsNow
  IN  /\ rpc = "one" /\ rpc' = "done"
      /\ receipt' = OurDestinations(list \cup now) \cap Awake
      /\ atJoin' = {} /\ hostsNow' = {}
      /\ UNCHANGED <<handled, pc, group, cache, routed>>

-----------------------------------------------------------------------------
(* What a room's servers may count on.                                     *)

(* A server that the join's list missed is only known once its join has    *)
(* been seen.                                                              *)
KnownToJoin == IF joinList = {} THEN Servers ELSE joinList

(* The servers in the room that the tables know of: in a partial room the  *)
(* one user known of a server may leave while another stays.               *)
Known == Hosts(inRoom) \cap (KnownToJoin \cup CurrentJoinedHosts)

RoomStep ==
  /\ Synapse /\ UNCHANGED routeVars
  /\ stayed' = [e \in DOMAIN events' |->
       (IF e \in DOMAIN events THEN stayed[e]
        ELSE Hosts(before'[e]) \cap Hosts(inRoom) \cap KnownToJoin) \cap Hosts(inRoom')]
  /\ stayedFor' = stayedFor \cap Known'

ResolverStep ==
  /\ \/ HandleEvent \/ ReadPartialState \/ ReadStateGroups \/ AskCache \/ QueryHosts
     \/ ReadCurrentHosts \/ ResolveFails
  /\ UNCHANGED <<roomVars, stayed, stayedFor>>

ReceiptStep ==
  \/ /\ FirstRead /\ UNCHANGED <<roomVars, stayed>>
     /\ stayedFor' = Known
  \/ SecondRead /\ UNCHANGED <<roomVars, stayed, stayedFor>>

RoutingNext == RoomStep \/ ResolverStep \/ ReceiptStep

RoutingSpec == RoutingInit /\ [][RoutingNext]_routingVars

-----------------------------------------------------------------------------
(* Properties.                                                             *)

(* A route that is not marked approximate is exactly the servers in the    *)
(* room before the event, and the one whose invite it takes back: however  *)
(* late it is computed, from a cache or a chain of groups, and however     *)
(* little the tables knew when the event was made.                         *)
ExactIsExact ==
  routed.event # 0 /\ ~routed.approximate =>
    LET n == routed.event
    IN  routed.all = ((Hosts(before[n]) \cup Rescinded(events[n], n)) \ {Us}) \cap Whitelist

(* A server of our shard that stays in the room from before an event until *)
(* it is routed gets it, and one that stays and is known of while a        *)
(* receipt is routed gets that, though the room may leave partial state    *)
(* between two reads and both lists of hosts may change.  For an event,    *)
(* servers that joined while the room was partial are left out             *)
(* (KnownToJoin): the join's list, read alone, does not name them.         *)
StableMemberReached ==
  /\ routed.event # 0 /\ Eligible(events[routed.event]) =>
       (OurDestinations(stayed[routed.event]) \cap Whitelist)
           \ SendOnBehalfOf(events[routed.event]) \subseteq routed.ours
  /\ rpc = "done" => OurDestinations(stayedFor) \cap Awake \subseteq receipt
=============================================================================
