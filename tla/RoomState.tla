----------------------------- MODULE RoomState -----------------------------
(***************************************************************************)
(* Synapse's tables about one room, as routing reads them: the events and  *)
(* their prev_events, event_to_state_groups, the chains of state groups,   *)
(* current_state_events and, during a faster join, the servers recorded at *)
(* the join.  Synapse is external; the queries are the worker's.           *)
(*                                                                         *)
(* Beside what is stored the module keeps what is true: during a faster    *)
(* join the stored state knows only some of the members.                   *)
(***************************************************************************)
EXTENDS Naturals, Sequences, FiniteSets

CONSTANTS
  Users, Servers, Us,
  Domain,       \* DomainOf each user
  Founders,     \* bound: who is in the room at first; others may be
  Joinable,     \* the sets of servers a join may have recorded; {}: not partial
  Seen,         \* the members a partial state knows
  MaxEvents,    \* bound
  MaxAfterJoin, \* bound: events, in a room that was partial
  MaxIneligible,  \* bound: events of ours that are not for other servers
  MaxChanges,   \* bound: membership events
  MaxPurged,    \* bound
  MaxHops       \* the longest chain of state groups

ASSUME RoomAssumption ==
  /\ Us \in Servers /\ Domain \in [Users -> Servers]
  /\ \A J \in Joinable : J \subseteq Servers
  /\ Founders \cup Seen \subseteq Users /\ (\E u \in Seen : Domain[u] = Us)
  /\ MaxEvents \in Nat \ {0} /\ {MaxAfterJoin, MaxIneligible, MaxChanges, MaxPurged} \subseteq Nat /\ MaxHops \in Nat \ {0}

VARIABLES
  events,     \* in stream order
  groupOf,    \* event_to_state_groups; 0: no row
  groups,     \* state_groups_state and state_group_edges
  current,    \* current_state_events
  tips,       \* forward extremities
  joinList,   \* partial_state_rooms_servers
  resync,     \* how far the room is from full state
  before,     \* truth: the state before each event
  after,      \* truth: the state after each event
  inRoom      \* truth: the state now

stored == <<events, groupOf, groups, current, tips, joinList, resync>>
truth == <<before, after, inRoom>>
roomVars == <<stored, truth>>

Memberships == {"none", "join", "leave", "invite"}
States == [Users -> Memberships]
Kinds == {"creation", "joined", "message", "dummy", "rejected", "outOfBand",
          "join", "forwarded", "leave", "kick", "invite"}

Hosts(st) == {Domain[u] : u \in {v \in Users : st[v] = "join"}}
Hers(s) == {u \in Users : Domain[u] = s}

RoomTypeOK ==
  /\ Len(events) \in Nat
  /\ \A e \in DOMAIN events :
       /\ events[e].kind \in Kinds /\ {events[e].by, events[e].on} \subseteq Users
       /\ events[e].prevs \subseteq 1..e - 1
  /\ groupOf \in [DOMAIN events -> 0..Len(groups)]
  /\ \A g \in DOMAIN groups : groups[g].prev \in 0..g - 1 /\ DOMAIN groups[g].delta \subseteq Users
  /\ current \in States /\ inRoom \in States
  /\ tips \subseteq DOMAIN events /\ joinList \subseteq Servers
  /\ resync \in {"partial", "events", "current", "full"}
  /\ before \in [DOMAIN events -> States] /\ after \in [DOMAIN events -> States]

(* Event 1 is the room's creation, or our faster join of it, and stands    *)
(* for what happened before.                                               *)
RoomInit ==
  /\ joinList \in Joinable
  /\ \E by \in Hers(Us) :
       /\ events = <<[kind |-> IF joinList = {} THEN "creation" ELSE "joined",
                      by |-> by, on |-> by, prevs |-> {}]>>
       /\ inRoom \in {st \in [Users -> {"none", "join"}] : \A u \in Founders \cup {by} : st[u] = "join"}
  /\ current = [u \in Users |-> IF joinList # {} /\ u \notin Seen THEN "none" ELSE inRoom[u]]
  /\ groups = <<[prev |-> 0, delta |-> current]>> /\ groupOf = <<1>> /\ tips = {1}
  /\ resync = IF joinList = {} THEN "full" ELSE "partial"
  /\ before = <<[u \in Users |-> "none"]>> /\ after = <<inRoom>>

-----------------------------------------------------------------------------
(* The worker's queries.                                                   *)

(* The groups a walk of the edges finds.                                   *)
Chain ==
  LET chain[g \in 0..Len(groups)] == IF g = 0 THEN {} ELSE {g} \cup chain[groups[g].prev]
  IN  chain

(* DISTINCT ON (state_key) ... ORDER BY state_group DESC: the highest      *)
(* group of the chain that names a member decides.                         *)
StateAt(g) ==
  [u \in Users |->
     LET naming == {h \in Chain[g] : u \in DOMAIN groups[h].delta}
     IN  IF naming = {} THEN "none"
         ELSE groups[CHOOSE h \in naming : \A i \in naming : i <= h].delta[u]]

JoinedHostsAtStateGroup(g) == Hosts(StateAt(g))
CurrentJoinedHosts == Hosts(current)

(* Events without a row are absent.                                        *)
GetStateGroupsForEvents(ids) == {e \in ids : groupOf[e] # 0}

-----------------------------------------------------------------------------
(* Synapse persists an event.                                              *)

Ineligible == {"dummy", "rejected", "outOfBand"}
Changes == {"join", "forwarded", "leave", "kick", "invite"}
OfKind(kinds) == Cardinality({e \in DOMAIN events : events[e].kind \in kinds})

AuthEventsAllow(kind, by, on, st) ==
  CASE kind = "message"   -> by = on /\ st[by] = "join"
    [] kind \in Ineligible -> by = on /\ st[by] = "join" /\ Domain[by] = Us
    [] kind = "join"      -> by = on /\ st[on] # "join"
    [] kind = "forwarded" -> by = on /\ st[on] # "join" /\ Domain[by] # Us
    [] kind = "leave"     -> by = on /\ st[on] \in {"join", "invite"} /\ Domain[by] # Us
    [] kind = "kick"      -> by # on /\ st[by] = "join" /\ st[on] \in {"join", "invite"}
                               /\ Domain[on] # Us
    [] kind = "invite"    -> by # on /\ st[by] = "join" /\ st[on] \in {"none", "leave"}

Change(kind, on) ==
  IF kind \in {"join", "forwarded"} THEN [u \in {on} |-> "join"]
  ELSE IF kind \in {"leave", "kick"} THEN [u \in {on} |-> "leave"]
  ELSE IF kind = "invite" THEN [u \in {on} |-> "invite"]
  ELSE [u \in {} |-> "none"]

With(st, delta) == [u \in Users |-> IF u \in DOMAIN delta THEN delta[u] ELSE st[u]]

(* State resolution takes every member's state from one of the events, the *)
(* latest of those that agree.                                             *)
Picks(st, S) ==
  {f \in [Users -> S] : \A u \in Users, e \in S : st[e][u] = st[f[u]][u] => e <= f[u]}
Picked(st, pick) == [u \in Users |-> st[pick[u]][u]]

(* The state group before the event: its prev events', if they share one,  *)
(* or a new one.                                                           *)
Common(prevs) ==
  IF \A p \in prevs : groupOf[p] # 0 /\ (\A q \in prevs : groupOf[p] = groupOf[q])
  THEN groupOf[CHOOSE p \in prevs : TRUE] ELSE 0

(* Synapse refetches the state after an event whose history was purged.    *)
StoredAfter(e) == IF groupOf[e] = 0 THEN after[e] ELSE StateAt(groupOf[e])

Persist(kind, by, on, prevs, pick) ==
  LET n == Len(events) + 1
      delta == Change(kind, on)
      g == Common(prevs)
      here == IF g # 0 THEN StateAt(g) ELSE Picked([p \in prevs |-> StoredAfter(p)], pick)
      base == IF g # 0 THEN groups ELSE Append(groups, [prev |-> 0, delta |-> here])
      at == IF g # 0 THEN g ELSE Len(base)
      chained == IF DOMAIN delta = {} THEN base
                 ELSE Append(base, IF Cardinality(Chain[g]) >= MaxHops
                                   THEN [prev |-> 0, delta |-> With(here, delta)]
                                   ELSE [prev |-> at, delta |-> delta])
      ends == IF kind \in {"rejected", "outOfBand"} THEN tips ELSE (tips \ prevs) \cup {n}
      truths == Append(after, With(Picked(after, pick), delta))
      states == [e \in ends |-> IF e = n THEN With(here, delta) ELSE StoredAfter(e)]
  IN  /\ events' = Append(events, [kind |-> kind, by |-> by, on |-> on, prevs |-> prevs])
      /\ IF kind = "outOfBand"
         THEN groups' = groups /\ groupOf' = Append(groupOf, 0)
         ELSE /\ groups' = chained
              /\ groupOf' = Append(groupOf, IF chained = base THEN at ELSE Len(chained))
      /\ before' = Append(before, Picked(after, pick)) /\ after' = truths
      /\ tips' = ends
      /\ \E now \in Picks(truths, ends) :
           inRoom' = Picked(truths, now) /\ current' = Picked(states, now)
      /\ UNCHANGED <<joinList, resync>>

(* An event we make, or help a remote make, follows on all extremities; a  *)
(* remote's own on what that server had seen.                              *)
Follows(ours, prevs) ==
  /\ prevs # {} /\ Cardinality(prevs) <= 2
  /\ \A p \in prevs : events[p].kind \notin {"rejected", "outOfBand"}
  /\ ours => prevs = tips

PersistSome ==
  /\ Len(events) < IF events[1].kind = "joined" THEN MaxAfterJoin ELSE MaxEvents
  /\ \E prevs \in SUBSET DOMAIN events, kind \in Kinds \ {"creation", "joined"}, by \in Users :
       /\ kind \in Ineligible => OfKind(Ineligible) < MaxIneligible
       /\ kind \in Changes => OfKind(Changes) < MaxChanges
       /\ Follows(Domain[by] = Us \/ kind = "forwarded", prevs)
       /\ \E pick \in Picks(after, prevs), on \in Users :
            /\ AuthEventsAllow(kind, by, on, Picked(after, pick))
            /\ Persist(kind, by, on, prevs, pick)

(* A purge of history takes the rows of the oldest events.                 *)
Purge(e) ==
  /\ e \in DOMAIN events \ tips /\ groupOf[e] # 0
  /\ e <= MaxPurged /\ (\A x \in 1..e - 1 : groupOf[x] = 0)
  /\ groupOf' = [groupOf EXCEPT ![e] = 0]
  /\ UNCHANGED <<events, groups, current, tips, joinList, resync, truth>>

-----------------------------------------------------------------------------
(* The end of a faster join: the events' state, then the current state,    *)
(* then the rows of the join.                                              *)

StateOfEventsKnown ==
  /\ resync = "partial" /\ resync' = "events"
  /\ groups' = groups \o [e \in DOMAIN events |-> [prev |-> 0, delta |-> after[e]]]
  /\ groupOf' = [e \in DOMAIN events |->
       IF groupOf[e] = 0 THEN 0
       ELSE Len(groups) + (CHOOSE x \in DOMAIN events :
              after[x] = after[e] /\ (\A y \in DOMAIN events : after[y] = after[e] => x <= y))]
  /\ UNCHANGED <<events, current, tips, joinList, truth>>

CurrentStateKnown ==
  /\ resync = "events" /\ resync' = "current"
  /\ current' = inRoom
  /\ UNCHANGED <<events, groupOf, groups, tips, joinList, truth>>

ClearPartialState ==
  /\ resync = "current" /\ resync' = "full"
  /\ joinList' = {}
  /\ UNCHANGED <<events, groupOf, groups, current, tips, truth>>

Synapse ==
  \/ PersistSome \/ (\E e \in DOMAIN events : Purge(e))
  \/ StateOfEventsKnown \/ CurrentStateKnown \/ ClearPartialState
=============================================================================
