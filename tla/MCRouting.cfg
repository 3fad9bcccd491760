\* Three events after the room's creation, in a room that is full or partial.
SPECIFICATION RoutingSpec
CONSTANTS
  us = us
  amber = amber
  blue = blue
  worker = worker
  other = other
  Users <- MCUsers
  Servers = {us, amber, blue}
  Us = us
  Domain <- MCDomain
  Joinable = {{}, {amber}, {amber, blue}}
  Founders = {"a"}
  Seen = {"u"}
  MaxEvents = 4
  MaxAfterJoin = 3
  MaxIneligible = 1
  MaxChanges = 2
  MaxPurged = 1
  MaxHops = 2
  Instances <- MCInstances
  Me = worker
  Hash <- MCHash
  Whitelist = {us, amber, blue}
  Awake = {amber, blue}
  CacheMax = 1
CHECK_DEADLOCK FALSE
INVARIANT ExactIsExact
INVARIANT StableMemberReached
