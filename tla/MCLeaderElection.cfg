SPECIFICATION FairSpec
CONSTANTS
  h1 = h1
  h2 = h2
  h3 = h3
  Hosts <- MCHosts
  MaxFaults = 3
INVARIANTS RoleMatchesCheck LeadersBoundedByFaults
PROPERTIES EventuallyOneLeader
