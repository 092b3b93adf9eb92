\* Two clients join and leave three groups.
SPECIFICATION Spec
CONSTANTS
    Clients = {0, 1}
    Groups <- MCGroups
INVARIANT GroupsReachable
