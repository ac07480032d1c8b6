\* One component, with or without a budget of two attempts.
SPECIFICATION FairSpec
CONSTANTS
    None = None
    Unset = Unset
    Budgets = {Unset, 2}
    Sources = {1, 2}
    Sockets = {1, 2}
    MaxImports = 2
    MaxCounted = 2
INVARIANTS
    ConnectionsAccounted
    ConnectedExplained
PROPERTIES
    StreamRecovers
