SPECIFICATION FairSpec
CONSTANTS
    Conn = {c1, c2}
    Caller = {b1}
    NoProc = NoProc
INVARIANTS
    OpenConnectionsAreAddressed
    GoneConnectionsAreForgotten
    DisconnectionsAreHandled
PROPERTIES
    ImplementsGroup
    ClosedConnectionsLeave
