\* Two connections, so that one is served, or stuck in a send, while another is
\* being accepted.
SPECIFICATION ServeSpec
CONSTANTS
    Conns = {c1, c2}
    Closers = {main}
    Main = main
    Loop = Loop
INVARIANTS
    CloseLeavesNothing
    OpenReachable
    NoUplinkCut
PROPERTIES
    NoAddAfterZero
    ConnectionServed
    ExitCompletes
CHECK_DEADLOCK FALSE
