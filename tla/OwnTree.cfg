SPECIFICATION Spec
CONSTANTS
    Root = root
    Child = {c1, c2}
    MaxLaunches = 2
    MaxAsks = 1
    MaxPipes = 2
INVARIANTS
    FreedIsQuiet
    TerminationIsExact
    NoLostChild
PROPERTY ReapedIsDestroyed
CHECK_DEADLOCK FALSE
