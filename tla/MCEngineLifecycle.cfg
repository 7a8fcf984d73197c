SPECIFICATION Spec
CONSTANTS
    c1 = c1
    c2 = c2
    Conns <- TwoConns
    Ids = {"a", "b"}
    Setups <- AllSetups
INVARIANTS  NoJoinCycle StopJoins 
PROPERTIES ParkedIsReaped
CHECK_DEADLOCK FALSE
