\* Six datagrams and two workers on the relay, three sends on a socket.
CONSTANTS
    Workers = {w1, w2}
    Size <- Sizes
    Buffer = 3
    NSends = 3
    NReceived = 1
SPECIFICATION ServerSpec
INVARIANTS EachOnce ClosedOnce
PROPERTIES  OwnSendSettles
CHECK_DEADLOCK FALSE
