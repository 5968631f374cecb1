SPECIFICATION RunSpec
CONSTANTS
    r1 = r1  r2 = r2  close = close  connect = connect  send = send
    create = create  accept = accept  control = control
    s1 = s1  s2 = s2  s3 = s3
    Cmds = {r1, r2, close, connect, send, create, accept, control}
    Socks = {s1, s2, s3}
    Opened = {s1}
    Kind <- MCKind
    Target <- MCTarget
    NonBlock = {control}
    Timed = {connect}
    RingSize = 1
    Burst = 1
SYMMETRY Symmetric
INVARIANTS IInv CancelTakesEffect NoLeakedSocket
PROPERTIES OnlyOwnersClose ServedInOrder ImplementsService
CHECK_DEADLOCK FALSE
