SPECIFICATION Spec
CONSTANTS
    nobody = nobody
    Null = Null
    connect = connect
    write = write
    s1 = s1
    shard1 = shard1
    shard2 = shard2
    worker3 = worker3
PROPERTIES SocketsSettle RunsEnd
CHECK_DEADLOCK FALSE
