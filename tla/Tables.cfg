SPECIFICATION Spec
CONSTANTS
    Null = Null  AnyIp = AnyIp
    o1 = o1  o2 = o2  m1 = m1  m2 = m2  f1 = f1  f2 = f2  e1 = e1  e2 = e2
    s1 = s1  s2 = s2  s3 = s3  t1 = t1  t2 = t2  t3 = t3
INVARIANTS HandlesSafe NothingLost LookupRight BindingsAgree
PROPERTIES DatagramDelivered WheelIsService
CHECK_DEADLOCK FALSE
