CONSTANTS
    User = {u1}
    Session = {s1, s2}
    Request = {r1, r2}
    None = None
SPECIFICATION SessionsSpec
 
PROPERTIES ShutOut
CHECK_DEADLOCK FALSE
