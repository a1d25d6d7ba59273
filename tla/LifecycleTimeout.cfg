\* One request, with the read timeout that config.go sets by default.
SPECIFICATION Spec
CONSTANTS
    n1 = n1
    n2 = n2
    Name <- MCName
    Config <- MCOne
    Req = {q1}
    ReadTimeout = 10
INVARIANT TimeGranted
CHECK_DEADLOCK FALSE
