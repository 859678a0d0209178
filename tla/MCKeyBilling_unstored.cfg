SPECIFICATION Spec
CONSTANTS
    r1 = r1
    r2 = r2
    NoOne = NoOne
    Users = {1, 2}
    Requests <- MCTwoRequests
    Kinds = {"createKey"}
    Prices = {1}
    Counts = {1}
    InitBalance <- MCInitBalance
    Threads = 2
INVARIANTS ReturnedKeyExists
