\* The smallest instance in which two passes meet one request.
SPECIFICATION ChangeSpec
CONSTANTS
    ChangeRequest = {r1}
    Author = {u1}
    Draft = {c1}
    Operator = {o1}
    Publisher = {w1, w2}
    Nil = Nil
    MaxEdits = 0
\* Every request may be over.
CHECK_DEADLOCK FALSE
PROPERTIES FailedAwaitsRetry
