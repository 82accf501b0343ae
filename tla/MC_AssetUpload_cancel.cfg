\* One upload and a cancellation that overtakes its allocation.
SPECIFICATION Spec
CONSTANTS
    s1 = s1  s2 = s2  c1 = c1  c2 = c2  r1 = r1  r2 = r2
    v1 = v1  v2 = v2  a1 = a1  a2 = a2
    Session = {s1}
    Published = {}
    Completer = {c1}
    Recoverer = {r1}
    Validator = {v1}
    Aborter = {a1}
    NoOne = NoOne
    NoSession = NoSession
    MaxAttempts = 2
CHECK_DEADLOCK FALSE
PROPERTIES AbortQueuedAtomically
