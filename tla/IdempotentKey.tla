--------------------------- MODULE IdempotentKey ---------------------------
(***************************************************************************)
(* What an Idempotency-Key promises, with no row, owner or lease in sight: *)
(* the key stands for one result at a time; a request under it makes that  *)
(* result, or is answered with it, if it asks for the same; and a request  *)
(* makes one result at most and has one answer.  Another result is made    *)
(* only when the key has forgotten the one before, and then only by a      *)
(* request that says that it may repeat it.                                *)
(***************************************************************************)
CONSTANTS Request,      \* requests under the key
          Payload,      \* what they may ask for
          Duplicates,   \* what may be asked for again
          Nothing       \* no result

VARIABLES asks,         \* what each request asks for
          standing,     \* the request whose result the key stands for
          made,         \* the requests that made a result
          answer        \* the request whose result each was answered with

vars == <<asks, standing, made, answer>>

Init ==
    /\ asks \in [Request -> Payload]
    /\ standing = Nothing /\ made = {}
    /\ answer = [r \in Request |-> Nothing]

\* The request that made the result may not hear of it.
Make(r) ==
    /\ standing = Nothing /\ r \notin made /\ answer[r] = Nothing
    /\ made = {} \/ asks[r] \in Duplicates
    /\ standing' = r /\ made' = made \cup {r}
    /\ answer' = answer \/ answer' = [answer EXCEPT ![r] = r]
    /\ UNCHANGED asks

Answer(r) ==
    /\ standing # Nothing /\ answer[r] = Nothing
    /\ asks[r] = asks[standing]
    /\ answer' = [answer EXCEPT ![r] = standing]
    /\ UNCHANGED <<asks, standing, made>>

Forget ==
    /\ standing # Nothing /\ standing' = Nothing
    /\ UNCHANGED <<asks, made, answer>>

Next == (\E r \in Request : Make(r) \/ Answer(r)) \/ Forget

Spec == Init /\ [][Next]_vars
=============================================================================
