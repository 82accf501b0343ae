-------------------------- MODULE GamePublication --------------------------
(***************************************************************************)
(* What uploading a GAME promises, with no process, lease or storage       *)
(* protocol in sight: at most one upload of the project is under way; an   *)
(* upload is sealed only when its bytes are in storage; the bytes of a     *)
(* sealed upload and of the current game stay there; and an upload becomes *)
(* the game only in place of the very game it was begun against.           *)
(***************************************************************************)
CONSTANTS Session,      \* the uploads
          NoSession,    \* no game is published
          Published     \* the upload published when the story begins, if any

VARIABLES phase,        \* how far each upload is
          basis,        \* the game that was current when it was begun
          kept,         \* the uploads whose whole bytes are in storage
          game          \* the current game

vars == <<phase, basis, kept, game>>

Init ==
    /\ phase = [s \in Session |-> IF s \in Published THEN "published"
                                  ELSE "unused"]
    /\ basis = [s \in Session |-> NoSession]
    /\ kept = Published
    /\ IF Published = {} THEN game = NoSession ELSE game \in Published

Begin(s) ==
    /\ phase[s] = "unused"
    /\ \A t \in Session : phase[t] \notin {"open", "sealed"}
    /\ phase' = [phase EXCEPT ![s] = "open"]
    /\ basis' = [basis EXCEPT ![s] = game]
    /\ UNCHANGED <<kept, game>>

\* The bytes arrive, even after the upload failed.
Keep(s) ==
    /\ phase[s] # "unused"
    /\ kept' = kept \cup {s}
    /\ UNCHANGED <<phase, basis, game>>

\* Bytes nobody needs are removed.
Drop(s) ==
    /\ phase[s] # "sealed" /\ game # s
    /\ kept' = kept \ {s}
    /\ UNCHANGED <<phase, basis, game>>

Seal(s) ==
    /\ phase[s] = "open" /\ s \in kept
    /\ phase' = [phase EXCEPT ![s] = "sealed"]
    /\ UNCHANGED <<basis, kept, game>>

Publish(s) ==
    /\ phase[s] = "sealed" /\ game = basis[s]
    /\ phase' = [phase EXCEPT ![s] = "published"]
    /\ game' = s
    /\ UNCHANGED <<basis, kept>>

\* Any number of uploads end at once; a failed upload never comes back.
Fail(ended) ==
    /\ \A s \in ended : phase[s] \in {"open", "sealed"}
    /\ phase' = [s \in Session |-> IF s \in ended THEN "failed" ELSE phase[s]]
    /\ UNCHANGED <<basis, kept, game>>

\* A member deletes the game.
Withdraw ==
    /\ game' = NoSession
    /\ UNCHANGED <<phase, basis, kept>>

Next ==
    \/ \E s \in Session : Begin(s) \/ Keep(s) \/ Drop(s) \/ Seal(s) \/ Publish(s)
    \/ \E ended \in SUBSET Session : Fail(ended)
    \/ Withdraw

Spec == Init /\ [][Next]_vars
=============================================================================
