----------------------------- MODULE MC_Uploads -----------------------------
(***************************************************************************)
(* Instances of AssetUpload, VideoPlayback, FileUpload, Voting and         *)
(* CanonicalBackfill in one: subject says which one runs, and the others   *)
(* stay as they start.                                                     *)
(* "races" has the races of any three processes on session s2, once        *)
(* nothing is left of the game published from s1; "replace" the published  *)
(* game and the session that replaces it, with two processes at a time; in *)
(* "video" the reaper works on a deleted video while no pass does;         *)
(* "browser" has two requests under way; "votes" has no saves and no draws *)
(* of the event once the work of a candidate is being deleted.             *)
(*                                                                         *)
(* Processes of one role are interchangeable: no definition compares them  *)
(* but for equality, and no property of this run is a liveness property.   *)
(* Those of every component go by the names m1, m2 and n1, n2.             *)
(***************************************************************************)
EXTENDS AssetUpload, VideoPlayback, FileUpload, Voting, CanonicalBackfill,
        FiniteSetsExt, TLC

CONSTANTS s1, s2, m1, m2, n1, n2, v1, v2, a1

VARIABLE subject

Interchangeable == Permutations({m1, m2}) \cup Permutations({n1, n2})

Copies      == {"rendition", "image copy", "video copy"}
Files       == Attempt \cup {Original, First, PosterKey} \cup Copies
VideoTables == {"assets", "renditions"}

\* An image gets a rendition and an isolated copy, a video a copy.
LegacyObject(r) == IF r = 1 THEN First ELSE Original
CopiesOfRow(r)  == IF r = 1 THEN {"rendition", "image copy"} ELSE {"video copy"}

UploadsInit ==
    /\ subject \in {"races", "replace", "video", "browser", "votes", "backfill"}
    /\ Init /\ VideoInit /\ FileInit /\ VotingInit /\ BackfillInit
    /\ subject # "video" => playback = [state |-> "READY", key |-> First]

\* How many processes are in the middle of something after the step.
AtWorkAfter == Cardinality({w \in Worker : at'[w] # "idle"})

GameGone == asset[s1] = "deleted" /\ object[s1] = "none" /\ s1 \notin deletions

Races ==
    /\ subject = "races" /\ Next
    /\ at'[v2] = "idle" /\ AtWorkAfter <= 3
    /\ state'[s2] # "NONE" => GameGone'
    /\ UNCHANGED <<videoVars, fileVars, votingVars, backfillVars>>

Replace ==
    /\ subject = "replace" /\ Next
    /\ AtWorkAfter <= 2
    /\ \A role \in {Completer, Recoverer} :
          Cardinality({w \in role : at'[w] # "idle"}) <= 1
    /\ UNCHANGED <<videoVars, fileVars, votingVars, backfillVars>>

Videos ==
    /\ subject = "video" /\ VideoNext
    /\ video' \in {"DELETED", "GONE"} /\ reaper' # reaper =>
          \A a \in Attempt : ~AtWork(a)
    /\ UNCHANGED <<vars, fileVars, votingVars, backfillVars>>

RequestsUnderWay ==
    MapThenSumSet(LAMBDA u : creating[u], Upload)
        + Cardinality(ordered.cancel) + Cardinality(ordered.complete)

Browser ==
    /\ subject = "browser" /\ FileNext
    /\ RequestsUnderWay' <= 2
    /\ UNCHANGED <<vars, videoVars, votingVars, backfillVars>>

Votes ==
    /\ subject = "votes" /\ VotingNext
    /\ work' \in {"deleting", "deleted"} => event' = event /\ form' = NoForm
    /\ UNCHANGED <<vars, filmVars, videoFaults, fileVars, backfillVars>>

Backfills ==
    /\ subject = "backfill" /\ BackfillNext
    /\ UNCHANGED <<vars, filmVars, videoFaults, fileVars, votingVars>>

UploadsNext ==
    /\ Races \/ Replace \/ Videos \/ Browser \/ Votes \/ Backfills
    /\ UNCHANGED subject

uploadsVars == <<vars, videoVars, fileVars, votingVars, backfillVars, subject>>

UploadsSpec == UploadsInit /\ [][UploadsNext]_uploadsVars

\* Every variable of the component that runs has its type, and each process
\* is at a place of its role.
TypesOK ==
    /\ subject \in {"races", "replace"} => TypeOK
    /\ subject = "video" => VideoTypeOK
    /\ subject = "browser" => FileTypeOK
    /\ subject = "votes" => VotingTypeOK
    /\ subject = "backfill" => BackfillTypeOK
=============================================================================
