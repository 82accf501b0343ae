---------------------------- MODULE MC_Services ----------------------------
(***************************************************************************)
(* One instance of every component whose safety properties need no         *)
(* fairness, but for those of MC_Uploads and MC_Publications.              *)
(* subject says which one runs; the others stay as they start.             *)
(*                                                                         *)
(* The processes of every component go by the names m1, m2 and n1, n2:     *)
(* those of one role are interchangeable, and no definition compares them  *)
(* but for equality.                                                       *)
(***************************************************************************)
EXTENDS ProjectSubmit, PlaySessions, ImageOutputs, ExportJob, WebglBuild,
        PrefixDeletion, VideoCommit, DownloadBans, TLC

CONSTANTS m1, m2, n1, n2

VARIABLE subject   \* the component that runs

Interchangeable == Permutations({m1, m2}) \cup Permutations({n1, n2})

Objects == Output \cup {Source, Original, Generated}
Tables  == {"assets", "sessions", "intents"}

\* Address a, the form it had in old rows, and a range around it.
CanonicalText(t) == IF t = "old a" THEN "a" ELSE t
CoversOf(t)      == {"a"}

-----------------------------------------------------------------------------
makingVars == <<commitVars, commitFaults>>

\* A component that does not run has one way to start.
OneStart(name, start) == subject # name => start

ServicesInit ==
    /\ subject \in {"submit", "play", "images", "export", "webgl", "prefix",
                   "commit", "bans"}
    /\ SubmitInit /\ OneStart("submit", \A r \in Request : request[r].payload \in Duplicates)
    /\ PlayInit
    /\ ImageInit /\ ReaperInit /\ stored = {Source, Original}
    /\ ExportInit /\ OneStart("export", exportJob.dryRun)
    /\ WebglInit
    /\ PrefixInit /\ OneStart("prefix", present = {})
    /\ CommitInit /\ OneStart("commit", safe)
    /\ BansInit /\ OneStart("bans", auto /\ banCache = {})

Submit ==
    /\ subject = "submit" /\ SubmitNext
    /\ UNCHANGED <<playVars, vars, exportVars, webglVars, prefixVars,
                   makingVars, bansVars>>

\* The build is replaced, and the clock ends plays, only where no origin has
\* been approved.
PlayGames ==
    /\ subject = "play" /\ PlayNext
    /\ build' = 1 \/ policy' = 0
    /\ policy' > 0 => \A p \in Play : play'[p].expired => play[p].expired
    /\ UNCHANGED <<submitVars, vars, exportVars, webglVars, prefixVars,
                   makingVars, bansVars>>

\* A second fault is one before the end of the session.
Images ==
    /\ subject = "images" /\ Next
    /\ faults = 1 /\ faults' = 2 => session.state = "VERIFYING"
    /\ UNCHANGED <<submitVars, playVars, exportVars, webglVars, prefixVars,
                   makingVars, bansVars>>

Exports ==
    /\ subject = "export" /\ ExportNext
    /\ UNCHANGED <<submitVars, playVars, vars, webglVars, prefixVars,
                   makingVars, bansVars>>

Builds ==
    /\ subject = "webgl" /\ WebglNext
    /\ UNCHANGED <<submitVars, playVars, vars, exportVars, prefixVars,
                   makingVars, bansVars>>

Prefixes ==
    /\ subject = "prefix" /\ PrefixNext
    /\ UNCHANGED <<submitVars, playVars, vars, exportVars, webglVars,
                   makingVars, bansVars>>

\* The files of a deleted video are reaped when no pass is at work on it.
Commits ==
    /\ subject = "commit" /\ CommitNext
    /\ clip.status = "DELETED" /\ reaper' # reaper =>
          \A p \in Maker : maker[p].at = "away"
    /\ UNCHANGED <<submitVars, playVars, imageVars, faults, exportVars, webglVars,
                   prefixVars, bansVars>>

Bans ==
    /\ subject = "bans" /\ BansNext
    /\ UNCHANGED <<submitVars, playVars, vars, exportVars, webglVars, prefixVars,
                   makingVars>>

ServicesNext ==
    /\ \/ Submit \/ PlayGames \/ Images \/ Exports \/ Builds \/ Prefixes
       \/ Commits \/ Bans
    /\ UNCHANGED subject

servicesVars == <<submitVars, playVars, vars, exportVars,
                  webglVars, prefixVars, makingVars, bansVars, subject>>

ServicesSpec == ServicesInit /\ [][ServicesNext]_servicesVars

-----------------------------------------------------------------------------
\* Every variable of the component that runs has its type, and each process
\* is at a place of its role.
TypesOK ==
    /\ subject = "submit" => SubmitTypeOK
    /\ subject = "play"   => PlayTypeOK
    /\ subject = "images" => ImageTypeOK
    /\ subject = "export" => ExportTypeOK
    /\ subject = "webgl"  => WebglTypeOK
    /\ subject = "prefix" => PrefixTypeOK
    /\ subject = "commit" => CommitTypeOK
    /\ subject = "bans"   => BansTypeOK
=============================================================================
