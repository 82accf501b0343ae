----------------------------- MODULE MC_Liveness -----------------------------
(***************************************************************************)
(* The components with liveness properties, one instance of each: subject  *)
(* says which one runs, and the others stay as they start.  An upload with *)
(* one process of each role and a bound on what fails; the two workers of  *)
(* the lifecycle runtime, the reaper and two services of maintenance; the  *)
(* process they run in, with three resources and one request at a time.    *)
(***************************************************************************)
EXTENDS AssetUploadLive, LifecycleRuntime, ServerLifecycle

CONSTANTS s1, c1, r1, v1, a1

VARIABLE subject

ServesOf(w) == IF w = "deletion" THEN {"reaper"} ELSE {"aborts", "intents"}

LivenessInit ==
    /\ subject \in {"upload", "runtime", "server"}
    /\ LiveInit /\ RuntimeInit /\ ServerInit

Upload  == subject = "upload" /\ LiveNext /\ UNCHANGED <<runtimeVars, serverVars>>
Runtime == subject = "runtime" /\ RuntimeNext /\ UNCHANGED <<liveVars, serverVars>>
Server  == subject = "server" /\ ServerNext /\ UNCHANGED <<liveVars, runtimeVars>>

LivenessNext == (Upload \/ Runtime \/ Server) /\ UNCHANGED subject

\* Each component with the fairness of its own specification.
LivenessSpec ==
    /\ LivenessInit
    /\ [][LivenessNext]_<<liveVars, runtimeVars, serverVars, subject>>
    /\ \/ subject = "upload" /\ Fairness
       \/ subject = "runtime" /\ RuntimeFairness
       \/ subject = "server" /\ ServerFairness

\* Every variable of the component that runs has its type.
TypesOK ==
    /\ subject = "upload" => TypeOK
    /\ subject = "runtime" => RuntimeTypeOK
    /\ subject = "server" => ServerTypeOK
=============================================================================
