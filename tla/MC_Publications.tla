-------------------------- MODULE MC_Publications --------------------------
(***************************************************************************)
(* ProjectPublication, ProjectChange and ReferenceIndex in one: subject    *)
(* says which one runs, and the others stay as they start.                 *)
(*                                                                         *)
(* Passes of a worker are interchangeable, and so are change requests: no  *)
(* definition compares them but for equality.  Those of both components go *)
(* by the names w1 and w2.  The second fault of a publication is one of its*)
(* first job.                                                              *)
(***************************************************************************)
EXTENDS MC_ProjectPublication, ProjectChange, ReferenceIndex

CONSTANTS w1, w2, r1, r2

VARIABLE subject

Interchangeable == Permutations({w1, w2}) \cup Permutations({r1, r2})

PublicationsInit ==
    /\ subject \in {"project", "change", "index"}
    /\ Init /\ ChangeInit /\ IndexInit
    /\ subject # "change" => source.owners = {}

Projects ==
    /\ subject = "project" /\ Next
    /\ faults = 1 /\ faults' = 2 => job.id = 1
    /\ UNCHANGED <<changeVars, indexVars>>

Changes == subject = "change" /\ ChangeNext /\ UNCHANGED <<vars, indexVars>>

Indexes == subject = "index" /\ IndexNext /\ UNCHANGED <<vars, changeVars>>

PublicationsNext == (Projects \/ Changes \/ Indexes) /\ UNCHANGED subject

PublicationsSpec ==
    PublicationsInit /\ [][PublicationsNext]_<<vars, changeVars, indexVars, subject>>

\* Every variable of the component that runs has its type.
TypesOK ==
    /\ subject = "project" => PublicationTypeOK
    /\ subject = "change" => ChangeTypeOK
    /\ subject = "index" => IndexTypeOK
=============================================================================
