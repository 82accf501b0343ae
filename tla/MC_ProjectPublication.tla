----------------------- MODULE MC_ProjectPublication -----------------------
(* Instances of ProjectPublication for TLC. *)
EXTENDS ProjectPublication, TLC

\* One image and one build make four keys.
OneOfEach == {"staged", "public"} \X {"image", "build"}
ImageOnly == {"staged", "public"} \X {"image"}
BuildOnly == {"staged", "public"} \X {"build"}

ReaderTables == {"assets", "projects"}

Symmetry == Permutations(Worker)
=============================================================================
