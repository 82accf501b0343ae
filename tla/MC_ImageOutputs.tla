-------------------------- MODULE MC_ImageOutputs --------------------------
(* Instances of ImageOutputs for TLC. *)
EXTENDS ImageOutputs, TLC

Objects == Output \cup {Source}

ReaderTables == {"assets", "sessions", "intents"}

Symmetry == Permutations(Worker)
=============================================================================
