-------------------------- MODULE MC_VideoPlayback --------------------------
(* An instance of VideoPlayback for TLC. *)
EXTENDS VideoPlayback, TLC

Files == Attempt \cup {Original, First}
VideoTables == {"assets", "renditions"}

Passes == Permutations(Attempt) \cup Permutations(Job)
=============================================================================
