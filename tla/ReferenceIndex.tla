--------------------------- MODULE ReferenceIndex ---------------------------
(***************************************************************************)
(* The index of object references that every deletion is decided with.  It *)
(* is a trie of the characters of the keys: a node counts the EXACT and    *)
(* the PREFIX references that end there and all that end at or below it,   *)
(* so that a look-up walks the characters of its target once.  It has to   *)
(* agree with targetsOverlap, which compares two targets.                  *)
(*                                                                         *)
(* Abstractions: the keys of one bucket, as sequences of characters; a     *)
(* node is named by the characters that lead to it.  A bucket that is      *)
(* unsafe refuses every deletion before the index is asked.  Characters    *)
(* are of one code unit: the index walks a key by code points and the      *)
(* look-up by units.                                                       *)
(***************************************************************************)
EXTENDS Naturals, Sequences, FiniteSets, FiniteSetsExt

CONSTANTS Character,   \* characters of a key
          RefSource,   \* what a reference comes from
          MaxLength,   \* bound on the length of a key
          MaxRefs      \* bound on the references of a bucket

ASSUME IndexBounds == MaxLength \in Nat /\ MaxRefs \in Nat

Text == UNION {[1 .. n -> Character] : n \in 0 .. MaxLength}

\* What may be deleted, and what may be referred to.
Target    == [kind : {"EXACT", "PREFIX"}, key : Text]
Reference == [kind : {"EXACT", "PREFIX"}, key : Text, source : RefSource]

VARIABLES
    references,  \* those indexed so far
    trie         \* the nodes there are, with their counts

indexVars == <<references, trie>>

NoNode == [exact |-> 0, prefix |-> 0, subtree |-> 0]

IndexInit == references = {} /\ trie = <<>>

StartsWith(text, start) ==
    Len(start) <= Len(text) /\ SubSeq(text, 1, Len(start)) = start

\* The nodes from the root to the end of a key.
PathOf(key) == {SubSeq(key, 1, n) : n \in 0 .. Len(key)}

NodeAt(n) == IF n \in DOMAIN trie THEN trie[n] ELSE NoNode

\* Planted bug: the root is left out of the subtree counts.
IndexBelowRoot(ref) ==
    /\ references' = references \cup {ref}
    /\ trie' = [n \in DOMAIN trie \cup PathOf(ref.key) |->
        [exact   |-> NodeAt(n).exact + (IF n = ref.key /\ ref.kind = "EXACT" THEN 1 ELSE 0),
         prefix  |-> NodeAt(n).prefix + (IF n = ref.key /\ ref.kind = "PREFIX" THEN 1 ELSE 0),
         subtree |-> NodeAt(n).subtree + (IF n \in PathOf(ref.key) \ {<<>>} THEN 1 ELSE 0)]]

\* One turn of the loop of createObjectReferenceIndex.
IndexReference(ref) ==
    /\ references' = references \cup {ref}
    /\ trie' = [n \in DOMAIN trie \cup PathOf(ref.key) |->
        [exact   |-> NodeAt(n).exact + (IF n = ref.key /\ ref.kind = "EXACT" THEN 1 ELSE 0),
         prefix  |-> NodeAt(n).prefix + (IF n = ref.key /\ ref.kind = "PREFIX" THEN 1 ELSE 0),
         subtree |-> NodeAt(n).subtree + (IF n \in PathOf(ref.key) THEN 1 ELSE 0)]]

IndexNext ==
    /\ Cardinality(references) < MaxRefs
    /\ \E ref \in Reference \ references : IndexReference(ref)

-----------------------------------------------------------------------------
\* How many characters of a key the trie has nodes for.
Walked(key) == Max({n \in 0 .. Len(key) : SubSeq(key, 1, n) \in DOMAIN trie})

\* PREFIX references above a target.  One at the end of a PREFIX target is
\* counted with the subtree.
AncestorPrefixCount(t) ==
    MapThenSumSet(LAMBDA n : NodeAt(SubSeq(t.key, 1, n)).prefix,
                  {n \in 0 .. Walked(t.key) : t.kind = "EXACT" \/ n < Len(t.key)})

\* overlapCount
OverlapCount(t) ==
    IF trie = <<>> THEN 0
    ELSE AncestorPrefixCount(t) +
         IF Walked(t.key) < Len(t.key) THEN 0
         ELSE IF t.kind = "EXACT" THEN NodeAt(t.key).exact ELSE NodeAt(t.key).subtree

\* targetsOverlap, within one bucket
TargetsOverlap(a, b) ==
    CASE a.kind = "EXACT"  /\ b.kind = "EXACT"  -> a.key = b.key
      [] a.kind = "PREFIX" /\ b.kind = "PREFIX" ->
            StartsWith(a.key, b.key) \/ StartsWith(b.key, a.key)
      [] a.kind = "PREFIX" /\ b.kind = "EXACT"  -> StartsWith(b.key, a.key)
      [] a.kind = "EXACT"  /\ b.kind = "PREFIX" -> StartsWith(a.key, b.key)

\* referencesTarget, with the source to ignore
ReferencesTarget(t, ignored) ==
    OverlapCount(t) > Cardinality({r \in references : r.source \in ignored /\ TargetsOverlap(r, t)})

-----------------------------------------------------------------------------
IndexTypeOK ==
    /\ references \in SUBSET Reference
    /\ DOMAIN trie \in SUBSET Text
    /\ \A n \in DOMAIN trie : trie[n] \in [exact : 0 .. MaxRefs, prefix : 0 .. MaxRefs,
                                           subtree : 0 .. MaxRefs]

\* Whatever is indexed, duplicates and nested prefixes included, the count of
\* a look-up is the number of references that overlap its target one by one;
\* so a deletion is stopped exactly by the references of others
\* (reference-resolver.ts:85, :113).
IndexAgrees ==
    references # {} =>
        \A t \in Target :
            /\ OverlapCount(t) = Cardinality({r \in references : TargetsOverlap(r, t)})
            /\ \A s \in RefSource :
                  ReferencesTarget(t, {s}) <=>
                      \E r \in references : r.source # s /\ TargetsOverlap(r, t)
=============================================================================
