--------------------------- MODULE PrefixDeletion ---------------------------
(***************************************************************************)
(* deletePrefixPages, as a pass of the orphan reaper runs it for a row of  *)
(* kind PREFIX: a WebGL deployment nothing refers to any more.  Keys are   *)
(* listed page by page behind a cursor, collected into batches and         *)
(* deleted; the pass ends well when a last LIST from the head of the       *)
(* prefix finds nothing.  A stalled upload of the deployment may put keys  *)
(* anywhere, behind the cursor too, and a pass that lost its claim goes on *)
(* until its next renewal.                                                 *)
(*                                                                         *)
(* Abstractions:                                                           *)
(*  - Keys are numbers, in the lexical order of the bucket.                *)
(*  - A LIST or a DELETE takes effect in one step; a DELETE that times out *)
(*    has been applied or has not.                                         *)
(*  - That nothing refers to the prefix was found before (ObjectDeletion,  *)
(*    which has a deletion asked for again and the back-off as well).      *)
(***************************************************************************)
EXTENDS Naturals, FiniteSets

CONSTANTS LastKey,    \* keys of the prefix are 1..LastKey
          Remover,    \* passes of the reaper, by their claim token
          NoRemover,  \* no live claim
          PageSize,   \* keys of a page, and of a DELETE
          MaxPages    \* maxListPages: LISTs of one attempt

\* The RangeErrors of deletePrefixPages.
ASSUME PageBudget == /\ LastKey \in Nat /\ PageSize \in Nat \ {0}
                     /\ MaxPages \in Nat /\ MaxPages >= PageSize
                     /\ NoRemover \notin Remover

VARIABLES
    prefixRow,  \* the row of orphan_objects: its state and its live claim
    present,    \* the keys in storage
    removal     \* what each pass is doing

prefixVars == <<prefixRow, present, removal>>

PrefixKey == 1..LastKey
AtRest == [at |-> "rest", then |-> "rest", after |-> 0, pending |-> {},
           pages |-> 0, unseen |-> {}]

PrefixInit ==
    /\ prefixRow = [state |-> "PENDING", claim |-> NoRemover]
    /\ present \in SUBSET PrefixKey
    /\ removal = [r \in Remover |-> AtRest]

OwnsRow(r) == prefixRow = [state |-> "DELETE_CLAIMED", claim |-> r]

\* Past its last flush a pass has no use for its cursor and its batch.
RemovalTo(r, l) ==
    removal' = [removal EXCEPT ![r] =
        IF l \in {"done", "failed"}
        THEN [AtRest EXCEPT !.at = l, !.unseen = IF l = "done" THEN removal[r].unseen ELSE {}]
        ELSE [@ EXCEPT !.at = l]]

\* claimPendingOrphans, and the renewal before the first LIST.
ClaimPrefix(r) ==
    /\ removal[r] = AtRest
    /\ prefixRow.state # "RESOLVED" /\ prefixRow.claim = NoRemover
    /\ prefixRow' = [state |-> "DELETE_CLAIMED", claim |-> r]
    /\ RemovalTo(r, "listing")
    /\ UNCHANGED present

\* A page is the first keys behind the cursor.  It may be shorter than what
\* was asked for, and may claim that more follows when nothing does.
Following(after) == {k \in present : k > after}
IsPage(page, after, size, truncated) ==
    /\ page \subseteq Following(after) /\ Cardinality(page) <= size
    /\ \A k \in page : \A j \in Following(after) : j < k => j \in page
    /\ page # Following(after) => truncated

\* The cursor moves to the last key of a page, if there is one.
IsCursor(next, page, after) ==
    IF page = {} THEN next = after ELSE next \in page /\ \A k \in page : k <= next

\* What the loop does with a page.  Only a terminal page ends in a flush of
\* the whole batch; a truncated one is flushed as far as DELETEs are full.
ReadPage(r, page, next, truncated) ==
    removal' = [removal EXCEPT ![r] =
        IF page = {} /\ truncated THEN [AtRest EXCEPT !.at = "failed"]
        ELSE [at |-> "flushing",
              then |-> IF truncated THEN "listing"
                       ELSE IF page = {} /\ @.after = 0 THEN "done" ELSE "verifying",
              after |-> next,
              pending |-> @.pending \cup page,
              pages |-> @.pages + 1,
              unseen |-> {}]]

\* Planted bug: a terminal page is taken for an empty prefix.
ListPageTrustingly(r) ==
    /\ removal[r].at = "listing" /\ removal[r].pages < MaxPages
    /\ \E page \in SUBSET PrefixKey, truncated \in BOOLEAN, next \in 0..LastKey :
        /\ IsPage(page, removal[r].after, PageSize, truncated)
        /\ IsCursor(next, page, removal[r].after)
        /\ removal' = [removal EXCEPT ![r] =
               [@ EXCEPT !.pages = @ + 1, !.unseen = {}, !.pending = @ \cup page,
                         !.after = next,
                         !.at = "flushing",
                         !.then = IF truncated THEN "listing" ELSE "done"]]
    /\ UNCHANGED <<prefixRow, present>>

ListPage(r) ==
    /\ removal[r].at = "listing" /\ removal[r].pages < MaxPages
    /\ \E page \in SUBSET PrefixKey, truncated \in BOOLEAN, next \in 0..LastKey :
        /\ IsPage(page, removal[r].after, PageSize, truncated)
        /\ IsCursor(next, page, removal[r].after)
        /\ ReadPage(r, page, next, truncated)
    /\ UNCHANGED <<prefixRow, present>>

\* The LIST of one key from the head, after everything listed was deleted:
\* the pass is done, or starts over.
VerifyHead(r) ==
    /\ removal[r].at = "verifying" /\ removal[r].pages < MaxPages
    /\ \E page \in SUBSET PrefixKey, truncated \in BOOLEAN :
        /\ IsPage(page, 0, 1, truncated)
        /\ removal' = [removal EXCEPT ![r] =
               IF page # {}
               THEN [AtRest EXCEPT !.at = "listing", !.pages = removal[r].pages + 1]
               ELSE [AtRest EXCEPT !.at = IF truncated THEN "failed" ELSE "done"]]
    /\ UNCHANGED <<prefixRow, present>>

\* PrefixDeletionPageBudgetError, after a last flush of what is pending.
ExhaustPages(r) ==
    /\ removal[r].at \in {"listing", "verifying"} /\ removal[r].pages = MaxPages
    /\ removal' = [removal EXCEPT ![r].at = "flushing", ![r].then = "failed"]
    /\ UNCHANGED <<prefixRow, present>>

FlushDue(s) == /\ s.pending # {}
               /\ s.then = "listing" => Cardinality(s.pending) >= PageSize

\* beforeDelete: a renewal that finds the claim lost ends the pass.
RenewForDelete(r) ==
    /\ removal[r].at = "flushing" /\ FlushDue(removal[r])
    /\ RemovalTo(r, IF OwnsRow(r) THEN "deleting" ELSE "failed")
    /\ UNCHANGED <<prefixRow, present>>

\* One DELETE of the first pending keys.  Any key that could not be deleted
\* ends the pass, as does a request that fails or comes back too late.
IsBatch(batch, pending) ==
    /\ batch \subseteq pending /\ Cardinality(batch) <= PageSize
    /\ batch # pending => Cardinality(batch) = PageSize
    /\ \A k \in batch : \A j \in pending : j < k => j \in batch

DeleteBatch(r) ==
    /\ removal[r].at = "deleting"
    /\ \E batch \in SUBSET removal[r].pending : \E gone \in SUBSET batch, inTime \in BOOLEAN :
        /\ IsBatch(batch, removal[r].pending)
        /\ present' = present \ gone
        /\ removal' =
               IF gone = batch /\ inTime
               THEN [removal EXCEPT ![r].pending = @ \ batch, ![r].at = "flushing"]
               ELSE [removal EXCEPT ![r] = [AtRest EXCEPT !.at = "failed"]]
    /\ UNCHANGED prefixRow

FlushEnds(r) ==
    /\ removal[r].at = "flushing" /\ ~FlushDue(removal[r])
    /\ RemovalTo(r, removal[r].then)
    /\ UNCHANGED <<prefixRow, present>>

ListFails(r) ==
    /\ removal[r].at \in {"listing", "verifying"}
    /\ RemovalTo(r, "failed")
    /\ UNCHANGED <<prefixRow, present>>

\* markClaimResolved and markClaimFailed, by the claim's live holder only.
ResolveRow(r) ==
    /\ removal[r].at = "done"
    /\ prefixRow' = IF OwnsRow(r) THEN [state |-> "RESOLVED", claim |-> NoRemover]
                    ELSE prefixRow
    /\ removal' = [removal EXCEPT ![r] = AtRest]
    /\ UNCHANGED present

FailRow(r) ==
    /\ removal[r].at = "failed"
    /\ prefixRow' = IF OwnsRow(r) THEN [state |-> "PENDING", claim |-> NoRemover]
                    ELSE prefixRow
    /\ removal' = [removal EXCEPT ![r] = AtRest]
    /\ UNCHANGED present

\* claim_until passes, because its holder stalls or is gone.
RemovalLapses ==
    /\ prefixRow.claim # NoRemover
    /\ prefixRow' = [prefixRow EXCEPT !.claim = NoRemover]
    /\ UNCHANGED <<present, removal>>

RemovalStops(r) ==
    /\ removal[r] # AtRest
    /\ removal' = [removal EXCEPT ![r] = AtRest]
    /\ UNCHANGED <<prefixRow, present>>

\* An upload that lost its lease puts a key.
LatePiece(k) ==
    /\ k \notin present
    /\ present' = present \cup {k}
    /\ removal' = [r \in Remover |-> IF removal[r] = AtRest THEN AtRest
                                   ELSE [removal[r] EXCEPT !.unseen = @ \cup {k}]]
    /\ UNCHANGED prefixRow

PrefixNext ==
    \/ \E r \in Remover :
        \/ ClaimPrefix(r) \/ ListPage(r) \/ VerifyHead(r) \/ ExhaustPages(r)
        \/ RenewForDelete(r) \/ DeleteBatch(r) \/ FlushEnds(r) \/ ListFails(r)
        \/ ResolveRow(r) \/ FailRow(r) \/ RemovalStops(r)
    \/ RemovalLapses
    \/ \E k \in PrefixKey : LatePiece(k)

PrefixSpec == PrefixInit /\ [][PrefixNext]_prefixVars

-----------------------------------------------------------------------------
PassState ==
    [at : {"rest", "listing", "verifying", "flushing", "deleting", "done", "failed"},
     then : {"rest", "listing", "verifying", "done", "failed"},
     after : 0..LastKey, pending : SUBSET PrefixKey, pages : 0..MaxPages,
     unseen : SUBSET PrefixKey]

PrefixTypeOK ==
    /\ prefixRow \in [state : {"PENDING", "DELETE_CLAIMED", "RESOLVED"},
                      claim : Remover \cup {NoRemover}]
    /\ present \subseteq PrefixKey
    /\ removal \in [Remover -> PassState]

\* A pass that reports success leaves nothing its last LIST could have
\* seen: a key put behind the cursor while the pages were read is found by
\* the LIST from the head and deleted as well, and a key whose DELETE
\* failed is not forgotten (prefix-deletion.ts, the verification of the
\* head and onFailures).
NothingLeftBehind ==
    \A r \in Remover : removal[r].at = "done" => present \subseteq removal[r].unseen
=============================================================================
