------------------------ MODULE ObjectDeletionProofs ------------------------
(***************************************************************************)
(* What the reaper keeps whoever writes references: its types, and two     *)
(* ways for keys to be out of its reach.  Keys are untouched as long as    *)
(* nobody queued their deletion; keys are watched as long as some table    *)
(* refers to them at every moment, for then every snapshot shows them.     *)
(* And what it keeps of the promise to delete: an object that no row names *)
(* stays in its queue until its bytes are gone.                            *)
(***************************************************************************)
EXTENDS ObjectDeletion, TLAPS

\* Every step of the reaper and of storage but the reading of a table.
ReaperMoves ==
    \/ \E r \in Reaper :
          \/ \E k \in Key : ClaimPendingOrphan(r, k)
          \/ CancelReferenced(r) \/ RenewActiveClaim(r) \/ DeleteObject(r)
          \/ MarkClaimResolved(r) \/ MarkClaimFailed(r)
    \/ \E k \in Key : LateDelete(k)
    \/ DeletionFault

\* Nobody has asked for these keys to be deleted, or is about to.
Untouched(keys) ==
    /\ \A k \in keys : outbox[k] = NoRow
    /\ \A r \in Reaper : reaper[r].key \notin keys
    /\ lateDelete \cap keys = {}

\* Table t has referred to these keys since the first snapshot that could
\* matter: a reaper with one of them in hand has not read t, or saw it.
Watched(keys, t) ==
    /\ \A r \in Reaper : reaper[r].key \in keys =>
          /\ reaper[r].at \in {"resting", "collecting", "failing"}
          /\ reaper[r].at = "collecting" => t \in reaper[r].unread \/ reaper[r].seen
    /\ lateDelete \cap keys = {}

-----------------------------------------------------------------------------
LEMMA InitialDeletions ==
    ASSUME ReaperInit, stored \in SUBSET Key
    PROVE  DeletionTypeOK /\ Untouched(Key) /\ \A t \in Table : Watched(Key, t)
BY DeletionNames DEF ReaperInit, DeletionTypeOK, Untouched, Watched, NoRow, Resting,
   RowState, LiveClaim

\* Queueing keys keeps the rows well typed, and every other row as it is.
LEMMA Queueing ==
    ASSUME DeletionTypeOK, NEW keys \in SUBSET Key, QueueDurableDeletions(keys),
           UNCHANGED <<reaper, stored, lateDelete>>
    PROVE  /\ DeletionTypeOK'
           /\ \A k \in Key : k \notin keys => outbox'[k] = outbox[k]
<1>1. outbox' \in [Key -> [state : RowState, claim : Reaper \cup {None},
                           requeue : BOOLEAN]]
  BY ZenonT(40) DEF DeletionTypeOK, QueueDurableDeletions, Pending, RowState, LiveClaim
<1>2. \A k \in Key : outbox'[k].claim # None => outbox'[k].state = "DELETE_CLAIMED"
  BY DEF DeletionTypeOK, QueueDurableDeletions, Pending, LiveClaim
<1>3. QED BY <1>1, <1>2 DEF DeletionTypeOK, QueueDurableDeletions, LiveClaim

\* So does giving a row a value that is no live claim, or resting, or moving on.
LEMMA RowAndReaper ==
    ASSUME DeletionTypeOK, NEW r \in Reaper, reaper[r].at # "resting",
           UNCHANGED <<stored, lateDelete>>,
           \/ UNCHANGED outbox
           \/ \E row \in {NoRow, Pending, [NoRow EXCEPT !.state = "CANCELLED"],
                           [NoRow EXCEPT !.state = "RESOLVED"]} :
                 SetRow(reaper[r].key, row),
           Rest(r) \/ ReaperTo(r, "deleting")
    PROVE  DeletionTypeOK'
<1>1. PICK k \in Key : k = reaper[r].key
  BY DEF DeletionTypeOK
<1>2. /\ outbox' \in [Key -> [state : RowState, claim : Reaper \cup {None},
                              requeue : BOOLEAN]]
      /\ \A j \in Key : outbox'[j].claim # None
                         => outbox'[j].state = "DELETE_CLAIMED"
  <2>1. CASE UNCHANGED outbox
    BY <2>1 DEF DeletionTypeOK, LiveClaim
  <2>2. CASE \E row \in {NoRow, Pending, [NoRow EXCEPT !.state = "CANCELLED"],
                          [NoRow EXCEPT !.state = "RESOLVED"]} : SetRow(k, row)
    <3>1. PICK row \in [state : RowState, claim : {None}, requeue : BOOLEAN] :
             outbox' = [outbox EXCEPT ![k] = row]
      BY <2>2 DEF SetRow, NoRow, Pending, RowState
    <3>2. QED BY <3>1 DEF DeletionTypeOK, LiveClaim
  <2>3. QED BY <1>1, <2>1, <2>2
<1>3. /\ reaper' \in [Reaper -> [at : {"resting", "collecting", "deleting",
                                       "deleted", "failing"},
                                 key : Key \cup {None},
                                 unread : SUBSET Table, seen : BOOLEAN]]
      /\ \A q \in Reaper : reaper'[q].at # "resting" => reaper'[q].key \in Key
  <2>1. CASE Rest(r)
    BY <2>1 DEF Rest, Resting, DeletionTypeOK
  <2>2. CASE ReaperTo(r, "deleting")
    BY SMTT(60), <2>2 DEF ReaperTo, DeletionTypeOK
  <2>3. QED BY <2>1, <2>2
<1>4. QED BY <1>2, <1>3 DEF DeletionTypeOK, LiveClaim

\* Every step of the reaper keeps the types.
LEMMA DeletionTypeStep ==
    ASSUME DeletionTypeOK, ReaperMoves
    PROVE  DeletionTypeOK'
<1>. USE DEF Collected
<1>1. ASSUME NEW r \in Reaper, NEW k \in Key, ClaimPendingOrphan(r, k)
      PROVE  DeletionTypeOK'
  BY <1>1 DEF ClaimPendingOrphan, SetRow, DeletionTypeOK, RowState, LiveClaim
<1>2. ASSUME NEW r \in Reaper, CancelReferenced(r) PROVE DeletionTypeOK'
  <2>1. reaper[r].at # "resting" /\ UNCHANGED <<stored, lateDelete>>
    BY <1>2 DEF CancelReferenced
  <2>2. QED BY <1>2, <2>1, RowAndReaper DEF CancelReferenced
<1>3. ASSUME NEW r \in Reaper, RenewActiveClaim(r) PROVE DeletionTypeOK'
  <2>1. reaper[r].at # "resting" /\ UNCHANGED <<stored, lateDelete>>
    BY <1>3 DEF RenewActiveClaim
  <2>2. QED BY <1>3, <2>1, RowAndReaper DEF RenewActiveClaim
<1>4. ASSUME NEW r \in Reaper, DeleteObject(r) PROVE DeletionTypeOK'
  BY <1>4 DEF DeleteObject, ReaperTo, DeletionTypeOK, LiveClaim
<1>5. ASSUME NEW r \in Reaper, MarkClaimResolved(r) PROVE DeletionTypeOK'
  <2>1. reaper[r].at # "resting" /\ UNCHANGED <<stored, lateDelete>>
    BY <1>5 DEF MarkClaimResolved
  <2>2. QED BY <1>5, <2>1, RowAndReaper DEF MarkClaimResolved
<1>6. ASSUME NEW r \in Reaper, MarkClaimFailed(r) PROVE DeletionTypeOK'
  <2>1. reaper[r].at # "resting" /\ UNCHANGED <<stored, lateDelete>>
    BY <1>6 DEF MarkClaimFailed
  <2>2. QED BY <1>6, <2>1, RowAndReaper DEF MarkClaimFailed
<1>7. ASSUME NEW k \in Key, LateDelete(k) PROVE DeletionTypeOK'
  BY <1>7 DEF LateDelete, DeletionTypeOK, LiveClaim
<1>8. ASSUME NEW r \in Reaper, ReaperFails(r) PROVE DeletionTypeOK'
  BY <1>8 DEF ReaperFails, Abandon, ReaperTo, DeletionTypeOK, LiveClaim
<1>9. ASSUME NEW r \in Reaper, ReaperStops(r) PROVE DeletionTypeOK'
  BY <1>9 DEF ReaperStops, Abandon, Rest, Resting, DeletionTypeOK, LiveClaim
<1>10. ASSUME NEW k \in Key, ClaimLapses(k) PROVE DeletionTypeOK'
  BY <1>10 DEF ClaimLapses, DeletionTypeOK, LiveClaim
<1>11. QED BY <1>1, <1>2, <1>3, <1>4, <1>5, <1>6, <1>7, <1>8, <1>9, <1>10
           DEF ReaperMoves, DeletionFault

LEMMA CollectTypeStep ==
    ASSUME DeletionTypeOK, NEW r \in Reaper, NEW t \in Table, NEW referred,
           CollectReferences(r, t, referred)
    PROVE  DeletionTypeOK'
BY ZenonT(40) DEF DeletionTypeOK, CollectReferences, LiveClaim

-----------------------------------------------------------------------------
\* No step of the reaper or of storage touches keys nobody has queued.
LEMMA UntouchedStep ==
    ASSUME DeletionTypeOK, NEW keys \in SUBSET Key, Untouched(keys), ReaperMoves
    PROVE  Untouched(keys)' /\ stored \cap keys \subseteq stored'
<1>. USE DeletionNames DEF Untouched, DeletionTypeOK
<1>1. ASSUME NEW r \in Reaper, NEW k \in Key, ClaimPendingOrphan(r, k)
      PROVE  Untouched(keys)' /\ stored \cap keys \subseteq stored'
  <2>1. k \notin keys
    BY <1>1 DEF ClaimPendingOrphan, NoRow
  <2>2. QED BY <1>1, <2>1 DEF ClaimPendingOrphan, SetRow
<1>2. ASSUME NEW r \in Reaper,
             CancelReferenced(r) \/ RenewActiveClaim(r) \/ MarkClaimResolved(r)
                \/ MarkClaimFailed(r)
      PROVE  Untouched(keys)' /\ stored \cap keys \subseteq stored'
  <2>1. reaper[r].key \in Key /\ reaper[r].key \notin keys
    BY <1>2 DEF CancelReferenced, RenewActiveClaim, MarkClaimResolved,
       MarkClaimFailed, Collected
  <2>2. /\ \A k \in keys : outbox'[k] = outbox[k]
        /\ UNCHANGED <<stored, lateDelete>>
    BY <1>2, <2>1 DEF CancelReferenced, RenewActiveClaim, MarkClaimResolved,
       MarkClaimFailed, SetRow
  <2>3. Rest(r) \/ ReaperTo(r, "deleting")
    BY <1>2 DEF CancelReferenced, RenewActiveClaim, MarkClaimResolved,
       MarkClaimFailed
  <2>4. \A q \in Reaper : reaper'[q].key \notin keys
    BY <2>3 DEF Rest, ReaperTo, Resting
  <2>5. QED BY <2>2, <2>4
<1>3. ASSUME NEW r \in Reaper, DeleteObject(r)
      PROVE  Untouched(keys)' /\ stored \cap keys \subseteq stored'
  BY <1>3 DEF DeleteObject, ReaperTo
<1>4. ASSUME NEW k \in Key, LateDelete(k)
      PROVE  Untouched(keys)' /\ stored \cap keys \subseteq stored'
  BY <1>4 DEF LateDelete
<1>5. ASSUME NEW r \in Reaper, ReaperFails(r) \/ ReaperStops(r)
      PROVE  Untouched(keys)' /\ stored \cap keys \subseteq stored'
  <2>1. lateDelete' \cap keys = {} /\ UNCHANGED <<outbox, stored>>
    BY <1>5 DEF ReaperFails, ReaperStops, Abandon
  <2>2. \A q \in Reaper : reaper'[q].key \notin keys
    BY <1>5 DEF ReaperFails, ReaperStops, Rest, ReaperTo, Resting
  <2>3. QED BY <2>1, <2>2
<1>6. ASSUME NEW k \in Key, ClaimLapses(k)
      PROVE  Untouched(keys)' /\ stored \cap keys \subseteq stored'
  <2>1. k \notin keys
    BY <1>6 DEF ClaimLapses, LiveClaim, NoRow
  <2>2. QED BY <1>6, <2>1 DEF ClaimLapses
<1>7. QED BY <1>1, <1>2, <1>3, <1>4, <1>5, <1>6 DEF ReaperMoves, DeletionFault

LEMMA UntouchedCollect ==
    ASSUME DeletionTypeOK, NEW keys \in SUBSET Key, Untouched(keys),
           NEW r \in Reaper, NEW t \in Table, NEW referred,
           CollectReferences(r, t, referred)
    PROVE  Untouched(keys)' /\ stored \cap keys \subseteq stored'
BY DEF Untouched, DeletionTypeOK, CollectReferences

\* Nor does one delete keys that a table refers to all the while, whether or
\* not their deletion was queued.
LEMMA WatchedStep ==
    ASSUME DeletionTypeOK, NEW keys \in SUBSET Key, NEW t \in Table,
           Watched(keys, t), ReaperMoves
    PROVE  Watched(keys, t)' /\ stored \cap keys \subseteq stored'
<1>. USE DeletionNames DEF Watched, DeletionTypeOK
<1>1. ASSUME NEW r \in Reaper, NEW k \in Key, ClaimPendingOrphan(r, k)
      PROVE  Watched(keys, t)' /\ stored \cap keys \subseteq stored'
  BY <1>1 DEF ClaimPendingOrphan
<1>2. ASSUME NEW r \in Reaper,
             CancelReferenced(r) \/ MarkClaimResolved(r) \/ MarkClaimFailed(r)
      PROVE  Watched(keys, t)' /\ stored \cap keys \subseteq stored'
  <2>1. Rest(r) /\ UNCHANGED <<stored, lateDelete>>
    BY <1>2 DEF CancelReferenced, MarkClaimResolved, MarkClaimFailed
  <2>2. QED BY <2>1 DEF Rest, Resting
<1>3. ASSUME NEW r \in Reaper, RenewActiveClaim(r)
      PROVE  Watched(keys, t)' /\ stored \cap keys \subseteq stored'
  <2>1. reaper[r].key \notin keys
    BY <1>3 DEF RenewActiveClaim, Collected
  <2>2. QED BY <1>3, <2>1 DEF RenewActiveClaim, Rest, ReaperTo, Resting
<1>4. ASSUME NEW r \in Reaper, DeleteObject(r)
      PROVE  Watched(keys, t)' /\ stored \cap keys \subseteq stored'
  BY <1>4 DEF DeleteObject, ReaperTo
<1>5. ASSUME NEW k \in Key, LateDelete(k)
      PROVE  Watched(keys, t)' /\ stored \cap keys \subseteq stored'
  BY <1>5 DEF LateDelete
<1>6. ASSUME NEW r \in Reaper, ReaperFails(r) \/ ReaperStops(r)
      PROVE  Watched(keys, t)' /\ stored \cap keys \subseteq stored'
  <2>1. lateDelete' \cap keys = {} /\ UNCHANGED stored
    BY <1>6 DEF ReaperFails, ReaperStops, Abandon
  <2>2. QED BY <1>6, <2>1 DEF ReaperFails, ReaperStops, Rest, ReaperTo, Resting
<1>7. ASSUME NEW k \in Key, ClaimLapses(k)
      PROVE  Watched(keys, t)' /\ stored \cap keys \subseteq stored'
  BY <1>7 DEF ClaimLapses
<1>8. QED BY <1>1, <1>2, <1>3, <1>4, <1>5, <1>6, <1>7 DEF ReaperMoves, DeletionFault

LEMMA WatchedCollect ==
    ASSUME DeletionTypeOK, NEW keys \in SUBSET Key, NEW t \in Table,
           Watched(keys, t), NEW r \in Reaper, NEW u \in Table, NEW referred,
           CollectReferences(r, u, referred), u = t => keys \subseteq referred
    PROVE  Watched(keys, t)' /\ stored \cap keys \subseteq stored'
BY DEF Watched, DeletionTypeOK, CollectReferences
\* What nobody has queued is seen by every snapshot that is still to come.
LEMMA UntouchedIsWatched ==
    ASSUME NEW k, Untouched({k})
    PROVE  \A t : Watched({k}, t)
BY DEF Untouched, Watched

-----------------------------------------------------------------------------
(* Whether objects are deleted in the end: somebody answers for each.      *)

\* The deletion of k is queued, claimed or not.
Waits(k) == outbox[k].state \in {"PENDING", "DELETE_CLAIMED"}

\* Of these keys, every object is named by a row or waits for its deletion.
Owned(keys, named) == \A k \in keys \cap stored : Waits(k) \/ k \in named

\* A reaper that holds the claim on such an object has not deleted it yet; what
\* it saw refer to the object does so still, or the deletion is to run again.
HoldersAgree(keys, named) ==
    \A r \in Reaper : HoldsClaim(r) /\ reaper[r].key \in keys \cap stored =>
        /\ reaper[r].at # "deleted"
        /\ reaper[r].seen => outbox[reaper[r].key].requeue \/ reaper[r].key \in named

\* The reaper takes no key off the queue that nobody else answers for.
LEMMA OwnedStep ==
    ASSUME DeletionTypeOK, NEW keys \in SUBSET Key, NEW named,
           Owned(keys, named), HoldersAgree(keys, named), ReaperMoves
    PROVE  Owned(keys, named)' /\ HoldersAgree(keys, named)'
<1>. USE DeletionNames DEF Owned, HoldersAgree, DeletionTypeOK, HoldsClaim, Waits
<1>1. ASSUME NEW r \in Reaper, NEW k \in Key, ClaimPendingOrphan(r, k)
      PROVE  Owned(keys, named)' /\ HoldersAgree(keys, named)'
  <2>1. /\ outbox' = [outbox EXCEPT ![k] = [state |-> "DELETE_CLAIMED", claim |-> r,
                                            requeue |-> FALSE]]
        /\ reaper' = [reaper EXCEPT ![r] = [at |-> "collecting", key |-> k,
                                            unread |-> Table, seen |-> FALSE]]
        /\ UNCHANGED stored
    BY <1>1 DEF ClaimPendingOrphan, SetRow
  <2>2. Owned(keys, named)'
    BY <2>1
  <2>3. ASSUME NEW q \in Reaper, HoldsClaim(q)', reaper'[q].key \in keys \cap stored
        PROVE  /\ reaper'[q].at # "deleted"
               /\ reaper'[q].seen => outbox'[reaper'[q].key].requeue \/ reaper'[q].key \in named
    <3>1. CASE q = r
      BY <2>1, <3>1
    <3>2. CASE q # r
      BY <2>1, <2>3, <3>2
    <3>3. QED BY <3>1, <3>2
  <2>4. QED BY <2>1, <2>2, <2>3
<1>2. ASSUME NEW r \in Reaper,
             CancelReferenced(r) \/ MarkClaimResolved(r) \/ MarkClaimFailed(r)
      PROVE  Owned(keys, named)' /\ HoldersAgree(keys, named)'
  <2>1. /\ reaper' = [reaper EXCEPT ![r] = Resting] /\ UNCHANGED stored
        /\ reaper[r].at # "resting" /\ reaper[r].key \in Key
    BY <1>2 DEF CancelReferenced, MarkClaimResolved, MarkClaimFailed, Rest, Collected
  <2>2. CASE UNCHANGED outbox
    BY <2>1, <2>2 DEF Resting
  <2>3. CASE HoldsClaim(r) /\ outbox' # outbox
    <3>1. PICK row : /\ outbox' = [outbox EXCEPT ![reaper[r].key] = row]
                     /\ row.claim = None
                     /\ reaper[r].key \in keys \cap stored =>
                           row.state = "PENDING" \/ reaper[r].key \in named
      BY <1>2, <2>3 DEF CancelReferenced, MarkClaimResolved, MarkClaimFailed, SetRow,
         NoRow, Pending, Collected
    <3>2. Owned(keys, named)'
      BY <2>1, <3>1
    <3>3. \A q \in Reaper : HoldsClaim(q)' =>
             /\ q # r /\ reaper'[q] = reaper[q]
             /\ outbox'[reaper[q].key] = outbox[reaper[q].key] /\ HoldsClaim(q)
      BY <2>1, <3>1 DEF Resting
    <3>4. QED BY <2>1, <3>2, <3>3
  <2>4. QED BY <1>2, <2>2, <2>3 DEF CancelReferenced, MarkClaimResolved, MarkClaimFailed
<1>3. ASSUME NEW r \in Reaper, RenewActiveClaim(r)
      PROVE  Owned(keys, named)' /\ HoldersAgree(keys, named)'
  BY <1>3 DEF RenewActiveClaim, Rest, ReaperTo, Resting
<1>4. ASSUME NEW r \in Reaper, DeleteObject(r)
      PROVE  Owned(keys, named)' /\ HoldersAgree(keys, named)'
  BY <1>4 DEF DeleteObject, ReaperTo
<1>5. ASSUME NEW k \in Key, LateDelete(k)
      PROVE  Owned(keys, named)' /\ HoldersAgree(keys, named)'
  BY <1>5 DEF LateDelete
<1>6. ASSUME NEW r \in Reaper, ReaperFails(r) \/ ReaperStops(r)
      PROVE  Owned(keys, named)' /\ HoldersAgree(keys, named)'
  BY <1>6 DEF ReaperFails, ReaperStops, Rest, ReaperTo, Resting
<1>7. ASSUME NEW k \in Key, ClaimLapses(k)
      PROVE  Owned(keys, named)' /\ HoldersAgree(keys, named)'
  BY <1>7 DEF ClaimLapses
<1>8. QED BY <1>1, <1>2, <1>3, <1>4, <1>5, <1>6, <1>7 DEF ReaperMoves, DeletionFault

LEMMA OwnedCollect ==
    ASSUME DeletionTypeOK, NEW keys \in SUBSET Key, NEW named,
           Owned(keys, named), HoldersAgree(keys, named),
           NEW r \in Reaper, NEW t \in Table, NEW referred, referred \subseteq named,
           CollectReferences(r, t, referred)
    PROVE  Owned(keys, named)' /\ HoldersAgree(keys, named)'
BY DEF Owned, HoldersAgree, HoldsClaim, Waits, DeletionTypeOK, CollectReferences

\* Whoever drops names queues what they named.
LEMMA OwnedQueueing ==
    ASSUME DeletionTypeOK, NEW keys \in SUBSET Key, NEW named, NEW named2,
           Owned(keys, named), HoldersAgree(keys, named),
           NEW dropped \in SUBSET Key, QueueDurableDeletions(dropped),
           (keys \cap named) \ dropped \subseteq named2,
           UNCHANGED <<reaper, stored>>
    PROVE  Owned(keys, named2)' /\ HoldersAgree(keys, named2)'
<1>. USE DeletionNames DEF DeletionTypeOK, HoldsClaim, Waits, LiveClaim
<1>1. \A k \in Key : k \notin dropped => outbox'[k] = outbox[k]
  BY DEF QueueDurableDeletions
<1>2. \A k \in dropped : /\ outbox'[k].state \in {"PENDING", "DELETE_CLAIMED"}
                         /\ outbox'[k].claim # None
                               => outbox'[k].requeue /\ outbox'[k].claim = outbox[k].claim
  BY DEF QueueDurableDeletions, Pending
<1>3. Owned(keys, named2)'
  BY <1>1, <1>2 DEF Owned
<1>4. HoldersAgree(keys, named2)'
  BY <1>1, <1>2 DEF HoldersAgree
<1>5. QED BY <1>3, <1>4
=============================================================================
