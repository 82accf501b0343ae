--------------------------- MODULE ObjectDeletion ---------------------------
(***************************************************************************)
(* How an object leaves storage.  Whoever drops the last reference to a    *)
(* key queues its deletion, a row of orphan_objects, in the transaction    *)
(* that drops the reference.  The orphan reaper claims rows, reads what    *)
(* the database still refers to, and deletes only what nothing refers to.  *)
(*                                                                         *)
(* The module is the part every writer of references shares: the rows, the *)
(* reaper and storage.  The modules that extend it add one writer each and *)
(* say, for every table the reaper reads, which keys it refers to.         *)
(*                                                                         *)
(* Abstractions:                                                           *)
(*  - A key stands for one target: an object (EXACT) or all the objects    *)
(*    below a prefix (PREFIX), deleted page by page under the same claim.  *)
(*    Targets that overlap without being equal are left out.               *)
(*  - A claim is its live holder, or None once claim_until has passed.     *)
(*    The reaper claims batches; here one reaper works on one row, and the *)
(*    snapshot a batch shares may be as old as its claim.                  *)
(*  - next_attempt_at and the back-off are left out: a pending row may be  *)
(*    claimed at any time.                                                 *)
(*  - A request its sender gave up on may still reach storage, any time    *)
(*    later or never.                                                      *)
(***************************************************************************)
EXTENDS Naturals

CONSTANTS Key,        \* storage keys
          Table,      \* the tables the reaper collects references from
          Reaper,     \* passes of the orphan reaper
          None        \* no reaper, no key

ASSUME DeletionNames == None \notin Reaper /\ None \notin Key

VARIABLES
    outbox,     \* orphan_objects: the row of each key
    reaper,     \* what each reaper is doing
    stored,     \* keys with bytes in storage
    lateDelete  \* keys of abandoned DELETE requests that may still arrive

deletionVars == <<outbox, reaper, stored, lateDelete>>

NoRow   == [state |-> "ABSENT",  claim |-> None, requeue |-> FALSE]
Pending == [state |-> "PENDING", claim |-> None, requeue |-> FALSE]
Resting == [at |-> "resting", key |-> None, unread |-> {}, seen |-> FALSE]

\* The row is DELETE_CLAIMED and its lease has not run out.
LiveClaim(k) == outbox[k].claim # None

HoldsClaim(r) == reaper[r].at # "resting" /\ outbox[reaper[r].key].claim = r

-----------------------------------------------------------------------------
(* What the transactions of other components do to the rows.               *)

\* Planted bug: a live claim is put back to pending and keeps its token.
QueueOverLiveClaim(keys) ==
    outbox' = [k \in Key |->
        IF k \in keys THEN [outbox[k] EXCEPT !.state = "PENDING"] ELSE outbox[k]]

\* queueDurableDeletions: a live claim is kept and told to run again, any
\* other row starts over.
QueueDurableDeletions(keys) ==
    outbox' = [k \in Key |->
        IF k \notin keys THEN outbox[k]
        ELSE IF LiveClaim(k) THEN [outbox[k] EXCEPT !.requeue = TRUE]
        ELSE Pending]

\* assertNoDeletionClaim, as a guard: otherwise the transaction fails.
NoDeletionClaim(k) == ~LiveClaim(k)

-----------------------------------------------------------------------------
(* The orphan reaper.                                                      *)

ReaperInit ==
    /\ outbox = [k \in Key |-> NoRow]
    /\ reaper = [r \in Reaper |-> Resting]
    /\ lateDelete = {}

SetRow(k, row) == outbox' = [outbox EXCEPT ![k] = row]
Rest(r)        == reaper' = [reaper EXCEPT ![r] = Resting]
ReaperTo(r, l) == reaper' = [reaper EXCEPT ![r].at = l]

\* A row is up for a claim when it is pending or its claim has lapsed.
ClaimPendingOrphan(r, k) ==
    /\ reaper[r].at = "resting"
    /\ \/ outbox[k].state = "PENDING"
       \/ outbox[k].state = "DELETE_CLAIMED" /\ ~LiveClaim(k)
    /\ SetRow(k, [state |-> "DELETE_CLAIMED", claim |-> r, requeue |-> FALSE])
    /\ reaper' = [reaper EXCEPT ![r] = [at |-> "collecting", key |-> k,
                                        unread |-> Table, seen |-> FALSE]]
    /\ UNCHANGED <<stored, lateDelete>>

\* Planted bug: what a table refers to replaces what the others refer to.
CollectLastTable(r, t, referred) ==
    /\ reaper[r].at = "collecting" /\ t \in reaper[r].unread
    /\ reaper' = [reaper EXCEPT ![r].unread = @ \ {t},
                                ![r].seen = reaper[r].key \in referred]
    /\ UNCHANGED <<outbox, stored, lateDelete>>

\* collectObjectReferences reads the tables one by one, in no transaction:
\* t refers to the keys in referred when it is read.
CollectReferences(r, t, referred) ==
    /\ reaper[r].at = "collecting" /\ t \in reaper[r].unread
    /\ reaper' = [reaper EXCEPT ![r].unread = @ \ {t},
                                ![r].seen = @ \/ reaper[r].key \in referred]
    /\ UNCHANGED <<outbox, stored, lateDelete>>

Collected(r) == reaper[r].at = "collecting" /\ reaper[r].unread = {}

\* markClaimCancelled: the row is done with, unless its deletion was asked
\* for again meanwhile.
CancelReferenced(r) ==
    /\ Collected(r) /\ reaper[r].seen
    /\ \/ /\ HoldsClaim(r)
          /\ SetRow(reaper[r].key,
                    IF outbox[reaper[r].key].requeue THEN Pending
                    ELSE [NoRow EXCEPT !.state = "CANCELLED"])
       \/ ~HoldsClaim(r) /\ UNCHANGED outbox
    /\ Rest(r)
    /\ UNCHANGED <<stored, lateDelete>>

\* Only a renewal that finds the claim alive allows the DELETE.
RenewActiveClaim(r) ==
    /\ Collected(r) /\ ~reaper[r].seen
    /\ \/ HoldsClaim(r) /\ ReaperTo(r, "deleting")
       \/ ~HoldsClaim(r) /\ Rest(r)
    /\ UNCHANGED <<outbox, stored, lateDelete>>

\* Storage carries out the DELETE.  The claim may have lapsed since.
DeleteObject(r) ==
    /\ reaper[r].at = "deleting"
    /\ stored' = stored \ {reaper[r].key}
    /\ ReaperTo(r, "deleted")
    /\ UNCHANGED <<outbox, lateDelete>>

\* markClaimResolved also drops a request to run again.
MarkClaimResolved(r) ==
    /\ reaper[r].at = "deleted"
    /\ \/ HoldsClaim(r) /\ SetRow(reaper[r].key, [NoRow EXCEPT !.state = "RESOLVED"])
       \/ ~HoldsClaim(r) /\ UNCHANGED outbox
    /\ Rest(r)
    /\ UNCHANGED <<stored, lateDelete>>

\* The DELETE is given up on: storage may have seen it, or see it later.
Abandon(r) ==
    IF reaper[r].at = "deleting"
    THEN lateDelete' \in {lateDelete, lateDelete \cup {reaper[r].key}}
    ELSE UNCHANGED lateDelete

\* The snapshot fails, or storage refuses or does not answer in time.
ReaperFails(r) ==
    /\ reaper[r].at \in {"collecting", "deleting", "deleted"}
    /\ Abandon(r)
    /\ ReaperTo(r, "failing")
    /\ UNCHANGED <<outbox, stored>>

\* markClaimFailed
MarkClaimFailed(r) ==
    /\ reaper[r].at = "failing"
    /\ \/ HoldsClaim(r) /\ SetRow(reaper[r].key, Pending)
       \/ ~HoldsClaim(r) /\ UNCHANGED outbox
    /\ Rest(r)
    /\ UNCHANGED <<stored, lateDelete>>

\* The process ends, or its pass is aborted: the row keeps its claim.
ReaperStops(r) ==
    /\ reaper[r].at # "resting"
    /\ Abandon(r)
    /\ Rest(r)
    /\ UNCHANGED <<outbox, stored>>

ClaimLapses(k) ==
    /\ LiveClaim(k)
    /\ outbox' = [outbox EXCEPT ![k].claim = None]
    /\ UNCHANGED <<reaper, stored, lateDelete>>

LateDelete(k) ==
    /\ k \in lateDelete
    /\ stored' = stored \ {k}
    /\ lateDelete' = lateDelete \ {k}
    /\ UNCHANGED <<outbox, reaper>>

\* Every step of the reaper and of storage, given what each table refers to.
DeletionStep(ReferredBy(_)) ==
    \/ \E r \in Reaper :
          \/ \E k \in Key : ClaimPendingOrphan(r, k)
          \/ \E t \in Table : CollectReferences(r, t, ReferredBy(t))
          \/ CancelReferenced(r) \/ RenewActiveClaim(r) \/ DeleteObject(r)
          \/ MarkClaimResolved(r) \/ MarkClaimFailed(r)
    \/ \E k \in Key : LateDelete(k)

\* What may go wrong in it.
DeletionFault ==
    \/ \E r \in Reaper : ReaperFails(r) \/ ReaperStops(r)
    \/ \E k \in Key : ClaimLapses(k)

-----------------------------------------------------------------------------
RowState == {"ABSENT", "PENDING", "DELETE_CLAIMED", "CANCELLED", "RESOLVED"}

DeletionTypeOK ==
    /\ outbox \in [Key -> [state : RowState, claim : Reaper \cup {None},
                           requeue : BOOLEAN]]
    /\ reaper \in [Reaper -> [at : {"resting", "collecting", "deleting",
                                    "deleted", "failing"},
                              key : Key \cup {None},
                              unread : SUBSET Table, seen : BOOLEAN]]
    /\ \A r \in Reaper : reaper[r].at # "resting" => reaper[r].key \in Key
    /\ \A k \in Key : LiveClaim(k) => outbox[k].state = "DELETE_CLAIMED"
    /\ stored \in SUBSET Key
    /\ lateDelete \in SUBSET Key
=============================================================================
